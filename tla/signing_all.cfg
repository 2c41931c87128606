SPECIFICATION Spec
CONSTANTS
  Token = {t1, t2, t3}
  NoToken = noToken
  Request = {p, q}
  Ops = {"sign", "decline", "view", "resend", "remind", "newLink", "void", "expire"}
  MaxReminded = 1
SYMMETRY Symmetry
\* An ended envelope admits no further request.
CHECK_DEADLOCK FALSE
INVARIANTS CompletedMeansAllSigned SequentialLinks NeverStuck
