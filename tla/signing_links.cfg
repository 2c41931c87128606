SPECIFICATION FairSpec
CONSTANTS
  Token = {t1, t2, t3}
  NoToken = noToken
  Request = {p, q, r}
  Ops = {"sign", "decline", "newLink", "void", "expire"}
  MaxReminded = 1
\* An ended envelope admits no further request.
CHECK_DEADLOCK FALSE
INVARIANTS SignedOnce OneLink LinkIsForTurn
PROPERTIES TerminalIsFinal ExpiredEventuallyFinal
