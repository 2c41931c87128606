SPECIFICATION Spec
CONSTANTS
  Doc = {d1, d2, d3}
  NoDoc = noDoc
  Sender = {p, q}
  MaxEdits = 1
  Ops = {"edit", "remove", "mailFails", "outage", "lostResponse", "scanFails", "unparsed", "crash"}
SYMMETRY Symmetry
\* A sent or deleted envelope is outside this module.
CHECK_DEADLOCK FALSE
INVARIANTS DraftLeftoverRecorded
PROPERTIES PinnedForever
