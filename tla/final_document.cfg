SPECIFICATION FairSpec
CONSTANTS
  Bytes = {b1, b2}
  NoBytes = noBytes
  Job = {j1, j2, j3}
  Retry = {r1, r2}
  MayCrash = TRUE
\* Every job and every retry runs once.
CHECK_DEADLOCK FALSE
INVARIANTS NotifiedOnce PendingIsBeingWorkedOn
PROPERTIES WriteOnce RenderSettles
