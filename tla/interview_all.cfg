SPECIFICATION Spec
CONSTANTS
  Old = {o}
  Booker = {b}
  Mover = {m, n}
  Start <- Starts
  Duration = 2
  None = none
  Ops = {"fail", "lost", "crash"}
SYMMETRY Symmetry
\* Every request runs once.
CHECK_DEADLOCK FALSE
INVARIANTS CalendarExplained NeverWithoutCv NoOrphan
PROPERTIES KeepsItsEvent
