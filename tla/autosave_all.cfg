SPECIFICATION FairSpec
CONSTANTS
  MaxMoves = 6
  Ops = {"fail", "lost", "back", "unmount"}
\* A closed or idle editor has nothing more to do.
CHECK_DEADLOCK FALSE
INVARIANTS SavedMeansHeld OneSaveToAMove PendingIsDue
PROPERTIES EventuallySaved
