SPECIFICATION FairSpec
CONSTANTS
  Old = {o}
  Process = {p, q}
  Member = {u, a}
  Client = {c}
  Overseer = {a}
  Admin = {a}
  None = none
  Ops = {"abort", "refused", "mark", "crash"}
\* Every call ends.
CHECK_DEADLOCK FALSE
INVARIANTS HistoryTells PartiesTold NumbersDense
PROPERTIES KeepsToLife AllHandled
