SPECIFICATION Spec
CONSTANTS
  Bytes = {b1}
  NoBytes = noBytes
  Worker = {p, q}
  Completer = {c}
  MaxJobs = 2
  Ops = {"void", "page", "decline", "cancel", "mismatch"}
SYMMETRY Symmetry
\* Once terminal, and the provider done, nothing is left to do.
CHECK_DEADLOCK FALSE
INVARIANTS NothingInvented SignatureHasEvent
