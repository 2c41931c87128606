SPECIFICATION FairSpec
CONSTANTS
  Bytes = {b1, b2}
  NoBytes = noBytes
  Worker = {p}
  Completer = {c, d}
  MaxJobs = 1
  Ops = {"outage", "crash", "void", "expire", "mismatch"}
\* Once terminal, and the provider done, nothing is left to do.
CHECK_DEADLOCK FALSE
PROPERTIES WriteOnce CompletionReached
