SPECIFICATION ChainSpec
CONSTANTS
  Writer = {v, w}
  NoWriter = noWriter
  Data = {signed, viewed}
  MaxClock = 2
  MaxEvents = 4
SYMMETRY Symmetry
INVARIANTS ChainVerifies TamperLocated
PROPERTIES AuditOrderIsCommitOrder
