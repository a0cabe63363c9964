CONSTANTS
  NumQueues = 2
  NumCmds = 2
  MaxCycles = 1
  CqMayFail = FALSE
  Overlap = TRUE
SPECIFICATION Spec
CHECK_DEADLOCK FALSE
INVARIANTS
  QuiesceFlushesAll
