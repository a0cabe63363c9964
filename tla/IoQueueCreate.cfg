CONSTANTS
  NumQueues = 2
  NumCmds = 2
  MaxCycles = 2
  CqMayFail = TRUE
  Overlap = FALSE
SPECIFICATION Spec
CHECK_DEADLOCK FALSE
INVARIANTS
  CreatedIsComplete
