CONSTANTS
  NumQueues = 1
  NumCmds = 2
  MaxCycles = 2
  CqMayFail = FALSE
  Overlap = FALSE
SPECIFICATION FairSpec
CHECK_DEADLOCK FALSE
INVARIANTS
  NoUseAfterFree
  CompletedOnce
  DeletedAnswered
  DeviceQueuesBacked
  CountMatches
PROPERTIES
  CallsReturn
