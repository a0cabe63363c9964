CONSTANTS
  MaxOut = 3
  Vectors <- MsiAdmin
  InitialPoll <- NoPoll
  MaxSetups = 0
  MaxSuspends = 0
SPECIFICATION FairSpec
PROPERTIES
  CqesProcessed
CHECK_DEADLOCK FALSE
