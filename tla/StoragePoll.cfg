CONSTANTS
  MaxOut = 3
  Vectors <- MsixAndMsiIo
  InitialPoll <- AnyPoll
  MaxSetups = 1
  MaxSuspends = 2
SPECIFICATION FairSpec
INVARIANTS
  TypeOK
  SuspendedAlone
  FlagIsVector
PROPERTIES
  CqesProcessed
CHECK_DEADLOCK FALSE
