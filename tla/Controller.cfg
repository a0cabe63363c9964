CONSTANTS
  MaxIoQueues = 2
  MaxDesired = 3
  EBSDevice = FALSE
SPECIFICATION Spec
INVARIANTS
  NothingDangles
  GivesBackHeld
  AllOrNothing
  VectorPerQueue
  DeafServesNothing
