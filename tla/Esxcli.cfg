CONSTANTS
  NumNs = 2
  ImageSizes = {4, 12, 16, 20}
  XferSizes = {4, 6, 8}
  Offsets = {0, 4, 12}
  LogSizes = {0, 1, 2}
  NumGens = 3
SPECIFICATION FairSpec
INVARIANTS
  FormatsOffline
  SuccessIsDone
  PathsGivenBack
  ListsEachOnce
  FirmwareIntact
  LogOfOneVersion
PROPERTIES
  DeletesDetached
  CommandReturns
