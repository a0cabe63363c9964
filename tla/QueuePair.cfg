CONSTANTS
  c1 = c1
  c2 = c2
  c3 = c3
  Cmds <- ThreeCmds
  Watched <- WatchedCmd
  QSize = 3
  NoCmd = NoCmd
SPECIFICATION FairSpec
INVARIANTS
  EntriesAnswerActive
  NoCreditLost
PROPERTIES
  QueueSpec
  ProcessCqReturns
  RungCompletes
