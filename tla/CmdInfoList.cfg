CONSTANTS
  t1 = t1
  t2 = t2
  t3 = t3
  Threads <- MCThreads
  IdCount = 3
  NoThread = NoThread
SPECIFICATION FairSpec
INVARIANTS
  EverySlotInOnePlace
  NrActCounts
PROPERTIES
  GetReturns
  PoolSpec
