CONSTANTS
  c1 = c1
  c2 = c2
  c3 = c3
  Cmds <- TwoCmds
  NumSlots = 1
  MaxResets = 1
  None = None
SPECIFICATION FairSpec
CHECK_DEADLOCK FALSE
INVARIANTS
  QuiescedIdle
  FlushExcludesSubmission
PROPERTIES
  SubmitReturns
  FlushersReturn
