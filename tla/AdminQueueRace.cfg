CONSTANTS
  c1 = c1
  c2 = c2
  c3 = c3
  Cmds <- TwoCmds
  NumSlots = 2
  MaxResets = 1
  None = None
SPECIFICATION Spec
CHECK_DEADLOCK FALSE
INVARIANTS
  ResetExcludesSubmission
