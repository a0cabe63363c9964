CONSTANTS
  c1 = c1
  c2 = c2
  c3 = c3
  Cmds <- ThreeCmds
  NumSlots = 2
  MaxResets = 0
  None = None
SPECIFICATION Spec
CHECK_DEADLOCK FALSE
SYMMETRY Symmetry
INVARIANTS
  SlotServesOne
  ReleasedOnce
  AbandonedIsOwed
  NrActCounts
