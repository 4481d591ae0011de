SPECIFICATION Spec
CONSTANTS
  num_workers = 2
  GroupSize = 1
  MaxGroups = 1
  UINT32 = 4
  Windows <- TwoCalls
  FixedPoints <- MCFixedPoints
CHECK_DEADLOCK FALSE
INVARIANTS IndexInWindow
