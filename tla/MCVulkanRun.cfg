SPECIFICATION FairSpec
CONSTANTS
  num_workers = 1
  GroupSize = 3
  MaxGroups = 2
  UINT32 = 4
  Windows <- MCWindows
  FixedPoints <- MCFixedPoints
CHECK_DEADLOCK FALSE
INVARIANTS Inv ValidUsage BestOfWindow
PROPERTIES CallReturns
