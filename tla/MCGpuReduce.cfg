SPECIFICATION Spec
CONSTANTS
  Lanes = 4
  Warps = 2
  MaxBlocks = 2
  INT = 4
  WarpOffsets <- MCWarpOffsets
  BlockOffsets <- MCBlockOffsets
  Windows <- MCWindows
  FixedPoints <- MCFixedPoints
INVARIANTS Inv BestOfWindow
