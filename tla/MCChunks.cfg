SPECIFICATION FairSpec
CONSTANTS
  WORD = 8
  BoardSize = 5
  UINT64 = 32
  UINT32 = 8
  DefaultChunk = 4
  Parsed <- MCParsed
  CommandLines <- MCCommandLines
  Counts = {0, 1, 5, 9, 30}
  NULL = NULL
  Word <- MCWord
CHECK_DEADLOCK FALSE
INVARIANTS TypeOK SessionIsAsAsked ComputeRunIsExact DrawsAreUnbiased
INVARIANTS EachIndexOnce
PROPERTIES WindowEnds
