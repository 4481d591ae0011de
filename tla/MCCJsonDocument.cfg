SPECIFICATION Spec
CONSTANTS
  NULL = NULL
  Addresses = {1, 2, 3, 4, 5, 6, 7, 8, 9, 10, 11, 12}
  Names <- MCNames
  Folded <- MCFolded
  Numbers = {"7", "7.125", "7.375", "1e999"}
  Infinite = {"1e999"}
  Double <- MCDouble
  Short <- MCShort
  InverseEpsilon = 32
  BadString = "bad string"
  BadNumber = "-"
  Blanks <- MCBlanks
  Width <- MCWidth
  CJSON_CIRCULAR_LIMIT = 1
  CJSON_NESTING_LIMIT = 2
  default_buffer_size = 4
  INT_MAX = 34
  Texts <- MCTexts
  Plenty = 12
  MaxTokens = 8
  MaxDamaged = 5
CHECK_DEADLOCK FALSE
INVARIANTS ParsesJson NothingLost PrintsWhatWasRead PrintStaysInside PreallocatedFits CompareIsEquality
