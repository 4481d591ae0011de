SPECIFICATION Spec
CONSTANTS
  NULL = NULL
  Addresses = {a1, a2, a3, a4}
  Names = {k}
  Folded <- MCFolded
  CJSON_CIRCULAR_LIMIT = 3
  Types = {"string", "array", "object"}
  Values = {v}
  MaxRoots = 2
SYMMETRY Symmetry
INVARIANTS WellLinked OwnedOnce
PROPERTIES ListsAreSequences
