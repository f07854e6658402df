SPECIFICATION Spec
CONSTANTS
  Pointers <- LargePointers
  TypeOf <- LargeTypeOf
  Counts <- MCCounts
  Indices <- MCIndices
  IntWidth = 4
  SizeWidth = 7
  Memory = 63
  MaxBlocks = 2
INVARIANT NewObjectsFit
CHECK_DEADLOCK FALSE
