SPECIFICATION Spec
CONSTANTS
  Pointers <- MCPointers
  TypeOf <- MCTypeOf
  Counts <- MCCounts
  Indices <- MCIndices
  IntWidth = 4
  SizeWidth = 7
  Memory = 63
  MaxBlocks = 2
INVARIANT LawfulDisposals
CHECK_DEADLOCK FALSE
