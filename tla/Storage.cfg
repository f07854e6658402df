SPECIFICATION Spec
CONSTANTS
  Pointers <- MCPointers
  TypeOf <- MCTypeOf
  Counts <- MCCounts
  Indices <- MCIndices
  IntWidth = 4
  SizeWidth = 7
  Memory = 63
  MaxBlocks = 2
INVARIANTS
  TypeOK
  AccessesFit
  OneAddressPerElement
  FreesOnlyBlocks
CHECK_DEADLOCK FALSE
