SPECIFICATION FairSpec
CONSTANTS
  Main = "main"
  Undef = Undef
  Programs <- MCPrograms
  MainLevels <- MCLevels
  MaxDepth = 5
INVARIANTS
  TypeOK
  DadEncloses
  CalleeGetsParent
  RefusedForMain
  SlotDenotesVariable
  NoDanglingAddress
PROPERTIES
  ImplementsScoping
  WalkEnds
