SPECIFICATION Spec
CONSTANTS
  Main = "main"
  Undef = Undef
  Programs <- MCPrograms
  MainLevels <- MCLevels
  MaxDepth = 5
INVARIANT
  HiddenArgumentPassed
