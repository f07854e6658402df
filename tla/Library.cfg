SPECIFICATION Spec
CONSTANTS
  Letters <- MCLetters
  MaxInput = 5
  Sizes <- MCSizes
  MaxCalls = 4
INVARIANTS
  TypeOK
  StaysInBuffer
  LinesArrive
  CallsTyped
PROPERTY CallsReturn
CHECK_DEADLOCK FALSE
