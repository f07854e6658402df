SPECIFICATION Values
CONSTANTS
  VariableTypes <- MCVariableTypes
  CallTypes <- MCCallTypes
  Constants <- MCConstants
  Operators = {"-", "/", "div", "and", "or", "=", "<>", "<"}
  MaxNodes = 7
  DataTypes <- SmallTypes
INVARIANTS
  TypeOK
  ComputesMeaning
  ShortCircuits
  StoresTyped
  PointersKeepElements
CHECK_DEADLOCK FALSE
