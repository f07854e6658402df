SPECIFICATION Spec
CONSTANTS
  VariableTypes <- MCVariableTypes
  CallTypes <- MCCallTypes
  Constants <- MCConstants
  Operators = {"and", "or"}
  MaxNodes = 3
INVARIANTS
  OrMeans
CHECK_DEADLOCK FALSE
