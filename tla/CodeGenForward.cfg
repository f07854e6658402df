SPECIFICATION GenSpec
CONSTANTS
  VariableNames = {"f", "x"}
  FunctionNames = {"f", "g"}
  LabelNames = {"g", "x"}
  Library <- MCLibrary
  VariableTypes <- MCTypes
  Headers <- MCHeaders
  Arguments <- MCArguments
  MaxFunctions = 3
  MaxScopes = 4
INVARIANT CreatorHasParent
CHECK_DEADLOCK FALSE
