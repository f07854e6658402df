SPECIFICATION GenSpec
CONSTANTS
  VariableNames = {"f", "x"}
  FunctionNames = {"f", "g"}
  LabelNames = {"g", "x"}
  Library <- MCLibrary
  VariableTypes <- MCTypes
  Headers <- MCHeaders
  Arguments <- MCArguments
  MaxFunctions = 5
  MaxScopes = 6
INVARIANTS
  GenTypeOK
  RequestsMatchProvides
  GotoReachesLabel
  EmitsWellFormed
  NoInternalError
  SameDenotation
  BuilderInOwnRoutine
  CallsReachParent
  GotosPatched
CONSTRAINT Bounded
CHECK_DEADLOCK FALSE
