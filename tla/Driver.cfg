SPECIFICATION Spec
CONSTANTS
  Paths <- MCPaths
  Programs <- MCPrograms
  Binary = {}
  Writable = {"work"}
  MaxRuns = 2
INVARIANTS
  TypeOK
  RefusedTouchesNothing
  OutputsAgree
  OutputsNamedAfterSource
CHECK_DEADLOCK FALSE
