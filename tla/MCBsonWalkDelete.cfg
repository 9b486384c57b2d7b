SPECIFICATION Spec
CONSTANTS
  Docs <- MCDocs
  Paths <- MCPaths
INVARIANTS
  WalkAllEmpties
CHECK_DEADLOCK FALSE
