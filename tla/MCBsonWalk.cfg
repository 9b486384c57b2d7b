SPECIFICATION Spec
CONSTANTS
  Docs <- MCDocs
  Paths <- MCPaths
INVARIANTS
  WalkMatches
  WalkAllMatches
CHECK_DEADLOCK FALSE
