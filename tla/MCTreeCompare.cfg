SPECIFICATION Spec
CONSTANTS
  Paths <- MCPaths
  Trees <- MCTrees
  TreeOptions <- MCOptions
  FileNodes <- MCFiles
  DirNodes <- MCDirs
  Denied = {}
  Foreign <- MCForeign
  MaxEdits = 0
INVARIANT DriftIsEstablished
CHECK_DEADLOCK FALSE
