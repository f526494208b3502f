SPECIFICATION Spec
CONSTANTS
  Requested = 3
  MaxProcesses = 3
  MaxTicks = 2
  Rotated = 2
  MaxRotations = 2
  MaxWrites = 1
  MaxMinutes = 1
  InputLength = 4
  Inputs <- MCInputs
  LineOptions <- MCLineOptions
  Stores <- MCStores
  Signature <- MCSignature
  MaxLineBytes = 1
  MaxPatterns = 1
  Paths <- MCPaths
  Trees <- MCTrees
  Dirs <- MCDirs
  Foreign = {7}
  Unusable = {6}
  Remote <- MCRemote
  ScanOptions <- MCScans
  Spare = 8
  MaxDirectoryEntries = 2
  MaxChanges = 1
  InterfaceNames <- MCInterfaces
  Pids <- MCPids
  MaxInterfaces = 1
  MaxRankedProcesses = 2
  MaxChurn = 1
INVARIANTS
  EvidenceOfOneProcess
  CompleteIsSound
  NoFileTwice
  CompleteIsContiguous
  LinesMatchReference
  CompleteIsExact
  ListsWhatItCounted
  PartialMeansGap
PROPERTIES
  RunEnds
  ImplementsContract
CHECK_DEADLOCK FALSE
