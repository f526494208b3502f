SPECIFICATION Spec
CONSTANTS
  PairContents <- MCPairContents
  Modes <- MCModes
  MaxWrites = 2
  Paths <- MCPaths
  Trees <- MCTrees
  TreeOptions <- MCTreeOptions
  FileNodes = {5, 6, 9}
  DirNodes = {1, 2, 3, 4}
  Denied = {3, 9}
  Foreign = {4}
  MaxEdits = 1
  Sockets <- MCSockets
  Pids = {"p1", "p2"}
  ProcNames = {"n1", "n2"}
  Unreadable = {"p2"}
  Filters <- MCFilters
  MaxMoves = 1
  UnitStates <- MCUnitStates
  Fields <- MCFields
  DepStates = {"active", "failed"}
  LevelChoices <- MCLevels
  Journals <- MCJournals
  LineCounts = {0, 2, 9}
  MaxDependencies = 1
  MaxUnitChanges = 1
  Answers <- MCAnswers
  Requests <- MCRequests
  MaxCandidates = 2
  MaxNetChanges = 2
  Certs <- MCCerts
  Servers <- MCServers
  Host <- MCHost
  Baselines = {"none", "good"}
  WarnDays = 2
  CriticalDays = 1
  LastDay = 2
  MaxRotations = 2
  CheckContents <- MCCheckContents
  Expected <- MCExpected
  MinimumBytes = 1
  MaximumBytes = 2
  MaxHashBytes = 2
  Ends <- MCEnds
  Retries = {0, 1}
  MaxTouches = 1
INVARIANTS
  PairCoexisted
  DriftIsReal
  UnchangedIsComplete
  AbsenceIsEstablished
  VerdictIsEstablished
  JournalIsTheEnd
  ReachableIsFound
  JudgedWhatWasServed
PROPERTIES
  RunEnds
  ImplementsContract
CHECK_DEADLOCK FALSE
