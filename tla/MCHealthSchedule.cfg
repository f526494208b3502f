SPECIFICATION Spec
CONSTANTS
  NumChecks = 3
  MaxWorkers = 2
  Graphs <- AllGraphs
  Retries <- OneRetry
  Severity <- MixedSeverity
  Certificates = {3}
  FaultyExecutors = {2}
INVARIANTS
  DependencyOrder
  NoFalseCycle
PROPERTIES
  ImplementsVerdicts
  RunEnds
CHECK_DEADLOCK FALSE
