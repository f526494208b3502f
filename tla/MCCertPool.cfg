SPECIFICATION Spec
CONSTANTS
  NumTargets = 3
  MaxParallel = 2
INVARIANTS
  SkippedIsNeverInspected
  ReportIsComplete
PROPERTIES
  RunEnds
CHECK_DEADLOCK FALSE
