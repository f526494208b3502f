SPECIFICATION Spec
CONSTANTS
  Deadline = 6
  Floor = 1
  MaxCandidates = 3
  MaxRedirects = 1
  MaxReads = 2
  MaxSlips = 1
INVARIANTS
  NothingLeftOpen
  DeadlineHolds
  EveryCandidateHasATurn
  GapsAreErrors
PROPERTIES
  RunEnds
CHECK_DEADLOCK FALSE
