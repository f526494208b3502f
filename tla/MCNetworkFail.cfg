SPECIFICATION Spec
CONSTANTS
  Deadline = 3
  Floor = 1
  MaxCandidates = 2
  MaxRedirects = 0
  MaxReads = 1
  MaxSlips = 1
INVARIANTS
  FailIsObserved
CHECK_DEADLOCK FALSE
