SPECIFICATION Spec
CONSTANTS
  Descendants = {"d1"}
  MaxOutput = 1
  PipeCapacity = 2
  MaxWritten = 2
  InterruptAt = {"await"}
INVARIANTS ExceptionalExitLeavesNothing
CHECK_DEADLOCK FALSE
