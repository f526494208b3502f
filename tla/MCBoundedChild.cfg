SPECIFICATION Spec
CONSTANTS
  Descendants = {"d1", "d2"}
  MaxOutput = 1
  PipeCapacity = 2
  MaxWritten = 2
  InterruptAt = {"spawned", "loop", "select", "await"}
INVARIANTS NothingOutlivesTheCall ResultIsExact
PROPERTIES RunEnds
CHECK_DEADLOCK FALSE
