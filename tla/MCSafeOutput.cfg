SPECIFICATION Spec
CONSTANTS
  w1 = w1
  w2 = w2
  w3 = w3
  Writers <- Three
  ForceChoices <- SomeForce
  Before = {"absent", "regular", "special"}
  MaxRelinks = 1
INVARIANTS FailureLeavesNothing
PROPERTIES ImplementsAtomicOutput
CHECK_DEADLOCK FALSE
