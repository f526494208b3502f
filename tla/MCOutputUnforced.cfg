SPECIFICATION Spec
CONSTANTS
  w1 = w1
  w2 = w2
  w3 = w3
  Writers <- Two
  ForceChoices <- OneForce
  Before = {"absent"}
  MaxRelinks = 0
PROPERTIES ExistingFilesAreKept
CHECK_DEADLOCK FALSE
