SPECIFICATION Spec
CONSTANTS
  c1 = c1
  c2 = c2
  c3 = c3
  ghost = ghost
  Checks <- MCChecks
  Unknown <- MCUnknown
  Graphs <- MCGraphs
INVARIANTS
  AcceptIsSound
  RejectIsSound
PROPERTIES
  SearchEnds
CHECK_DEADLOCK FALSE
