SPECIFICATION BothSpec
CONSTANTS
  NQubits = 4
  Edges <- MCEdges
  Circuits <- MCUsed
  Starts <- MCStarts
  StallBound = 2
  NoMap = NoMap
INVARIANT
  IdenticalThrowConditions
