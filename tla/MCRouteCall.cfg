SPECIFICATION MCSpec
CONSTANTS
  NQubits = 5
  Edges <- MCEdges
  Circuits <- MCCircuits
  Pinned <- MCPins
  NoMap = NoMap
  StallBound = 2
  Trials = 2
  Rounds = 2
  Seeds <- MCSeeds
INVARIANTS
  MapsFollowTheState
  ReindexRecovers
  CoreStateExact
  ResultOfOnePass
  ThrowsHaveCause
PROPERTIES
  ImplementsRouting
  PassesImplementRouting
  CallAnswered
