SPECIFICATION MCSpec
CONSTANTS
  alpha = alpha
  beta = beta
  gamma = gamma
  one = one
  NoAngle = none
  none = none
  NQubits = 2
  Symbols = {alpha, beta, gamma}
  Values = {one}
  Conditions = {0}
  Programs <- MCPrograms
  Placements <- MCPlacements
  Aliases <- MCAliases
  s1 = s1
  s2 = s2
  Slots = {s1, s2}
  MaxCommands = 4
  MaxDepth = 3
  MaxRenames = 1
  MaxOperations = 4
  BakedAliases = TRUE
SYMMETRY Symmetric
INVARIANT AliasKept
CHECK_DEADLOCK FALSE
