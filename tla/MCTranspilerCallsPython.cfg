SPECIFICATION MCSpec
CHECK_DEADLOCK FALSE
CONSTANTS
  Workers = {w1, w2}
  Clients = {c1, c2}
  MaxTasks = 2
  Targets <- MCTargets
  Registrations <- MCRegistrations
  Streams <- MCStreams
  DummySymbol <- MCDummySymbol
  Lists <- MCLists
  Hosts = {"python"}
  Owning = {FALSE}
PROPERTY EveryWaitEnds
