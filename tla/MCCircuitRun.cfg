SPECIFICATION MCSpec
CONSTANTS
  Requests <- MCRequests
  Window = 2
  MaxFused = 2
  Bindings <- MCBindings
  Dispatches = {"none", "single", "blocks"}
  NQubits = 3
  Edges <- MCEdges
  Compilations <- MCCompilations
  NoDevice = NoDevice
  Layouts <- MCLayouts
  MaxSwaps = 1
  Wrappings <- MCWrappings
INVARIANTS ControlExact FitsTheDevice CompiledAsAsked RebaseKept RefusalHasCause GraphsExact MeaningKept OrderKept CancelReachesFixpoint SentInOrder FastPathExact
