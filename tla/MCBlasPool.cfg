SPECIFICATION FairSpec
CONSTANTS
  Callers = {c1, c2}
  MaxJobs = 3
  MaxCalls = 2
  MaxForks = 1
  Nobody = Nobody
INVARIANTS JobsAlive NoMissedCall NoMissedDone TeardownQuiet IInv
PROPERTIES ImplementsBlasCall CallReturns
CHECK_DEADLOCK FALSE
