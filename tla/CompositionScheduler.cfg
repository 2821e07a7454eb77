CONSTANTS
  Callers = {c1, c2}
  Requests = {r1, r2}
  Document <- MCDocument
  InitialPages = FALSE
  MaxTransitions = 2
  MaxAttempts = 4
  MaxBytes = 9
  MaxRevision = 12
  MaxMishaps = 2

SPECIFICATION FairSpec
CHECK_DEADLOCK FALSE

INVARIANTS
  CompositionSchedulerTypeOK
  HeadChainLoads
  OneRequestPerTransition
  NoFailureNoRefusal

PROPERTIES
  KeepsPromise
  JobEnds

