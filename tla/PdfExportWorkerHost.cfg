\* Two operations, one of them broken, on pages of two; a drain or a force stop
\* at any time.
CONSTANTS
  Operations = {1, 2}
  Broken = {1}
  MaxBatch = 2
  MaxAttempts = 2
  Lifetime = 4
  ClaimDuration = 2
  RetryDelay = 1
  OwnerSteps = 2
  LastAccepted = 1
  MaxTime = 6
  MayDrain = TRUE
  MayForce = TRUE

SPECIFICATION FairWorkerHostSpec
\* A host whose gate is stopped ends.
CHECK_DEADLOCK FALSE

INVARIANTS
  DrainWaits

PROPERTIES
  DrainEnds
  EverythingEnds
