\* Two operations, one of them broken, on pages of one.
CONSTANTS
  Operations = {1, 2}
  Broken = {1}
  MaxBatch = 1
  MaxAttempts = 2
  Lifetime = 4
  ClaimDuration = 2
  RetryDelay = 1
  OwnerSteps = 2
  LastAccepted = 1
  MaxTime = 6
  MayDrain = FALSE
  MayForce = FALSE

SPECIFICATION FairWorkerHostSpec

PROPERTIES
  NoEntryStarved
