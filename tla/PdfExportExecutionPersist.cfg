\* Two hosts and a cancellation, nothing else.
CONSTANTS
  Workers = {w1, w2}
  Tokens <- WorkerTokens
  NoToken = noToken
  MaxAttempts = 2
  Deadline = 3
  MaxClaim = 2
  MaxTime = 3
  MaxRevision = 100
  ClaimDuration = 2
  RetryDelay = 1
  PersistLag = 0
  MaxCancels = 1
  MaxMishaps = 0

SPECIFICATION ExecutionSpec
SYMMETRY WorkerSymmetry
\* The export is over once its terminal completion is committed.
CHECK_DEADLOCK FALSE

INVARIANTS
  PersistenceWins
