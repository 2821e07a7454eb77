\* Two hosts and a crash, with the fairness of polling hosts.
CONSTANTS
  Workers = {w1, w2}
  Tokens <- WorkerTokens
  NoToken = noToken
  MaxAttempts = 2
  Deadline = 3
  MaxClaim = 2
  MaxTime = 4
  MaxRevision = 100
  ClaimDuration = 2
  RetryDelay = 1
  PersistLag = 0
  MaxCancels = 0
  MaxMishaps = 1

SPECIFICATION FairExecutionSpec
\* The export is over once its terminal completion is committed.
CHECK_DEADLOCK FALSE

PROPERTIES
  EventuallyTerminal
