\* As DocGenExportRuntime.cfg, without cancellation and with one mishap.
CONSTANTS
  Workers = {runtime}
  Tokens <- WorkerTokens
  NoToken = noToken
  MaxAttempts = 2
  Deadline = 2
  MaxClaim = 2
  MaxTime = 2
  MaxRevision = 100
  ClaimDuration = 1
  RetryDelay = 1
  PersistLag = 0
  MaxCancels = 0
  MaxMishaps = 1
  Clients = {c1, c2}
  Askings <- OneOrOwn
  Unbound = unbound

SPECIFICATION FairRuntimeSpec

PROPERTIES
  ReplayResumes
