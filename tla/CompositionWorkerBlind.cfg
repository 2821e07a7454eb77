\* As CompositionWorker.cfg, for the claim about interrupted retries.
\* One attempt of any lane (the two index lanes are alike), two workers, up to two of:
\* a worker that fails, a claim that lapses under one.
CONSTANTS
  Attempts = {a1}
  Workers = {w1, w2}
  MaxWrites = 3
  MaxFailures = 2
  Lanes = {"create-request", "head-read", "committed-request"}
  MaxMishaps = 2

SPECIFICATION Spec
\* Nothing happens any more once every attempt is completed.
CHECK_DEADLOCK FALSE

INVARIANTS
  NoWriteBeforeReconciliation

