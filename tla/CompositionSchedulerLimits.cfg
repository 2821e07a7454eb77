\* The limits the source pin accepts at their lowest: as many attempts as transitions.
\* Nothing fails.
CONSTANTS
  Callers = {c1, c2}
  Requests = {r1, r2}
  Document <- MCDocument
  InitialPages = FALSE
  MaxTransitions = 2
  MaxAttempts = 2
  MaxBytes = 9
  MaxRevision = 10
  MaxMishaps = 0

SPECIFICATION Spec
CHECK_DEADLOCK FALSE

INVARIANTS
  ExhaustionBlocks
