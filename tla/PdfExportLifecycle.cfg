\* Two attempts, a claim of at most 2 ticks, a deadline of 4 and requests up to 5:
\* a claim can expire, be taken over and expire again before the deadline.
CONSTANTS
  Tokens = {t1, t2}
  NoToken = noToken
  MaxAttempts = 2
  Deadline = 4
  MaxClaim = 2
  MaxTime = 5
  MaxRevision = 8

SPECIFICATION LifecycleSpec
SYMMETRY TokenSymmetry
\* A stopped head is terminal.
CHECK_DEADLOCK FALSE

INVARIANTS
  HeadParses

PROPERTIES
  CancelledOnlyStops
  ClaimOutlivesContention
