SPECIFICATION Spec
CONSTANTS
  Callers = {c1}
  RequestKeys = {k1, k2}
  Digests = {d1, d2}
  NoRecord = NoRecord
  Torn = Torn
  MaxInFlight = 1
  MaxCalls = 4
  MaxFaults = 3
INVARIANTS
  JobSettlesLast
  ReportsStand
  RequestsStayQueued
CHECK_DEADLOCK FALSE
