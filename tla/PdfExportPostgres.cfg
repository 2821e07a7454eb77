SPECIFICATION Spec
CONSTANTS
  Callers = {a, b}
  NoCall = NoCall
  NoRow = NoRow
  HashText <- MCHashText
  Scenarios <- MCScenarios
  MaxCalls = 4
  MaxFaults = 1
INVARIANTS
  PostgresTypeOK
  HeadsHaveHistory
  NoCircleOfWaits
PROPERTIES
  ServesLikeRecords
  CallsAreAnswered
CHECK_DEADLOCK FALSE
