SPECIFICATION Spec
CONSTANTS
  Documents <- MCDocuments
  LocaleRank <- MCLocaleRank
  Callers = {a, b}
  Scenarios <- MCScenarios
  NoCall = NoCall
  PageSize = 1
  MaxCalls = 3
  MaxTime = 2
INVARIANTS
  HistoryAddsUp
  AppliedIsRetained
  UnchangedListedOnce
PROPERTIES
  TimesFollowRevisions
