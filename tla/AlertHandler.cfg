SPECIFICATION MCSpec
CONSTANTS
  c1 = c1
  c2 = c2
  None = None
  Contracts <- MCContracts
  BarsOf <- MCBarsOf
  HalfHour = 2
  MaxTime = 3
  MaxAlerts = 2
INVARIANTS
  OutcomesExact
  CrashNeedsMissedBar
PROPERTIES
  AnswersInOrder
  EveryAlertLeaves
  JoinReturns
CHECK_DEADLOCK FALSE
