SPECIFICATION Spec
CONSTANTS
  Alerts <- MCAlerts
  Outcomes <- MCOutcomes
  Asked <- MCAsked
  MaxCalls = 3
INVARIANTS
  AnswersExact
  CombinationsUnique
  ReadBack
CHECK_DEADLOCK FALSE
