SPECIFICATION MCSpec
CONSTANTS
  Bars <- MCBars
  PerThirty = 2
  PerMinute = 2
  PerFive = 2
  HalfHour = 2
  SlotMinutes = 2
  Precision = 1000000000
  Starts <- MCStarts
  MaxBars = 40
  MaxLoud = 2
INVARIANTS
  TypeOK
  AggregatesExact
  LocalWindowExact
  TagsAreOfTheCandle
  TagsNeedHistory
CHECK_DEADLOCK FALSE
