SPECIFICATION MCSpec
CONSTANTS
  Closes <- MCCloses
  InitPrice <- MCInitPrice
  StrikesBelow = 0
  numStrikes = 0
  InitCapacity = 2
  Updates = 1
INVARIANTS
  TypeOK
  ScopeIsStreamed
  ReferencesConsistent
PROPERTIES
  StreamsEnd
CHECK_DEADLOCK FALSE
