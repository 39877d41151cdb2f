SPECIFICATION SettledSpec
CONSTANTS
  Prices <- MCOnePrice
  StrikesEachSide = 1
  InitBufferSize <- MCInitBufferSize
  MaxAdded = 20
INVARIANTS
  NoDuplicateRequest
PROPERTY
  CollectsCompleteBatches
CHECK_DEADLOCK FALSE
