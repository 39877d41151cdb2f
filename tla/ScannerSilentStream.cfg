SPECIFICATION SilentSpec
CONSTANTS
  Prices <- MCOnePrice
  StrikesEachSide = 0
  InitBufferSize <- MCInitBufferSize
  MaxAdded = 7
PROPERTY
  StallRepaired
CHECK_DEADLOCK FALSE
