SPECIFICATION FairSpec
CONSTANTS
  Prices <- MCOnePrice
  StrikesEachSide = 0
  InitBufferSize <- MCInitBufferSize
  MaxAdded = 7
PROPERTIES
  KeepsProcessing
  CompleteBatchesRecur
CHECK_DEADLOCK FALSE
