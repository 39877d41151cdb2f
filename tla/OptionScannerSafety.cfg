SPECIFICATION Spec
CONSTANTS
  Prices <- MCPrices
  StrikesEachSide = 0
  InitBufferSize <- MCInitBufferSize
  MaxAdded = 7
INVARIANTS
  TypeOK
  NoLostWakeup
  UnderlyingKnown
  BufferCanFill
  ScopeIsStreamed
  LacksAtMostUnseen
  CrashNeedsEarlyCheck
CHECK_DEADLOCK FALSE
