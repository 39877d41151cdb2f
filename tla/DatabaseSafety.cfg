SPECIFICATION FairSpec
CONSTANTS
  a = a
  MaxTime = 3
  Frames = 2
  Ids <- MCOneId
  Faults <- NoFaults
INVARIANT NoBatchRejected
PROPERTIES
  StoresInOrder
  LateCandlesStored
  StopWaitsForCandlesOnly
CHECK_DEADLOCK FALSE
