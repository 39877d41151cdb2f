SPECIFICATION Spec
CONSTANTS
  a = a
  MaxTime = 3
  Frames = 1
  Ids <- MCOneId
  Faults <- AllFaults
INVARIANTS
  TypeOK
  DueWaitsOneBar
CHECK_DEADLOCK FALSE
