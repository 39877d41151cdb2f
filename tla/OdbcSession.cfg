SPECIFICATION Spec
CONSTANTS
  o1 = o1
  o2 = o2
  r1 = r1
  t1 = t1
  u1 = u1
  None = None
  OptionBatches <- MCOptionBatches
  ResultBatches <- MCResultBatches
  Times <- MCTimes
  Bars <- MCBars
  Size <- MCSize
  MaxFaults = 3
INVARIANTS
  SessionClean
  IdsNameRows
PROPERTIES
  BatchesWhole
