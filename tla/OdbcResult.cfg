SPECIFICATION Spec
CONSTANTS
  Queries <- MCQueries
  NullCells <- MCNullCells
  LongLength <- MCLongLength
  BufferSize = 3
  MaxColumns = 2
  Results <- MCResults
  MaxFaults = 1
  MaxBack = 2
  Null = Null
  None = None
INVARIANTS
  ReadsExact
  BuffersAreLive
PROPERTIES
  ParametersArrive
CHECK_DEADLOCK FALSE
