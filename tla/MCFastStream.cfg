SPECIFICATION FairSpec
CONSTANTS
  Genesis = 1
  MaxHead = 8
  EndBlock = 6
  SetSize = 2
  Concurrency = 2
  RangeMax = 3
INVARIANT EmittedInOrder
PROPERTY CatchesUp
CHECK_DEADLOCK FALSE
