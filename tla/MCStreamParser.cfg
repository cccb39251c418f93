SPECIFICATION PFairSpec
CONSTANTS
  Genesis = 1
  MaxHead = 5
  EndBlock = 0
  SetSize = 2
  Concurrency = 2
  RangeMax = 3
  BatchLimit = 2
  SaveEvery = 3
  HeadSlack = 1
  StuckLag = 2
  Window = 2
  MaxCrashes = 2
INVARIANTS
  ParserTypeOK
  EventsGapFree
  CheckpointCoversHandled
  ReplayBounded
PROPERTIES
  EveryBlockParsed
  ParsedInSequence
  FeedSpec
CHECK_DEADLOCK FALSE
