SPECIFICATION MCSpec
CONSTANTS
  n1 = n1
  n2 = n2
  n3 = n3
  old = old
  new = new
  Node = {n1, n2, n3}
  Tag = {old, new}
  Roll <- MCRoll
  Share <- MCShare
  FirstTag = old
  Owners <- MCOwners
  EpochLength = 3
  MinSince = 1
  MaxSince = 6
  MinElected = 2
  MaxLag = 2
  Settle = 2
  Prompt = FALSE
  Down = {}
  MaxHeight = 13
  MaxTags = 1
  MaxFails = 1
  MaxRestarts = 1
INVARIANTS
  SameElections
  HeldIsAccepted
  MajorityBehind
PROPERTY PromptlyElected
CHECK_DEADLOCK FALSE
