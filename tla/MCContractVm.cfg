SPECIFICATION MCSpec
CONSTANTS
  user = user
  self = self
  other = other
  null = null
  k1 = k1
  v = v
  v1 = v1
  v2 = v2
  Key = {k1, k2}
  Value = {v, v1, v2}
  Null = null
  Empty = empty
  Writes <- MCWrites
  InitState <- MCInitState
  NumCalls = 3
  User = {user, other}
  Own = {self}
  Self = self
  Funds <- MCFunds
  Limit <- MCLimit
  Amounts <- MCAmounts
  Loops = TRUE
  MaxOps = 3
  MaxFaults = 1
  MaxTimeouts = 3
INVARIANT DrawsAreCovered
PROPERTIES
  PromptAreAtomic
  LateBlockEnds
CHECK_DEADLOCK FALSE
