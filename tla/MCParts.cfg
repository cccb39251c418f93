SPECIFICATION MCSpec
CONSTANTS
  Account = {acc}
  Keys = {k1, none}
  NoKeys = none
  MaxAge = 2
  MaxHeight = 4
  MaxRestarts = 1
  ProofFrom = 2
  Nobody = nobody
  MaxFaults = 2
  MaxReplays = 2
  RoundLength = 2
  TotalRounds = 3
  Start = 6
  Top = 15
  MaxCrashes = 1
  ann = ann
  bob = bob
  c1 = c1
  c2 = c2
  c3 = c3
  EmptyState = s0
  Txs <- MCTxs
  Elections <- MCElected
  Pooler <- ThisNode
  Tx <- ThreeTxs
  NonceOf <- MCNonceOf
  Alike <- NoTxs
  MaxBlocks = 2
  Node <- TwoNodes
  CallerOf <- MCCaller
  Type <- MCType
  Timed <- Call
  s1 = s1
  s2 = s2
  m1 = m1
  m2 = m2
  m3 = m3
  n1 = n1
  n2 = n2
  t1 = t1
  t2 = t2
  t3 = t3
  Call = {first, second}
  Single = {second}
  Loopback = FALSE
  MaxItems = 2
  MaxLost = 1
  x = x
  y = y
INVARIANTS
  WitnessesFollowHive
  ContractsFollowHive
  HiveDecides
  SlotsAreShared
  EveryFieldIsTyped
PROPERTIES
  PastStays
  UnusedIsWelcome
  GathersItsOwn
CHECK_DEADLOCK FALSE
