SPECIFICATION MCSpec
CONSTANTS
  alice = alice
  bob = bob
  pay = pay
  call = call
  bad = bad
  off = off
  alt = alt
  Node = {alice, bob}
  Turns = {1, 3}
  Tx = {pay, call, bad, off, alt}
  HiveTx = {pay, call, bad}
  Call = {call, off, alt}
  Invalid = {bad}
  NonceOf <- MCNonce
  Weight <- MCWeight
  Schedule <- MCSchedule
  RoundLength = 2
  MaxHead = 6
  ShortHead = 5
  MaxCrashes = 1
  MaxFetchErrors = 1
  MaxLag = 5
  Patience = 2
  Expiry = 2
  OpsPerBlock = 1
INVARIANTS
  RangesContiguous
  NodesAgree
  NothingTwice
PROPERTIES
  StatusFinal
  LogSpec
CHECK_DEADLOCK FALSE
