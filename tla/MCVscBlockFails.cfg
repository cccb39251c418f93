SPECIFICATION FreeSpec
CONSTANTS
  alice = alice
  bob = bob
  pay = pay
  call = call
  bad = bad
  off = off
  alt = alt
  Node = {alice, bob}
  Turns = {1}
  Tx = {pay, off, alt}
  HiveTx = {pay}
  Call = {off, alt}
  Invalid = {}
  NonceOf <- MCNonce
  Weight <- MCWeight
  Schedule <- MCSchedule
  RoundLength = 2
  MaxHead = 5
  ShortHead = 5
  MaxCrashes = 0
  MaxFetchErrors = 0
  MaxLag = 5
  Patience = 2
  Expiry = 1
  OpsPerBlock = 1
INVARIANTS
  OnlyInvalidFail
CHECK_DEADLOCK FALSE
