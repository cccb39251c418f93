SPECIFICATION MCSpec
CONSTANTS
  n1 = n1
  n2 = n2
  t1 = t1
  t2 = t2
  Peer = {p1}
  File = {f1, f2}
  Null = null
  MaxRequests = 3
  MaxFiles = 2
  MaxErrors = 1
  Genesis = 4
  LastBlock = 8
  Release <- MCUpgrades
  Collection = {ledger, versions}
  Kept = {versions}
  Synced = 6
  MaxStarts = 2
INVARIANTS
  UploadsAreKept
  IndexIsWhole
PROPERTIES
  PartsSettle
  CatchesUp
CHECK_DEADLOCK FALSE
