SPECIFICATION BackSpec
CONSTANTS
  n1 = n1
  n2 = n2
  t1 = t1
  t2 = t2
  Peer = {p1}
  File = {f1, f2}
  Null = null
  MaxRequests = 3
  MaxFiles = 2
  MaxErrors = 1
  Genesis = 4
  LastBlock = 8
  Release <- MCDecrement
  Collection = {ledger, versions}
  Kept = {versions}
  Synced = 6
  MaxStarts = 1
PROPERTY PreviousResetWorks
CHECK_DEADLOCK FALSE
