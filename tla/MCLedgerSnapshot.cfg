SPECIFICATION Spec
CONSTANTS
  ann = ann
  bob = bob
  give = give
  back = back
  out = out
  Account = {ann, bob}
  Amount = {1, 2}
  Tx = {give, back, out}
  Op <- MCOp
  From <- MCFrom
  To <- MCTo
  Sum <- MCOne
  MaxOps = 5
  MaxBlocks = 2
  MaxRestarts = 0
INVARIANT RecordsLedgerSum
CHECK_DEADLOCK FALSE
