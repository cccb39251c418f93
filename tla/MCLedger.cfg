SPECIFICATION Spec
CONSTANTS
  ann = ann
  bob = bob
  give = give
  back = back
  out = out
  Account = {ann, bob}
  Amount = {1, 2}
  Tx = {give, back, out}
  Op <- MCOp
  From <- MCFrom
  To <- MCTo
  Sum <- MCSum
  MaxOps = 4
  MaxBlocks = 2
  MaxRestarts = 2
INVARIANTS
  LedgerOK
  SpendsWhatItHas
PROPERTY PaidStaysPaid
CHECK_DEADLOCK FALSE
