SPECIFICATION MCSpec
CONSTANTS
  n1 = n1
  n2 = n2
  n3 = n3
  n4 = n4
  w1 = w1
  w2 = w2
  Node = {n1, n2, n3, n4}
  Withdrawal = {w1, w2}
  FirstKeys = {n1, n2, n3}
  Electable <- MCElectable
  Every <- OftenBoth
  Life <- MCOnce
  AnswerTime <- MCOnce
  MinKeys = 3
  Owners <- MCTwo
  MaxLag = 2
  Prompt = FALSE
  Trail = 1
  MaxHeight = 17
  MaxIndexed = 3
  MaxElections = 1
  MaxFails = 1
  MaxRestarts = 1
INVARIANTS
  KeysAreElected
  PaidOnce
PROPERTIES
  KeysMoveOn
  PromptlyPaid
CHECK_DEADLOCK FALSE
