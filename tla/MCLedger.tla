------------------------------- MODULE MCLedger -------------------------------
(***************************************************************************)
(* Model-checking instance of Ledger: two accounts, a withdrawal, a        *)
(* transfer and one the other way of a negative sum.                       *)
(***************************************************************************)
EXTENDS Ledger

CONSTANTS ann, bob, give, back, out

MCOp == [t \in Tx |-> IF t = out THEN "withdraw" ELSE "transfer"]
MCFrom == [t \in Tx |-> IF t = give THEN ann ELSE bob]
MCTo == [t \in Tx |-> IF t = give THEN bob ELSE ann]
MCSum == [t \in Tx |-> IF t = give THEN -1 ELSE 1]
MCOne == [t \in Tx |-> 1]
===============================================================================
