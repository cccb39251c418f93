----------------------------- MODULE AtomicCalls -----------------------------
(***************************************************************************)
(* What a block's contract calls promise: they happen one after another,   *)
(* each as a whole or not at all, and the block's output is the state they *)
(* leave.                                                                  *)
(***************************************************************************)
EXTENDS Integers, Sequences

CONSTANTS
  Key, NumCalls,
  Null,    \* no value, and no output yet
  Writes,  \* the values each call may write
  InitState

VARIABLES
  db,    \* the contract's state
  calls, \* of the calls made, whether they succeeded
  out    \* the block's output

vars == <<db, calls, out>>

Init == db = InitState /\ calls = <<>> /\ out = Null

Succeed ==
  /\ Len(calls) < NumCalls /\ out = Null
  /\ calls' = Append(calls, TRUE)
  /\ \E changed \in SUBSET Key, new \in [Key -> Writes[Len(calls) + 1] \cup {Null}] :
       db' = [k \in Key |-> IF k \in changed THEN new[k] ELSE db[k]]
  /\ UNCHANGED out

Fail ==
  /\ Len(calls) < NumCalls /\ out = Null
  /\ calls' = Append(calls, FALSE)
  /\ UNCHANGED <<db, out>>

Finish ==
  /\ Len(calls) = NumCalls /\ out = Null
  /\ out' = db
  /\ UNCHANGED <<db, calls>>

Next == Succeed \/ Fail \/ Finish

Spec == Init /\ [][Next]_vars
===============================================================================
