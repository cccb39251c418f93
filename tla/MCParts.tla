------------------------------- MODULE MCParts --------------------------------
(***************************************************************************)
(* A model-checking instance of Parts: one account's announcements; the    *)
(* transactions and the elections below; a pool at one node with three     *)
(* transactions and two blocks; two calls of one node, to many and to one; *)
(* and one part more:                                                      *)
(*   typed     - TypedData: messages of two fields, of which some are maps.*)
(***************************************************************************)
EXTENDS Parts, TLC

CONSTANTS
  ann, bob, c1, c2, c3, s1, s2, \* accounts, codes and states
  m1, m2, m3,                   \* members
  n1, n2, t1, t2, t3,           \* nodes, and transactions of the pool
  x, y                          \* fields of a message

VARIABLES message, phase, next, types

ofTyped == <<message, phase, next, types>>

-------------------------------------------------------------------------------
Op(kind, by, code, owner, proof, id, root) ==
  [kind |-> kind, by |-> by, code |-> code, owner |-> owner, proof |-> proof, id |-> id,
   state |-> root]
Creates(by, code, owner, proof) == Op("create", by, code, owner, proof, <<>>, EmptyState)
Updates(by, id, code, proof) == Op("update", by, code, Nobody, proof, id, EmptyState)
Outputs(id, root) == Op("output", Nobody, c1, Nobody, "none", id, root)
Breaks == Op("broken", ann, c1, Nobody, "none", <<>>, EmptyState)

\* A contract without proof before it is required; one with proof, updated in
\* its own block, in one transaction, by its owner and by another; updates with
\* proofs of other code; an operation behind one that cannot be read; two
\* outputs of a contract.
MCTxs ==
  <<[at |-> 1, ops |-> <<Creates(ann, c1, Nobody, "none")>>],
    [at |-> 2, ops |-> <<Creates(ann, c1, bob, "signed"), Updates(bob, <<2, 1>>, c2, "signed")>>],
    [at |-> 2, ops |-> <<Updates(bob, <<2, 1>>, c3, "signed"), Outputs(<<2, 1>>, s1),
                         Updates(ann, <<2, 1>>, c2, "signed")>>],
    [at |-> 3, ops |-> <<Creates(bob, c3, ann, "other"), Updates(ann, <<4, 1>>, c2, "signed"),
                         Updates(bob, <<2, 1>>, c1, "other"), Creates(bob, c3, ann, "signed"),
                         Creates(ann, c2, ann, "signed")>>],
    [at |-> 4, ops |-> <<Outputs(<<2, 1>>, s2), Breaks, Updates(bob, <<2, 1>>, c2, "signed")>>]>>

\* One election before the start, one in the first round and one on a slot of
\* the second.
MCElected ==
  <<[at |-> 5, epoch |-> 1, members |-> <<m1, m2>>],
    [at |-> 9, epoch |-> 2, members |-> <<m2, m3>>],
    [at |-> 14, epoch |-> 3, members |-> <<m1, m3>>]>>

ThisNode == {n1}
ThreeTxs == {t1, t2, t3}
NoTxs == {}
MCNonceOf == [t \in ThreeTxs |-> IF t = t3 THEN 1 ELSE 0]

TwoNodes == {n1, n2}
MCCaller == [c \in Call |-> n1]
MCType == [c \in Call |-> "sign"]

MCField == <<x, y>>

Typed == INSTANCE TypedData WITH Field <- MCField, Root <- "tx", pc <- phase

ASSUME TypedAssumption == Typed!TypedDataAssumption

-------------------------------------------------------------------------------
NoTyped == message = <<>> /\ phase = "none" /\ next = 0 /\ types = <<>>

MCInit ==
  \/ PartsInit /\ NoTyped
  \/ /\ scenario = "typed" /\ Typed!Init
     /\ NoWitnesses /\ NoContracts /\ NoSchedule /\ NoPool /\ NoChannel

MCNext ==
  \/ PartsNext /\ UNCHANGED ofTyped
  \/ scenario = "typed" /\ Typed!Next /\ UNCHANGED vars

MCSpec == MCInit /\ [][MCNext]_<<vars, ofTyped>>

-------------------------------------------------------------------------------
\* What is signed as typed data is all of the message.
EveryFieldIsTyped ==
  scenario = "typed" => Typed!TypedDataTypeOK /\ Typed!EveryFieldIsTyped
===============================================================================
