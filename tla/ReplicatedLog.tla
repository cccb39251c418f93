----------------------------- MODULE ReplicatedLog -----------------------------
(***************************************************************************)
(* What indexing VSC blocks promises: there is one log of blocks, it only  *)
(* grows at its end, and every node's copy of it is at all times a prefix  *)
(* of it that only grows too, whatever crashes the node goes through.      *)
(***************************************************************************)
EXTENDS Integers, Sequences

CONSTANTS Node, First  \* the nodes, and the block all of them start from

VARIABLES log, copy

Init == log = <<First>> /\ copy = [n \in Node |-> <<First>>]

\* The log gets a block, whichever it is.
Decide == Len(log') = Len(log) + 1 /\ SubSeq(log', 1, Len(log)) = log /\ UNCHANGED copy

\* A node learns of the next block of the log.
Learn(n) ==
  /\ Len(copy[n]) < Len(log)
  /\ copy' = [copy EXCEPT ![n] = SubSeq(log, 1, Len(@) + 1)]
  /\ UNCHANGED log

Next == Decide \/ \E n \in Node : Learn(n)

Spec == Init /\ [][Next]_<<log, copy>>
===============================================================================
