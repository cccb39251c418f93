------------------------------- MODULE BlockFeed -------------------------------
(***************************************************************************)
(* What the stream parser promises the parsers registered with it: they    *)
(* are run on the blocks of Hive one after the other, from the block after *)
(* the first one, never skipping a block; after a restart they may be run  *)
(* again on blocks they have seen, from some earlier position on.          *)
(***************************************************************************)
EXTENDS Integers

CONSTANT Base         \* the parsers' first block is Base + 1

VARIABLES position,   \* the block last run through the parsers
          handled     \* the blocks the parsers have been run on

Init == position = Base /\ handled = {}

Handle ==
  /\ position' = position + 1
  /\ handled' = handled \cup {position + 1}

Rewind ==
  /\ position' \in Base..position
  /\ UNCHANGED handled

Next == Handle \/ Rewind

Spec == Init /\ [][Next]_<<position, handled>>

===============================================================================
