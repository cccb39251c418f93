------------------------------- MODULE MCGateway -------------------------------
(***************************************************************************)
(* Model-checking instances of Gateway.  The first state chooses one:      *)
(*   batches   - withdrawals are paid while the nodes lag as they like;    *)
(*   rotations - elections move the keys while the nodes lag as they like; *)
(*   prompt    - both, at nodes that keep up with Hive.                    *)
(* The constants of the module itself are what the instances share.        *)
(***************************************************************************)
EXTENDS Gateway

CONSTANTS n1, n2, n3, n4, w1, w2

\* By kind.
Both(b, r) == [k \in Kind |-> IF k = "batch" THEN b ELSE r]
MCOnce == Both(1, 1)
OftenBatches == Both(3, 20)
OftenRotations == Both(20, 3)
OftenBoth == Both(3, 6)
ShortLives == Both(2, 2)
ShortRotations == Both(1, 2)

\* Electable sets, one of them too small to hold the keys.
MCElectable == {{n2, n3, n4}, {n1, n4}}
OneElectable == {{n2, n3, n4}}
FirstNodes == {n1, n2, n3}
OneWithdrawal == {w1}

\* The nodes that take a slot for theirs: two that disagree on the schedule,
\* one, and one after the other.
MCTwo == [h \in 1..MaxHeight |-> {n1, n2}]
OneOf == [h \in 1..MaxHeight |-> {n2}]
InTurn == [h \in 1..MaxHeight |-> {<<n2, n3, n4>>[1 + ((h \div 3) % 3)]}]

VARIABLE scenario

Batches == INSTANCE Gateway WITH
  Node <- FirstNodes, Electable <- {}, Every <- OftenBatches, Life <- ShortLives,
  Prompt <- FALSE, Trail <- 0, MaxHeight <- 8, MaxElections <- 0, MaxFails <- 0

Rotations == INSTANCE Gateway WITH
  Withdrawal <- {}, Every <- OftenRotations, Life <- ShortRotations, Owners <- OneOf,
  Prompt <- FALSE, Trail <- 0, MaxHeight <- 8, MaxIndexed <- 0, MaxFails <- 0, MaxRestarts <- 0

AtOnce == INSTANCE Gateway WITH
  Withdrawal <- OneWithdrawal, Electable <- OneElectable, Every <- OftenBoth, Life <- ShortLives,
  Owners <- InTurn, MaxLag <- 3, Prompt <- TRUE, MaxHeight <- 16, MaxIndexed <- 1

MCInit ==
  \/ scenario = "batches" /\ Batches!Init
  \/ scenario = "rotations" /\ Rotations!Init
  \/ scenario = "prompt" /\ AtOnce!Init

InBatches == scenario = "batches" /\ Batches!Next /\ UNCHANGED scenario
InRotations == scenario = "rotations" /\ Rotations!Next /\ UNCHANGED scenario
InPrompt == scenario = "prompt" /\ AtOnce!Next /\ UNCHANGED scenario

MCSpec ==
  /\ MCInit /\ [][InBatches \/ InRotations \/ InPrompt]_<<vars, scenario>>
  /\ WF_<<vars, scenario>>(InPrompt)

\* A withdrawal is paid in the end when the nodes' parsers keep up one block behind
\* their fetchers, whatever elections, restarts and lost events do meanwhile
\* (EveryWithdrawalPaid).  Without that block between them (Trail = 0) signers drop
\* the request for their own last block, it is not sent again, and nothing is paid.
PromptlyPaid == scenario = "prompt" => EveryWithdrawalPaid
===============================================================================
