------------------------------ MODULE MCElections ------------------------------
(***************************************************************************)
(* Model-checking instances of Elections: three nodes whose weights make   *)
(* one of them needed early after an election and any two enough later.    *)
(* The first state chooses whether the nodes lag behind Hive as they like  *)
(* or keep up with it, with one of them down and longer to go.             *)
(***************************************************************************)
EXTENDS Elections

CONSTANTS n1, n2, n3, old, new

MCRoll == [t \in Tag |-> IF t = old THEN <<n1, n2, n3>> ELSE <<n2, n1>>]
MCShare == [t \in Tag |-> IF t = old THEN <<3, 2, 2>> ELSE <<4, 3>>]
MCOwners == [h \in 1..MaxHeight |-> IF h =< EpochLength THEN {n1, n2} ELSE {n2}]
MCDown == {n1}

VARIABLE scenario

Lagging == INSTANCE Elections WITH MaxHeight <- 7, MaxFails <- 0
AtOnce == INSTANCE Elections WITH Prompt <- TRUE, Down <- MCDown

MCInit == scenario \in {"lagging", "prompt"} /\ Init

InLagging == scenario = "lagging" /\ Lagging!Next /\ UNCHANGED scenario
InPrompt == scenario = "prompt" /\ AtOnce!Next /\ UNCHANGED scenario

MCSpec ==
  /\ MCInit /\ [][InLagging \/ InPrompt]_<<vars, scenario>>
  /\ WF_<<vars, scenario>>(InPrompt)

\* Elections go on among nodes that keep up (ElectionsGoOn).
PromptlyElected == scenario = "prompt" => AtOnce!ElectionsGoOn
===============================================================================
