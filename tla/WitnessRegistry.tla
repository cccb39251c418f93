---------------------------- MODULE WitnessRegistry ----------------------------
(***************************************************************************)
(* Who runs a node: the account_update branch of ChainBridgeV2.blockParser *)
(* and getWitnessesAtBlock, both in chainBridgeV2.ts.                      *)
(*                                                                         *)
(* An account announces its node, keys and whether it takes part in the    *)
(* metadata of its Hive account.  The node keeps a history of each by      *)
(* height, and answers who the witnesses were at any block.                *)
(***************************************************************************)
EXTENDS Integers, Sequences, FiniteSets

CONSTANTS
  Account,
  Keys,       \* sets of keys an announcement may have, NoKeys among them
  NoKeys,
  MaxAge,     \* blocks an announcement is good for (3 days in the code)
  MaxHeight,  \* bound: Hive blocks
  MaxRestarts \* bound: restarts

\* What the constants must be.
RegistryAssumption ==
  NoKeys \in Keys /\ MaxAge \in Nat /\ MaxHeight \in Nat /\ MaxRestarts \in Nat

VARIABLES
  hive,    \* the account updates, one to a block
  parsed,  \* the last block whose parsers have run
  pc,      \* the write of the update at work that is next
  toggles, \* witness_history of type witness.toggle, by account and height
  signed,  \* witness_history of type witness.last_signed
  nets,    \* witnesses: whether the account is on this network, if known
  auths,   \* account_auths, by account and height
  restarts

vars == <<hive, parsed, pc, toggles, signed, nets, auths, restarts>>

\* What an update says of a node: nothing, something that cannot be read, or
\* whether it takes part and whether it is on this network.
Nothing == [node |-> "none"]
Broken == [node |-> "broken"]
Announcement == [node : {"node"}, enabled : BOOLEAN, here : BOOLEAN]
Update == [account : Account, says : Announcement \cup {Nothing, Broken}, keys : Keys]

Newest(S) == CHOOSE h \in S : \A g \in S : g =< h
Put(f, h, v) == [g \in DOMAIN f \cup {h} |-> IF g = h THEN v ELSE f[g]]

Init ==
  /\ hive = <<>> /\ parsed = 0 /\ pc = "toggle"
  /\ toggles = [a \in Account |-> <<>>] /\ auths = [a \in Account |-> <<>>]
  /\ signed = [a \in Account |-> {}]
  /\ nets = [a \in {} |-> TRUE]
  /\ restarts = 0

HiveBlock ==
  /\ Len(hive) < MaxHeight
  /\ \E u \in Update : hive' = Append(hive, u)
  /\ UNCHANGED <<parsed, pc, toggles, signed, nets, auths, restarts>>

-------------------------------------------------------------------------------
(* blockParser on an account update: its writes in their order. *)

Height == parsed + 1
At(step) == parsed < Len(hive) /\ pc = step
Acc == hive[Height].account
Says == hive[Height].says

\* Mutant: any announcement while there is a record keeps the toggle's height.
ToggleFromKept ==
  IF DOMAIN toggles[Acc] # {} /\ DOMAIN auths[Acc] # {} THEN Newest(DOMAIN auths[Acc]) ELSE Height

\* Where the toggle is recorded: an unchanged one at the height of the newest
\* keys, whichever height the toggle is of.
ToggleFrom ==
  IF /\ DOMAIN toggles[Acc] # {} /\ DOMAIN auths[Acc] # {}
     /\ toggles[Acc][Newest(DOMAIN toggles[Acc])] = Says.enabled
  THEN Newest(DOMAIN auths[Acc]) ELSE Height

WriteToggle ==
  /\ At("toggle") /\ Says.node = "node"
  /\ toggles' = [toggles EXCEPT ![Acc] = Put(@, ToggleFrom, Says.enabled)]
  /\ pc' = "signed"
  /\ UNCHANGED <<hive, parsed, signed, nets, auths, restarts>>

WriteSigned ==
  /\ At("signed")
  /\ signed' = [signed EXCEPT ![Acc] = @ \cup {Height}]
  /\ pc' = "witness"
  /\ UNCHANGED <<hive, parsed, toggles, nets, auths, restarts>>

WriteWitness ==
  /\ At("witness")
  /\ nets' = [a \in DOMAIN nets \cup {Acc} |-> IF a = Acc THEN Says.here ELSE nets[a]]
  /\ pc' = "auth"
  /\ UNCHANGED <<hive, parsed, toggles, signed, auths, restarts>>

\* Mutant: the keys' record in force is replaced.
AuthFromKept ==
  IF DOMAIN auths[Acc] # {} THEN Newest(DOMAIN auths[Acc]) ELSE Height

\* Keys that have not changed stay where they are.
AuthFrom ==
  IF /\ DOMAIN auths[Acc] # {}
     /\ auths[Acc][Newest(DOMAIN auths[Acc])] = hive[Height].keys
  THEN Newest(DOMAIN auths[Acc]) ELSE Height

\* An update that announces no node comes here at once.
WriteAuth ==
  /\ At("auth") \/ (At("toggle") /\ Says.node = "none")
  /\ auths' = [auths EXCEPT ![Acc] = Put(@, AuthFrom, hive[Height].keys)]
  /\ parsed' = Height /\ pc' = "toggle"
  /\ UNCHANGED <<hive, toggles, signed, nets, restarts>>

\* What cannot be read throws before the first write.
SkipBroken ==
  /\ At("toggle") /\ Says.node = "broken"
  /\ parsed' = Height
  /\ UNCHANGED <<hive, pc, toggles, signed, nets, auths, restarts>>

\* The process stops, in the middle of a block perhaps, and goes on after the last
\* height recorded as parsed, which may be any number of blocks back.
Restart ==
  /\ restarts < MaxRestarts /\ restarts' = restarts + 1
  /\ pc' = "toggle"
  /\ parsed' \in 0..parsed
  /\ UNCHANGED <<hive, toggles, signed, nets, auths>>

Next ==
  HiveBlock \/ WriteToggle \/ WriteSigned \/ WriteWitness
  \/ WriteAuth \/ SkipBroken \/ Restart

Spec == Init /\ [][Next]_vars

-------------------------------------------------------------------------------
(* getWitnessesAtBlock. *)

UpTo(f, blk) == {h \in DOMAIN f : h =< blk}
Before(S, blk) == {h \in S : h < blk}

\* The toggle counts from its own block on, keys and signing from the next.
EnabledAt(a, blk) ==
  UpTo(toggles[a], blk) # {} /\ toggles[a][Newest(UpTo(toggles[a], blk))]

KeysAt(a, blk) ==
  IF Before(DOMAIN auths[a], blk) = {} THEN NoKeys
  ELSE auths[a][Newest(Before(DOMAIN auths[a], blk))]

FreshAt(a, blk) ==
  Before(signed[a], blk) # {} /\ blk - Newest(Before(signed[a], blk)) =< MaxAge

WitnessesAt(blk) ==
  {a \in DOMAIN nets : /\ nets[a] /\ EnabledAt(a, blk) /\ FreshAt(a, blk)
                       /\ Before(DOMAIN auths[a], blk) # {}}

-------------------------------------------------------------------------------
RegistryTypeOK ==
  /\ hive \in Seq(Update) /\ parsed \in 0..Len(hive)
  /\ pc \in {"toggle", "signed", "witness", "auth"}
  /\ \A a \in Account :
       /\ DOMAIN toggles[a] \cup DOMAIN auths[a] \cup signed[a] \subseteq 1..Len(hive)
       /\ \A h \in DOMAIN toggles[a] : toggles[a][h] \in BOOLEAN
       /\ \A h \in DOMAIN auths[a] : auths[a][h] \in Keys
  /\ DOMAIN nets \subseteq Account
  /\ restarts \in 0..MaxRestarts

\* Whatever was stopped and parsed again: once nothing is recorded of a block still
\* to be parsed, the witnesses are the accounts whose last announcement says so
\* (not too old, for this network and taking part), and their keys are those of
\* their last readable update of any kind.
LatestAnnouncementCounts ==
  LET updates(a) == {h \in 1..parsed : hive[h].account = a /\ hive[h].says # Broken}
      says(a) == {h \in updates(a) : hive[h].says.node = "node"}
      witness(a) == /\ says(a) # {} /\ Height - Newest(says(a)) =< MaxAge
                    /\ hive[Newest(says(a))].says.enabled /\ hive[Newest(says(a))].says.here
      clean(a) == DOMAIN toggles[a] \cup DOMAIN auths[a] \cup signed[a] \subseteq 1..parsed
  IN pc = "toggle" /\ (\A a \in Account : clean(a)) =>
       /\ WitnessesAt(Height) = {a \in Account : witness(a)}
       /\ \A a \in Account : updates(a) # {} => KeysAt(a, Height) = hive[Newest(updates(a))].keys

\* The keys of a block that has been parsed stay what they are: later updates
\* and updates parsed again do not change what a signature of the past is
\* checked against.
KeysOfPastStay ==
  [][\A a \in Account : \A blk \in 1..parsed : KeysAt(a, blk)' = KeysAt(a, blk)]_vars

\* An announcement that repeats the toggle may rewrite older history, but the
\* answer for the blocks since the toggle was last changed stays.
ToggleStaysSinceChange ==
  [][\A a \in Account : \A blk \in 1..parsed :
       DOMAIN toggles[a] # {} /\ blk >= Newest(DOMAIN toggles[a])
         => EnabledAt(a, blk)' = EnabledAt(a, blk)]_vars
===============================================================================
