------------------------------- MODULE Elections -------------------------------
(***************************************************************************)
(* Elections of the VSC network: ElectionManager of                        *)
(* witness/electionManager.ts.                                             *)
(*                                                                         *)
(* At every EpochLength-th Hive block the owner of the schedule slot makes *)
(* up the next election from its registry and the release tags on GitHub,  *)
(* collects signatures of peers that make up the same one, and posts the   *)
(* result on Hive.  Every node that parses the result checks it against    *)
(* the electorate it has and stores it; from then on it is the electorate. *)
(* There is no schedule before the first election, so epoch 0 is given.    *)
(***************************************************************************)
EXTENDS VoteThreshold, Sequences, FiniteSets, FiniteSetsExt

CONSTANTS
  Node,        \* the nodes
  Tag,         \* what GitHub may answer: decides who is a candidate
  Roll,        \* the members a node elects under a tag, in order
  Share,       \* and their weights, in the same order
  FirstTag,    \* the tag of epoch 0
  Owners,      \* by height of a slot, the nodes that take it for theirs
  EpochLength, \* blocks between elections (7200 in the code)
  MinElected,  \* MINIMUM_ELECTION_MEMBER_COUNT (16 in the code)
  MaxLag,      \* the parse lag below which a node holds elections (5 in the code)
  Settle,      \* blocks after a slot by which its result is on Hive or never is
  Prompt,      \* whether nodes and peers keep up with Hive
  Down,        \* nodes that take no part
  MaxHeight,   \* bound: Hive blocks
  MaxTags,     \* bound: changes on GitHub
  MaxFails,    \* bound: results whose content cannot be fetched
  MaxRestarts  \* bound: restarts

ASSUME ElectionsAssumption ==
  /\ Roll \in [Tag -> Seq(Node)] /\ Share \in [Tag -> Seq(Nat)]
  /\ \A t \in Tag : Len(Roll[t]) = Len(Share[t])
  /\ FirstTag \in Tag /\ Down \subseteq Node /\ Prompt \in BOOLEAN
  /\ EpochLength \in Nat \ {0, 1} /\ Settle \in 0..EpochLength - 1
  /\ MinSince =< EpochLength - Settle
  /\ {MinElected, MaxLag, MaxHeight, MaxTags, MaxFails, MaxRestarts} \subseteq Nat
  /\ Owners \in [1..MaxHeight -> SUBSET Node]

VARIABLES
  now,     \* the head of Hive
  results, \* the election results on Hive, by height
  sent,    \* results broadcast and not on Hive yet
  tag,     \* what GitHub answers
  parsed,  \* the last block each node has run its parsers on
  db,      \* election_results of each node, by epoch
  hold,    \* the election each node holds, or NoHold
  tags, fails, restarts

counters == <<tags, fails, restarts>>
vars == <<now, results, sent, tag, parsed, db, hold, counters>>

NoHold == [blk |-> 0]
Elected(t, h) == [members |-> Roll[t], weights |-> Share[t], at |-> h]
Put(f, k, v) == [x \in DOMAIN f \cup {k} |-> IF x = k THEN v ELSE f[x]]

Init ==
  /\ now = 0 /\ results = <<>> /\ sent = {}
  /\ tag = FirstTag
  /\ parsed = [n \in Node |-> 0]
  /\ db = [n \in Node |-> [e \in {0} |-> Elected(FirstTag, 0)]]
  /\ hold = [n \in Node |-> NoHold]
  /\ tags = 0 /\ fails = 0 /\ restarts = 0

-------------------------------------------------------------------------------
(* What a node knows. *)

\* getValidElectionOfblock: the epoch of the last election before a block.
EpochAt(n, h) == CHOOSE e \in DOMAIN db[n] :
                   /\ db[n][e].at < h
                   /\ \A f \in DOMAIN db[n] : db[n][f].at < h => db[n][f].at =< db[n][e].at

\* getMembersOfBlock, with their weights.
Electorate(n, h) == db[n][EpochAt(n, h)]

Total(weights) == MapThenSumSet(LAMBDA i : weights[i], DOMAIN weights)

\* The weight of some of the members, by their place in the list.
Weight(electorate, bits) ==
  MapThenSumSet(LAMBDA i : electorate.weights[i], bits \cap DOMAIN electorate.weights)

Places(members, S) == {i \in DOMAIN members : members[i] \in S}

\* generateElection: the next epoch and the candidates GitHub's answer lets in.
\* The election of the block before the slot does not count yet.
Made(n, blk) == [epoch |-> EpochAt(n, blk - 1) + 1, tag |-> tag]

-------------------------------------------------------------------------------
(* Holding an election. *)

\* btHoldElection, when the block parsers reach the slot; holdElection is not
\* waited for.  It begins with the election of the block before the slot.
Holds(n, blk) ==
  /\ blk % EpochLength = 0
  /\ n \in Owners[blk] \ Down
  /\ now - parsed[n] < MaxLag
  /\ Len(Roll[tag]) >= MinElected

StartHold(n, blk) ==
  hold' = [hold EXCEPT ![n] = [blk |-> blk, made |-> Made(n, blk),
                               last |-> Electorate(n, blk - 1), signed |-> {}]]

\* handlePeerMsg: a peer makes up the election of the block it is asked for and
\* signs it; the holder counts signatures on its own from the members only.
CanSign(m, n) ==
  /\ hold[n] # NoHold /\ m \notin hold[n].signed \cup Down
  /\ Made(m, hold[n].blk) = hold[n].made
  /\ Places(Electorate(n, hold[n].blk).members, {m}) # {}

Sign(m, n) ==
  /\ CanSign(m, n)
  /\ hold' = [hold EXCEPT ![n].signed = @ \cup {m}]
  /\ UNCHANGED <<now, results, sent, tag, parsed, db, counters>>

\* The rest of holdElection, when the peers have answered or the time is over.
\* Who signed goes into the result as places in the list of members of the slot,
\* and is weighed by the weights at these places in the election that was read
\* at the start, which may be another.  Where it has none, the sum is NaN.
FinishHold(n) ==
  /\ hold[n] # NoHold
  /\ LET blk == hold[n].blk
         last == hold[n].last
         since == blk - last.at
         bits == Places(Electorate(n, blk).members, hold[n].signed)
         total == Total(last.weights)
     IN IF /\ bits \subseteq DOMAIN last.weights
           /\ ~Throws(since, total) /\ Weight(last, bits) >= MinVotes(since, total)
        THEN sent' = sent \cup
               {[blk |-> blk, made |-> hold[n].made, bits |-> bits, signed |-> hold[n].signed]}
        ELSE UNCHANGED sent
  /\ Prompt => \A m \in Node : ~CanSign(m, n)
  /\ hold' = [hold EXCEPT ![n] = NoHold]
  /\ UNCHANGED <<now, results, tag, parsed, db, counters>>

-------------------------------------------------------------------------------
(* Indexing results. *)

Slot(h) == h - (h % EpochLength)

\* The signature is valid if the places in it name the members who signed, as
\* this node knows the electorate of the slot.
Valid(n, h, r) ==
  LET members == Electorate(n, Slot(h)).members
  IN r.bits \subseteq DOMAIN members /\ {members[i] : i \in r.bits} = r.signed

\* The signers are weighed by the last election this node has.
Majority(n, h, r) ==
  LET last == Electorate(n, h)
      since == h - last.at
      total == Total(last.weights)
  IN /\ ~Throws(since, total)
     /\ Weight(last, Places(last.members, r.signed)) >= MinVotes(since, total)

\* Mutant: a result is stored again for an epoch that has one.
IndexesAgain(n, h, r) == Valid(n, h, r) /\ Majority(n, h, r)

\* btIndexElection: the first valid result for an epoch counts.
Indexes(n, h, r) ==
  /\ Valid(n, h, r) /\ Majority(n, h, r)
  /\ r.made.epoch \notin DOMAIN db[n]

Store(n, h, r) == [db EXCEPT ![n] = Put(@, r.made.epoch, Elected(r.made.tag, h))]

\* A node runs its parsers on the next block: the block's first, then the
\* transaction's.  An exception leaves the transaction and is logged, so a
\* result whose content cannot be fetched is passed over.
Parse(n) ==
  LET h == parsed[n] + 1
  IN /\ n \notin Down /\ parsed[n] < now
     /\ parsed' = [parsed EXCEPT ![n] = h]
     /\ IF Holds(n, h) THEN StartHold(n, h) ELSE UNCHANGED hold
     /\ IF h \in DOMAIN results /\ Indexes(n, h, results[h])
        THEN \/ db' = Store(n, h, results[h]) /\ UNCHANGED fails
             \/ fails < MaxFails /\ fails' = fails + 1 /\ UNCHANGED db
        ELSE UNCHANGED <<db, fails>>
     /\ UNCHANGED <<now, results, sent, tag, tags, restarts>>

\* The process stops, while it runs a block's parsers or between two blocks,
\* and starts again.
Restart(n) ==
  /\ restarts < MaxRestarts /\ restarts' = restarts + 1
  /\ hold' = [hold EXCEPT ![n] = NoHold]
  /\ \/ parsed[n] > 0 /\ parsed' = [parsed EXCEPT ![n] = @ - 1]
     \/ UNCHANGED parsed
  /\ UNCHANGED <<now, results, sent, tag, db, tags, fails>>

-------------------------------------------------------------------------------
(* Hive and GitHub. *)

\* Nodes and peers answer within a block's time, if they are prompt.
KeptUp ==
  Prompt => \A n \in Node \ Down : parsed[n] = now /\ hold[n] = NoHold

\* Late results and holds are given up.
Live(blk) == now + 1 =< blk + Settle

HiveBlock ==
  /\ now < MaxHeight /\ KeptUp
  /\ now' = now + 1
  /\ hold' = [n \in Node |-> IF Live(hold[n].blk) THEN hold[n] ELSE NoHold]
  /\ UNCHANGED <<tag, parsed, db, counters>>

\* Hive takes a result up at once if it is prompt too.
EmptyBlock ==
  /\ HiveBlock
  /\ Prompt => \A r \in sent : ~Live(r.blk)
  /\ sent' = {r \in sent : Live(r.blk)}
  /\ UNCHANGED results

ResultBlock ==
  /\ HiveBlock
  /\ \E r \in sent :
       /\ Live(r.blk)
       /\ results' = Put(results, now + 1, r)
       /\ sent' = {s \in sent \ {r} : Live(s.blk)}

Release ==
  /\ tags < MaxTags /\ tags' = tags + 1
  /\ tag' \in Tag \ {tag}
  /\ UNCHANGED <<now, results, sent, parsed, db, hold, fails, restarts>>

Next ==
  \/ EmptyBlock \/ ResultBlock \/ Release
  \/ \E n \in Node : Parse(n) \/ FinishHold(n) \/ Restart(n)
  \/ \E m, n \in Node : Sign(m, n)

Spec == Init /\ [][Next]_vars

FairSpec == Spec /\ WF_vars(Next)

-------------------------------------------------------------------------------
Record == [members : {Roll[t] : t \in Tag}, weights : {Share[t] : t \in Tag}, at : 0..MaxHeight]
Result == [blk : 1..MaxHeight, made : [epoch : Nat, tag : Tag],
           bits : SUBSET Nat, signed : SUBSET Node]
Holding == [blk : 1..MaxHeight, made : [epoch : Nat, tag : Tag], last : Record,
            signed : SUBSET Node]

ElectionTypeOK ==
  /\ now \in 0..MaxHeight /\ tag \in Tag
  /\ DOMAIN results \subseteq 1..now
  /\ \A h \in DOMAIN results : results[h] \in Result
  /\ sent \subseteq Result
  /\ parsed \in [Node -> 0..now]
  /\ db = [n \in Node |-> db[n]]
  /\ \A n \in Node : \A e \in DOMAIN db[n] : e \in Nat /\ db[n][e] \in Record
  /\ hold \in [Node -> {NoHold} \cup Holding]
  /\ tags \in 0..MaxTags /\ fails \in 0..MaxFails /\ restarts \in 0..MaxRestarts

\* Nodes that have parsed the block of an election have the same one for its
\* epoch, whoever held one at the slot, with which candidates, and whoever has
\* restarted: the electorate of a block is the same everywhere.  A fetch that
\* fails ends that, at the node where it does and for good.
NodesElectTheSame ==
  fails = 0 =>
    \A n, m \in Node : \A e \in DOMAIN db[n] :
      db[n][e].at =< parsed[m] => e \in DOMAIN db[m] /\ db[m][e] = db[n][e]

\* Both, of the records of every node.
SameElections == ElectionTypeOK /\ NodesElectTheSame

\* What the holder took for a majority is one for everybody who indexes it:
\* the list the signers' places refer to, their weights and the threshold have
\* not changed to its disadvantage by the time the result is on Hive.
HeldIsAccepted ==
  fails = 0 =>
    \A h \in DOMAIN results : \A n \in Node :
      h =< parsed[n] => results[h].made.epoch \in DOMAIN db[n]

\* Every election has been signed by more than half the weight of the one
\* before it, counted as that one was stored: two elections of an epoch have a
\* signer in common, and no part of the network elects for itself.  (A node that
\* failed to fetch a result may take the next one by an older electorate.)
MajorityBehind ==
  fails = 0 =>
  \A n \in Node : \A e \in DOMAIN db[n] \ {0} :
    LET before == db[n][e - 1]
        signed == results[db[n][e].at].signed
    IN /\ e - 1 \in DOMAIN db[n]
       /\ 2 * Weight(before, Places(before.members, signed)) > Total(before.weights)

\* As long as more than half the weight takes part, elections go on: what was
\* too little at one slot is enough at a later one, although GitHub's answer
\* may change under a holder and a holder may restart.  Only a node that failed
\* to fetch the result has none.
ElectionsGoOn ==
  <>(Cardinality({n \in Node \ Down : 1 \notin DOMAIN db[n]}) =< fails)
===============================================================================
