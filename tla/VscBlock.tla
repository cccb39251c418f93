------------------------------- MODULE VscBlock -------------------------------
(***************************************************************************)
(* How VSC blocks come about: WitnessServiceV2 of witness/index.ts.  When  *)
(* its node's parser reaches the Hive block of a slot of its own, a        *)
(* witness builds a block out of its database, asks the other members to   *)
(* build the same and to sign it, and broadcasts it to Hive when enough of *)
(* them did.  All nodes, this one included, then index it (VscIndex).      *)
(***************************************************************************)
EXTENDS VscIndex, SequencesExt

CONSTANTS
  MaxLag,       \* a node further behind Hive does not propose (5 in the code)
  Patience,     \* Hive blocks a proposer waits for signatures (15 s: 5 blocks)
  Expiry,       \* Hive blocks within which a broadcast operation is included
  OpsPerBlock   \* bound: VSC operations in one Hive block

ASSUME BlockAssumption ==
  /\ MaxLag \in Nat /\ Patience \in Nat \ {0} /\ Expiry \in Nat /\ OpsPerBlock \in Nat

VARIABLES
  mempool,      \* VSC blocks broadcast to Hive and not included yet
  proposing     \* per node, the proposal it awaits signatures for

blockVars == <<mempool, proposing>>
vars == <<indexVars, mempool, proposing>>

NoProposal == [slot |-> 0]

Init == IndexInit /\ mempool = {} /\ proposing = [n \in Node |-> NoProposal]

-------------------------------------------------------------------------------
(* Hive. *)

OnHive == {t \in HiveTx : \E h \in DOMAIN hive : TxOp(t) \in Elems(hive[h])}
Candidates == {TxOp(t) : t \in HiveTx \ OnHive}
              \cup {m.op : m \in {x \in mempool : x.until > HiveHead}}

\* Hive produces a block with some of the operations sent to it, in any order.
HiveBlock ==
  /\ HiveHead < MaxHead
  /\ \A n \in Node : proposing[n] # NoProposal => HiveHead < proposing[n].at + Patience
  /\ \E S \in {T \in SUBSET Candidates : Cardinality(T) =< OpsPerBlock} :
       /\ \E ops \in SetToSeqs(S) : hive' = Append(hive, ops)
       /\ mempool' = {m \in mempool : m.op \notin S /\ m.until > HiveHead + 1}
  /\ UNCHANGED <<parsed, handled, indexing, saved, dbVars, crashes, fetchErrors,
                 proposing>>

-------------------------------------------------------------------------------
(* Building a block: createBlock and TxContext. *)

\* Mutant: the first header is taken for the last.
EarliestEnd(n) == Min({x.block.end : x \in headers[n]})

\* Where the next block starts: after the header that ends last.
LastEnd(n) == Max({x.block.end : x \in headers[n]})

Before(n, t, u) ==
  \/ anchor[n][t].height < anchor[n][u].height
  \/ anchor[n][t].height = anchor[n][u].height /\ anchor[n][t].index < anchor[n][u].index

\* The orders in which a block of the range start..end may execute its
\* transactions: the database leaves open that of two with the same anchor.
ToExecute(n, end) ==
  LET ready == {t \in Tx : status[n][t] = "INCLUDED"
                            /\ anchor[n][t].height \in LastEnd(n)..end}
  IN {s \in SetToSeqs(ready) : \A i, j \in DOMAIN s : Before(n, s[i], s[j]) => i < j}

\* Of the off-chain transactions offered, those whose nonce is the next one.
WithNextNonce(n, offered) ==
  LET taken[i \in 0..Len(offered)] ==
        IF i = 0 THEN <<>>
        ELSE IF NonceOf[offered[i]] # nonce[n] + Len(taken[i - 1]) THEN taken[i - 1]
        ELSE Append(taken[i - 1], offered[i])
  IN taken[Len(offered)]

EntryIf(cond, type, txs, state) ==
  IF cond THEN <<[type |-> type, txs |-> txs, state |-> state]>> ELSE <<>>

\* A block that executes run: the inputs taken from those offered, the output
\* of the calls, the events (when there are any) and the reference to Hive.
Build(n, end, offered, run) ==
  LET calls == Those(run, Call)
      valid == Those(run, Tx \ Invalid)
      inputs == WithNextNonce(n, offered)
  IN [start |-> LastEnd(n) + 1, end |-> end, txs |->
        [i \in DOMAIN inputs |-> [type |-> "input", txs |-> <<inputs[i]>>, state |-> <<>>]]
        \o EntryIf(calls # <<>>, "output", calls, contract[n] \o calls)
        \o EntryIf(\E i \in DOMAIN valid : valid[i] \notin Call, "events", valid, <<>>)
        \o EntryIf(\E i \in DOMAIN run : run[i] \in HiveTx, "anchor_ref", <<>>, <<>>)]

Blocks(n, end, offered) == {Build(n, end, offered, run) : run \in ToExecute(n, end)}

\* The pool's off-chain transactions by nonce; ids decide between those of one.
PoolOrders(n) ==
  {s \in SetToSeqs({t \in Tx \ HiveTx : status[n][t] = "UNCONFIRMED"}) :
     \A i, j \in DOMAIN s : NonceOf[s[i]] < NonceOf[s[j]] => i < j}

OfferedBlocks(n, end) == UNION {Blocks(n, end, offered) : offered \in PoolOrders(n)}

-------------------------------------------------------------------------------
(* Proposing: WitnessServiceV2.blockParser and proposeBlock, which run      *)
(* before the operations of the slot's Hive block are handled.              *)

IsMySlot(n, h) ==
  h % RoundLength = 0 /\ Schedule[h] = n /\ HiveHead - parsed[n] < MaxLag

AtTick(n) ==
  parsed[n] < HiveHead /\ handled[n] = NotTicked /\ proposing[n] = NoProposal

\* Nothing to propose: the slot is another's or the block would be empty.
Tick(n) ==
  LET h == parsed[n] + 1 IN
  /\ AtTick(n)
  /\ IsMySlot(n, h) => \E b \in OfferedBlocks(n, h) : b.txs = <<>>
  /\ handled' = [handled EXCEPT ![n] = 0]
  /\ UNCHANGED <<hive, parsed, indexing, saved, dbVars, crashes, fetchErrors, blockVars>>

\* The slot is this node's: it builds its block and sends out the proposal.
Propose(n) ==
  LET h == parsed[n] + 1 IN
  /\ AtTick(n) /\ IsMySlot(n, h)
  /\ \E b \in OfferedBlocks(n, h) :
       /\ b.txs # <<>>
       /\ proposing' = [proposing EXCEPT ![n] =
                          [slot |-> h, block |-> b, at |-> HiveHead, signers |-> {n}]]
  /\ UNCHANGED <<indexVars, mempool>>

\* The off-chain transactions a proposal names.
Offered(b) == [i \in DOMAIN Inputs(b) |-> Inputs(b)[i].txs[1]]

\* A member looks at a proposal of a slot about where Hive was when it was sent,
\* and waits until it has parsed that slot.
TakesUp(m, p) ==
  /\ p.slot \in (p.at - RoundLength + 1)..(p.at + RoundLength - 1)
  /\ parsed[m] >= p.slot

\* The blocks it may then sign: one it builds of its own with the transactions
\* named, if it has them all.
OwnBlocks(m, p) ==
  {b \in Blocks(m, p.slot, Offered(p.block)) :
     \A t \in Elems(Offered(p.block)) : status[m][t] = "UNCONFIRMED"}

\* Member m answers the proposal of n, which adds a signature to those it has if
\* it is one of its own block (any other does not verify).
Sign(m, n) ==
  LET p == proposing[n] IN
  /\ p # NoProposal
  /\ m \notin p.signers
  /\ TakesUp(m, p)
  /\ p.block \in OwnBlocks(m, p)
  /\ proposing' = [proposing EXCEPT ![n].signers = @ \cup {m}]
  /\ UNCHANGED <<indexVars, mempool>>

\* More than 67% of the weight has signed.
Passes(signers) == 100 * WeightOf(signers) > 67 * WeightOf(Node)

\* The proposer stops waiting, and broadcasts if enough weight has signed.
EndProposal(n) ==
  LET p == proposing[n] IN
  /\ p # NoProposal
  /\ mempool' =
       IF Passes(p.signers)
       THEN mempool \cup {[op |-> BlockOp(n, p.block, p.signers), until |-> HiveHead + Expiry]}
       ELSE mempool
  /\ proposing' = [proposing EXCEPT ![n] = NoProposal]
  /\ handled' = [handled EXCEPT ![n] = 0]
  /\ UNCHANGED <<hive, parsed, indexing, saved, dbVars, crashes, fetchErrors>>

-------------------------------------------------------------------------------
Crash(n) == Restart(n) /\ proposing' = [proposing EXCEPT ![n] = NoProposal]
            /\ UNCHANGED mempool

Next ==
  \/ HiveBlock
  \/ \E n \in Node :
       \/ \E t \in Tx : Announce(n, t) /\ UNCHANGED blockVars
       \/ IndexStep(n) /\ UNCHANGED blockVars
       \/ Tick(n) \/ Propose(n) \/ EndProposal(n) \/ Crash(n)
       \/ \E m \in Node : Sign(m, n)

Spec == Init /\ [][Next]_vars

-------------------------------------------------------------------------------
(* Properties. *)

\* The type invariant; while a proposal is awaited nothing else is handled.
BlockTypeOK ==
  /\ \A h \in 1..HiveHead : Len(hive[h]) =< OpsPerBlock
  /\ \A n \in Node :
       /\ parsed[n] \in 0..HiveHead /\ saved[n] \in 0..parsed[n]
       /\ handled[n] \in NotTicked..OpsPerBlock
       /\ indexing[n] \in Nat
       /\ status[n] \in [Tx -> Status]
       /\ anchor[n] \in [Tx -> [height : 0..HiveHead, index : Nat]]
       /\ nonce[n] \in Nat
       /\ contract[n] \in Seq(Call)
       /\ proposing[n] # NoProposal =>
            handled[n] = NotTicked /\ proposing[n].signers \subseteq Node

\* Every block was indexed under the slot it was built for.  Nothing in the code
\* sees to this: a block is indexed under the slot of the Hive block it got into, and
\* one that comes late is taken for one of a later slot when that is its witness's
\* too.  It may then overlap with those in between.
InOwnSlots == \A n \in Node : \A x \in headers[n] : x.block.end = x.slot

\* What the properties below suppose: no node has crashed, no fetch has failed, and
\* no block was indexed under a later slot.
AllWell == crashes = 0 /\ fetchErrors = 0 /\ InOwnSlots

\* The VSC blocks a node has indexed cover Hive without gap or overlap, each
\* going on where the block of an earlier slot ended.  createBlock derives the
\* range from the proposer's database; nothing in the indexer checks it.
RangesContiguous == AllWell =>
  \A n \in Node : \A x \in headers[n] \ {FirstHeader} :
    /\ \E y \in headers[n] : y.block.end + 1 = x.block.start /\ y.slot < x.slot
    /\ \A y \in headers[n] \ {x} : y.block.start # x.block.start

\* No two inputs of a key carry the same nonce: createBlock takes nonces from
\* the proposer's nonce_map, the indexer checks none.  (After a failure two may: the
\* header is written first and the nonces last, and a block whose header is there
\* is not indexed again.)
NonceUsedOnce == AllWell =>
  \A n \in Node : \A x, y \in headers[n] :
    \A i \in DOMAIN Inputs(x.block), j \in DOMAIN Inputs(y.block) :
      NonceOf[Offered(x.block)[i]] = NonceOf[Offered(y.block)[j]] => x = y /\ i = j

\* The contract's state never results from executing a call twice, although a
\* transaction lies in the windows of two blocks when it is at their border.
\* (Restarts can set such a one INCLUDED again, and have it executed again.)
ExecutedOnce == AllWell => \A n \in Node : IsInjective(contract[n])

\* No nonce is used and no transaction executed by two blocks.
NothingTwice == NonceUsedOnce /\ ExecutedOnce

Settled(n) ==
  [t \in DOMAIN status[n] |->
     IF status[n][t] \in {"NONE", "UNCONFIRMED"} THEN "NONE" ELSE status[n][t]]

\* Nodes that stand at the same place of Hive have the same database: what
\* indexing does depends on Hive alone, not on a node's pool or its delays.
\* (One that handles operations again after a crash is ahead of its place.)
NodesAgree == crashes = 0 /\ fetchErrors = 0 =>
  \A n, m \in Node :
    parsed[n] = parsed[m] /\ handled[n] = handled[m] /\ indexing[n] = indexing[m] =>
      /\ headers[n] = headers[m] /\ nonce[n] = nonce[m]
      /\ contract[n] = contract[m] /\ Settled(n) = Settled(m)

\* A transaction reported as confirmed or failed stays so, until a node that has
\* crashed handles its operation again, or one that missed the events which failed
\* it, or a block that came late, has it executed after all.
StatusFinal ==
  [][AllWell => \A n \in Node : \A t \in DOMAIN status[n] :
       status[n][t] \in {"CONFIRMED", "FAILED"} => status'[n][t] = status[n][t]]_vars

\* Only a transaction whose execution dispatched no event is failed by the
\* events of a block.
OnlyInvalidFail ==
  \A n \in Node, t \in Tx : status[n][t] = "FAILED" => t \in Invalid

-------------------------------------------------------------------------------
(* Indexing implements a replicated log.  The log is what a node that       *)
(* handled all of Hive would have, a node's copy the headers it has.        *)

AddBlock(log, h, op) ==
  IF op.kind = "block" /\ Accepts(Elems(log), h, op)
  THEN Append(log, HeaderAt(SlotOf(h), op))
  ELSE log

\* The log after the operations of Hive block h.
AddBlocks(log, h, ops) ==
  LET after[i \in 0..Len(ops)] ==
        IF i = 0 THEN log ELSE AddBlock(after[i - 1], h, ops[i])
  IN after[Len(ops)]

Decided ==
  LET after[h \in 0..HiveHead] ==
        IF h = 0 THEN <<FirstHeader>>
        ELSE AddBlocks(after[h - 1], h, hive[h])
  IN after[HiveHead]

\* The headers of a node by slot, the order in which they were indexed.
Copy(n) ==
  [i \in 1..Cardinality(headers[n]) |->
     CHOOSE x \in headers[n] : Cardinality({y \in headers[n] : y.slot < x.slot}) = i - 1]

Copies == [n \in Node |-> Copy(n)]

Log == INSTANCE ReplicatedLog WITH First <- FirstHeader, log <- Decided, copy <- Copies

\* Every node's headers are at all times a prefix of those Hive decides,
\* through crashes at any step and the replays that follow them, as long as no
\* fetch has failed.
LogSpec ==
  Log!Init /\ [][fetchErrors' = 0 => [Log!Next]_<<Decided, Copies>>]_<<hive, headers>>
===============================================================================
