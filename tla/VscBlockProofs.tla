----------------------------- MODULE VscBlockProofs -----------------------------
(***************************************************************************)
(* Proofs about VscBlock for every value of its constants: nodes that have  *)
(* handled the same part of Hive have the same database, and the headers    *)
(* of all nodes are copies of one log, the one ReplicatedLog describes.  If *)
(* no witness is scheduled again while a block of its may still get into    *)
(* Hive, blocks follow each other, nothing is executed and no nonce used    *)
(* twice, and what is reported as confirmed or failed stays so.             *)
(***************************************************************************)
EXTENDS VscBlock, SumTheorems

-------------------------------------------------------------------------------
(* What is always so. *)

HiveOK ==
  /\ \E T : hive \in Seq(T)
  /\ \A h \in 1..HiveHead : Len(hive[h]) \in Nat
  /\ IsFiniteSet(mempool)

\* Where nodes are: in the middle of a block only while they handle its
\* operation, and at the start of one while they propose.
PlaceOK ==
  /\ parsed \in [Node -> Nat] /\ handled \in [Node -> Int] /\ indexing \in [Node -> Nat]
  /\ saved \in [Node -> Nat]
  /\ \A n \in Node : /\ parsed[n] =< HiveHead /\ saved[n] =< parsed[n]
                     /\ indexing[n] # 0 => Handling(n) /\ OpAt(n).kind = "block"

ProposingOK ==
  /\ proposing = [n \in Node |-> proposing[n]]
  /\ \A n \in Node : proposing[n] # NoProposal =>
       handled[n] = NotTicked /\ parsed[n] < HiveHead

DbOK ==
  /\ headers = [n \in Node |-> headers[n]]
  /\ status \in [Node -> [Tx -> Status]]
  /\ anchor = [n \in Node |-> [t \in Tx |-> anchor[n][t]]]
  /\ nonce = [n \in Node |-> nonce[n]]
  /\ contract = [n \in Node |-> contract[n]]

BlocksOK ==
  HiveOK /\ PlaceOK /\ ProposingOK /\ DbOK /\ crashes \in Nat /\ fetchErrors \in Nat

\* The assumptions on the constants, one by one.
LEMMA Assumed ==
  /\ IsFiniteSet(Node) /\ IsFiniteSet(Tx) /\ HiveTx \subseteq Tx
  /\ RoundLength \in Nat \ {0} /\ OpsPerBlock \in Nat
  BY IndexAssumption, BlockAssumption

\* The initial state is typed.
LEMMA BlocksInit == Init => BlocksOK
<1> SUFFICES ASSUME Init PROVE BlocksOK
  OBVIOUS
<1> USE DEF Init, IndexInit
<1>1. HiveOK
  BY FS_EmptySet DEF HiveOK, HiveHead
<1>2. PlaceOK
  BY DEF PlaceOK, NotTicked, HiveHead
<1>3. ProposingOK
  BY DEF ProposingOK
<1>4. DbOK
  BY DEF DbOK, Status
<1> QED
  BY <1>1, <1>2, <1>3, <1>4 DEF BlocksOK

\* The image of a finite set is finite.
LEMMA FiniteImage ==
  ASSUME NEW S, IsFiniteSet(S), NEW f
  PROVE  IsFiniteSet({f[x] : x \in S})
<1> DEFINE T == {f[x] : x \in S}
           g == [x \in S |-> f[x]]
<1>1. g \in Surjection(S, T)
  BY DEF Surjection
<1> QED
  BY <1>1, FS_Surjection

\* What can get into the next Hive block is finite.
LEMMA CandidatesFinite == ASSUME BlocksOK PROVE IsFiniteSet(Candidates)
<1> DEFINE Sent == {m.op : m \in {x \in mempool : x.until > HiveHead}}
           Txs == {TxOp(t) : t \in HiveTx \ OnHive}
<1>1. IsFiniteSet(Txs)
  <2>1. IsFiniteSet(HiveTx \ OnHive)
    BY Assumed, FS_Subset
  <2> DEFINE f == [t \in HiveTx \ OnHive |-> TxOp(t)]
  <2>2. IsFiniteSet({f[t] : t \in HiveTx \ OnHive})
    BY <2>1, FiniteImage
  <2> QED
    BY <2>2
<1>2. IsFiniteSet(Sent)
  <2> DEFINE M == {x \in mempool : x.until > HiveHead}
             f == [m \in M |-> m.op]
  <2>1. IsFiniteSet(M)
    BY FS_Subset DEF BlocksOK, HiveOK
  <2>2. IsFiniteSet({f[m] : m \in M})
    BY <2>1, FiniteImage
  <2> QED
    BY <2>2
<1>3. Candidates = Txs \cup Sent
  BY DEF Candidates
<1> QED
  BY <1>1, <1>2, <1>3, FS_Union

\* Hive grows at its end, by a sequence of operations.
LEMMA HiveGrows ==
  ASSUME BlocksOK, HiveBlock
  PROVE  /\ HiveHead' = HiveHead + 1 /\ HiveHead \in Nat
         /\ \A h \in 1..HiveHead : hive'[h] = hive[h]
         /\ HiveOK'
<1>1. PICK T : hive \in Seq(T)
  BY DEF BlocksOK, HiveOK
<1>2. PICK S \in SUBSET Candidates :
        /\ Cardinality(S) =< OpsPerBlock
        /\ \E ops \in SetToSeqs(S) : hive' = Append(hive, ops)
        /\ mempool' \subseteq mempool
  BY DEF HiveBlock
<1>3. IsFiniteSet(S)
  BY CandidatesFinite, FS_Subset
<1>4. PICK ops \in SetToSeqs(S) : hive' = Append(hive, ops)
  BY <1>2
<1>5. Len(ops) \in Nat
  <2>1. Cardinality(S) \in Nat
    BY <1>3, FS_CardinalityType
  <2>2. ops \in [1..Cardinality(S) -> S]
    BY DEF SetToSeqs
  <2> QED
    BY <2>1, <2>2
<1>6. hive' \in Seq(T \cup {ops}) /\ Len(hive') = Len(hive) + 1 /\ Len(hive) \in Nat
      /\ \A h \in 1..Len(hive) : hive'[h] = hive[h]
      /\ hive'[Len(hive) + 1] = ops
  BY <1>1, <1>4
<1>7. IsFiniteSet(mempool')
  BY <1>2, FS_Subset DEF BlocksOK, HiveOK
<1> QED
  BY <1>5, <1>6, <1>7 DEF BlocksOK, HiveOK, HiveHead

\* Every step keeps the types.
LEMMA BlocksStep == BlocksOK /\ [Next]_vars => BlocksOK'
<1> SUFFICES ASSUME BlocksOK, [Next]_vars PROVE BlocksOK'
  OBVIOUS
<1>0. HiveHead \in Nat /\ NotTicked \in Int /\ NotTicked < 0
  <2>1. PICK T : hive \in Seq(T)
    BY DEF BlocksOK, HiveOK
  <2> QED
    BY <2>1 DEF HiveHead, NotTicked
<1>1. CASE HiveBlock
  <2>1. HiveOK' /\ HiveHead' = HiveHead + 1 /\ \A h \in 1..HiveHead : hive'[h] = hive[h]
    BY <1>1, HiveGrows
  <2>2. UNCHANGED <<parsed, handled, indexing, saved, dbVars, crashes, fetchErrors, proposing>>
    BY <1>1 DEF HiveBlock
  <2>3. ASSUME NEW n \in Node, indexing[n] # 0
        PROVE  (Handling(n) /\ OpAt(n).kind = "block")'
    <3>1. Handling(n) /\ OpAt(n).kind = "block" /\ parsed[n] \in Nat
      BY <2>3 DEF BlocksOK, PlaceOK
    <3>2. parsed[n] + 1 \in 1..HiveHead
      BY <1>0, <3>1 DEF Handling
    <3>3. hive'[parsed[n] + 1] = hive[parsed[n] + 1]
      BY <2>1, <3>2
    <3> QED
      BY <1>0, <2>1, <2>2, <3>1, <3>3 DEF Handling, OpAt
  <2>4. PlaceOK'
    BY <1>0, <2>1, <2>2, <2>3 DEF BlocksOK, PlaceOK
  <2>5. ProposingOK'
    BY <1>0, <2>1, <2>2 DEF BlocksOK, ProposingOK, PlaceOK
  <2> QED
    BY <2>1, <2>2, <2>4, <2>5 DEF BlocksOK, DbOK, dbVars
<1>2. ASSUME NEW n \in Node, NEW t \in Tx, Announce(n, t), UNCHANGED blockVars
      PROVE  BlocksOK'
  <2>1. DbOK'
    BY <1>2 DEF Announce, BlocksOK, DbOK, Status
  <2> QED
    BY <1>2, <2>1 DEF Announce, blockVars, BlocksOK, HiveOK, HiveHead, PlaceOK, Handling, OpAt, ProposingOK
<1>3. ASSUME NEW n \in Node, IndexStep(n), UNCHANGED blockVars
      PROVE  BlocksOK'
  <2>1. hive' = hive /\ crashes' = crashes /\ fetchErrors' \in Nat /\ UNCHANGED <<mempool, proposing>>
    <3>1. UNCHANGED <<mempool, proposing>> /\ fetchErrors \in Nat
      BY <1>3 DEF blockVars, BlocksOK
    <3>2. UNCHANGED <<hive, crashes>>
      BY <1>3, Zenon DEF IndexStep, ParseTx, RejectBlock, IndexHeader, IndexInput, IndexOutput,
            IndexEvents, IndexAnchorRef, IndexNonces, FetchFails, FinishBlock
    <3>3. fetchErrors' = fetchErrors \/ fetchErrors' = fetchErrors + 1
      BY <1>3, Zenon DEF IndexStep, ParseTx, RejectBlock, IndexHeader, IndexInput, IndexOutput,
            IndexEvents, IndexAnchorRef, IndexNonces, FetchFails, FinishBlock
    <3> QED
      BY <3>1, <3>2, <3>3
  <2>2. DbOK'
    <3>1. /\ headers' = [k \in Node |-> headers'[k]]
          /\ nonce' = [k \in Node |-> nonce'[k]] /\ contract' = [k \in Node |-> contract'[k]]
      BY <1>3 DEF IndexStep, ParseTx, RejectBlock, IndexHeader, IndexInput, IndexOutput, IndexEvents,
                  IndexAnchorRef, IndexNonces, FetchFails, FinishBlock, BlocksOK, DbOK, dbVars
    <3>2. anchor' = [k \in Node |-> [t \in Tx |-> anchor'[k][t]]]
      <4>1. ASSUME NEW t, NEW a, anchor' = [anchor EXCEPT ![n][t] = a]
            PROVE  anchor' = [k \in Node |-> [u \in Tx |-> anchor'[k][u]]]
        <5>1. anchor = [k \in Node |-> [u \in Tx |-> anchor[k][u]]]
          BY DEF BlocksOK, DbOK
        <5> QED
          BY <4>1, <5>1
      <4>2. CASE ParseTx(n)
        BY <4>1, <4>2 DEF ParseTx
      <4>3. CASE IndexInput(n)
        BY <4>1, <4>3 DEF IndexInput
      <4>4. CASE anchor' = anchor
        BY <4>4 DEF BlocksOK, DbOK
      <4> QED
        BY <1>3, <4>2, <4>3, <4>4 DEF IndexStep, RejectBlock, IndexHeader, IndexOutput, IndexEvents,
             IndexAnchorRef, IndexNonces, FetchFails, FinishBlock, dbVars
    <3>3. status' \in [Node -> [Tx -> Status]]
      <4> status \in [Node -> [Tx -> Status]]
        BY DEF BlocksOK, DbOK
      <4>1. ASSUME NEW t, status' = [status EXCEPT ![n][t] = "INCLUDED"]
            PROVE  status' \in [Node -> [Tx -> Status]]
        BY <4>1 DEF Status
      <4>2. CASE ParseTx(n)
        BY <4>1, <4>2 DEF ParseTx
      <4>3. CASE IndexInput(n)
        BY <4>1, <4>3 DEF IndexInput
      <4>4. CASE IndexOutput(n)
        BY <4>4 DEF IndexOutput, Status
      <4>5. CASE IndexEvents(n)
        BY <4>5 DEF IndexEvents, Status
      <4>6. CASE status' = status
        BY <4>6
      <4> QED
        BY <1>3, <4>2, <4>3, <4>4, <4>5, <4>6 DEF IndexStep, RejectBlock, IndexHeader,
             IndexAnchorRef, IndexNonces, FetchFails, FinishBlock, dbVars
    <3> QED
      BY <3>1, <3>2, <3>3 DEF DbOK
  <2>3. PlaceOK'
    <3>1. CASE /\ UNCHANGED <<parsed, saved, indexing>> /\ indexing[n] = 0
               /\ handled' = [handled EXCEPT ![n] = @ + 1]
      BY <2>1, <3>1 DEF BlocksOK, PlaceOK, Handling, OpAt, HiveHead
    <3>2. CASE /\ UNCHANGED <<parsed, saved, handled>> /\ Handling(n) /\ OpAt(n).kind = "block"
               /\ indexing' = [indexing EXCEPT ![n] = @ + 1]
      BY <2>1, <3>2 DEF BlocksOK, PlaceOK, Handling, OpAt, HiveHead
    <3>3. CASE /\ UNCHANGED <<parsed, saved>> /\ indexing' = [indexing EXCEPT ![n] = 0]
               /\ handled' = [handled EXCEPT ![n] = @ + 1]
      BY <2>1, <3>3 DEF BlocksOK, PlaceOK, Handling, OpAt, HiveHead
    <3>4. CASE FinishBlock(n)
      <4>1. indexing[n] = 0
        <5>1. parsed[n] + 1 \in 1..HiveHead
          BY <1>0, <3>4 DEF FinishBlock, BlocksOK, PlaceOK
        <5>2. Len(hive[parsed[n] + 1]) \in Nat
          BY <5>1 DEF BlocksOK, HiveOK
        <5> QED
          BY <3>4, <5>2 DEF FinishBlock, BlocksOK, PlaceOK, Handling
      <4>2. /\ parsed' = [parsed EXCEPT ![n] = @ + 1] /\ handled' = [handled EXCEPT ![n] = NotTicked]
            /\ indexing' = indexing /\ parsed[n] < HiveHead /\ HiveHead' = HiveHead
            /\ (saved' = [saved EXCEPT ![n] = saved[n]] \/ saved' = [saved EXCEPT ![n] = parsed[n] + 1])
        BY <2>1, <3>4 DEF FinishBlock, HiveHead
      <4>3. saved' \in [Node -> Nat] /\ \A k \in Node : saved'[k] =< parsed'[k] /\ parsed'[k] =< HiveHead
        BY <1>0, <4>2 DEF BlocksOK, PlaceOK
      <4> QED
        BY <1>0, <2>1, <4>1, <4>2, <4>3 DEF BlocksOK, PlaceOK, Handling, OpAt
    <3>5. ASSUME NEW type, AtEntry(n, type) PROVE Handling(n) /\ OpAt(n).kind = "block"
      BY <3>5 DEF AtEntry, BlocksOK, PlaceOK
    <3>6. indexing[n] = 0 => [indexing EXCEPT ![n] = 1] = [indexing EXCEPT ![n] = @ + 1]
      OBVIOUS
    <3> QED
      BY <1>3, <3>1, <3>2, <3>3, <3>4, <3>5, <3>6
      DEF IndexStep, ParseTx, RejectBlock, IndexHeader, IndexInput, IndexOutput, IndexEvents,
          IndexAnchorRef, IndexNonces, FetchFails
  <2>4. ProposingOK'
    <3>1. ASSUME proposing[n] # NoProposal PROVE FALSE
      <4>1. handled[n] = NotTicked /\ parsed[n] < HiveHead /\ ~Handling(n)
        BY <1>0, <3>1 DEF BlocksOK, ProposingOK, Handling
      <4>2. indexing[n] = 0
        BY <4>1 DEF BlocksOK, PlaceOK
      <4>3. FinishBlock(n)
        BY <1>3, <4>1, <4>2 DEF IndexStep, ParseTx, RejectBlock, IndexHeader, IndexInput, IndexOutput,
             IndexEvents, IndexAnchorRef, IndexNonces, FetchFails, AtEntry
      <4>4. parsed[n] + 1 \in 1..HiveHead
        BY <1>0, <4>1 DEF BlocksOK, PlaceOK
      <4> QED
        BY <1>0, <4>1, <4>3, <4>4 DEF FinishBlock, BlocksOK, HiveOK
    <3>2. ASSUME NEW k \in Node, k # n PROVE handled'[k] = handled[k] /\ parsed'[k] = parsed[k]
      BY <1>3, <3>2 DEF IndexStep, ParseTx, RejectBlock, IndexHeader, IndexInput, IndexOutput, IndexEvents,
                  IndexAnchorRef, IndexNonces, FetchFails, FinishBlock, BlocksOK, PlaceOK
    <3> QED
      BY <2>1, <3>1, <3>2 DEF BlocksOK, ProposingOK, HiveHead
  <2> QED
    BY <2>1, <2>2, <2>3, <2>4 DEF BlocksOK, HiveOK, HiveHead
<1>4. ASSUME NEW n \in Node, Tick(n) PROVE BlocksOK'
  BY <1>0, <1>4 DEF Tick, AtTick, blockVars, dbVars, BlocksOK, HiveOK, HiveHead, PlaceOK, Handling,
       OpAt, ProposingOK, DbOK
<1>5. ASSUME NEW n \in Node, Propose(n) PROVE BlocksOK'
  <2>1. ProposingOK'
    <3>1. PICK p : proposing' = [proposing EXCEPT ![n] = p]
      BY <1>5 DEF Propose
    <3> QED
      BY <1>5, <3>1 DEF Propose, AtTick, indexVars, BlocksOK, ProposingOK, HiveHead
  <2> QED
    BY <1>5, <2>1 DEF Propose, indexVars, BlocksOK, HiveOK, HiveHead, PlaceOK, Handling, OpAt, DbOK
<1>6. ASSUME NEW m \in Node, NEW n \in Node, Sign(m, n) PROVE BlocksOK'
  <2>1. ProposingOK'
    <3>1. PICK p : proposing' = [proposing EXCEPT ![n] = p] /\ proposing[n] # NoProposal
      BY <1>6, Zenon DEF Sign
    <3> QED
      BY <1>6, <3>1 DEF Sign, indexVars, BlocksOK, ProposingOK, HiveHead
  <2> QED
    BY <1>6, <2>1 DEF Sign, indexVars, BlocksOK, HiveOK, HiveHead, PlaceOK, Handling, OpAt, DbOK
<1>7. ASSUME NEW n \in Node, EndProposal(n) PROVE BlocksOK'
  <2>1. IsFiniteSet(mempool')
    <3>1. PICK x : mempool' = mempool \cup {x} \/ mempool' = mempool
      BY <1>7 DEF EndProposal
    <3> QED
      BY <3>1, FS_AddElement DEF BlocksOK, HiveOK
  <2>2. handled[n] = NotTicked /\ indexing[n] = 0
    BY <1>0, <1>7 DEF EndProposal, BlocksOK, ProposingOK, PlaceOK, Handling
  <2>3. PlaceOK'
    BY <1>0, <1>7, <2>2 DEF EndProposal, BlocksOK, PlaceOK, Handling, OpAt, HiveHead
  <2>4. ProposingOK'
    BY <1>7 DEF EndProposal, BlocksOK, ProposingOK, HiveHead, PlaceOK
  <2> QED
    BY <1>7, <2>1, <2>3, <2>4 DEF EndProposal, BlocksOK, HiveOK, HiveHead, DbOK, dbVars
<1>8. ASSUME NEW n \in Node, Crash(n) PROVE BlocksOK'
  <2>1. PlaceOK'
    BY <1>0, <1>8 DEF Crash, Restart, BlocksOK, PlaceOK, Handling, OpAt, HiveHead
  <2>2. ProposingOK'
    BY <1>8 DEF Crash, Restart, BlocksOK, ProposingOK, HiveHead, PlaceOK
  <2> QED
    BY <1>8, <2>1, <2>2 DEF Crash, Restart, BlocksOK, HiveOK, HiveHead, DbOK, dbVars
<1>9. CASE UNCHANGED vars
  BY <1>9 DEF vars, indexVars, BlocksOK, HiveOK, HiveHead, PlaceOK, Handling, OpAt, ProposingOK, DbOK
<1> QED
  BY <1>1, <1>2, <1>3, <1>4, <1>5, <1>6, <1>7, <1>8, <1>9 DEF Next

-------------------------------------------------------------------------------
(* What a node does next follows from where it is and from its database, a  *)
(* transaction's being known and not being known taken for the same.        *)

Place(n) == [parsed |-> parsed[n], handled |-> handled[n], indexing |-> indexing[n]]

Data(n) == [headers |-> headers[n], status |-> Settled(n), anchor |-> anchor[n],
            nonce |-> nonce[n], contract |-> contract[n]]

\* The next place and the next database, on a chain H.
Enters(H, p, d) ==
  LET op == H[p.parsed + 1][p.handled + 1]
  IN /\ op.kind = "block"
     /\ IF p.indexing = 0 THEN Accepts(d.headers, p.parsed + 1, op)
                          ELSE p.indexing \in DOMAIN op.block.txs

Move(H, p, d) ==
  IF p.handled = NotTicked THEN [parsed |-> p.parsed, handled |-> 0, indexing |-> 0]
  ELSE IF p.handled = Len(H[p.parsed + 1])
  THEN [parsed |-> p.parsed + 1, handled |-> NotTicked, indexing |-> 0]
  ELSE IF Enters(H, p, d)
  THEN [parsed |-> p.parsed, handled |-> p.handled, indexing |-> p.indexing + 1]
  ELSE [parsed |-> p.parsed, handled |-> p.handled + 1, indexing |-> 0]

Marked(f, t, v) == [x \in Tx |-> IF x = t THEN v ELSE f[x]]

WithStatus(d, s, a) ==
  [headers |-> d.headers, status |-> s, anchor |-> a, nonce |-> d.nonce, contract |-> d.contract]

\* What an entry of block b changes.
Entered(d, b, k) ==
  LET e == b.txs[k]
      within(t) == /\ d.status[t] = "INCLUDED"
                   /\ d.anchor[t].height \in (b.start - 1)..b.end
  IN IF e.type = "input"
     THEN WithStatus(d, Marked(d.status, e.txs[1], "INCLUDED"),
                     Marked(d.anchor, e.txs[1], [height |-> b.end, index |-> k - 1]))
     ELSE IF e.type = "output"
     THEN [headers |-> d.headers, nonce |-> d.nonce, anchor |-> d.anchor, contract |-> e.state,
           status |-> [t \in Tx |-> IF t \in Elems(e.txs) THEN "CONFIRMED" ELSE d.status[t]]]
     ELSE IF e.type = "events"
     THEN WithStatus(d, [t \in Tx |-> IF ~within(t) THEN d.status[t]
                                      ELSE IF t \in Elems(e.txs) THEN "CONFIRMED" ELSE "FAILED"],
                     d.anchor)
     ELSE d

Change(H, p, d) ==
  LET h == p.parsed + 1
      op == H[h][p.handled + 1]
      in == Inputs(op.block)
  IN IF p.handled = NotTicked \/ p.handled = Len(H[h]) THEN d
     ELSE IF op.kind = "tx"
     THEN WithStatus(d, Marked(d.status, op.tx, "INCLUDED"),
                     Marked(d.anchor, op.tx, [height |-> h, index |-> p.handled]))
     ELSE IF p.indexing = 0
     THEN IF Enters(H, p, d)
          THEN [headers |-> d.headers \cup {HeaderAt(SlotOf(h), op)}, status |-> d.status,
                anchor |-> d.anchor, nonce |-> d.nonce, contract |-> d.contract]
          ELSE d
     ELSE IF Enters(H, p, d) THEN Entered(d, op.block, p.indexing)
     ELSE [headers |-> d.headers, status |-> d.status, anchor |-> d.anchor, contract |-> d.contract,
           nonce |-> IF in = <<>> THEN d.nonce ELSE NonceOf[in[Len(in)].txs[1]] + 1]

\* A node's step is that one.
Follows(n) ==
  /\ parsed[n] < HiveHead
  /\ Place(n)' = Move(hive, Place(n), Data(n))
  /\ Data(n)' = Change(hive, Place(n), Data(n))

Stays(n) == Place(n)' = Place(n) /\ Data(n)' = Data(n)

\* A node in the middle of a block is at none of its ends.
LEMMA AtOperation ==
  ASSUME BlocksOK, NEW n \in Node, Handling(n)
  PROVE  /\ handled[n] # NotTicked /\ handled[n] # Len(hive[parsed[n] + 1])
         /\ parsed[n] < HiveHead /\ handled[n] \in Nat
<1>1. PICK T : hive \in Seq(T)
  BY DEF BlocksOK, HiveOK
<1>2. parsed[n] + 1 \in 1..HiveHead
  BY <1>1 DEF BlocksOK, PlaceOK, Handling, HiveHead
<1>3. Len(hive[parsed[n] + 1]) \in Nat
  BY <1>2 DEF BlocksOK, HiveOK
<1> QED
  BY <1>3 DEF Handling, NotTicked

\* What is settled of the transactions of a node.
LEMMA SettledIs ==
  ASSUME BlocksOK, NEW n \in Node
  PROVE  /\ Settled(n) = [t \in Tx |-> IF status[n][t] \in {"NONE", "UNCONFIRMED"} THEN "NONE"
                                       ELSE status[n][t]]
         /\ \A t \in Tx : (Settled(n)[t] = "INCLUDED") = (status[n][t] = "INCLUDED")
  BY DEF BlocksOK, DbOK, Settled

\* Where a step leaves a node.
LEMMA PlaceIs ==
  ASSUME BlocksOK, BlocksOK', NEW n \in Node, NEW b, NEW i, NEW k,
         parsed' = [parsed EXCEPT ![n] = b], handled' = [handled EXCEPT ![n] = i],
         indexing' = [indexing EXCEPT ![n] = k]
  PROVE  Place(n)' = [parsed |-> b, handled |-> i, indexing |-> k]
  BY DEF BlocksOK, PlaceOK, Place

\* Parsing a transaction follows the one run of the chain.
LEMMA TxFollows ==
  ASSUME BlocksOK, BlocksOK', NEW n \in Node, ParseTx(n)
  PROVE  Follows(n)
<1> DEFINE t == OpAt(n).tx
           a == [height |-> parsed[n] + 1, index |-> handled[n]]
<1>1. /\ handled[n] # NotTicked /\ handled[n] # Len(hive[parsed[n] + 1]) /\ parsed[n] < HiveHead
      /\ OpAt(n).kind = "tx" /\ indexing[n] = 0
  BY AtOperation DEF ParseTx
<1>2. Place(n)' = [parsed |-> parsed[n], handled |-> handled[n] + 1, indexing |-> 0]
  BY <1>1 DEF ParseTx, Place, BlocksOK, PlaceOK
<1>3. Settled(n)' = Marked(Settled(n), t, "INCLUDED")
  <2>1. status' = [status EXCEPT ![n][t] = "INCLUDED"]
    BY DEF ParseTx
  <2>2. status \in [Node -> [Tx -> Status]] /\ status' \in [Node -> [Tx -> Status]]
    BY DEF BlocksOK, DbOK
  <2> QED
    BY <2>1, <2>2 DEF Settled, Marked, Status
<1>4. anchor'[n] = Marked(anchor[n], t, a)
  <2>1. anchor' = [anchor EXCEPT ![n][t] = a]
    BY DEF ParseTx
  <2>2. anchor = [k \in Node |-> [x \in Tx |-> anchor[k][x]]]
    BY DEF BlocksOK, DbOK
  <2> QED
    BY <2>1, <2>2 DEF Marked
<1>5. Data(n)' = WithStatus(Data(n), Marked(Settled(n), t, "INCLUDED"), Marked(anchor[n], t, a))
  BY <1>3, <1>4 DEF ParseTx, Data, WithStatus
<1>6. Change(hive, Place(n), Data(n))
      = WithStatus(Data(n), Marked(Settled(n), t, "INCLUDED"), Marked(anchor[n], t, a))
  BY <1>1 DEF Change, Place, Data, OpAt
<1>7. Move(hive, Place(n), Data(n)) = [parsed |-> parsed[n], handled |-> handled[n] + 1, indexing |-> 0]
  BY <1>1 DEF Move, Place, Enters, OpAt
<1> QED
  BY <1>1, <1>2, <1>5, <1>6, <1>7 DEF Follows

\* So does rejecting or indexing a header.
LEMMA HeaderFollows ==
  ASSUME BlocksOK, BlocksOK', NEW n \in Node, RejectBlock(n) \/ IndexHeader(n)
  PROVE  Follows(n)
<1> DEFINE h == parsed[n] + 1
           d == Data(n)
<1>1. /\ handled[n] # NotTicked /\ handled[n] # Len(hive[h]) /\ parsed[n] < HiveHead
      /\ OpAt(n).kind = "block" /\ indexing[n] = 0
  BY AtOperation DEF RejectBlock, IndexHeader
<1>2. Enters(hive, Place(n), d) <=> Accepts(headers[n], h, OpAt(n))
  BY <1>1 DEF Enters, Place, Data, OpAt
<1>3. CASE RejectBlock(n)
  <2>1. Place(n)' = [parsed |-> parsed[n], handled |-> handled[n] + 1, indexing |-> 0]
    BY <1>1, <1>3 DEF RejectBlock, Place, BlocksOK, PlaceOK
  <2>2. d' = d
    BY <1>3 DEF RejectBlock, dbVars, Data, Settled
  <2>3. ~Enters(hive, Place(n), d)
    BY <1>2, <1>3 DEF RejectBlock
  <2>4. Move(hive, Place(n), d) = [parsed |-> parsed[n], handled |-> handled[n] + 1, indexing |-> 0]
    BY <1>1, <2>3 DEF Move, Place
  <2>5. Change(hive, Place(n), d) = d
    BY <1>1, <2>3 DEF Change, Place, OpAt
  <2> QED
    BY <1>1, <2>1, <2>2, <2>4, <2>5 DEF Follows
<1>4. CASE IndexHeader(n)
  <2>1. Place(n)' = [parsed |-> parsed[n], handled |-> handled[n], indexing |-> 1]
    BY <1>1, <1>4 DEF IndexHeader, Place, BlocksOK, PlaceOK
  <2>2. headers'[n] = headers[n] \cup {HeaderAt(SlotOf(h), OpAt(n))}
    BY <1>4 DEF IndexHeader, BlocksOK, DbOK
  <2>3. Enters(hive, Place(n), d)
    BY <1>2, <1>4 DEF IndexHeader
  <2>4. Move(hive, Place(n), d) = [parsed |-> parsed[n], handled |-> handled[n], indexing |-> 1]
    BY <1>1, <2>3 DEF Move, Place
  <2>5. Change(hive, Place(n), d) =
          [headers |-> headers[n] \cup {HeaderAt(SlotOf(h), OpAt(n))}, status |-> Settled(n),
           anchor |-> anchor[n], nonce |-> nonce[n], contract |-> contract[n]]
    BY <1>1, <2>3 DEF Change, Place, Data, OpAt
  <2>6. d' = Change(hive, Place(n), d)
    BY <1>4, <2>2, <2>5 DEF IndexHeader, Data, Settled
  <2> QED
    BY <1>1, <2>1, <2>4, <2>6 DEF Follows
<1> QED
  BY <1>3, <1>4

\* While a node indexes the entries of a block.
LEMMA EntryFollows ==
  ASSUME BlocksOK, BlocksOK', NEW n \in Node, NEW type, AtEntry(n, type),
         indexing' = [indexing EXCEPT ![n] = @ + 1], UNCHANGED <<parsed, handled>>,
         Data(n)' = Entered(Data(n), OpAt(n).block, indexing[n])
  PROVE  Follows(n)
<1>1. Handling(n) /\ OpAt(n).kind = "block" /\ indexing[n] # 0
  BY DEF AtEntry, BlocksOK, PlaceOK
<1>2. /\ handled[n] # NotTicked /\ handled[n] # Len(hive[parsed[n] + 1]) /\ parsed[n] < HiveHead
  BY <1>1, AtOperation
<1>3. Enters(hive, Place(n), Data(n))
  BY <1>1 DEF Enters, Place, OpAt, AtEntry, Entries
<1>4. Place(n)' = [parsed |-> parsed[n], handled |-> handled[n], indexing |-> indexing[n] + 1]
  BY DEF Place, BlocksOK, PlaceOK
<1>5. Move(hive, Place(n), Data(n))
      = [parsed |-> parsed[n], handled |-> handled[n], indexing |-> indexing[n] + 1]
  BY <1>2, <1>3 DEF Move, Place
<1>6. Change(hive, Place(n), Data(n)) = Entered(Data(n), OpAt(n).block, indexing[n])
  BY <1>1, <1>2, <1>3 DEF Change, Place, OpAt
<1> QED
  BY <1>2, <1>4, <1>5, <1>6 DEF Follows

\* So does indexing an input.
LEMMA InputFollows ==
  ASSUME BlocksOK, BlocksOK', NEW n \in Node, IndexInput(n)
  PROVE  Follows(n)
<1> DEFINE b == OpAt(n).block
           t == b.txs[indexing[n]].txs[1]
           a == [height |-> b.end, index |-> indexing[n] - 1]
<1>1. Settled(n)' = Marked(Settled(n), t, "INCLUDED")
  <2>1. status' = [status EXCEPT ![n][t] = "INCLUDED"]
    BY DEF IndexInput
  <2>2. status \in [Node -> [Tx -> Status]] /\ status' \in [Node -> [Tx -> Status]]
    BY DEF BlocksOK, DbOK
  <2> QED
    BY <2>1, <2>2 DEF Settled, Marked, Status
<1>2. anchor'[n] = Marked(anchor[n], t, a)
  <2>1. anchor' = [anchor EXCEPT ![n][t] = a]
    BY DEF IndexInput
  <2>2. anchor = [k \in Node |-> [x \in Tx |-> anchor[k][x]]]
    BY DEF BlocksOK, DbOK
  <2> QED
    BY <2>1, <2>2 DEF Marked
<1>3. AtEntry(n, "input") /\ b.txs[indexing[n]].type = "input"
  BY DEF IndexInput, AtEntry, Entries
<1>4. Data(n)' = Entered(Data(n), b, indexing[n])
  BY <1>1, <1>2, <1>3 DEF IndexInput, Data, Entered, WithStatus
<1> QED
  BY <1>3, <1>4, EntryFollows DEF IndexInput

\* So does indexing an output.
LEMMA OutputFollows ==
  ASSUME BlocksOK, BlocksOK', NEW n \in Node, IndexOutput(n)
  PROVE  Follows(n)
<1> DEFINE b == OpAt(n).block
           e == b.txs[indexing[n]]
<1>1. AtEntry(n, "output") /\ e.type = "output"
  BY DEF IndexOutput, AtEntry, Entries
<1>2. contract'[n] = e.state
  BY DEF IndexOutput, Entries, BlocksOK, DbOK
<1>3. status'[n] = [t \in Tx |-> IF t \in Elems(e.txs) THEN "CONFIRMED" ELSE status[n][t]]
  BY DEF IndexOutput, Entries, BlocksOK, DbOK
<1>4. Settled(n)' = [t \in Tx |-> IF t \in Elems(e.txs) THEN "CONFIRMED" ELSE Settled(n)[t]]
  BY <1>3, SettledIs DEF Settled
<1>5. Data(n)' = Entered(Data(n), b, indexing[n])
  BY <1>1, <1>2, <1>4 DEF IndexOutput, Data, Entered
<1> QED
  BY <1>1, <1>5, EntryFollows DEF IndexOutput

\* So does indexing the events.
LEMMA EventsFollow ==
  ASSUME BlocksOK, BlocksOK', NEW n \in Node, IndexEvents(n)
  PROVE  Follows(n)
<1> DEFINE b == OpAt(n).block
           e == b.txs[indexing[n]]
<1>1. AtEntry(n, "events") /\ e.type = "events"
  BY DEF IndexEvents, AtEntry, Entries
<1>2. status'[n] = [t \in Tx |-> IF ~InRange(n, b, t) THEN status[n][t]
                                 ELSE IF t \in Elems(e.txs) THEN "CONFIRMED" ELSE "FAILED"]
  BY DEF IndexEvents, BlocksOK, DbOK
<1>3. Settled(n)' = [t \in Tx |-> IF ~InRange(n, b, t) THEN Settled(n)[t]
                                  ELSE IF t \in Elems(e.txs) THEN "CONFIRMED" ELSE "FAILED"]
  BY <1>2, SettledIs DEF Settled
<1>4. \A t \in Tx : InRange(n, b, t) <=>
        Settled(n)[t] = "INCLUDED" /\ anchor[n][t].height \in (b.start - 1)..b.end
  BY SettledIs DEF InRange
<1>5. Data(n)' = Entered(Data(n), b, indexing[n])
  BY <1>1, <1>3, <1>4 DEF IndexEvents, Data, Entered, WithStatus
<1> QED
  BY <1>1, <1>5, EntryFollows DEF IndexEvents

\* So does indexing an anchor reference.
LEMMA AnchorRefFollows ==
  ASSUME BlocksOK, BlocksOK', NEW n \in Node, IndexAnchorRef(n)
  PROVE  Follows(n)
<1>1. AtEntry(n, "anchor_ref") /\ OpAt(n).block.txs[indexing[n]].type = "anchor_ref"
  BY DEF IndexAnchorRef, AtEntry, Entries
<1>2. Data(n)' = Data(n)
  BY DEF IndexAnchorRef, dbVars, Data, Settled
<1>3. Data(n)' = Entered(Data(n), OpAt(n).block, indexing[n])
  BY <1>1, <1>2 DEF Entered
<1> QED
  BY <1>1, <1>3, EntryFollows DEF IndexAnchorRef

\* So does indexing the nonces.
LEMMA NoncesFollow ==
  ASSUME BlocksOK, BlocksOK', NEW n \in Node, IndexNonces(n)
  PROVE  Follows(n)
<1> DEFINE b == OpAt(n).block
           in == Inputs(b)
           new == IF in = <<>> THEN nonce[n] ELSE NonceOf[in[Len(in)].txs[1]] + 1
<1>1. Handling(n) /\ OpAt(n).kind = "block" /\ indexing[n] # 0 /\ indexing[n] \notin DOMAIN b.txs
  BY DEF IndexNonces, Entries, BlocksOK, PlaceOK
<1>2. /\ handled[n] # NotTicked /\ handled[n] # Len(hive[parsed[n] + 1]) /\ parsed[n] < HiveHead
  BY <1>1, AtOperation
<1>3. ~Enters(hive, Place(n), Data(n))
  BY <1>1 DEF Enters, Place, OpAt
<1>4. nonce'[n] = new
  BY DEF IndexNonces, NextNonce, BlocksOK, DbOK
<1>5. Place(n)' = [parsed |-> parsed[n], handled |-> handled[n] + 1, indexing |-> 0]
  BY DEF IndexNonces, Place, BlocksOK, PlaceOK
<1>6. Move(hive, Place(n), Data(n)) = [parsed |-> parsed[n], handled |-> handled[n] + 1, indexing |-> 0]
  BY <1>2, <1>3 DEF Move, Place
<1>7. Change(hive, Place(n), Data(n)) =
        [headers |-> headers[n], status |-> Settled(n), anchor |-> anchor[n],
         contract |-> contract[n], nonce |-> new]
  BY <1>1, <1>2, <1>3 DEF Change, Place, Data, OpAt
<1>8. Data(n)' = Change(hive, Place(n), Data(n))
  BY <1>4, <1>7 DEF IndexNonces, Data, Settled
<1> QED
  BY <1>2, <1>5, <1>6, <1>8 DEF Follows

\* So do the end of a block, a tick and the end of a proposal.
LEMMA EndsFollow ==
  ASSUME BlocksOK, BlocksOK', NEW n \in Node, FinishBlock(n) \/ Tick(n) \/ EndProposal(n)
  PROVE  Follows(n)
<1>1. Data(n)' = Data(n)
  BY DEF FinishBlock, Tick, EndProposal, dbVars, Data, Settled
<1>2. CASE FinishBlock(n)
  <2>1. parsed[n] < HiveHead /\ handled[n] = Len(hive[parsed[n] + 1])
    BY <1>2 DEF FinishBlock
  <2>2. handled[n] # NotTicked /\ indexing[n] = 0
    <3>1. PICK T : hive \in Seq(T)
      BY DEF BlocksOK, HiveOK
    <3>2. parsed[n] + 1 \in 1..HiveHead
      BY <2>1, <3>1 DEF BlocksOK, PlaceOK, HiveHead
    <3>3. Len(hive[parsed[n] + 1]) \in Nat
      BY <3>2 DEF BlocksOK, HiveOK
    <3> QED
      BY <2>1, <3>3 DEF NotTicked, BlocksOK, PlaceOK, Handling
  <2>3. Place(n)' = [parsed |-> parsed[n] + 1, handled |-> NotTicked, indexing |-> 0]
    BY <1>2, <2>2 DEF FinishBlock, Place, BlocksOK, PlaceOK
  <2> QED
    BY <1>1, <2>1, <2>2, <2>3 DEF Follows, Move, Change, Place
<1>3. CASE Tick(n) \/ EndProposal(n)
  <2>1. parsed[n] < HiveHead /\ handled[n] = NotTicked
    BY <1>3 DEF Tick, AtTick, EndProposal, BlocksOK, ProposingOK
  <2>2. indexing[n] = 0
    BY <2>1 DEF NotTicked, BlocksOK, PlaceOK, Handling
  <2>3. Place(n)' = [parsed |-> parsed[n], handled |-> 0, indexing |-> 0]
    BY <1>3, <2>2 DEF Tick, EndProposal, Place, BlocksOK, PlaceOK
  <2> QED
    BY <1>1, <2>1, <2>3 DEF Follows, Move, Change, Place
<1> QED
  BY <1>2, <1>3

-------------------------------------------------------------------------------
(* As long as nothing failed, there is one run through Hive that all nodes  *)
(* are on: it says for every place that has been reached with which         *)
(* database, and goes on from each but the last as a node there does.       *)

Places == [parsed : Nat, handled : Int, indexing : Nat]

UpTo(p, q) ==
  \/ p.parsed < q.parsed
  \/ p.parsed = q.parsed /\ p.handled < q.handled
  \/ p.parsed = q.parsed /\ p.handled = q.handled /\ p.indexing =< q.indexing

IsRun(F, last) ==
  /\ last \in DOMAIN F /\ DOMAIN F \subseteq Places
  /\ \A p \in DOMAIN F : UpTo(p, last)
  /\ \A p \in DOMAIN F \ {last} :
       /\ p.parsed < HiveHead
       /\ Move(hive, p, F[p]) \in DOMAIN F
       /\ F[Move(hive, p, F[p])] = Change(hive, p, F[p])

OnRun(F) == \A n \in Node : Place(n) \in DOMAIN F /\ Data(n) = F[Place(n)]

OneRun == \E F, last : IsRun(F, last) /\ OnRun(F)

AgreeInv == BlocksOK /\ (crashes = 0 /\ fetchErrors = 0 => OneRun)

\* A move goes forward.
LEMMA MovesOn ==
  ASSUME NEW p \in Places, NEW H, NEW d
  PROVE  /\ Move(H, p, d) \in Places
         /\ ~UpTo(Move(H, p, d), p) /\ UpTo(p, Move(H, p, d))
  BY DEF Places, Move, UpTo, NotTicked

\* The order of the places is transitive.
LEMMA UpToTransitive ==
  ASSUME NEW p \in Places, NEW q \in Places, NEW r \in Places, UpTo(p, q), UpTo(q, r)
  PROVE  UpTo(p, r)
  BY DEF Places, UpTo

\* A node is at a place.
LEMMA PlaceType ==
  ASSUME BlocksOK, NEW n \in Node
  PROVE  Place(n) \in Places
  BY DEF BlocksOK, PlaceOK, Place, Places

\* A longer chain does not change what happened on it.
LEMMA RunOnLonger ==
  ASSUME BlocksOK, HiveBlock, NEW F, NEW last, IsRun(F, last)
  PROVE  IsRun(F, last)'
<1>1. HiveHead' = HiveHead + 1 /\ HiveHead \in Nat /\ \A h \in 1..HiveHead : hive'[h] = hive[h]
  BY HiveGrows
<1>2. ASSUME NEW p \in DOMAIN F \ {last}
      PROVE  /\ p.parsed < HiveHead'
             /\ Move(hive', p, F[p]) = Move(hive, p, F[p])
             /\ Change(hive', p, F[p]) = Change(hive, p, F[p])
  <2>1. p.parsed \in Nat /\ p.parsed < HiveHead
    BY DEF IsRun, Places
  <2>2. hive'[p.parsed + 1] = hive[p.parsed + 1]
    BY <1>1, <2>1
  <2> QED
    BY <1>1, <2>1, <2>2 DEF Move, Change, Enters
<1> QED
  BY <1>2 DEF IsRun

\* The run with one place more, the next one after p, or just the run when it has
\* that already.
Prolongs(G, F, p) ==
  LET q == Move(hive, p, F[p]) IN
  /\ DOMAIN G = DOMAIN F \cup {q} /\ G[q] = Change(hive, p, F[p])
  /\ \A x \in DOMAIN F : G[x] = F[x]

\* A node that goes on stays on the run, or it was at the end and prolongs it.
LEMMA RunProlonged ==
  ASSUME BlocksOK, NEW F, NEW last, IsRun(F, last), OnRun(F), hive' = hive,
         NEW n \in Node, Follows(n), \A m \in Node \ {n} : Stays(m)
  PROVE  \E G, l : IsRun(G, l)' /\ OnRun(G)' /\ Prolongs(G, F, Place(n))
<1>2. PICK p, q, d : p = Place(n) /\ q = Move(hive, p, F[p]) /\ d = Change(hive, p, F[p])
  OBVIOUS
<1>3. p \in DOMAIN F /\ Data(n) = F[p] /\ Place(n)' = q /\ Data(n)' = d /\ p.parsed < HiveHead
  BY <1>2 DEF OnRun, Follows, Place
<1>4. HiveHead' = HiveHead
  BY DEF HiveHead
<1>5. CASE p # last
  <2>1. IsRun(F, last)'
    BY <1>4 DEF IsRun
  <2>2. q \in DOMAIN F /\ F[q] = d
    BY <1>2, <1>3, <1>5 DEF IsRun
  <2>3. OnRun(F)'
    BY <1>3, <2>2 DEF OnRun, Stays
  <2>4. Prolongs(F, F, p)
    BY <1>2, <2>2 DEF Prolongs
  <2> QED
    BY <1>2, <2>1, <2>3, <2>4
<1>6. CASE p = last
  <2>1. p \in Places /\ q \in Places /\ ~UpTo(q, p) /\ UpTo(p, q)
    BY <1>2, <1>3, MovesOn DEF IsRun
  <2>2. q \notin DOMAIN F
    BY <1>6, <2>1 DEF IsRun
  <2>3. PICK G : G = [x \in DOMAIN F \cup {q} |-> IF x = q THEN d ELSE F[x]]
    OBVIOUS
  <2>4. DOMAIN G = DOMAIN F \cup {q} /\ G[q] = d /\ \A x \in DOMAIN F : G[x] = F[x]
    BY <2>2, <2>3
  <2>5. \A x \in DOMAIN F : UpTo(x, q)
    BY <1>6, <2>1, UpToTransitive DEF IsRun
  <2>6. UpTo(q, q)
    BY <2>1 DEF UpTo, Places
  <2>7. ASSUME NEW x \in DOMAIN F
        PROVE  /\ x.parsed < HiveHead
               /\ Move(hive, x, G[x]) \in DOMAIN G
               /\ G[Move(hive, x, G[x])] = Change(hive, x, G[x])
    BY <1>2, <1>3, <1>6, <2>4 DEF IsRun
  <2>8. IsRun(G, q)'
    BY <1>4, <2>1, <2>4, <2>5, <2>6, <2>7 DEF IsRun
  <2>9. OnRun(G)'
    BY <1>3, <2>4 DEF OnRun, Stays
  <2>10. Prolongs(G, F, p)
    BY <1>2, <2>4 DEF Prolongs
  <2> QED
    BY <1>2, <2>8, <2>9, <2>10
<1> QED
  BY <1>5, <1>6

\* It is still one run.
LEMMA RunGoesOn ==
  ASSUME BlocksOK, OneRun, hive' = hive, NEW n \in Node, Follows(n),
         \A m \in Node \ {n} : Stays(m)
  PROVE  OneRun'
<1>1. PICK F, last : IsRun(F, last) /\ OnRun(F)
  BY DEF OneRun
<1>2. PICK G, l : IsRun(G, l)' /\ OnRun(G)'
  BY <1>1, RunProlonged
<1> QED
  BY <1>2 DEF OneRun

\* There is still one run when no node leaves the place it is at.
LEMMA RunStays ==
  ASSUME OneRun, hive' = hive, \A m \in Node : Stays(m)
  PROVE  OneRun'
<1>1. PICK F, last : IsRun(F, last) /\ OnRun(F)
  BY DEF OneRun
<1>2. IsRun(F, last)' /\ OnRun(F)'
  BY <1>1 DEF IsRun, OnRun, Stays, HiveHead
<1> QED
  BY <1>2 DEF OneRun

\* What the other nodes do leaves a node where it is.
LEMMA OthersStay ==
  ASSUME BlocksOK, BlocksOK', NEW n \in Node, NEW m \in Node \ {n},
         IndexStep(n) \/ Tick(n) \/ EndProposal(n)
  PROVE  Stays(m)
<1>1. /\ parsed'[m] = parsed[m] /\ handled'[m] = handled[m] /\ indexing'[m] = indexing[m]
      /\ headers'[m] = headers[m] /\ status'[m] = status[m] /\ nonce'[m] = nonce[m]
      /\ contract'[m] = contract[m]
  BY DEF IndexStep, ParseTx, RejectBlock, IndexHeader, IndexInput, IndexOutput, IndexEvents,
         IndexAnchorRef, IndexNonces, FetchFails, FinishBlock, Tick, EndProposal, dbVars,
         BlocksOK, DbOK, PlaceOK
<1>2. anchor'[m] = anchor[m]
  <2>1. ASSUME NEW t, NEW a, anchor' = [anchor EXCEPT ![n][t] = a]
        PROVE  anchor'[m] = anchor[m]
    <3>1. anchor = [k \in Node |-> [u \in Tx |-> anchor[k][u]]]
      BY DEF BlocksOK, DbOK
    <3> QED
      BY <2>1, <3>1
  <2>2. CASE ParseTx(n)
    BY <2>1, <2>2 DEF ParseTx
  <2>3. CASE IndexInput(n)
    BY <2>1, <2>3 DEF IndexInput
  <2> QED
    BY <2>2, <2>3 DEF IndexStep, RejectBlock, IndexHeader, IndexOutput, IndexEvents,
       IndexAnchorRef, IndexNonces, FetchFails, FinishBlock, Tick, EndProposal, dbVars
<1> QED
  BY <1>1, <1>2 DEF Stays, Place, Data, Settled

\* The inductive invariant of NodesAgree holds at the start.
LEMMA AgreeInit == Init => AgreeInv
<1> SUFFICES ASSUME Init PROVE AgreeInv
  OBVIOUS
<1>1. BlocksOK
  BY BlocksInit
<1>2. CASE Node = {}
  <2>1. PICK p, F : p = [parsed |-> 0, handled |-> NotTicked, indexing |-> 0] /\ F = [x \in {p} |-> 0]
    OBVIOUS
  <2>2. IsRun(F, p) /\ OnRun(F)
    BY <1>2, <2>1 DEF IsRun, OnRun, Places, UpTo, NotTicked
  <2> QED
    BY <1>1, <2>2 DEF AgreeInv, OneRun
<1>3. CASE Node # {}
  <2>1. PICK k \in Node : TRUE
    BY <1>3
  <2>2. \A n \in Node : Place(n) = Place(k) /\ Data(n) = Data(k)
    BY DEF Init, IndexInit, Place, Data, Settled
  <2>3. PICK F : F = [x \in {Place(k)} |-> Data(k)]
    OBVIOUS
  <2>4. IsRun(F, Place(k)) /\ OnRun(F)
    BY <1>1, <2>2, <2>3, PlaceType DEF IsRun, OnRun, UpTo, Places
  <2> QED
    BY <1>1, <2>4 DEF AgreeInv, OneRun
<1> QED
  BY <1>2, <1>3

\* Every step keeps it.
LEMMA AgreeStep == AgreeInv /\ [Next]_vars => AgreeInv'
<1> SUFFICES ASSUME AgreeInv, [Next]_vars PROVE AgreeInv'
  OBVIOUS
<1>1. BlocksOK /\ BlocksOK'
  BY BlocksStep DEF AgreeInv
<1>2. SUFFICES ASSUME crashes' = 0, fetchErrors' = 0 PROVE OneRun'
  BY <1>1 DEF AgreeInv
<1>3. crashes \in Nat /\ fetchErrors \in Nat
  BY <1>1 DEF BlocksOK
<1>4. CASE HiveBlock
  <2>1. \A n \in Node : Stays(n)
    BY <1>4 DEF HiveBlock, dbVars, Stays, Place, Data, Settled
  <2>2. OneRun
    BY <1>2, <1>4 DEF HiveBlock, AgreeInv
  <2>3. PICK F, last : IsRun(F, last) /\ OnRun(F)
    BY <2>2 DEF OneRun
  <2>4. IsRun(F, last)' /\ OnRun(F)'
    BY <1>1, <1>4, <2>1, <2>3, RunOnLonger DEF OnRun, Stays
  <2> QED
    BY <2>4 DEF OneRun
<1>5. ASSUME NEW n \in Node, NEW t \in Tx, Announce(n, t), UNCHANGED blockVars PROVE OneRun'
  <2>1. status' = [status EXCEPT ![n][t] = "UNCONFIRMED"] /\ status[n][t] = "NONE"
    BY <1>5 DEF Announce
  <2>2. status \in [Node -> [Tx -> Status]] /\ status' \in [Node -> [Tx -> Status]]
    BY <1>1 DEF BlocksOK, DbOK
  <2>3. \A m \in Node : Settled(m)' = Settled(m)
    BY <2>1, <2>2 DEF Settled
  <2>4. \A m \in Node : Stays(m)
    BY <1>5, <2>3 DEF Announce, Stays, Place, Data
  <2> QED
    BY <1>2, <1>5, <2>4, RunStays DEF Announce, AgreeInv
<1>6. ASSUME NEW n \in Node, IndexStep(n) \/ Tick(n) \/ EndProposal(n) PROVE OneRun'
  <2>0. ~FetchFails(n)
    <3>1. ASSUME FetchFails(n) PROVE fetchErrors' = fetchErrors + 1
      BY <3>1 DEF FetchFails
    <3> QED
      BY <1>2, <1>3, <3>1
  <2>4. crashes' = crashes /\ hive' = hive /\ fetchErrors' = fetchErrors
    BY <1>6, <2>0 DEF IndexStep, ParseTx, RejectBlock, IndexHeader, IndexInput, IndexOutput,
       IndexEvents, IndexAnchorRef, IndexNonces, FinishBlock, Tick, EndProposal
  <2>1. crashes = 0 /\ fetchErrors = 0 /\ hive' = hive /\ ~FetchFails(n)
    BY <1>2, <2>0, <2>4
  <2>2. Follows(n)
    BY <1>1, <1>6, <2>1, TxFollows, HeaderFollows, InputFollows, OutputFollows, EventsFollow,
       AnchorRefFollows, NoncesFollow, EndsFollow DEF IndexStep
  <2>3. \A m \in Node \ {n} : Stays(m)
    BY <1>1, <1>6, OthersStay
  <2> QED
    BY <1>1, <2>1, <2>2, <2>3, RunGoesOn DEF AgreeInv
<1>7. ASSUME NEW n \in Node, Crash(n) PROVE FALSE
  BY <1>2, <1>3, <1>7 DEF Crash, Restart
<1>8. CASE UNCHANGED indexVars
  <2>1. \A m \in Node : Stays(m)
    BY <1>8 DEF indexVars, Stays, Place, Data, Settled
  <2> QED
    BY <1>2, <1>8, <2>1, RunStays DEF indexVars, AgreeInv
<1> QED
  BY <1>4, <1>5, <1>6, <1>7, <1>8 DEF Next, Propose, Sign, vars

\* Nodes that stand at the same place of Hive have the same database, whichever
\* transactions have reached their pools, whatever they propose and sign, and
\* however far behind the others they were: for any nodes, weights, schedule,
\* transactions and operations on Hive, as long as nothing fails.
THEOREM NodesHaveOneDatabase == Spec => []NodesAgree
<1>1. AgreeInv => NodesAgree
  <2> SUFFICES ASSUME AgreeInv, crashes = 0, fetchErrors = 0, NEW n \in Node, NEW m \in Node,
                      parsed[n] = parsed[m], handled[n] = handled[m], indexing[n] = indexing[m]
               PROVE  /\ headers[n] = headers[m] /\ nonce[n] = nonce[m]
                      /\ contract[n] = contract[m] /\ Settled(n) = Settled(m)
    BY DEF NodesAgree
  <2>1. Data(n) = Data(m)
    BY DEF AgreeInv, OneRun, OnRun, Place
  <2> QED
    BY <2>1 DEF Data
<1> QED
  BY <1>1, AgreeInit, AgreeStep, PTL DEF Spec

-------------------------------------------------------------------------------
(* The log. *)

\* A later height is of the same slot or of a later one.
LEMMA SlotsGrow ==
  ASSUME NEW a \in Nat, NEW b \in Nat, a =< b
  PROVE  SlotOf(a) \in Nat /\ SlotOf(a) =< SlotOf(b) /\ SlotOf(0) = 0
<1> DEFINE L == RoundLength
           p == a \div L
           q == b \div L
<1>1. L \in Nat \ {0}
  BY Assumed
<1>2. p \in Nat /\ q \in Nat /\ a = L * p + (a % L) /\ b = L * q + (b % L)
      /\ a % L \in 0..(L - 1) /\ b % L \in 0..(L - 1)
  BY <1>1
<1>3. p =< q
  <2>1. ASSUME q < p PROVE FALSE
    <3>1. L * (q + 1) =< L * p /\ L * (q + 1) = L * q + L
      BY <1>1, <1>2, <2>1
    <3> QED
      BY <1>1, <1>2, <3>1
  <2> QED
    BY <1>2, <2>1
<1>4. L * p =< L * q /\ L * p \in Nat /\ L * q \in Nat
  BY <1>1, <1>2, <1>3
<1>5. 0 % L = 0
  BY <1>1
<1> QED
  BY <1>1, <1>2, <1>4, <1>5 DEF SlotOf

\* The first operation of a Hive block that goes into the log.
Fits(log, h, op) == op.kind = "block" /\ Accepts(Elems(log), h, op)

First(log, h, ops, i) ==
  i \in 1..Len(ops) /\ Fits(log, h, ops[i]) /\ \A j \in 1..(i - 1) : ~Fits(log, h, ops[j])

Grown(log, h, ops, i) == Append(log, HeaderAt(SlotOf(h), ops[i]))

\* A log that has an entry of a slot takes no other of it.
LEMMA SlotTaken ==
  ASSUME NEW T, NEW log \in Seq(T), NEW h, NEW op, NEW other
  PROVE  ~Fits(Append(log, HeaderAt(SlotOf(h), other)), h, op)
<1> DEFINE x == HeaderAt(SlotOf(h), other)
           new == Append(log, x)
<1>1. x.slot = SlotOf(h)
  BY DEF HeaderAt
<1> HIDE DEF x
<1>2. new \in Seq(T \cup {x}) /\ Len(new) = Len(log) + 1 /\ new[Len(log) + 1] = x
  OBVIOUS
<1>3. x \in Elems(new)
  BY <1>2 DEF Elems
<1> QED
  BY <1>1, <1>3 DEF Fits, Accepts, x

\* So that a Hive block adds its first fitting operation, or nothing.
LEMMA AddsFirst ==
  ASSUME NEW T, NEW log \in Seq(T), NEW h, NEW ops, Len(ops) \in Nat
  PROVE  /\ \A i : First(log, h, ops, i) => AddBlocks(log, h, ops) = Grown(log, h, ops, i)
         /\ (\A i \in 1..Len(ops) : ~Fits(log, h, ops[i])) => AddBlocks(log, h, ops) = log
<1> DEFINE N == Len(ops)
           Rec(f) == f = [i \in 0..N |-> IF i = 0 THEN log ELSE AddBlock(f[i - 1], h, ops[i])]
           after == CHOOSE f : Rec(f)
<1>1. AddBlocks(log, h, ops) = after[N]
  BY DEF AddBlocks
<1>2. ASSUME NEW g, Rec(g) PROVE after[N] = g[N]
  <2>1. Rec(after)
    BY <1>2
  <2> DEFINE Bad == {i \in 0..N : after[i] # g[i]}
  <2>2. ASSUME Bad # {} PROVE FALSE
    <3>1. PICK m \in Bad : \A x \in Bad : m =< x
      <4>1. Bad \subseteq Nat
        OBVIOUS
      <4> HIDE DEF Bad
      <4> QED
        BY <2>2, <4>1, LeastNat
    <3>2. CASE m = 0
      <4> HIDE DEF after
      <4> QED
        BY <1>2, <2>1, <3>1, <3>2
    <3>3. CASE m # 0
      <4>1. m - 1 \in 0..N /\ m - 1 \notin Bad /\ m \in 0..N
        BY <3>1, <3>3
      <4> HIDE DEF after
      <4> QED
        BY <1>2, <2>1, <3>1, <3>3, <4>1
    <3> QED
      BY <3>2, <3>3
  <2>3. N \in 0..N
    OBVIOUS
  <2> HIDE DEF after
  <2> QED
    BY <2>2, <2>3
<1>3. ASSUME NEW i, First(log, h, ops, i) PROVE after[N] = Grown(log, h, ops, i)
  <2> DEFINE new == Grown(log, h, ops, i)
             g == [k \in 0..N |-> IF k < i THEN log ELSE new]
  <2>1. i \in 1..N
    BY <1>3 DEF First
  <2>2. ASSUME NEW k \in 1..N PROVE g[k] = AddBlock(g[k - 1], h, ops[k])
    <3>1. CASE k < i
      BY <1>3, <2>1, <3>1 DEF First, AddBlock, Fits
    <3>2. CASE k = i
      <4>1. g[k - 1] = log /\ g[k] = new
        BY <2>1, <3>2
      <4>2. Fits(log, h, ops[k])
        BY <1>3, <3>2 DEF First
      <4> QED
        BY <3>2, <4>1, <4>2 DEF AddBlock, Fits, Grown
    <3>3. CASE k > i
      <4>1. g[k - 1] = new /\ g[k] = new
        BY <2>1, <3>3
      <4>2. ~Fits(new, h, ops[k])
        BY SlotTaken DEF Grown
      <4> QED
        BY <4>1, <4>2 DEF AddBlock, Fits
    <3> QED
      BY <2>1, <3>1, <3>2, <3>3
  <2>3. g[0] = log
    BY <2>1
  <2>4. Rec(g)
    <3>1. ASSUME NEW k \in 0..N PROVE g[k] = IF k = 0 THEN log ELSE AddBlock(g[k - 1], h, ops[k])
      <4> HIDE DEF g
      <4> QED
        BY <2>2, <2>3
    <3>2. g = [k \in 0..N |-> g[k]]
      OBVIOUS
    <3> HIDE DEF g
    <3> QED
      BY <3>1, <3>2
  <2>5. g[N] = new
    BY <2>1
  <2> HIDE DEF g, Rec, after
  <2> QED
    BY <1>2, <2>4, <2>5
<1>4. ASSUME \A i \in 1..Len(ops) : ~Fits(log, h, ops[i]) PROVE after[N] = log
  <2> DEFINE g == [k \in 0..N |-> log]
  <2>1. Rec(g)
    BY <1>4 DEF AddBlock, Fits
  <2>2. g[N] = log
    OBVIOUS
  <2> HIDE DEF g, Rec, after
  <2> QED
    BY <1>2, <2>1, <2>2
<1> QED
  BY <1>1, <1>3, <1>4

\* An operation that fits is, or is after, the first one that does.
LEMMA FirstExists ==
  ASSUME NEW log, NEW h, NEW ops, Len(ops) \in Nat, NEW j \in 1..Len(ops), Fits(log, h, ops[j])
  PROVE  \E i \in 1..j : First(log, h, ops, i)
<1> DEFINE S == {i \in 1..Len(ops) : Fits(log, h, ops[i])}
<1>1. S \subseteq Nat /\ j \in S
  OBVIOUS
<1>2. PICK i \in S : \A x \in S : i =< x
  <2> HIDE DEF S
  <2> QED
    BY <1>1, LeastNat
<1>3. i \in 1..j /\ Fits(log, h, ops[i])
  BY <1>1, <1>2
<1>4. ASSUME NEW x \in 1..(i - 1) PROVE ~Fits(log, h, ops[x])
  BY <1>2, <1>3, <1>4
<1> QED
  BY <1>3, <1>4 DEF First

\* f says what the log was after every Hive block.
LogFn(f) ==
  /\ f = [h \in 0..HiveHead |-> f[h]]
  /\ f[0] = <<FirstHeader>>
  /\ \A h \in 1..HiveHead : f[h] = AddBlocks(f[h - 1], h, hive[h])

\* It grows, by entries of later slots.
Bounded(log, r) == \A i \in 1..Len(log) : log[i].slot \in Nat /\ log[i].slot =< r
Rising(log) == \A i, j \in 1..Len(log) : i < j => log[i].slot < log[j].slot
Extends(new, log) == Len(log) =< Len(new) /\ \A i \in 1..Len(log) : new[i] = log[i]

LogOK(f) ==
  /\ \E T : \A h \in 0..HiveHead : f[h] \in Seq(T)
  /\ \A h \in 0..HiveHead : Bounded(f[h], SlotOf(h)) /\ Rising(f[h])
  /\ \A a, b \in 0..HiveHead : a =< b => Extends(f[b], f[a])

\* The operations a node has handled or is handling of the block after parsed.
Seen(n) == IF handled[n] = NotTicked THEN 0
           ELSE IF indexing[n] # 0 THEN handled[n] + 1 ELSE handled[n]

\* A node has a part of the log, with all it has seen: more after a crash.
NodeHas(f, n, k) ==
  LET b == parsed[n]
  IN /\ k =< Len(f[HiveHead])
     /\ headers[n] = {f[HiveHead][i] : i \in 1..k}
     /\ Len(f[b]) =< k
     /\ b < HiveHead \/ handled[n] = NotTicked
     /\ b < HiveHead => \A i \in 1..Seen(n) : First(f[b], b + 1, hive[b + 1], i) => Len(f[b]) < k

OnLog(f) == LogFn(f) /\ LogOK(f) /\ \A n \in Node : \E k \in Nat : NodeHas(f, n, k)

LogInv == BlocksOK /\ (fetchErrors = 0 => \E f : OnLog(f))

\* Hive's head is a height.
LEMMA HeadType == ASSUME BlocksOK PROVE HiveHead \in Nat
<1>1. PICK T : hive \in Seq(T)
  BY DEF BlocksOK, HiveOK
<1> QED
  BY <1>1 DEF HiveHead

\* The decided log is that of Hive's head, by whichever function gives the logs.
LEMMA DecidedIs ==
  ASSUME BlocksOK, NEW f, LogFn(f)
  PROVE  Decided = f[HiveHead]
<1> DEFINE N == HiveHead
           Rec(g) == g = [h \in 0..N |-> IF h = 0 THEN <<FirstHeader>>
                                          ELSE AddBlocks(g[h - 1], h, hive[h])]
           after == CHOOSE g : Rec(g)
<1>1. Decided = after[N] /\ N \in Nat
  BY HeadType DEF Decided
<1>2. Rec(f)
  <2>1. ASSUME NEW h \in 0..N
        PROVE  f[h] = IF h = 0 THEN <<FirstHeader>> ELSE AddBlocks(f[h - 1], h, hive[h])
    <3>1. h = 0 \/ h \in 1..N
      BY <1>1
    <3> QED
      BY <3>1 DEF LogFn
  <2> QED
    BY <2>1 DEF LogFn
<1>3. Rec(after)
  BY <1>2
<1> DEFINE Bad == {h \in 0..N : after[h] # f[h]}
<1>4. ASSUME Bad # {} PROVE FALSE
  <2>1. PICK m \in Bad : \A x \in Bad : m =< x
    <3>1. Bad \subseteq Nat
      BY <1>1
    <3> HIDE DEF Bad
    <3> QED
      BY <1>4, <3>1, LeastNat
  <2> HIDE DEF after
  <2>2. CASE m = 0
    BY <1>1, <1>2, <1>3, <2>1, <2>2
  <2>3. CASE m # 0
    <3>1. m - 1 \in 0..N /\ m - 1 \notin Bad /\ m \in 0..N
      BY <1>1, <2>1, <2>3
    <3> QED
      BY <1>1, <1>2, <1>3, <2>1, <2>3, <3>1
  <2> QED
    BY <2>2, <2>3
<1>5. N \in 0..N
  BY <1>1
<1> HIDE DEF after
<1> QED
  BY <1>1, <1>4, <1>5

\* A log goes on by an entry of a later slot.
LEMMA LogGoesOn ==
  ASSUME NEW T, NEW D \in Seq(T), NEW x, NEW s \in Nat, NEW r \in Nat, s =< r,
         Bounded(D, s), Rising(D), \A i \in 1..Len(D) : D[i].slot # r, x.slot = r,
         NEW E, E = Append(D, x)
  PROVE  E \in Seq(T \cup {x}) /\ Extends(E, D) /\ Bounded(E, r) /\ Rising(E)
<1>1. /\ Len(D) \in Nat /\ E \in Seq(T \cup {x}) /\ Len(E) = Len(D) + 1
      /\ E[Len(D) + 1] = x /\ \A i \in 1..Len(D) : E[i] = D[i]
  <2>1. D \in Seq(T \cup {x}) /\ x \in T \cup {x}
    OBVIOUS
  <2> QED
    BY <2>1
<1>2. ASSUME NEW i \in 1..Len(E) PROVE E[i].slot \in Nat /\ E[i].slot =< r
  <2>1. CASE i = Len(D) + 1
    BY <1>1, <2>1
  <2>2. CASE i # Len(D) + 1
    <3>1. i \in 1..Len(D) /\ E[i] = D[i]
      BY <1>1, <2>2
    <3>2. D[i].slot \in Nat /\ D[i].slot =< s
      BY <3>1 DEF Bounded
    <3> QED
      BY <3>1, <3>2
  <2> QED
    BY <2>1, <2>2
<1>3. ASSUME NEW i \in 1..Len(E), NEW j \in 1..Len(E), i < j PROVE E[i].slot < E[j].slot
  <2>1. i \in 1..Len(D) /\ E[i] = D[i]
    BY <1>1, <1>3
  <2>2. CASE j = Len(D) + 1
    <3>1. D[i].slot \in Nat /\ D[i].slot =< s /\ D[i].slot # r
      BY <2>1 DEF Bounded
    <3> QED
      BY <1>1, <2>1, <2>2, <3>1
  <2>3. CASE j # Len(D) + 1
    <3>1. j \in 1..Len(D) /\ E[j] = D[j]
      BY <1>1, <2>3
    <3> QED
      BY <1>3, <2>1, <3>1 DEF Rising
  <2> QED
    BY <2>2, <2>3
<1> QED
  BY <1>1, <1>2, <1>3 DEF Bounded, Rising, Extends

\* What goes on where a log was goes on where that one goes on.
LEMMA ExtendsTrans ==
  ASSUME NEW new, NEW mid, NEW old, Len(new) \in Nat, Len(mid) \in Nat, Len(old) \in Nat,
         Extends(new, mid), Extends(mid, old)
  PROVE  Extends(new, old)
BY DEF Extends

\* It stays well formed when the next entry goes on where it was.
LEMMA LogExtends ==
  ASSUME BlocksOK, NEW f, LogOK(f), NEW h, h = HiveHead + 1, HiveHead' = h,
         NEW g, \A a \in 0..HiveHead : g[a] = f[a],
         NEW T, g[h] \in Seq(T), Bounded(g[h], SlotOf(h)), Rising(g[h]),
         Extends(g[h], f[HiveHead])
  PROVE  LogOK(g)'
<1>0. PICK N : N = HiveHead
  OBVIOUS
<1>1. N \in Nat /\ h = N + 1 /\ h \in 0..h /\ \A a \in 0..h : a \in 0..N \/ a = h
  BY <1>0, HeadType
<1>2. PICK U : \A a \in 0..N : f[a] \in Seq(U)
  BY <1>0 DEF LogOK
<1>3. \A a \in 0..N : g[a] = f[a]
  BY <1>0
<1>5. ASSUME NEW a \in 0..h PROVE g[a] \in Seq(T \cup U)
  <2>1. g[a] \in Seq(T) \/ g[a] \in Seq(U)
    BY <1>1, <1>2, <1>3
  <2> QED
    BY <2>1
<1>6. ASSUME NEW a \in 0..h PROVE Bounded(g[a], SlotOf(a)) /\ Rising(g[a])
  <2>1. CASE a = h
    BY <2>1
  <2>2. CASE a # h
    <3>1. a \in 0..N /\ g[a] = f[a]
      BY <1>1, <1>3, <2>2
    <3> QED
      BY <1>0, <3>1 DEF LogOK
  <2> QED
    BY <2>1, <2>2
<1>8. ASSUME NEW a \in 0..h, NEW b \in 0..h, a =< b
      PROVE  Extends(g[b], g[a])
  <2>1. CASE a = h
    <3>1. b = h /\ Len(g[h]) \in Nat
      BY <1>1, <1>8, <2>1
    <3> QED
      BY <2>1, <3>1 DEF Extends
  <2>2. CASE a # h /\ b # h
    <3>1. a \in 0..N /\ b \in 0..N /\ g[a] = f[a] /\ g[b] = f[b]
      BY <1>1, <1>3, <2>2
    <3> QED
      BY <1>0, <1>8, <3>1 DEF LogOK
  <2>3. CASE a # h /\ b = h
    <3>1. a \in 0..N /\ a =< N /\ N \in 0..N /\ g[a] = f[a]
      BY <1>1, <1>3, <2>3
    <3>2. Extends(f[N], f[a])
      BY <1>0, <3>1 DEF LogOK
    <3>3. Len(f[a]) \in Nat /\ Len(f[N]) \in Nat /\ Len(g[h]) \in Nat
      BY <1>2, <3>1
    <3>4. Extends(g[h], f[N])
      BY <1>0
    <3>5. Extends(g[h], f[a])
      BY <3>2, <3>3, <3>4, ExtendsTrans
    <3> QED
      BY <2>3, <3>1, <3>5
  <2> QED
    BY <2>1, <2>2, <2>3
<1>9. HiveHead' = h
  OBVIOUS
<1> QED
  BY <1>5, <1>6, <1>8, <1>9 DEF LogOK

\* The log after the next Hive block.
LEMMA LogGrows ==
  ASSUME BlocksOK, NEW f, LogFn(f), LogOK(f), HiveBlock,
         NEW g, g = [h \in 0..(HiveHead + 1) |->
                       IF h = HiveHead + 1 THEN AddBlocks(f[HiveHead], h, hive'[h]) ELSE f[h]]
  PROVE  /\ LogFn(g)' /\ LogOK(g)'
         /\ g[HiveHead + 1] = f[HiveHead] \/ \E x : g[HiveHead + 1] = Append(f[HiveHead], x)
<1>0. PICK N, D, h, ops : N = HiveHead /\ D = f[N] /\ h = N + 1 /\ ops = hive'[h]
  OBVIOUS
<1>1. HiveHead' = h /\ N \in Nat /\ h \in Nat /\ N =< h /\ N \in 0..N
      /\ (\A a \in 1..N : hive'[a] = hive[a]) /\ Len(ops) \in Nat
  <2>1. h \in 1..HiveHead'
    BY <1>0, HiveGrows
  <2> QED
    BY <1>0, <2>1, HiveGrows DEF HiveOK
<1>2. g[h] = AddBlocks(D, h, ops) /\ (\A a \in 0..N : g[a] = f[a]) /\ h \in 0..h
      /\ g = [a \in 0..HiveHead' |-> g[a]]
  BY <1>0, <1>1
<1>3. LogFn(g)'
  <2>1. ASSUME NEW a \in 1..h PROVE g[a] = AddBlocks(g[a - 1], a, hive'[a])
    <3>1. CASE a = h
      <4>1. a - 1 = N /\ N \in 0..N
        BY <1>0, <1>1, <3>1
      <4> QED
        BY <1>0, <1>2, <3>1, <4>1
    <3>2. CASE a # h
      <4>1. a \in 1..N /\ a - 1 \in 0..N /\ a \in 0..N
        BY <1>0, <1>1, <3>2
      <4>2. f[a] = AddBlocks(f[a - 1], a, hive[a])
        BY <1>0, <4>1 DEF LogFn
      <4> QED
        BY <1>1, <1>2, <4>1, <4>2
    <3> QED
      BY <3>1, <3>2
  <2>2. g[0] = <<FirstHeader>>
    <3>1. 0 \in 0..N
      BY <1>1
    <3> QED
      BY <1>2, <3>1 DEF LogFn
  <2> QED
    BY <1>1, <1>2, <2>1, <2>2 DEF LogFn
<1>4. PICK T : D \in Seq(T)
  BY <1>0, <1>1 DEF LogOK
<1>5. SlotOf(N) =< SlotOf(h) /\ SlotOf(h) \in Nat /\ SlotOf(N) \in Nat
  BY <1>1, SlotsGrow
<1>6. Bounded(D, SlotOf(N)) /\ Rising(D)
  BY <1>0, <1>1 DEF LogOK
<1>7. h = HiveHead + 1 /\ HiveHead' = h /\ D = f[HiveHead] /\ \A a \in 0..HiveHead : g[a] = f[a]
  BY <1>0, <1>1, <1>2
<1>8. CASE \E i : First(D, h, ops, i)
  <2>1. PICK i : First(D, h, ops, i)
    BY <1>8
  <2>2. PICK x : x = HeaderAt(SlotOf(h), ops[i])
    OBVIOUS
  <2>3. g[h] = Append(D, x)
    <3>1. AddBlocks(D, h, ops) = Grown(D, h, ops, i)
      BY <1>1, <1>4, <2>1, AddsFirst
    <3> QED
      BY <1>2, <2>2, <3>1 DEF Grown
  <2>4. \A j \in 1..Len(D) : D[j].slot # SlotOf(h)
    BY <2>1 DEF First, Fits, Accepts, Elems
  <2>5. x.slot = SlotOf(h)
    BY <2>2 DEF HeaderAt
  <2>6. g[h] \in Seq(T \cup {x}) /\ Extends(g[h], D) /\ Bounded(g[h], SlotOf(h)) /\ Rising(g[h])
    BY <1>4, <1>5, <1>6, <2>3, <2>4, <2>5, LogGoesOn
  <2>7. LogOK(g)'
    BY <1>7, <2>6, LogExtends
  <2> QED
    BY <1>3, <1>7, <2>3, <2>7
<1>9. CASE ~\E i : First(D, h, ops, i)
  <2>1. \A i \in 1..Len(ops) : ~Fits(D, h, ops[i])
    BY <1>1, <1>9, FirstExists
  <2>2. g[h] = D
    BY <1>1, <1>2, <1>4, <2>1, AddsFirst
  <2>3. ASSUME NEW k \in 1..Len(D) PROVE D[k].slot \in Nat /\ D[k].slot =< SlotOf(h)
    <3>1. D[k].slot \in Nat /\ D[k].slot =< SlotOf(N)
      BY <1>6 DEF Bounded
    <3> QED
      BY <1>5, <3>1
  <2>4. Extends(D, D) /\ Bounded(D, SlotOf(h))
    BY <1>4, <2>3 DEF Extends, Bounded
  <2>5. LogOK(g)'
    BY <1>4, <1>6, <1>7, <2>2, <2>4, LogExtends
  <2> QED
    BY <1>3, <1>7, <2>2, <2>5
<1> QED
  BY <1>8, <1>9

\* What a Hive block adds to the log, when it is one of those there are.
LEMMA NextOfLog ==
  ASSUME BlocksOK, NEW f, LogFn(f), LogOK(f), NEW b \in Nat, b < HiveHead
  PROVE  /\ Len(hive[b + 1]) \in Nat /\ Len(f[b]) \in Nat /\ Len(f[HiveHead]) \in Nat
         /\ Extends(f[HiveHead], f[b]) /\ Extends(f[HiveHead], f[b + 1])
         /\ \A i : First(f[b], b + 1, hive[b + 1], i) =>
              /\ i \in 1..Len(hive[b + 1])
              /\ Len(f[b + 1]) = Len(f[b]) + 1
              /\ f[HiveHead][Len(f[b]) + 1] = HeaderAt(SlotOf(b + 1), hive[b + 1][i])
         /\ (~\E i : First(f[b], b + 1, hive[b + 1], i)) => f[b + 1] = f[b]
<1>0. PICK N, h, D, ops : N = HiveHead /\ h = b + 1 /\ D = f[b] /\ ops = hive[h]
  OBVIOUS
<1>1. N \in Nat /\ b \in 0..N /\ h \in 0..N /\ h \in 1..N /\ N \in 0..N /\ b =< N /\ h =< N /\ h - 1 = b
  BY <1>0, HeadType
<1>2. Len(ops) \in Nat
  BY <1>0, <1>1 DEF BlocksOK, HiveOK
<1>3. PICK T : D \in Seq(T) /\ f[N] \in Seq(T) /\ f[h] \in Seq(T)
  BY <1>0, <1>1 DEF LogOK
<1>4. f[h] = AddBlocks(D, h, ops)
  BY <1>0, <1>1 DEF LogFn
<1>5. Extends(f[N], D) /\ Extends(f[N], f[h])
  BY <1>0, <1>1 DEF LogOK
<1>6. ASSUME NEW i, First(D, h, ops, i)
      PROVE  /\ i \in 1..Len(ops) /\ Len(f[h]) = Len(D) + 1
             /\ f[N][Len(D) + 1] = HeaderAt(SlotOf(h), ops[i])
  <2>1. PICK x : x = HeaderAt(SlotOf(h), ops[i])
    OBVIOUS
  <2>2. AddBlocks(D, h, ops) = Grown(D, h, ops, i)
    BY <1>2, <1>3, <1>6, AddsFirst
  <2>3. f[h] = Append(D, x)
    BY <1>4, <2>1, <2>2 DEF Grown
  <2>4. Len(f[h]) = Len(D) + 1 /\ f[h][Len(D) + 1] = x /\ Len(D) \in Nat
    BY <1>3, <2>3
  <2>5. f[N][Len(D) + 1] = f[h][Len(D) + 1]
    BY <1>5, <2>4 DEF Extends
  <2> QED
    BY <1>6, <2>1, <2>4, <2>5 DEF First
<1>7. ASSUME ~\E i : First(D, h, ops, i) PROVE f[h] = D
  <2>1. \A i \in 1..Len(ops) : ~Fits(D, h, ops[i])
    BY <1>2, <1>7, FirstExists
  <2> QED
    BY <1>2, <1>3, <1>4, <2>1, AddsFirst
<1>8. Len(D) \in Nat /\ Len(f[N]) \in Nat
  BY <1>3
<1> QED
  BY <1>0, <1>2, <1>5, <1>6, <1>7, <1>8

\* A node that goes on in the block at hand has its part of the log still, if
\* what it has now seen of that block adds nothing it does not have.
LEMMA PartStays ==
  ASSUME NEW f, NEW n, NEW k, NodeHas(f, n, k),
         hive' = hive, headers'[n] = headers[n], parsed'[n] = parsed[n],
         parsed[n] < HiveHead,
         \A i \in 1..Seen(n)' : First(f[parsed[n]], parsed[n] + 1, hive[parsed[n] + 1], i) =>
           Len(f[parsed[n]]) < k
  PROVE  NodeHas(f, n, k)'
<1>1. HiveHead' = HiveHead
  BY DEF HiveHead
<1> QED
  BY <1>1 DEF NodeHas

\* A node that does not move keeps the part of the log it has.
LEMMA PartAlone ==
  ASSUME NEW f, NEW n, NEW k, NodeHas(f, n, k),
         hive' = hive, headers'[n] = headers[n], parsed'[n] = parsed[n],
         handled'[n] = handled[n], indexing'[n] = indexing[n]
  PROVE  NodeHas(f, n, k)'
<1>1. HiveHead' = HiveHead /\ Seen(n)' = Seen(n)
  BY DEF HiveHead, Seen
<1> QED
  BY <1>1 DEF NodeHas

\* A node without entries of the block at hand has just the log before it.
LEMMA PartIs ==
  ASSUME BlocksOK, NEW f, LogOK(f), NEW n \in Node, NEW k \in Nat, NodeHas(f, n, k),
         parsed[n] < HiveHead
  PROVE  /\ Elems(f[parsed[n]]) \subseteq headers[n]
         /\ k = Len(f[parsed[n]]) => headers[n] = Elems(f[parsed[n]])
<1>0. PICK b, N, D, E : b = parsed[n] /\ N = HiveHead /\ D = f[b] /\ E = f[N]
  OBVIOUS
<1>1. N \in Nat /\ b \in Nat /\ b \in 0..N /\ N \in 0..N /\ b =< N
  BY <1>0, HeadType DEF BlocksOK, PlaceOK
<1>2. Extends(E, D) /\ \E T : D \in Seq(T) /\ E \in Seq(T)
  BY <1>0, <1>1 DEF LogOK
<1>3. Len(D) \in Nat /\ Len(E) \in Nat /\ Elems(D) = {D[i] : i \in 1..Len(D)}
  BY <1>2 DEF Elems
<1>4. headers[n] = {E[i] : i \in 1..k} /\ Len(D) =< k
  BY <1>0 DEF NodeHas
<1> QED
  BY <1>0, <1>2, <1>3, <1>4 DEF Extends

\* The operation at hand, when it adds nothing to what the node has.
LEMMA PartSees ==
  ASSUME BlocksOK, NEW f, LogOK(f), NEW n \in Node, NEW k \in Nat, NodeHas(f, n, k),
         hive' = hive, headers'[n] = headers[n], parsed'[n] = parsed[n],
         Handling(n), indexing[n] = 0, indexing'[n] = 0, handled'[n] = handled[n] + 1,
         Fits(f[parsed[n]], parsed[n] + 1, OpAt(n)) => Len(f[parsed[n]]) < k
  PROVE  NodeHas(f, n, k)'
<1>1. handled[n] \in Nat /\ parsed[n] < HiveHead
  BY DEF Handling
<1>2. Seen(n) = handled[n] /\ Seen(n)' = handled[n] + 1
  BY <1>1 DEF Seen, NotTicked
<1>3. ASSUME NEW i \in 1..Seen(n)', First(f[parsed[n]], parsed[n] + 1, hive[parsed[n] + 1], i)
      PROVE  Len(f[parsed[n]]) < k
  <2>1. CASE i = handled[n] + 1
    BY <1>3, <2>1 DEF First, OpAt
  <2>2. CASE i # handled[n] + 1
    <3>1. i \in 1..Seen(n)
      BY <1>1, <1>2, <2>2
    <3> QED
      BY <1>1, <1>3, <3>1 DEF NodeHas
  <2> QED
    BY <2>1, <2>2
<1> QED
  BY <1>1, <1>3, PartStays

\* A header goes to the end of the node's part.
LEMMA HeaderJoins ==
  ASSUME BlocksOK, NEW f, LogFn(f), LogOK(f), NEW n \in Node, NEW k \in Nat, NodeHas(f, n, k),
         IndexHeader(n)
  PROVE  k < Len(f[HiveHead]) /\ NodeHas(f, n, k + 1)'
<1>0. PICK b, h, D, E, op, ops, x :
        /\ b = parsed[n] /\ h = b + 1 /\ D = f[b] /\ E = f[HiveHead] /\ op = OpAt(n)
        /\ ops = hive[h] /\ x = HeaderAt(SlotOf(h), op)
  OBVIOUS
<1>1. /\ b \in Nat /\ b < HiveHead /\ handled[n] \in 0..(Len(ops) - 1) /\ indexing[n] = 0
      /\ op = ops[handled[n] + 1] /\ op.kind = "block" /\ Accepts(headers[n], h, op)
  BY <1>0 DEF IndexHeader, Handling, OpAt, BlocksOK, PlaceOK
<1>2. /\ Len(ops) \in Nat /\ Len(D) \in Nat /\ Len(E) \in Nat
      /\ Extends(E, D)
      /\ \A i : First(D, h, ops, i) =>
           i \in 1..Len(ops) /\ Len(f[h]) = Len(D) + 1
           /\ E[Len(D) + 1] = HeaderAt(SlotOf(h), ops[i])
      /\ Extends(E, f[h])
  <2>1. b + 1 = h /\ f[b] = D /\ hive[b + 1] = ops /\ f[HiveHead] = E /\ b \in Nat /\ b < HiveHead
    BY <1>0, <1>1
  <2>2. /\ Len(hive[b + 1]) \in Nat /\ Len(f[b]) \in Nat /\ Len(f[HiveHead]) \in Nat
        /\ Extends(f[HiveHead], f[b]) /\ Extends(f[HiveHead], f[b + 1])
    BY <2>1, NextOfLog
  <2>3. ASSUME NEW i, First(D, h, ops, i)
        PROVE  /\ i \in 1..Len(ops) /\ Len(f[h]) = Len(D) + 1
               /\ E[Len(D) + 1] = HeaderAt(SlotOf(h), ops[i])
    <3>1. First(f[b], b + 1, hive[b + 1], i)
      BY <2>1, <2>3
    <3>2. /\ i \in 1..Len(hive[b + 1]) /\ Len(f[b + 1]) = Len(f[b]) + 1
          /\ f[HiveHead][Len(f[b]) + 1] = HeaderAt(SlotOf(b + 1), hive[b + 1][i])
      <4>1. \A j : First(f[b], b + 1, hive[b + 1], j) =>
              /\ j \in 1..Len(hive[b + 1])
              /\ Len(f[b + 1]) = Len(f[b]) + 1
              /\ f[HiveHead][Len(f[b]) + 1] = HeaderAt(SlotOf(b + 1), hive[b + 1][j])
        BY <2>1, NextOfLog
      <4> QED
        BY <3>1, <4>1, Zenon
    <3> QED
      BY <2>1, <3>2
  <2> QED
    BY <2>1, <2>2, <2>3
<1>3. headers[n] = {E[i] : i \in 1..k} /\ Len(D) =< k /\ k =< Len(E)
      /\ (\A i \in 1..Seen(n) : First(D, h, ops, i) => Len(D) < k)
  BY <1>0, <1>1 DEF NodeHas
<1>4. Fits(D, h, op)
  <2>1. Elems(D) \subseteq headers[n]
    BY <1>0, <1>1, PartIs
  <2> QED
    BY <1>1, <2>1 DEF Fits, Accepts
<1>5. PICK i \in 1..(handled[n] + 1) : First(D, h, ops, i)
  <2>1. handled[n] + 1 \in 1..Len(ops)
    BY <1>1, <1>2
  <2> QED
    BY <1>1, <1>2, <1>4, <2>1, FirstExists
<1>6. k = Len(D)
  <2>1. ASSUME k # Len(D) PROVE FALSE
    <3>1. Len(D) + 1 \in 1..k
      BY <1>2, <1>3, <2>1
    <3>2. E[Len(D) + 1] \in headers[n] /\ E[Len(D) + 1].slot = SlotOf(h)
      <4>1. E[Len(D) + 1] = HeaderAt(SlotOf(h), ops[i])
        BY <1>2, <1>5
      <4>2. E[Len(D) + 1].slot = SlotOf(h)
        BY <4>1 DEF HeaderAt
      <4>3. E[Len(D) + 1] \in headers[n]
        BY <1>3, <3>1
      <4> QED
        BY <4>2, <4>3
    <3> QED
      BY <1>1, <3>2 DEF Accepts
  <2> QED
    BY <2>1
<1>7. i = handled[n] + 1
  <2>1. ASSUME i # handled[n] + 1 PROVE FALSE
    <3>1. handled[n] \in Nat /\ Seen(n) = handled[n]
      BY <1>1, <1>2 DEF Seen, NotTicked
    <3>2. i \in 1..Seen(n)
      BY <1>5, <2>1, <3>1
    <3> QED
      BY <1>2, <1>3, <1>5, <1>6, <3>2
  <2> QED
    BY <2>1
<1>8. x = E[k + 1]
  BY <1>0, <1>1, <1>2, <1>5, <1>6, <1>7
<1>9. k + 1 =< Len(E)
  BY <1>2, <1>5, <1>6 DEF Extends
<1>10. /\ hive' = hive /\ parsed' = parsed /\ headers'[n] = headers[n] \cup {x}
  BY <1>0 DEF IndexHeader, BlocksOK, DbOK
<1>11. headers'[n] = {E[j] : j \in 1..(k + 1)}
  BY <1>3, <1>8, <1>10
<1> QED
  <2>1. HiveHead' = HiveHead /\ parsed'[n] = b /\ hive' = hive
    BY <1>0, <1>10 DEF HiveHead
  <2>2. Len(D) =< k + 1 /\ Len(D) < k + 1 /\ k + 1 =< Len(f[HiveHead'])
    BY <1>0, <1>2, <1>6, <1>9, <2>1
  <2>3. headers'[n] = {f[HiveHead'][j] : j \in 1..(k + 1)}
    BY <1>0, <1>11, <2>1
  <2>4. NodeHas(f, n, k + 1)'
    BY <1>0, <1>1, <2>1, <2>2, <2>3 DEF NodeHas
  <2>5. k < Len(f[HiveHead])
    BY <1>0, <1>2, <1>6, <1>9
  <2> QED
    BY <2>4, <2>5

\* An operation that adds nothing: a transaction, or a block the node rejects.
LEMMA TxAddsNothing ==
  ASSUME BlocksOK, NEW f, LogOK(f), NEW n \in Node, NEW k \in Nat, NodeHas(f, n, k), ParseTx(n)
  PROVE  NodeHas(f, n, k)'
<1>1. Handling(n) /\ indexing[n] = 0 /\ OpAt(n).kind = "tx"
      /\ hive' = hive /\ headers' = headers /\ parsed' = parsed /\ indexing' = indexing
      /\ handled'[n] = handled[n] + 1
  BY DEF ParseTx, BlocksOK, PlaceOK
<1>2. ~Fits(f[parsed[n]], parsed[n] + 1, OpAt(n))
  BY <1>1 DEF Fits
<1> QED
  BY <1>1, <1>2, PartSees

\* A block rejected leaves the part of the log the node has.
LEMMA RejectAddsNothing ==
  ASSUME BlocksOK, NEW f, LogFn(f), LogOK(f), NEW n \in Node, NEW k \in Nat, NodeHas(f, n, k),
         RejectBlock(n)
  PROVE  NodeHas(f, n, k)'
<1>1. Handling(n) /\ indexing[n] = 0 /\ ~Accepts(headers[n], parsed[n] + 1, OpAt(n))
      /\ hive' = hive /\ headers' = headers /\ parsed' = parsed /\ indexing' = indexing
      /\ handled'[n] = handled[n] + 1
  BY DEF RejectBlock, dbVars, BlocksOK, PlaceOK
<1>2. parsed[n] < HiveHead /\ parsed[n] \in Nat
  BY <1>1 DEF Handling, BlocksOK, PlaceOK
<1>3. ASSUME Fits(f[parsed[n]], parsed[n] + 1, OpAt(n)) PROVE Len(f[parsed[n]]) < k
  <2>1. headers[n] # Elems(f[parsed[n]])
    BY <1>1, <1>3 DEF Fits
  <2>2. k # Len(f[parsed[n]])
    BY <1>2, <2>1, PartIs
  <2>3. Len(f[parsed[n]]) \in Nat
    BY <1>2, NextOfLog
  <2>4. Len(f[parsed[n]]) =< k
    BY DEF NodeHas
  <2> QED
    BY <2>2, <2>3, <2>4
<1> QED
  BY <1>1, <1>3, PartSees

\* Within a block, and when it has been indexed, there is nothing new to see.
LEMMA IndexingAddsNothing ==
  ASSUME BlocksOK, NEW f, NEW n \in Node, NEW k \in Nat, NodeHas(f, n, k),
         IndexInput(n) \/ IndexOutput(n) \/ IndexEvents(n) \/ IndexAnchorRef(n) \/ IndexNonces(n)
  PROVE  NodeHas(f, n, k)'
<1>1. indexing[n] # 0 /\ hive' = hive /\ headers' = headers /\ parsed' = parsed
  BY DEF IndexInput, IndexOutput, IndexEvents, IndexAnchorRef, IndexNonces, AtEntry, dbVars
<1>2. handled[n] \in Nat /\ parsed[n] < HiveHead /\ indexing[n] \in Nat
  <2>1. Handling(n) /\ indexing[n] \in Nat
    BY <1>1 DEF BlocksOK, PlaceOK
  <2> QED
    BY <2>1 DEF Handling
<1>3. \/ handled'[n] = handled[n] /\ indexing'[n] = indexing[n] + 1
      \/ handled'[n] = handled[n] + 1 /\ indexing'[n] = 0
  BY DEF IndexInput, IndexOutput, IndexEvents, IndexAnchorRef, IndexNonces, BlocksOK, PlaceOK
<1>4. Seen(n)' = Seen(n)
  BY <1>1, <1>2, <1>3 DEF Seen, NotTicked
<1>5. \A i \in 1..Seen(n)' : First(f[parsed[n]], parsed[n] + 1, hive[parsed[n] + 1], i) =>
        Len(f[parsed[n]]) < k
  BY <1>2, <1>4 DEF NodeHas
<1> QED
  BY <1>1, <1>2, <1>5, PartStays

\* So before the first operation of a block.
LEMMA TickAddsNothing ==
  ASSUME BlocksOK, NEW f, NEW n \in Node, NEW k \in Nat, NodeHas(f, n, k),
         Tick(n) \/ EndProposal(n)
  PROVE  NodeHas(f, n, k)'
<1>1. handled[n] = NotTicked /\ parsed[n] < HiveHead
  BY DEF Tick, EndProposal, AtTick, BlocksOK, ProposingOK
<1>2. indexing[n] = 0
  BY <1>1 DEF BlocksOK, PlaceOK, Handling, NotTicked
<1>3. hive' = hive /\ headers' = headers /\ parsed' = parsed /\ indexing' = indexing
      /\ handled'[n] = 0
  BY DEF Tick, EndProposal, dbVars, BlocksOK, PlaceOK
<1>4. Seen(n)' = 0
  BY <1>2, <1>3 DEF Seen, NotTicked
<1> QED
  BY <1>1, <1>3, <1>4, PartStays

\* At the end of a block the node has what the block added.
LEMMA FinishHasAll ==
  ASSUME BlocksOK, NEW f, LogFn(f), LogOK(f), NEW n \in Node, NEW k \in Nat, NodeHas(f, n, k),
         FinishBlock(n)
  PROVE  NodeHas(f, n, k)'
<1>0. PICK b, h, D, ops : b = parsed[n] /\ h = b + 1 /\ D = f[b] /\ ops = hive[h]
  OBVIOUS
<1>1. b \in Nat /\ b < HiveHead /\ handled[n] = Len(ops)
      /\ parsed'[n] = h /\ handled'[n] = NotTicked /\ hive' = hive /\ headers' = headers
  BY <1>0 DEF FinishBlock, dbVars, BlocksOK, PlaceOK
<1>2. /\ Len(ops) \in Nat /\ Len(D) \in Nat
      /\ \A i : First(D, h, ops, i) => i \in 1..Len(ops) /\ Len(f[h]) = Len(D) + 1
      /\ (~\E i : First(D, h, ops, i)) => f[h] = D
  <2>1. b + 1 = h /\ f[b] = D /\ hive[b + 1] = ops /\ b \in Nat /\ b < HiveHead
    BY <1>0, <1>1
  <2>2. Len(hive[b + 1]) \in Nat /\ Len(f[b]) \in Nat
    BY <2>1, NextOfLog
  <2>3. \A i : First(f[b], b + 1, hive[b + 1], i) =>
          i \in 1..Len(hive[b + 1]) /\ Len(f[b + 1]) = Len(f[b]) + 1
    BY <2>1, NextOfLog
  <2>4. (~\E i : First(f[b], b + 1, hive[b + 1], i)) => f[b + 1] = f[b]
    BY <2>1, NextOfLog
  <2> QED
    BY <2>1, <2>2, <2>3, <2>4, Zenon
<1>3. indexing[n] = 0
  <2>1. ASSUME indexing[n] # 0 PROVE FALSE
    <3>1. handled[n] \in 0..(Len(ops) - 1)
      BY <1>0, <2>1 DEF BlocksOK, PlaceOK, Handling
    <3> QED
      BY <1>1, <1>2, <3>1
  <2> QED
    BY <2>1
<1>4. Seen(n) = Len(ops)
  BY <1>1, <1>2, <1>3 DEF Seen, NotTicked
<1>5. Len(f[h]) =< k
  <2>1. Len(D) =< k /\ \A i \in 1..Seen(n) : First(D, h, ops, i) => Len(D) < k
    BY <1>0, <1>1 DEF NodeHas
  <2>2. CASE \E i : First(D, h, ops, i)
    <3>1. PICK i : First(D, h, ops, i)
      BY <2>2
    <3>2. Len(D) < k /\ Len(f[h]) = Len(D) + 1
      BY <1>2, <1>4, <2>1, <3>1
    <3> QED
      BY <1>2, <3>2
  <2>3. CASE ~\E i : First(D, h, ops, i)
    BY <1>2, <2>1, <2>3
  <2> QED
    BY <2>2, <2>3
<1>6. Seen(n)' = 0 /\ HiveHead' = HiveHead
  BY <1>1 DEF Seen, HiveHead
<1>7. k =< Len(f[HiveHead]) /\ headers[n] = {f[HiveHead][i] : i \in 1..k}
  BY DEF NodeHas
<1> QED
  BY <1>1, <1>5, <1>6, <1>7 DEF NodeHas

\* A node that starts again from its checkpoint has more than it has seen.
LEMMA CrashHasMore ==
  ASSUME BlocksOK, NEW f, LogOK(f), NEW n \in Node, NEW k \in Nat, NodeHas(f, n, k), Crash(n)
  PROVE  NodeHas(f, n, k)'
<1>1. parsed'[n] = saved[n] /\ handled'[n] = NotTicked /\ hive' = hive /\ headers' = headers
  BY DEF Crash, Restart, dbVars, BlocksOK, PlaceOK
<1>2. saved[n] \in Nat /\ parsed[n] \in Nat /\ saved[n] =< parsed[n] /\ parsed[n] =< HiveHead
      /\ HiveHead \in Nat
  BY HeadType DEF BlocksOK, PlaceOK
<1>3. saved[n] \in 0..HiveHead /\ parsed[n] \in 0..HiveHead
  BY <1>2
<1>4. Len(f[saved[n]]) =< Len(f[parsed[n]])
  BY <1>2, <1>3 DEF LogOK, Extends
<1>5. Len(f[saved[n]]) \in Nat /\ Len(f[parsed[n]]) \in Nat
  <2>1. PICK T : \A a \in 0..HiveHead : f[a] \in Seq(T)
    BY DEF LogOK
  <2> QED
    BY <1>3, <2>1
<1>6. Seen(n)' = 0 /\ HiveHead' = HiveHead
  BY <1>1 DEF Seen, HiveHead
<1>7. k =< Len(f[HiveHead]) /\ headers[n] = {f[HiveHead][i] : i \in 1..k} /\ Len(f[parsed[n]]) =< k
  BY DEF NodeHas
<1>8. Len(f[saved[n]]) =< k
  BY <1>4, <1>5, <1>7
<1> QED
  BY <1>1, <1>6, <1>7, <1>8 DEF NodeHas

\* When Hive grows a node keeps its part.
LEMMA PartOfMore ==
  ASSUME BlocksOK, NEW f, LogFn(f), LogOK(f), NEW n \in Node, NEW k \in Nat, NodeHas(f, n, k),
         HiveBlock, NEW g, LogOK(g)', \A a \in 0..HiveHead : g[a] = f[a]
  PROVE  NodeHas(g, n, k)'
<1>0. PICK b, N, D, E : b = parsed[n] /\ N = HiveHead /\ D = f[N] /\ E = g[N + 1]
  OBVIOUS
<1>1. /\ HiveHead' = N + 1 /\ N \in Nat /\ \A a \in 1..N : hive'[a] = hive[a]
      /\ b \in Nat /\ b =< N
  BY <1>0, HiveGrows DEF BlocksOK, PlaceOK
<1>2. headers' = headers /\ parsed' = parsed /\ handled' = handled /\ indexing' = indexing
  BY DEF HiveBlock, dbVars
<1>3. Extends(E, D)
  <2>1. N \in 0..HiveHead' /\ N + 1 \in 0..HiveHead' /\ N =< N + 1 /\ g[N] = D
    BY <1>0, <1>1
  <2> QED
    BY <1>0, <2>1 DEF LogOK
<1>4. Len(D) \in Nat /\ Len(E) \in Nat /\ g[b] = f[b]
  <2>1. N \in 0..N /\ N + 1 \in 0..HiveHead' /\ b \in 0..N
    BY <1>1
  <2>2. PICK T : \A a \in 0..HiveHead' : g[a] \in Seq(T)
    BY DEF LogOK
  <2>3. PICK U : \A a \in 0..HiveHead : f[a] \in Seq(U)
    BY DEF LogOK
  <2> QED
    BY <1>0, <2>1, <2>2, <2>3
<1>5. /\ k =< Len(D) /\ headers[n] = {D[i] : i \in 1..k} /\ Len(f[b]) =< k
      /\ b < N \/ handled[n] = NotTicked
      /\ b < N => \A i \in 1..Seen(n) : First(f[b], b + 1, hive[b + 1], i) => Len(f[b]) < k
  BY <1>0 DEF NodeHas
<1>6. k =< Len(E) /\ headers[n] = {E[i] : i \in 1..k}
  BY <1>3, <1>4, <1>5 DEF Extends
<1>7. Seen(n)' = Seen(n)
  BY <1>2 DEF Seen
<1>8. \A i \in 1..Seen(n) : First(f[b], b + 1, hive'[b + 1], i) => Len(f[b]) < k
  <2>1. CASE b < N
    <3>1. b + 1 \in 1..N
      BY <1>1, <2>1
    <3> QED
      BY <1>1, <1>5, <2>1, <3>1
  <2>2. CASE ~(b < N)
    <3>1. Seen(n) = 0
      BY <1>5, <2>2 DEF Seen
    <3> QED
      BY <3>1
  <2> QED
    BY <2>1, <2>2
<1>9. b < HiveHead' /\ E = g[HiveHead'] /\ parsed'[n] = b /\ headers'[n] = headers[n]
  BY <1>0, <1>1, <1>2
<1> QED
  BY <1>4, <1>5, <1>6, <1>7, <1>8, <1>9 DEF NodeHas

\* While no fetch has failed, none had failed before.
LEMMA NoFetchFailed == ASSUME BlocksOK, [Next]_vars, fetchErrors' = 0 PROVE fetchErrors = 0
<1>1. fetchErrors \in Nat
  BY DEF BlocksOK
<1>2. fetchErrors' = fetchErrors \/ fetchErrors' = fetchErrors + 1
  BY DEF Next, HiveBlock, Announce, IndexStep, ParseTx, RejectBlock, IndexHeader, IndexInput,
     IndexOutput, IndexEvents, IndexAnchorRef, IndexNonces, FetchFails, FinishBlock, Tick, Propose,
     EndProposal, Crash, Restart, Sign, vars, indexVars
<1> QED
  BY <1>1, <1>2

\* Only a new Hive block changes Hive.
LEMMA HiveElse == ASSUME [Next]_vars, ~HiveBlock PROVE hive' = hive
  BY DEF Next, Announce, IndexStep, ParseTx, RejectBlock, IndexHeader, IndexInput,
     IndexOutput, IndexEvents, IndexAnchorRef, IndexNonces, FetchFails, FinishBlock, Tick, Propose,
     EndProposal, Crash, Restart, Sign, vars, indexVars

\* Whatever happens at one node leaves the others where they are.
LEMMA OthersUntouched ==
  ASSUME BlocksOK, NEW n \in Node, NEW m \in Node, m # n,
         \/ \E t \in Tx : Announce(n, t) /\ UNCHANGED blockVars
         \/ IndexStep(n) /\ UNCHANGED blockVars
         \/ Tick(n) \/ Propose(n) \/ EndProposal(n) \/ Crash(n)
         \/ \E l \in Node : Sign(l, n)
  PROVE  /\ headers'[m] = headers[m] /\ parsed'[m] = parsed[m]
         /\ handled'[m] = handled[m] /\ indexing'[m] = indexing[m]
  BY DEF Announce, IndexStep, ParseTx, RejectBlock, IndexHeader, IndexInput,
     IndexOutput, IndexEvents, IndexAnchorRef, IndexNonces, FetchFails, FinishBlock, Tick, Propose,
     EndProposal, Crash, Restart, Sign, indexVars, dbVars, BlocksOK, PlaceOK, DbOK

\* Every node keeps a part of the log.
LEMMA PartStep ==
  ASSUME BlocksOK, [Next]_vars, fetchErrors' = 0, ~HiveBlock,
         NEW f, LogFn(f), LogOK(f), NEW n \in Node, \E k \in Nat : NodeHas(f, n, k)
  PROVE  \E k \in Nat : NodeHas(f, n, k)'
<1>1. PICK k \in Nat : NodeHas(f, n, k)
  OBVIOUS
<1>2. hive' = hive
  BY HiveElse
<1>3. CASE /\ headers'[n] = headers[n] /\ parsed'[n] = parsed[n]
           /\ handled'[n] = handled[n] /\ indexing'[n] = indexing[n]
  BY <1>1, <1>2, <1>3, PartAlone
<1>4. CASE ParseTx(n)
  BY <1>1, <1>4, TxAddsNothing
<1>5. CASE RejectBlock(n)
  BY <1>1, <1>5, RejectAddsNothing
<1>6. CASE IndexHeader(n)
  <2>1. NodeHas(f, n, k + 1)' /\ k + 1 \in Nat
    BY <1>1, <1>6, HeaderJoins
  <2> QED
    BY <2>1
<1>7. CASE IndexInput(n) \/ IndexOutput(n) \/ IndexEvents(n) \/ IndexAnchorRef(n) \/ IndexNonces(n)
  BY <1>1, <1>7, IndexingAddsNothing
<1>8. CASE FinishBlock(n)
  BY <1>1, <1>8, FinishHasAll
<1>9. CASE Tick(n) \/ EndProposal(n)
  BY <1>1, <1>9, TickAddsNothing
<1>10. CASE Crash(n)
  BY <1>1, <1>10, CrashHasMore
<1>11. ~FetchFails(n)
  <2>1. ASSUME FetchFails(n) PROVE FALSE
    <3>1. fetchErrors' = fetchErrors + 1 /\ fetchErrors \in Nat
      BY <2>1 DEF FetchFails, BlocksOK
    <3> QED
      BY <3>1
  <2> QED
    BY <2>1
<1>12. CASE UNCHANGED indexVars
  BY <1>3, <1>12 DEF indexVars
<1>13. CASE \E t \in Tx : Announce(n, t)
  BY <1>3, <1>13 DEF Announce
<1>14. ASSUME NEW m \in Node, m # n,
              \/ \E t \in Tx : Announce(m, t) /\ UNCHANGED blockVars
              \/ IndexStep(m) /\ UNCHANGED blockVars
              \/ Tick(m) \/ Propose(m) \/ EndProposal(m) \/ Crash(m)
              \/ \E l \in Node : Sign(l, m)
       PROVE  \E l \in Nat : NodeHas(f, n, l)'
  BY <1>3, <1>14, OthersUntouched
<1> QED
  BY <1>4, <1>5, <1>6, <1>7, <1>8, <1>9, <1>10, <1>11, <1>12, <1>13, <1>14
     DEF Next, IndexStep, Propose, Sign, vars

\* The copy a node's headers make is the beginning of the log they are from.
LEMMA CopyIs ==
  ASSUME BlocksOK, NEW f, LogOK(f), NEW n \in Node, NEW k \in Nat, NodeHas(f, n, k)
  PROVE  Copy(n) = SubSeq(f[HiveHead], 1, k)
<1>0. PICK D, H : D = f[HiveHead] /\ H = headers[n]
  OBVIOUS
<1>1. PICK T : D \in Seq(T)
  <2>1. HiveHead \in 0..HiveHead
    BY HeadType
  <2> QED
    BY <1>0, <2>1 DEF LogOK
<1>2. Rising(D) /\ Bounded(D, SlotOf(HiveHead))
  <2>1. HiveHead \in 0..HiveHead
    BY HeadType
  <2> QED
    BY <1>0, <2>1 DEF LogOK
<1>3. k =< Len(D) /\ Len(D) \in Nat /\ H = {D[i] : i \in 1..k}
  BY <1>0, <1>1 DEF NodeHas
<1>4. ASSUME NEW i \in 1..k, NEW j \in 1..k PROVE D[i].slot < D[j].slot <=> i < j
  <2>1. i \in 1..Len(D) /\ j \in 1..Len(D)
    BY <1>3
  <2>2. D[i].slot \in Nat /\ D[j].slot \in Nat
    BY <1>2, <2>1 DEF Bounded
  <2>3. (i < j => D[i].slot < D[j].slot) /\ (j < i => D[j].slot < D[i].slot)
    BY <1>2, <2>1 DEF Rising
  <2> QED
    BY <2>2, <2>3
<1>5. ASSUME NEW l \in 0..k
      PROVE  Cardinality({D[i] : i \in 1..l}) = l
  <2> DEFINE S == {D[i] : i \in 1..l}
             g == [i \in 1..l |-> D[i]]
  <2>1. ASSUME NEW i \in 1..l, NEW j \in 1..l, D[i] = D[j] PROVE i = j
    <3>1. i \in 1..k /\ j \in 1..k
      OBVIOUS
    <3>2. ~(D[i].slot < D[j].slot) => ~(i < j)
      BY <1>4, <3>1
    <3>3. ~(D[j].slot < D[i].slot) => ~(j < i)
      BY <1>4, <3>1
    <3>4. D[i].slot \in Nat
      BY <1>2, <1>3, <3>1 DEF Bounded
    <3> QED
      BY <2>1, <3>1, <3>2, <3>3, <3>4
  <2>2. g \in Bijection(1..l, S)
    BY <2>1 DEF Bijection, Injection, Surjection, IsInjective
  <2>3. ExistsBijection(1..l, S) /\ l \in Nat
    <3> HIDE DEF g, S
    <3> QED
      BY <2>2 DEF ExistsBijection
  <2> QED
    BY <2>3, FS_CountingElements
<1>6. Cardinality(H) = k
  BY <1>3, <1>5
<1>7. ASSUME NEW i \in 1..k PROVE Cardinality({y \in H : y.slot < D[i].slot}) = i - 1
  <2>1. {y \in H : y.slot < D[i].slot} = {D[j] : j \in 1..(i - 1)}
    <3>1. ASSUME NEW y \in H, y.slot < D[i].slot PROVE y \in {D[j] : j \in 1..(i - 1)}
      <4>1. PICK j \in 1..k : y = D[j]
        BY <1>3
      <4>2. j \in 1..(i - 1)
        BY <1>4, <3>1, <4>1
      <4> QED
        BY <4>1, <4>2
    <3>2. ASSUME NEW j \in 1..(i - 1) PROVE D[j] \in H /\ D[j].slot < D[i].slot
      <4>1. j \in 1..k /\ j < i
        OBVIOUS
      <4> QED
        BY <1>3, <1>4, <4>1
    <3> QED
      BY <3>1, <3>2
  <2>2. i - 1 \in 0..k
    OBVIOUS
  <2> QED
    BY <1>5, <2>1, <2>2
<1>8. ASSUME NEW i \in 1..k
      PROVE  (CHOOSE x \in H : Cardinality({y \in H : y.slot < x.slot}) = i - 1) = D[i]
  <2>1. D[i] \in H
    BY <1>3
  <2>2. ASSUME NEW x \in H, Cardinality({y \in H : y.slot < x.slot}) = i - 1 PROVE x = D[i]
    <3>1. PICK j \in 1..k : x = D[j]
      BY <1>3
    <3>2. Cardinality({y \in H : y.slot < x.slot}) = j - 1
      BY <1>7, <3>1
    <3> QED
      BY <2>2, <3>1, <3>2
  <2> QED
    BY <1>7, <2>1, <2>2
<1>9. SubSeq(D, 1, k) = [i \in 1..k |-> D[i]]
  BY <1>1, <1>3
<1>10. Copy(n) = [i \in 1..k |-> D[i]]
  BY <1>0, <1>6, <1>8 DEF Copy
<1> QED
  BY <1>0, <1>9, <1>10

\* The log's invariant holds at the start, where the abstract log starts too.
LEMMA LogInit == ASSUME Init PROVE LogInv /\ Log!Init
<1>1. BlocksOK /\ HiveHead = 0
  BY BlocksInit DEF Init, IndexInit, HiveHead
<1>2. PICK f : f = [h \in 0..0 |-> <<FirstHeader>>]
  OBVIOUS
<1>3. f[0] = <<FirstHeader>> /\ Len(f[0]) = 1 /\ f[0][1] = FirstHeader /\ f[0] \in Seq({FirstHeader})
      /\ f = [h \in 0..0 |-> f[h]]
  BY <1>2
<1>4. LogFn(f)
  BY <1>1, <1>3 DEF LogFn
<1>5. LogOK(f)
  <2>1. FirstHeader.slot = 0 /\ SlotOf(0) = 0
    BY SlotsGrow DEF FirstHeader
  <2>2. Bounded(f[0], SlotOf(0)) /\ Rising(f[0]) /\ Extends(f[0], f[0])
    BY <1>3, <2>1 DEF Bounded, Rising, Extends
  <2>3. \A h \in 0..HiveHead : h = 0
    BY <1>1
  <2> QED
    BY <1>3, <2>2, <2>3 DEF LogOK
<1>6. ASSUME NEW n \in Node PROVE NodeHas(f, n, 1)
  <2>1. headers[n] = {FirstHeader} /\ parsed[n] = 0 /\ handled[n] = NotTicked
    BY DEF Init, IndexInit
  <2>2. Len(f[HiveHead]) = 1 /\ f[HiveHead][1] = FirstHeader
    BY <1>1, <1>3
  <2>3. {f[HiveHead][i] : i \in 1..1} = {FirstHeader}
    BY <2>2
  <2>4. parsed[n] = 0 /\ ~(parsed[n] < HiveHead) /\ Len(f[parsed[n]]) = 1
    BY <1>1, <1>3, <2>1
  <2> QED
    BY <2>1, <2>2, <2>3, <2>4 DEF NodeHas
<1>7. OnLog(f)
  BY <1>4, <1>5, <1>6 DEF OnLog
<1>8. Decided = <<FirstHeader>>
  BY <1>1, <1>3, <1>4, DecidedIs
<1>9. ASSUME NEW n \in Node PROVE Copy(n) = <<FirstHeader>>
  <2>1. headers[n] = {FirstHeader}
    BY DEF Init, IndexInit
  <2>2. NodeHas(f, n, 1) /\ 1 \in Nat
    BY <1>6
  <2>3. Copy(n) = SubSeq(f[HiveHead], 1, 1)
    BY <1>1, <1>5, <2>2, CopyIs
  <2>4. SubSeq(f[0], 1, 1) = <<FirstHeader>>
    <3>1. PICK D : D = f[0]
      OBVIOUS
    <3>2. D \in Seq({FirstHeader}) /\ Len(D) = 1 /\ D[1] = FirstHeader
      BY <1>3, <3>1
    <3>3. SubSeq(D, 1, 1) = D
      BY <3>2
    <3> QED
      BY <1>3, <3>1, <3>3
  <2> QED
    BY <1>1, <1>3, <2>3, <2>4
<1>10. Copies = [n \in Node |-> <<FirstHeader>>]
  BY <1>9 DEF Copies
<1> QED
  BY <1>1, <1>7, <1>8, <1>10 DEF LogInv, Log!Init

\* Every step keeps the log's invariant.
LEMMA LogStep == LogInv /\ [Next]_vars => LogInv'
<1> SUFFICES ASSUME LogInv, [Next]_vars PROVE LogInv'
  OBVIOUS
<1>1. BlocksOK /\ BlocksOK'
  BY BlocksStep DEF LogInv
<1>2. SUFFICES ASSUME fetchErrors' = 0 PROVE \E f : OnLog(f)'
  BY <1>1 DEF LogInv
<1>3. fetchErrors = 0
  BY <1>1, <1>2, NoFetchFailed
<1>4. PICK f : OnLog(f)
  BY <1>3 DEF LogInv
<1>5. LogFn(f) /\ LogOK(f) /\ \A n \in Node : \E k \in Nat : NodeHas(f, n, k)
  BY <1>4 DEF OnLog
<1>6. CASE HiveBlock
  <2>1. PICK g : g = [h \in 0..(HiveHead + 1) |->
                        IF h = HiveHead + 1 THEN AddBlocks(f[HiveHead], h, hive'[h]) ELSE f[h]]
    OBVIOUS
  <2>2. LogFn(g)' /\ LogOK(g)'
    BY <1>1, <1>5, <1>6, <2>1, LogGrows
  <2>3. \A a \in 0..HiveHead : g[a] = f[a]
    BY <1>1, <2>1, HeadType
  <2>4. ASSUME NEW n \in Node PROVE \E k \in Nat : NodeHas(g, n, k)'
    <3>1. PICK k \in Nat : NodeHas(f, n, k)
      BY <1>5
    <3> QED
      BY <1>1, <1>5, <1>6, <2>2, <2>3, <3>1, PartOfMore
  <2> QED
    BY <2>2, <2>4 DEF OnLog
<1>7. CASE ~HiveBlock
  <2>1. hive' = hive
    BY <1>7, HiveElse
  <2>2. HiveHead' = HiveHead
    BY <2>1 DEF HiveHead
  <2>3. LogFn(f)' /\ LogOK(f)'
    BY <1>5, <2>1, <2>2 DEF LogFn, LogOK
  <2>4. ASSUME NEW n \in Node PROVE \E k \in Nat : NodeHas(f, n, k)'
    BY <1>1, <1>2, <1>5, <1>7, PartStep
  <2> QED
    BY <2>3, <2>4 DEF OnLog
<1> QED
  BY <1>6, <1>7

\* The same of any state, so of the next one too.
LogIsDecided == \A f : BlocksOK /\ LogFn(f) => Decided = f[HiveHead]
CopiesAreParts ==
  \A f : \A n \in Node, k \in Nat : BlocksOK /\ LogOK(f) /\ NodeHas(f, n, k) =>
    Copy(n) = SubSeq(f[HiveHead], 1, k)

\* DecidedIs, for every function.
LEMMA EveryDecidedIs == LogIsDecided
  BY DecidedIs DEF LogIsDecided

\* CopyIs, for every node and function.
LEMMA EveryCopyIs == CopiesAreParts
  BY CopyIs DEF CopiesAreParts

\* Headers are written by one action only.
LEMMA HeadersElse ==
  ASSUME [Next]_vars, \A n \in Node : ~IndexHeader(n)
  PROVE  headers' = headers
  BY DEF Next, HiveBlock, Announce, IndexStep, ParseTx, RejectBlock, IndexInput, IndexOutput,
     IndexEvents, IndexAnchorRef, IndexNonces, FetchFails, FinishBlock, Tick, Propose, EndProposal,
     Crash, Restart, Sign, dbVars, vars, indexVars

\* Hive decides on a block, or on none.
LEMMA HiveDecides ==
  ASSUME LogInv, HiveBlock, fetchErrors = 0, BlocksOK'
  PROVE  [Log!Next]_<<Decided, Copies>>
<1>1. BlocksOK
  BY DEF LogInv
<1>2. PICK f : LogFn(f) /\ LogOK(f)
  BY DEF LogInv, OnLog
<1>3. PICK g : g = [h \in 0..(HiveHead + 1) |->
                      IF h = HiveHead + 1 THEN AddBlocks(f[HiveHead], h, hive'[h]) ELSE f[h]]
  OBVIOUS
<1>4. /\ LogFn(g)'
      /\ g[HiveHead + 1] = f[HiveHead] \/ \E x : g[HiveHead + 1] = Append(f[HiveHead], x)
  BY <1>1, <1>2, <1>3, LogGrows
<1>5. Decided = f[HiveHead]
  BY <1>1, <1>2, DecidedIs
<1>6. Decided' = g[HiveHead + 1]
  <2>1. HiveHead' = HiveHead + 1
    BY <1>1, HiveGrows
  <2>2. LogIsDecided'
    BY EveryDecidedIs, PTL
  <2> QED
    BY <1>4, <2>1, <2>2 DEF LogIsDecided
<1>7. Copies' = Copies
  <2>1. headers' = headers
    BY DEF HiveBlock, dbVars
  <2> QED
    BY <2>1 DEF Copies, Copy
<1>8. CASE g[HiveHead + 1] = f[HiveHead]
  BY <1>5, <1>6, <1>7, <1>8
<1>9. CASE \E x : g[HiveHead + 1] = Append(f[HiveHead], x)
  <2>1. PICK x : Decided' = Append(Decided, x)
    BY <1>5, <1>6, <1>9
  <2>2. PICK T : Decided \in Seq(T)
    <3>1. HiveHead \in 0..HiveHead
      BY <1>1, HeadType
    <3> QED
      BY <1>2, <1>5, <3>1 DEF LogOK
  <2>3. PICK D, E : D = Decided /\ E = Decided'
    OBVIOUS
  <2>4. D \in Seq(T \cup {x}) /\ E = Append(D, x)
    BY <2>1, <2>2, <2>3
  <2>5. Len(E) = Len(D) + 1 /\ SubSeq(E, 1, Len(D)) = D
    BY <2>4
  <2> QED
    BY <1>7, <2>3, <2>5 DEF Log!Next, Log!Decide
<1> QED
  BY <1>4, <1>8, <1>9

\* A node that indexes a header learns of the next block of the log.
LEMMA HeaderLearns ==
  ASSUME LogInv, NEW n \in Node, IndexHeader(n), fetchErrors = 0, BlocksOK'
  PROVE  Log!Learn(n)
<1>1. BlocksOK
  BY DEF LogInv
<1>2. PICK f : OnLog(f)
  BY DEF LogInv
<1>3. LogFn(f) /\ LogOK(f)
  BY <1>2 DEF OnLog
<1>4. PICK k \in Nat : NodeHas(f, n, k)
  BY <1>2 DEF OnLog
<1>5. k < Len(f[HiveHead]) /\ NodeHas(f, n, k + 1)'
  BY <1>1, <1>3, <1>4, HeaderJoins
<1>6. hive' = hive /\ HiveHead' = HiveHead /\ \A m \in Node \ {n} : headers'[m] = headers[m]
  BY <1>1 DEF IndexHeader, HiveHead, BlocksOK, DbOK
<1>7. Decided' = Decided /\ Decided = f[HiveHead]
  <2>1. Decided' = Decided
    BY <1>6 DEF Decided, HiveHead, AddBlocks, AddBlock, Accepts
  <2>2. Decided = f[HiveHead]
    BY <1>1, <1>3, DecidedIs
  <2> QED
    BY <2>1, <2>2
<1>8. Copy(n) = SubSeq(Decided, 1, k)
  BY <1>1, <1>3, <1>4, <1>7, CopyIs
<1>9. Copy(n)' = SubSeq(Decided, 1, k + 1)
  <2>1. LogOK(f)'
    BY <1>3, <1>6 DEF LogOK
  <2>2. CopiesAreParts'
    BY EveryCopyIs, PTL
  <2> QED
    BY <1>5, <1>6, <1>7, <2>1, <2>2 DEF CopiesAreParts
<1>10. \A m \in Node \ {n} : Copy(m)' = Copy(m)
  <2> SUFFICES ASSUME NEW m \in Node \ {n} PROVE Copy(m)' = Copy(m)
    OBVIOUS
  <2>1. PICK H : H = headers[m] /\ H = headers'[m]
    BY <1>6
  <2>2. /\ Copy(m) = [i \in 1..Cardinality(H) |->
                        CHOOSE x \in H : Cardinality({y \in H : y.slot < x.slot}) = i - 1]
        /\ Copy(m)' = [i \in 1..Cardinality(H) |->
                         CHOOSE x \in H : Cardinality({y \in H : y.slot < x.slot}) = i - 1]
    BY <2>1 DEF Copy
  <2> QED
    BY <2>2
<1>11. PICK D, C, E : D = Decided /\ C = Copies /\ E = Copies'
  OBVIOUS
<1>12. C = [m \in Node |-> Copy(m)] /\ E = [m \in Node |-> Copy(m)']
  BY <1>11 DEF Copies
<1>13. Len(C[n]) = k
  <2>1. PICK T : D \in Seq(T)
    <3>1. HiveHead \in 0..HiveHead
      BY <1>1, HeadType
    <3> QED
      BY <1>3, <1>7, <1>11, <3>1 DEF LogOK
  <2>2. Len(SubSeq(D, 1, k)) = k
    BY <1>5, <1>7, <1>11, <2>1
  <2> QED
    BY <1>8, <1>11, <1>12, <2>2
<1>14. E = [C EXCEPT ![n] = SubSeq(D, 1, Len(C[n]) + 1)]
  <2>1. E[n] = SubSeq(D, 1, Len(C[n]) + 1)
    BY <1>9, <1>11, <1>12, <1>13
  <2>2. \A m \in Node \ {n} : E[m] = C[m]
    BY <1>10, <1>12
  <2> QED
    BY <1>12, <2>1, <2>2
<1> QED
  BY <1>5, <1>7, <1>11, <1>13, <1>14 DEF Log!Learn

\* Indexing implements the replicated log: whatever order witnesses' blocks get
\* into Hive in, wherever nodes stop and start again, and however late they are,
\* each node's headers are a prefix of the one log that Hive decides, and grow by
\* its next block.
THEOREM IndexingIsALog == Spec => LogSpec
<1>1. Init => LogInv /\ Log!Init
  BY LogInit
<1>2. LogInv /\ [Next]_vars => LogInv'
  BY LogStep
<1>3. LogInv /\ [Next]_vars => [fetchErrors' = 0 => [Log!Next]_<<Decided, Copies>>]_<<hive, headers>>
  <2> SUFFICES ASSUME LogInv, [Next]_vars, fetchErrors' = 0
               PROVE  [Log!Next]_<<Decided, Copies>> \/ UNCHANGED <<hive, headers>>
    OBVIOUS
  <2>1. BlocksOK /\ BlocksOK' /\ fetchErrors = 0
    BY BlocksStep, NoFetchFailed DEF LogInv
  <2>2. CASE HiveBlock
    BY <2>1, <2>2, HiveDecides
  <2>3. ASSUME NEW n \in Node, IndexHeader(n) PROVE Log!Next
    BY <2>1, <2>3, HeaderLearns DEF Log!Next
  <2>4. CASE ~HiveBlock /\ \A n \in Node : ~IndexHeader(n)
    BY <2>4, HiveElse, HeadersElse
  <2> QED
    BY <2>2, <2>3, <2>4
<1> QED
  BY <1>1, <1>2, <1>3, PTL DEF Spec, LogSpec

-------------------------------------------------------------------------------
(* What a block is made of. *)

Increasing(f) == \A i, j \in DOMAIN f : i < j => f[i] < f[j]

\* r has the elements of s up to the n-th that are in S, in their order.
Picks(r, s, S, n) ==
  /\ \A i \in 1..n : s[i] \in S => \E k \in 1..Len(r) : r[k] = s[i]
  /\ \E f \in [1..Len(r) -> 1..n] :
       Increasing(f) /\ \A k \in 1..Len(r) : r[k] = s[f[k]] /\ r[k] \in S

\* One element more.
LEMMA PicksOn ==
  ASSUME NEW T, NEW s \in Seq(T), NEW S, NEW r \in Seq(T), NEW n \in 1..Len(s), Picks(r, s, S, n - 1)
  PROVE  Picks(IF s[n] \in S THEN Append(r, s[n]) ELSE r, s, S, n)
<1>1. PICK f \in [1..Len(r) -> 1..(n - 1)] :
        Increasing(f) /\ \A k \in 1..Len(r) : r[k] = s[f[k]] /\ r[k] \in S
  BY DEF Picks
<1>2. n - 1 \in Nat /\ 1..n = (1..(n - 1)) \cup {n} /\ Len(r) \in Nat
  OBVIOUS
<1>3. CASE s[n] \notin S
  <2>1. f \in [1..Len(r) -> 1..n]
    BY <1>2
  <2>2. \A i \in 1..n : s[i] \in S => i \in 1..(n - 1)
    BY <1>2, <1>3
  <2> QED
    BY <1>1, <1>3, <2>1, <2>2 DEF Picks
<1>4. CASE s[n] \in S
  <2>1. PICK q : q = Append(r, s[n])
    OBVIOUS
  <2>2. Len(q) = Len(r) + 1 /\ q[Len(r) + 1] = s[n] /\ \A k \in 1..Len(r) : q[k] = r[k]
    BY <2>1
  <2>3. 1..Len(q) = (1..Len(r)) \cup {Len(r) + 1}
    BY <1>2, <2>2
  <2>4. PICK g : g = [k \in 1..Len(q) |-> IF k = Len(r) + 1 THEN n ELSE f[k]]
    OBVIOUS
  <2>5. g \in [1..Len(q) -> 1..n] /\ g[Len(r) + 1] = n /\ \A k \in 1..Len(r) : g[k] = f[k]
    <3>1. Len(r) + 1 \in 1..Len(q) /\ \A k \in 1..Len(r) : k \in 1..Len(q) /\ k # Len(r) + 1
      BY ONLY <1>2, <2>3
    <3>2. g[Len(r) + 1] = n /\ \A k \in 1..Len(r) : g[k] = f[k]
      BY ONLY <2>4, <3>1
    <3>3. n \in 1..n /\ \A k \in 1..Len(r) : f[k] \in 1..n
      BY <1>2
    <3>4. \A k \in 1..Len(q) : (IF k = Len(r) + 1 THEN n ELSE f[k]) \in 1..n
      BY ONLY <2>3, <3>3
    <3> QED
      BY ONLY <2>4, <3>2, <3>4
  <2>6. Increasing(g)
    <3>1. SUFFICES ASSUME NEW i \in 1..Len(q), NEW j \in 1..Len(q), i < j PROVE g[i] < g[j]
      BY <2>5 DEF Increasing
    <3>2. i \in 1..Len(r)
      BY <1>2, <2>2, <3>1
    <3>3. CASE j = Len(r) + 1
      BY <2>5, <3>2, <3>3, f[i] \in 1..(n - 1)
    <3>4. CASE j \in 1..Len(r)
      BY <1>1, <2>5, <3>1, <3>2, <3>4 DEF Increasing
    <3> QED
      BY <2>3, <3>3, <3>4
  <2>7. \A k \in 1..Len(q) : q[k] = s[g[k]] /\ q[k] \in S
    BY <1>1, <1>4, <2>2, <2>3, <2>5
  <2>8. \A i \in 1..n : s[i] \in S => \E k \in 1..Len(q) : q[k] = s[i]
    BY <1>2, <2>2, <2>3 DEF Picks
  <2>9. Picks(q, s, S, n)
    BY <2>5, <2>6, <2>7, <2>8 DEF Picks
  <2> QED
    BY <1>4, <2>1, <2>9
<1> QED
  BY <1>3, <1>4

\* Those are the elements of a sequence that are in a set, in their order.
LEMMA ThoseAre ==
  ASSUME NEW T, NEW s \in Seq(T), NEW S
  PROVE  Those(s, S) \in Seq(T) /\ Picks(Those(s, S), s, S, Len(s))
<1> DEFINE N == Len(s)
           Rec(g) == g = [i \in 0..N |-> IF i = 0 THEN <<>>
                                          ELSE IF s[i] \in S THEN Append(g[i - 1], s[i])
                                          ELSE g[i - 1]]
           those == CHOOSE g : Rec(g)
           Good(i) == those[i] \in Seq(T) /\ Picks(those[i], s, S, i)
           Bad == {i \in 0..N : ~Good(i)}
<1>1. N \in Nat /\ Those(s, S) = those[N]
  BY DEF Those
<1>2. Rec(those)
  <2> DEFINE step == [p \in Seq(T) \X (1..N) |->
                        IF s[p[2]] \in S THEN Append(p[1], s[p[2]]) ELSE p[1]]
  <2>1. step \in [Seq(T) \X (1..N) -> Seq(T)]
    <3>1. ASSUME NEW p \in Seq(T) \X (1..N)
          PROVE  (IF s[p[2]] \in S THEN Append(p[1], s[p[2]]) ELSE p[1]) \in Seq(T)
      <4>1. p[1] \in Seq(T) /\ s[p[2]] \in T
        OBVIOUS
      <4> QED
        BY <4>1
    <3> QED
      BY <3>1
  <2>2. \A x \in Seq(T), i \in 1..N :
          step[<<x, i>>] = IF s[i] \in S THEN Append(x, s[i]) ELSE x
    OBVIOUS
  <2>3. <<>> \in Seq(T)
    OBVIOUS
  <2> HIDE DEF step
  <2>4. PICK f : Steps(f, Seq(T), N, <<>>, step)
    BY <1>1, <2>1, <2>3, StepsExist
  <2>5. ASSUME NEW i \in 0..N
        PROVE  f[i] = IF i = 0 THEN <<>>
                      ELSE IF s[i] \in S THEN Append(f[i - 1], s[i]) ELSE f[i - 1]
    <3>1. CASE i = 0
      BY <2>4, <3>1 DEF Steps
    <3>2. CASE i # 0
      <4>1. i \in 1..N /\ i - 1 \in 0..N
        BY <1>1, <3>2
      <4>2. f[i - 1] \in Seq(T) /\ f[i] = step[<<f[i - 1], i>>]
        BY <2>4, <4>1 DEF Steps
      <4> QED
        BY <2>2, <3>2, <4>1, <4>2
    <3> QED
      BY <3>1, <3>2
  <2>6. f = [i \in 0..N |-> f[i]]
    BY <2>4 DEF Steps
  <2>7. Rec(f)
    BY <2>5, <2>6
  <2> QED
    BY <2>7
<1> HIDE DEF those
<1>3. ASSUME Bad # {} PROVE FALSE
  <2>1. PICK i \in Bad : \A k \in Bad : i =< k
    <3>1. Bad \subseteq Nat
      BY <1>1
    <3> HIDE DEF Bad
    <3> QED
      BY <1>3, <3>1, LeastNat
  <2>2. CASE i = 0
    <3>1. those[0] = <<>>
      BY <1>1, <1>2
    <3>2. Picks(<<>>, s, S, 0)
      <4>1. PICK f : f = [k \in {} |-> 1]
        OBVIOUS
      <4>2. Len(<<>>) = 0 /\ 1..0 = {}
        OBVIOUS
      <4>3. f \in [1..Len(<<>>) -> 1..0] /\ Increasing(f)
        BY <4>1, <4>2 DEF Increasing
      <4>4. \A k \in 1..Len(<<>>) : FALSE
        BY <4>2
      <4> QED
        BY <4>2, <4>3, <4>4 DEF Picks
    <3>3. Good(0)
      <4>1. <<>> \in Seq(T)
        OBVIOUS
      <4> QED
        BY <3>1, <3>2, <4>1
    <3> HIDE DEF Good
    <3> QED
      BY <2>1, <2>2, <3>3
  <2>3. CASE i # 0
    <3>1. i \in 1..N /\ i - 1 \in 0..N /\ i - 1 \notin Bad
      BY <1>1, <2>1, <2>3
    <3>0. i \in 0..N /\ i # 0
      BY <3>1
    <3>2. those[i - 1] \in Seq(T) /\ Picks(those[i - 1], s, S, i - 1)
      BY <3>1
    <3>3. those[i] = IF s[i] \in S THEN Append(those[i - 1], s[i]) ELSE those[i - 1]
      BY <1>2, <3>0
    <3>4. s[i] \in T /\ i \in 1..Len(s)
      BY <3>1
    <3>5. Picks(those[i], s, S, i)
      BY <3>2, <3>3, <3>4, PicksOn
    <3>6. those[i] \in Seq(T)
      BY <3>2, <3>3, <3>4
    <3> QED
      BY <2>1, <3>5, <3>6
  <2> QED
    BY <2>2, <2>3
<1>4. Good(N)
  <2> HIDE DEF Good
  <2> QED
    BY <1>1, <1>3, N \in 0..N
<1> QED
  BY <1>1, <1>4

\* The transactions taken have the nonces that follow, one after the other.
NextNonces(n, s, r) ==
  /\ Elems(r) \subseteq Elems(s)
  /\ \A k \in 1..Len(r) : NonceOf[r[k]] = nonce[n] + k - 1

LEMMA NextNonceTaken ==
  ASSUME NEW T, NEW s \in Seq(T), NEW n, nonce[n] \in Nat
  PROVE  WithNextNonce(n, s) \in Seq(T) /\ NextNonces(n, s, WithNextNonce(n, s))
<1> DEFINE N == Len(s)
           Rec(g) == g = [i \in 0..N |-> IF i = 0 THEN <<>>
                                          ELSE IF NonceOf[s[i]] # nonce[n] + Len(g[i - 1]) THEN g[i - 1]
                                          ELSE Append(g[i - 1], s[i])]
           taken == CHOOSE g : Rec(g)
           Good(i) == taken[i] \in Seq(T) /\ NextNonces(n, s, taken[i])
           Bad == {i \in 0..N : ~Good(i)}
<1>1. N \in Nat /\ WithNextNonce(n, s) = taken[N]
  BY DEF WithNextNonce
<1>2. Rec(taken)
  <2> DEFINE step == [p \in Seq(T) \X (1..N) |->
                        IF NonceOf[s[p[2]]] # nonce[n] + Len(p[1]) THEN p[1] ELSE Append(p[1], s[p[2]])]
  <2>1. step \in [Seq(T) \X (1..N) -> Seq(T)]
    <3>1. ASSUME NEW p \in Seq(T) \X (1..N)
          PROVE  (IF NonceOf[s[p[2]]] # nonce[n] + Len(p[1]) THEN p[1] ELSE Append(p[1], s[p[2]])) \in Seq(T)
      <4>1. p[1] \in Seq(T) /\ s[p[2]] \in T
        OBVIOUS
      <4> QED
        BY <4>1
    <3> QED
      BY <3>1
  <2>2. \A x \in Seq(T), i \in 1..N :
          step[<<x, i>>] = IF NonceOf[s[i]] # nonce[n] + Len(x) THEN x ELSE Append(x, s[i])
    OBVIOUS
  <2>3. <<>> \in Seq(T)
    OBVIOUS
  <2> HIDE DEF step
  <2>4. PICK f : Steps(f, Seq(T), N, <<>>, step)
    BY <1>1, <2>1, <2>3, StepsExist
  <2>5. ASSUME NEW i \in 0..N
        PROVE  f[i] = IF i = 0 THEN <<>>
                      ELSE IF NonceOf[s[i]] # nonce[n] + Len(f[i - 1]) THEN f[i - 1]
                      ELSE Append(f[i - 1], s[i])
    <3>1. CASE i = 0
      BY <2>4, <3>1 DEF Steps
    <3>2. CASE i # 0
      <4>1. i \in 1..N /\ i - 1 \in 0..N
        BY <1>1, <3>2
      <4>2. f[i - 1] \in Seq(T) /\ f[i] = step[<<f[i - 1], i>>]
        BY <2>4, <4>1 DEF Steps
      <4> QED
        BY <2>2, <3>2, <4>1, <4>2
    <3> QED
      BY <3>1, <3>2
  <2>6. f = [i \in 0..N |-> f[i]]
    BY <2>4 DEF Steps
  <2>7. Rec(f)
    BY <2>5, <2>6
  <2> QED
    BY <2>7
<1> HIDE DEF taken
<1>3. ASSUME Bad # {} PROVE FALSE
  <2>1. PICK i \in Bad : \A k \in Bad : i =< k
    <3>1. Bad \subseteq Nat
      BY <1>1
    <3> HIDE DEF Bad
    <3> QED
      BY <1>3, <3>1, LeastNat
  <2>2. CASE i = 0
    <3>1. taken[0] = <<>>
      BY <1>1, <1>2
    <3> QED
      <4>1. <<>> \in Seq(T) /\ Elems(<<>>) = {} /\ \A k \in 1..Len(<<>>) : FALSE
        BY DEF Elems
      <4>2. Good(0)
        BY <3>1, <4>1 DEF NextNonces
      <4> HIDE DEF Good
      <4> QED
        BY <2>1, <2>2, <4>2
  <2>3. CASE i # 0
    <3>1. i \in 1..N /\ i - 1 \in 0..N /\ i - 1 \notin Bad
      BY <1>1, <2>1, <2>3
    <3>0. i \in 0..N /\ i # 0
      BY <3>1
    <3>2. PICK r \in Seq(T) : r = taken[i - 1] /\ NextNonces(n, s, r)
      BY <3>1
    <3>3. taken[i] = IF NonceOf[s[i]] # nonce[n] + Len(r) THEN r ELSE Append(r, s[i])
      BY <1>2, <3>0, <3>2
    <3>4. s[i] \in T /\ i \in 1..Len(s) /\ s[i] \in Elems(s)
      BY <3>1 DEF Elems
    <3>5. CASE NonceOf[s[i]] # nonce[n] + Len(r)
      BY <2>1, <3>2, <3>3, <3>5
    <3>6. CASE NonceOf[s[i]] = nonce[n] + Len(r)
      <4>1. PICK q \in Seq(T) : q = taken[i] /\ q = Append(r, s[i])
        <5>1. taken[i] = Append(r, s[i])
          BY <3>3, <3>6, Zenon
        <5>2. Append(r, s[i]) \in Seq(T)
          BY <3>4
        <5> QED
          BY <5>1, <5>2
      <4>2. Len(q) = Len(r) + 1 /\ \A k \in 1..Len(q) : q[k] = IF k = Len(r) + 1 THEN s[i] ELSE r[k]
        BY <4>1
      <4>3. \A k \in 1..Len(q) : k # Len(r) + 1 => k \in 1..Len(r)
        BY <4>2
      <4>4. ASSUME NEW k \in 1..Len(q) PROVE q[k] \in Elems(s) /\ NonceOf[q[k]] = nonce[n] + k - 1
        <5>1. CASE k = Len(r) + 1
          BY <3>4, <3>6, <4>2, <5>1
        <5>2. CASE k # Len(r) + 1
          <6>1. k \in 1..Len(r) /\ q[k] = r[k] /\ DOMAIN r = 1..Len(r)
            BY <4>2, <4>3, <5>2
          <6>2. r[k] \in Elems(r)
            BY <6>1 DEF Elems
          <6> QED
            BY <3>2, <6>1, <6>2 DEF NextNonces
        <5> QED
          BY <5>1, <5>2
      <4>5. NextNonces(n, s, q)
        <5>1. DOMAIN q = 1..Len(q)
          BY <4>1
        <5>2. Elems(q) \subseteq Elems(s)
          BY <4>4, <5>1 DEF Elems
        <5> QED
          BY <4>4, <5>2 DEF NextNonces
      <4> QED
        BY <2>1, <4>1, <4>5
    <3> QED
      BY <3>5, <3>6
  <2> QED
    BY <2>2, <2>3
<1>4. Good(N)
  <2> HIDE DEF Good
  <2> QED
    BY <1>1, <1>3, N \in 0..N
<1> QED
  BY <1>1, <1>4

Entry == [type : {"input", "output", "events", "anchor_ref"}, txs : Seq(Tx), state : Seq(Call)]

InputsOf(b) == {i \in 1..Len(b.txs) : b.txs[i].type = "input"}
OutputsOf(b) == {i \in 1..Len(b.txs) : b.txs[i].type = "output"}
NonceAt(b, i) == NonceOf[b.txs[i].txs[1]]

\* An input names one off-chain transaction, and they come by their nonces; there
\* is one output, without repetitions, and it precedes the events.
WellFormed(b) ==
  /\ b.txs \in Seq(Entry)
  /\ \A i \in InputsOf(b) : b.txs[i].txs[1] \in Tx \ HiveTx
  /\ \A i, j \in InputsOf(b) : i < j => NonceAt(b, i) < NonceAt(b, j)
  /\ \A j \in OutputsOf(b) :
       /\ IsInjective(b.txs[j].txs)
       /\ \A i \in 1..(j - 1) : b.txs[i].type \notin {"output", "events"}

\* A block begins after the last of the headers.
GoesOn(b, hs) == \E y \in hs : b.start = y.slot + 1 /\ \A z \in hs : z.slot =< y.slot

\* Its inputs have nonces not used yet, and it executes what is included and not
\* executed.
NewTo(d, b) ==
  /\ \A i \in InputsOf(b) : d.nonce =< NonceAt(b, i)
  /\ \A i \in OutputsOf(b) :
       /\ b.txs[i].state = d.contract \o b.txs[i].txs
       /\ \A t \in Elems(b.txs[i].txs) : d.status[t] = "INCLUDED"

\* A block built out of database d.
BuiltOn(d, b) == WellFormed(b) /\ GoesOn(b, d.headers) /\ NewTo(d, b)

\* A set of numbers below another has a greatest.
LEMMA GreatestNat ==
  ASSUME NEW S, NEW n \in Nat, S \subseteq 0..n, S # {}
  PROVE  Max(S) \in S /\ \A x \in S : x =< Max(S)
<1> DEFINE L == {n - x : x \in S}
<1>1. L \subseteq Nat /\ L # {}
  <2>1. \A x \in S : n - x \in Nat
    OBVIOUS
  <2> QED
    BY <2>1
<1>2. PICK m \in L : \A x \in L : m =< x
  BY <1>1, LeastNat
<1>3. PICK g \in S : m = n - g
  BY <1>2
<1>4. \A x \in S : n - g =< n - x
  BY <1>2, <1>3
<1>5. \A x \in S : g >= x
  BY <1>3, <1>4
<1>6. \E x \in S : \A y \in S : x >= y
  BY <1>5
<1>7. Max(S) \in S /\ \A y \in S : Max(S) >= y
  BY <1>6 DEF Max
<1> QED
  BY <1>7

\* The sequences of a set's elements.
LEMMA OrdersOf ==
  ASSUME NEW S, IsFiniteSet(S), NEW s \in SetToSeqs(S)
  PROVE  s \in Seq(S) /\ IsInjective(s)
<1>1. Cardinality(S) \in Nat
  BY FS_CardinalityType
<1>2. s \in [1..Cardinality(S) -> S] /\ \A i, j \in 1..Cardinality(S) : i # j => s[i] # s[j]
  BY DEF SetToSeqs
<1> QED
  BY <1>1, <1>2 DEF IsInjective

\* Of a sequence without repetitions, none is taken twice.
LEMMA ThoseOnce ==
  ASSUME NEW T, NEW s \in Seq(T), NEW S, IsInjective(s)
  PROVE  IsInjective(Those(s, S)) /\ Those(s, S) \in Seq(T \cap S)
<1>1. PICK r : r = Those(s, S)
  OBVIOUS
<1>2. r \in Seq(T) /\ Picks(r, s, S, Len(s))
  BY <1>1, ThoseAre
<1>3. PICK f \in [1..Len(r) -> 1..Len(s)] :
        Increasing(f) /\ \A k \in 1..Len(r) : r[k] = s[f[k]] /\ r[k] \in S
  BY <1>2 DEF Picks
<1>4. ASSUME NEW i \in 1..Len(r), NEW j \in 1..Len(r), r[i] = r[j], i < j PROVE FALSE
  <2>1. f[i] < f[j] /\ f[i] \in 1..Len(s) /\ f[j] \in 1..Len(s) /\ s[f[i]] = s[f[j]]
    BY <1>3, <1>4 DEF Increasing
  <2> QED
    BY <2>1 DEF IsInjective
<1>5. IsInjective(r)
  <2>1. SUFFICES ASSUME NEW i \in 1..Len(r), NEW j \in 1..Len(r), r[i] = r[j], i # j PROVE FALSE
    BY <1>2 DEF IsInjective
  <2> QED
    BY <1>4, <2>1
<1>6. r \in Seq(T \cap S)
  BY <1>2, <1>3
<1> QED
  BY <1>1, <1>5, <1>6

\* An entry a block may have or not.
LEMMA EntryIfIs ==
  ASSUME NEW x \in Entry, NEW e, e = <<x>> \/ e = <<>>
  PROVE  e \in Seq(Entry) /\ Len(e) =< 1 /\ \A i \in 1..Len(e) : e[i] = x
<1>1. CASE e = <<x>>
  BY <1>1
<1>2. CASE e = <<>>
  BY <1>2
<1> QED
  BY <1>1, <1>2

\* What two sequences make together.
LEMMA JoinIs ==
  ASSUME NEW T, NEW a \in Seq(T), NEW b \in Seq(T), NEW c, c = a \o b
  PROVE  /\ c \in Seq(T) /\ Len(a) \in Nat /\ Len(b) \in Nat /\ Len(c) = Len(a) + Len(b)
         /\ \A i \in 1..Len(c) :
              \/ i \in 1..Len(a) /\ c[i] = a[i]
              \/ i > Len(a) /\ i - Len(a) \in 1..Len(b) /\ c[i] = b[i - Len(a)]
<1>1. /\ c \in Seq(T) /\ Len(a) \in Nat /\ Len(b) \in Nat /\ Len(c) = Len(a) + Len(b)
      /\ \A i \in 1..Len(c) : c[i] = IF i =< Len(a) THEN a[i] ELSE b[i - Len(a)]
  OBVIOUS
<1>2. ASSUME NEW i \in 1..Len(c), i =< Len(a) PROVE i \in 1..Len(a) /\ c[i] = a[i]
  BY <1>1, <1>2
<1>3. ASSUME NEW i \in 1..Len(c), i > Len(a)
      PROVE  i - Len(a) \in 1..Len(b) /\ c[i] = b[i - Len(a)]
  BY <1>1, <1>3
<1>4. \A i \in 1..Len(c) : i =< Len(a) \/ i > Len(a)
  BY <1>1
<1> QED
  BY <1>1, <1>2, <1>3, <1>4

\* The entries of a block: the inputs, then the output or not, then others.
LaidOut(all, in, out, ev, ref) ==
  \A i \in 1..Len(all) :
    \/ i \in 1..Len(in) /\ all[i] = in[i]
    \/ i = Len(in) + 1 /\ Len(out) = 1 /\ all[i] = out[1]
    \/ i > Len(in) /\ \E j \in 1..Len(ev) : all[i] = ev[j]
    \/ i > Len(in) /\ \E j \in 1..Len(ref) : all[i] = ref[j]

LEMMA BlockLaidOut ==
  ASSUME NEW in \in Seq(Entry), NEW out \in Seq(Entry), NEW ev \in Seq(Entry), NEW ref \in Seq(Entry),
         Len(out) =< 1, NEW all, all = in \o out \o ev \o ref
  PROVE  all \in Seq(Entry) /\ LaidOut(all, in, out, ev, ref)
<1>1. PICK two : two = in \o out
  OBVIOUS
<1>2. PICK three : three = two \o ev
  OBVIOUS
<1>3. all = three \o ref
  BY <1>1, <1>2
<1>4. /\ two \in Seq(Entry) /\ Len(in) \in Nat /\ Len(out) \in Nat /\ Len(two) = Len(in) + Len(out)
      /\ \A i \in 1..Len(two) :
           \/ i \in 1..Len(in) /\ two[i] = in[i]
           \/ i > Len(in) /\ i - Len(in) \in 1..Len(out) /\ two[i] = out[i - Len(in)]
  BY <1>1, JoinIs
<1>5. /\ three \in Seq(Entry) /\ Len(ev) \in Nat
      /\ \A i \in 1..Len(three) :
           \/ i \in 1..Len(two) /\ three[i] = two[i]
           \/ i > Len(two) /\ i - Len(two) \in 1..Len(ev) /\ three[i] = ev[i - Len(two)]
      /\ Len(three) = Len(two) + Len(ev)
  <2>1. two \in Seq(Entry)
    BY <1>4
  <2> QED
    BY <1>2, <2>1, JoinIs
<1>6. /\ all \in Seq(Entry)
      /\ \A i \in 1..Len(all) :
           \/ i \in 1..Len(three) /\ all[i] = three[i]
           \/ i > Len(three) /\ i - Len(three) \in 1..Len(ref) /\ all[i] = ref[i - Len(three)]
  BY <1>3, <1>5, JoinIs
<1>7. ASSUME NEW i \in 1..Len(two)
      PROVE  \/ i \in 1..Len(in) /\ two[i] = in[i]
             \/ i = Len(in) + 1 /\ Len(out) = 1 /\ two[i] = out[1]
  <2>1. CASE i > Len(in) /\ i - Len(in) \in 1..Len(out) /\ two[i] = out[i - Len(in)]
    <3>0. i \in Nat
      OBVIOUS
    <3>1. PICK k : k = i - Len(in) /\ k \in 1..Len(out)
      BY <2>1
    <3>4. Len(out) \in Nat /\ Len(out) =< 1
      BY <1>4
    <3>2. k = 1 /\ Len(out) = 1
      <4>1. PICK l \in Nat : l = Len(out)
        BY <3>4
      <4>2. l =< 1 /\ k \in 1..l
        BY <3>1, <3>4, <4>1
      <4>3. l = 1 /\ k = 1
        BY <4>2
      <4> QED
        BY <4>1, <4>3
    <3>3. i = Len(in) + 1
      BY <1>4, <3>0, <3>1, <3>2
    <3> QED
      BY <2>1, <3>1, <3>2, <3>3
  <2> QED
    BY <1>4, <2>1
<1>8. ASSUME NEW i \in 1..Len(all), i > Len(three), i - Len(three) \in 1..Len(ref), all[i] = ref[i - Len(three)]
      PROVE  i > Len(in) /\ \E j \in 1..Len(ref) : all[i] = ref[j]
  <2>1. i \in Nat /\ Len(three) >= Len(in) /\ Len(three) \in Nat
    BY <1>4, <1>5, <1>6
  <2> QED
    BY <1>4, <1>8, <2>1
<1>9. ASSUME NEW i \in 1..Len(three), i > Len(two), i - Len(two) \in 1..Len(ev), three[i] = ev[i - Len(two)]
      PROVE  i > Len(in) /\ \E j \in 1..Len(ev) : three[i] = ev[j]
  <2>1. i \in Nat /\ Len(two) >= Len(in) /\ Len(two) \in Nat
    BY <1>4
  <2> QED
    BY <1>4, <1>9, <2>1
<1>10. ASSUME NEW i \in 1..Len(three)
       PROVE  \/ i \in 1..Len(in) /\ three[i] = in[i]
              \/ i = Len(in) + 1 /\ Len(out) = 1 /\ three[i] = out[1]
              \/ i > Len(in) /\ \E j \in 1..Len(ev) : three[i] = ev[j]
  <2>1. CASE i \in 1..Len(two) /\ three[i] = two[i]
    BY <1>7, <2>1
  <2>2. CASE i > Len(two) /\ i - Len(two) \in 1..Len(ev) /\ three[i] = ev[i - Len(two)]
    BY <1>9, <2>2
  <2> QED
    BY <1>5, <2>1, <2>2
<1>11. ASSUME NEW i \in 1..Len(all)
       PROVE  \/ i \in 1..Len(in) /\ all[i] = in[i]
              \/ i = Len(in) + 1 /\ Len(out) = 1 /\ all[i] = out[1]
              \/ i > Len(in) /\ \E j \in 1..Len(ev) : all[i] = ev[j]
              \/ i > Len(in) /\ \E j \in 1..Len(ref) : all[i] = ref[j]
  <2>1. CASE i \in 1..Len(three) /\ all[i] = three[i]
    BY <1>10, <2>1
  <2>2. CASE i > Len(three) /\ i - Len(three) \in 1..Len(ref) /\ all[i] = ref[i - Len(three)]
    BY <1>8, <2>2
  <2> QED
    BY <1>6, <2>1, <2>2
<1> QED
  BY <1>6, <1>11 DEF LaidOut

\* What a witness builds is built out of its database.
LEMMA BuildIs ==
  ASSUME BlocksOK, NEW n \in Node, nonce[n] \in Nat, contract[n] \in Seq(Call),
         NEW end, NEW offered \in PoolOrders(n), NEW b \in Blocks(n, end, offered)
  PROVE  b.end = end /\ b.start = LastEnd(n) + 1 /\ WellFormed(b) /\ NewTo(Data(n), b)
<1> DEFINE Off == {t \in Tx \ HiveTx : status[n][t] = "UNCONFIRMED"}
           Ready == {t \in Tx : status[n][t] = "INCLUDED" /\ anchor[n][t].height \in LastEnd(n)..end}
<1>1. PICK run \in ToExecute(n, end) : b = Build(n, end, offered, run)
  BY DEF Blocks
<1>2. IsFiniteSet(Off) /\ IsFiniteSet(Ready)
  <2>1. IsFiniteSet(Tx) /\ Off \subseteq Tx /\ Ready \subseteq Tx
    BY Assumed
  <2> QED
    BY <2>1, FS_Subset
<1>3. offered \in Seq(Off)
  <2>1. offered \in SetToSeqs(Off)
    BY DEF PoolOrders
  <2> QED
    BY <1>2, <2>1, OrdersOf
<1>4. run \in Seq(Ready) /\ IsInjective(run)
  <2>1. run \in SetToSeqs(Ready)
    BY <1>1 DEF ToExecute
  <2> QED
    BY <1>2, <2>1, OrdersOf
<1>5. PICK r : r = WithNextNonce(n, offered)
  OBVIOUS
<1>6. r \in Seq(Off) /\ \A k \in 1..Len(r) : NonceOf[r[k]] = nonce[n] + k - 1
  BY <1>3, <1>5, NextNonceTaken DEF NextNonces
<1>7. PICK calls : calls = Those(run, Call)
  OBVIOUS
<1>8. calls \in Seq(Ready \cap Call) /\ IsInjective(calls)
  BY <1>4, <1>7, ThoseOnce
<1>9. PICK valid : valid = Those(run, Tx \ Invalid)
  OBVIOUS
<1>10. valid \in Seq(Ready)
  BY <1>4, <1>9, ThoseAre
<1>11. PICK in : in = [i \in DOMAIN r |-> [type |-> "input", txs |-> <<r[i]>>, state |-> <<>>]]
  OBVIOUS
<1>12. PICK out : out = EntryIf(calls # <<>>, "output", calls, contract[n] \o calls)
  OBVIOUS
<1>13. PICK ev : ev = EntryIf(\E i \in DOMAIN valid : valid[i] \notin Call, "events", valid, <<>>)
  OBVIOUS
<1>14. PICK ref : ref = EntryIf(\E i \in DOMAIN run : run[i] \in HiveTx, "anchor_ref", <<>>, <<>>)
  OBVIOUS
<1>15. b = [start |-> LastEnd(n) + 1, end |-> end, txs |-> in \o out \o ev \o ref]
  BY <1>1, <1>5, <1>7, <1>9, <1>11, <1>12, <1>13, <1>14 DEF Build
<1>16. in \in Seq(Entry) /\ Len(in) = Len(r)
       /\ \A i \in 1..Len(in) : in[i] = [type |-> "input", txs |-> <<r[i]>>, state |-> <<>>]
  <2>1. DOMAIN r = 1..Len(r) /\ Len(r) \in Nat
    BY <1>6
  <2>2. ASSUME NEW i \in 1..Len(r)
        PROVE  [type |-> "input", txs |-> <<r[i]>>, state |-> <<>>] \in Entry
    <3>1. r[i] \in Tx
      BY <1>6
    <3>2. <<r[i]>> \in Seq(Tx) /\ <<>> \in Seq(Call)
      BY <3>1
    <3> QED
      BY <3>2 DEF Entry
  <2>3. in \in [1..Len(r) -> Entry]
    BY <1>11, <2>1, <2>2
  <2> QED
    BY <1>11, <2>1, <2>3
<1>17. calls \in Seq(Tx) /\ calls \in Seq(Call) /\ valid \in Seq(Tx) /\ <<>> \in Seq(Tx) /\ <<>> \in Seq(Call)
       /\ contract[n] \o calls \in Seq(Call)
  <2>1. calls \in Seq(Tx) /\ valid \in Seq(Tx)
    <3>1. Ready \cap Call \subseteq Tx /\ Ready \subseteq Tx
      OBVIOUS
    <3> HIDE DEF Ready
    <3> QED
      BY <1>8, <1>10, <3>1
  <2>2. calls \in Seq(Call)
    <3> HIDE DEF Ready
    <3> QED
      BY <1>8
  <2> QED
    BY <2>1, <2>2
<1>30. /\ out \in Seq(Entry) /\ Len(out) =< 1
       /\ \A i \in 1..Len(out) : out[i] = [type |-> "output", txs |-> calls, state |-> contract[n] \o calls]
  <2>0. PICK x : x = [type |-> "output", txs |-> calls, state |-> contract[n] \o calls]
    OBVIOUS
  <2>1. x \in Entry
    BY <1>17, <2>0 DEF Entry
  <2>2. out = <<x>> \/ out = <<>>
    BY <1>12, <2>0 DEF EntryIf
  <2> HIDE DEF Off, Ready
  <2>3. out \in Seq(Entry) /\ Len(out) =< 1 /\ \A i \in 1..Len(out) : out[i] = x
    BY <2>1, <2>2, EntryIfIs
  <2> QED
    BY <2>0, <2>3
<1>19. /\ ev \in Seq(Entry) /\ Len(ev) =< 1
       /\ \A i \in 1..Len(ev) : ev[i] = [type |-> "events", txs |-> valid, state |-> <<>>]
  <2>0. PICK x : x = [type |-> "events", txs |-> valid, state |-> <<>>]
    OBVIOUS
  <2>1. x \in Entry
    BY <1>17, <2>0 DEF Entry
  <2>2. ev = <<x>> \/ ev = <<>>
    BY <1>13, <2>0 DEF EntryIf
  <2> HIDE DEF Off, Ready
  <2>3. ev \in Seq(Entry) /\ Len(ev) =< 1 /\ \A i \in 1..Len(ev) : ev[i] = x
    BY <2>1, <2>2, EntryIfIs
  <2> QED
    BY <2>0, <2>3
<1>20. /\ ref \in Seq(Entry) /\ Len(ref) =< 1
       /\ \A i \in 1..Len(ref) : ref[i] = [type |-> "anchor_ref", txs |-> <<>>, state |-> <<>>]
  <2>0. PICK x : x = [type |-> "anchor_ref", txs |-> <<>>, state |-> <<>>]
    OBVIOUS
  <2>1. x \in Entry
    BY <1>17, <2>0 DEF Entry
  <2>2. ref = <<x>> \/ ref = <<>>
    BY <1>14, <2>0 DEF EntryIf
  <2> HIDE DEF Off, Ready
  <2>3. ref \in Seq(Entry) /\ Len(ref) =< 1 /\ \A i \in 1..Len(ref) : ref[i] = x
    BY <2>1, <2>2, EntryIfIs
  <2> QED
    BY <2>0, <2>3
<1>23. b.txs = in \o out \o ev \o ref /\ b.end = end /\ b.start = LastEnd(n) + 1
  BY <1>15
<1>24. PICK all : all = b.txs
  OBVIOUS
<1>25. all \in Seq(Entry) /\ LaidOut(all, in, out, ev, ref)
  <2>1. all = in \o out \o ev \o ref
    BY <1>23, <1>24
  <2>2. in \in Seq(Entry)
    BY <1>16
  <2>3. out \in Seq(Entry)
    BY <1>30
  <2>4. ev \in Seq(Entry)
    BY <1>19
  <2>5. ref \in Seq(Entry)
    BY <1>20
  <2>6. Len(out) =< 1
    BY <1>30
  <2> HIDE DEF Off, Ready
  <2> QED
    BY <2>1, <2>2, <2>3, <2>4, <2>5, <2>6, BlockLaidOut
<1>26. ASSUME NEW i \in 1..Len(all)
       PROVE  /\ all[i].type = "input" => i \in 1..Len(r) /\ all[i].txs = <<r[i]>>
              /\ all[i].type = "output" => i = Len(r) + 1 /\ all[i].txs = calls /\ all[i].state = contract[n] \o calls
              /\ i =< Len(r) => all[i].type = "input"
  <2>0. Len(in) = Len(r) /\ Len(r) \in Nat /\ i \in Nat
    BY <1>16, <1>6
  <2>1. CASE i \in 1..Len(in) /\ all[i] = in[i]
    <3>1. PICK x : x = [type |-> "input", txs |-> <<r[i]>>, state |-> <<>>]
      OBVIOUS
    <3>2. all[i] = x
      BY <1>16, <2>1, <3>1
    <3>3. x.type = "input" /\ x.txs = <<r[i]>>
      BY <3>1
    <3> QED
      BY <2>0, <2>1, <3>2, <3>3
  <2>2. CASE i = Len(in) + 1 /\ Len(out) = 1 /\ all[i] = out[1]
    <3>1. PICK x : x = [type |-> "output", txs |-> calls, state |-> contract[n] \o calls]
      OBVIOUS
    <3>2. all[i] = x
      BY <1>30, <2>2, <3>1, 1 \in 1..Len(out)
    <3>3. x.type = "output" /\ x.txs = calls /\ x.state = contract[n] \o calls
      BY <3>1
    <3> QED
      BY <2>0, <2>2, <3>2, <3>3
  <2>3. CASE i > Len(in) /\ \E j \in 1..Len(ev) : all[i] = ev[j]
    <3>1. all[i] = [type |-> "events", txs |-> valid, state |-> <<>>]
      BY <1>19, <2>3
    <3>2. all[i].type = "events"
      BY <3>1
    <3> QED
      BY <2>0, <2>3, <3>2
  <2>4. CASE i > Len(in) /\ \E j \in 1..Len(ref) : all[i] = ref[j]
    <3>1. all[i] = [type |-> "anchor_ref", txs |-> <<>>, state |-> <<>>]
      BY <1>20, <2>4
    <3>2. all[i].type = "anchor_ref"
      BY <3>1
    <3> QED
      BY <2>0, <2>4, <3>2
  <2> QED
    BY <1>25, <2>1, <2>2, <2>3, <2>4 DEF LaidOut
<1>27. ASSUME NEW i \in 1..Len(all), all[i].type = "input"
       PROVE  /\ all[i].txs[1] \in Tx \ HiveTx /\ NonceOf[all[i].txs[1]] = nonce[n] + i - 1
              /\ nonce[n] =< NonceOf[all[i].txs[1]] /\ i \in Nat
  <2>1. i \in 1..Len(r) /\ all[i].txs = <<r[i]>>
    BY <1>26, <1>27
  <2>2. all[i].txs[1] = r[i] /\ r[i] \in Off
    BY <1>6, <2>1
  <2>3. NonceOf[all[i].txs[1]] = nonce[n] + i - 1 /\ i \in Nat /\ i >= 1
    BY <1>6, <2>1, <2>2
  <2> QED
    BY <2>2, <2>3
<1>28. ASSUME NEW i \in 1..Len(all), all[i].type = "output"
       PROVE  /\ i = Len(r) + 1 /\ IsInjective(all[i].txs) /\ all[i].state = contract[n] \o all[i].txs
              /\ \A t \in Elems(all[i].txs) : t \in Tx /\ status[n][t] = "INCLUDED"
  <2>1. i = Len(r) + 1 /\ all[i].txs = calls /\ all[i].state = contract[n] \o calls
    BY <1>26, <1>28
  <2>2. \A t \in Elems(calls) : t \in Ready
    <3>1. DOMAIN calls = 1..Len(calls) /\ \A k \in 1..Len(calls) : calls[k] \in Ready \cap Call
      <4> HIDE DEF Ready
      <4> QED
        BY <1>8
    <3> QED
      BY <3>1 DEF Elems
  <2> QED
    BY <1>8, <2>1, <2>2
<1>29. WellFormed(b)
  <2>1. InputsOf(b) = {i \in 1..Len(all) : all[i].type = "input"}
        /\ OutputsOf(b) = {i \in 1..Len(all) : all[i].type = "output"}
        /\ \A i : NonceAt(b, i) = NonceOf[all[i].txs[1]]
    BY <1>24 DEF InputsOf, OutputsOf, NonceAt
  <2>2. \A i, j \in InputsOf(b) : i < j => NonceAt(b, i) < NonceAt(b, j)
    <3> SUFFICES ASSUME NEW i \in InputsOf(b), NEW j \in InputsOf(b), i < j
                 PROVE  NonceAt(b, i) < NonceAt(b, j)
      OBVIOUS
    <3>1. i \in 1..Len(all) /\ j \in 1..Len(all) /\ all[i].type = "input" /\ all[j].type = "input"
      BY <2>1
    <3>2. NonceOf[all[i].txs[1]] = nonce[n] + i - 1 /\ i \in Nat
      BY ONLY <1>27, <3>1
    <3>3. NonceOf[all[j].txs[1]] = nonce[n] + j - 1 /\ j \in Nat
      BY ONLY <1>27, <3>1
    <3>4. \A k \in Nat : k + i - 1 < k + j - 1
      BY ONLY <3>2, <3>3, i < j
    <3>5. nonce[n] + i - 1 < nonce[n] + j - 1
      BY ONLY <3>4, nonce[n] \in Nat
    <3>6. NonceOf[all[i].txs[1]] < NonceOf[all[j].txs[1]]
      BY ONLY <3>2, <3>3, <3>5
    <3> QED
      BY ONLY <2>1, <3>6
  <2>3. ASSUME NEW j \in OutputsOf(b), NEW i \in 1..(j - 1)
        PROVE  all[i].type \notin {"output", "events"}
    <3>0. j \in 1..Len(all) /\ all[j].type = "output"
      BY <2>1
    <3>1. j = Len(r) + 1 /\ Len(r) \in Nat /\ j \in 1..Len(all)
      <4>1. j = Len(r) + 1
        BY <1>28, <3>0
      <4>2. Len(r) \in Nat
        BY <1>6
      <4> QED
        BY <3>0, <4>1, <4>2
    <3>2. i \in 1..Len(all) /\ i =< Len(r)
      BY <1>25, <3>1
    <3> QED
      BY <1>26, <3>2
  <2>4. \A j \in OutputsOf(b) : IsInjective(all[j].txs)
    BY <1>28, <2>1
  <2>5. \A i \in InputsOf(b) : all[i].txs[1] \in Tx \ HiveTx
    BY <1>27, <2>1
  <2> QED
    BY <1>24, <1>25, <2>2, <2>3, <2>4, <2>5 DEF WellFormed
<1>31. NewTo(Data(n), b)
  <2>1. Data(n).nonce = nonce[n] /\ Data(n).contract = contract[n]
        /\ \A t \in Tx : status[n][t] = "INCLUDED" => Data(n).status[t] = "INCLUDED"
    BY SettledIs DEF Data
  <2>2. \A i \in InputsOf(b) : nonce[n] =< NonceAt(b, i)
    BY <1>24, <1>27 DEF InputsOf, NonceAt
  <2>3. ASSUME NEW i \in OutputsOf(b)
        PROVE  /\ b.txs[i].state = contract[n] \o b.txs[i].txs
               /\ \A t \in Elems(b.txs[i].txs) : t \in Tx /\ status[n][t] = "INCLUDED"
    <3>1. i \in 1..Len(all) /\ all[i].type = "output" /\ b.txs[i] = all[i]
      BY <1>24 DEF OutputsOf
    <3> QED
      BY <1>28, <3>1
  <2> QED
    BY <2>1, <2>2, <2>3 DEF NewTo
<1> QED
  BY <1>23, <1>29, <1>31

-------------------------------------------------------------------------------
(* What holds of the databases along the run. *)

\* Where a node has handled the blocks up to b and not begun with the next.
At(b) == [parsed |-> b, handled |-> NotTicked, indexing |-> 0]

\* Every header goes on where the one before it ended, and ends at its slot.
OneAfterOther(hs) ==
  /\ \A x \in hs : x.slot \in Nat /\ x.block.end = x.slot /\ WellFormed(x.block)
  /\ \A x, y \in hs : x.slot = y.slot => x = y
  /\ \A x \in hs \ {FirstHeader} : \E y \in hs :
       /\ y.slot < x.slot /\ x.block.start = y.slot + 1
       /\ \A z \in hs : z.slot < x.slot => z.slot =< y.slot

NoncesRise(hs) ==
  \A x, y \in hs : x.slot < y.slot =>
    \A i \in InputsOf(x.block) : \A j \in InputsOf(y.block) :
      NonceAt(x.block, i) < NonceAt(y.block, j)

DbGood(d) ==
  /\ d.nonce \in Nat /\ d.contract \in Seq(Call) /\ d.status \in [Tx -> Status]
  /\ FirstHeader \in d.headers /\ OneAfterOther(d.headers) /\ NoncesRise(d.headers)
  /\ IsInjective(d.contract) /\ \A t \in Elems(d.contract) : d.status[t] = "CONFIRMED"

\* A place is one of chain H.
Stands(H, p) ==
  /\ p \in Places /\ p.parsed =< Len(H)
  /\ \/ p.handled = NotTicked /\ p.indexing = 0
     \/ /\ p.parsed < Len(H) /\ p.handled \in 0..Len(H[p.parsed + 1])
        /\ p.indexing # 0 => p.handled # Len(H[p.parsed + 1])

\* The last slot a header can be of.
LastSlot(p) == SlotOf(IF p.handled = NotTicked THEN p.parsed ELSE p.parsed + 1)
InSlots(p, d) == \A x \in d.headers : x.slot =< LastSlot(p)

\* The header whose entries are being indexed.
Current(p, x) == p.indexing # 0 /\ x.slot = SlotOf(p.parsed + 1)

\* A transaction has a status from its operation or from a block on.
Happened(H, p, t) ==
  \E h \in 1..Len(H) : \E i \in 1..Len(H[h]) :
    H[h][i] = TxOp(t) /\ (h =< p.parsed \/ (h = p.parsed + 1 /\ i =< p.handled))

WasInput(p, d, t) ==
  \E x \in d.headers : \E i \in InputsOf(x.block) :
    x.block.txs[i].txs[1] = t /\ (Current(p, x) => i < p.indexing)

Known(H, p, d) ==
  \A t \in Tx : d.status[t] # "NONE" => IF t \in HiveTx THEN Happened(H, p, t) ELSE WasInput(p, d, t)

\* The nonce is beyond those of all blocks, but for the one being indexed.
NoncesUsed(p, d) ==
  \A x \in d.headers : ~Current(p, x) => \A i \in InputsOf(x.block) : NonceAt(x.block, i) < d.nonce

OpOf(H, p) == H[p.parsed + 1][p.handled + 1]

\* What is still to be indexed of it is new to the database.
AtHand(H, p, d) == p.indexing # 0 =>
  LET op == OpOf(H, p) IN
  /\ op.kind = "block" /\ HeaderAt(SlotOf(p.parsed + 1), op) \in d.headers
  /\ \A i \in InputsOf(op.block) : d.nonce =< NonceAt(op.block, i)
  /\ \A i \in OutputsOf(op.block) : i >= p.indexing =>
       /\ op.block.txs[i].state = d.contract \o op.block.txs[i].txs
       /\ \A t \in Elems(op.block.txs[i].txs) : d.status[t] = "INCLUDED"

Good(H, p, d) ==
  Stands(H, p) /\ DbGood(d) /\ InSlots(p, d) /\ Known(H, p, d) /\ NoncesUsed(p, d) /\ AtHand(H, p, d)

\* Nothing a block that is built looks at has gone.
Quiet(d, e) ==
  /\ e.headers = d.headers /\ e.nonce = d.nonce /\ e.contract = d.contract
  /\ \A t \in Tx : d.status[t] = "INCLUDED" => e.status[t] = "INCLUDED"

Final(d, e) ==
  \A t \in Tx : d.status[t] \in {"CONFIRMED", "FAILED"} => e.status[t] = d.status[t]

\* What one step does.
Onward(H, p, d, q, e) ==
  /\ Good(H, q, e) /\ Final(d, e) /\ d.headers \subseteq e.headers
  /\ (\A x \in e.headers : x.slot # SlotOf(p.parsed + 1)) => Quiet(d, e)

\* No transaction is on the chain twice.
OnceOnHive(H) ==
  \A t \in HiveTx : \A h, k \in 1..Len(H) : \A i \in 1..Len(H[h]), j \in 1..Len(H[k]) :
    H[h][i] = TxOp(t) /\ H[k][j] = TxOp(t) => h = k /\ i = j

\* No header is being indexed when the place says so.
LEMMA NoneCurrent ==
  ASSUME NEW H, NEW p, NEW d, NEW q, NEW e, Good(H, p, d), p.indexing = 0, q.indexing = 0,
         Stands(H, q), e.headers = d.headers, e.nonce = d.nonce, InSlots(q, e)
  PROVE  NoncesUsed(q, e) /\ AtHand(H, q, e) /\ \A t : WasInput(p, d, t) => WasInput(q, e, t)
BY DEF Good, NoncesUsed, AtHand, WasInput, Current

\* A tick changes nothing.
LEMMA TickGood ==
  ASSUME NEW H, NEW p, NEW d, Good(H, p, d), p.handled = NotTicked, p.parsed < Len(H),
         \A h \in 1..Len(H) : Len(H[h]) \in Nat, Len(H) \in Nat,
         NEW q, q = [parsed |-> p.parsed, handled |-> 0, indexing |-> 0]
  PROVE  Onward(H, p, d, q, d)
<1>1. p \in Places /\ p.indexing = 0 /\ q.indexing = 0 /\ q.parsed = p.parsed /\ q.handled = 0 /\ p.parsed \in Nat
  BY DEF Good, Stands, Places, NotTicked
<1>2. Stands(H, q)
  <2>1. p.parsed + 1 \in 1..Len(H)
    BY <1>1
  <2>2. q \in Places
    BY <1>1 DEF Places
  <2> QED
    BY <1>1, <2>1, <2>2 DEF Stands
<1>3. InSlots(q, d)
  <2>1. SlotOf(p.parsed) =< SlotOf(p.parsed + 1) /\ SlotOf(p.parsed) \in Nat /\ SlotOf(p.parsed + 1) \in Nat
    BY <1>1, SlotsGrow
  <2>2. \A x \in d.headers : x.slot \in Nat /\ x.slot =< SlotOf(p.parsed)
    BY DEF Good, InSlots, LastSlot, DbGood, OneAfterOther
  <2> QED
    BY <1>1, <2>1, <2>2 DEF InSlots, LastSlot, NotTicked
<1>4. NoncesUsed(q, d) /\ AtHand(H, q, d) /\ \A t : WasInput(p, d, t) => WasInput(q, d, t)
  BY <1>1, <1>2, <1>3, NoneCurrent
<1>5. \A t : Happened(H, p, t) => Happened(H, q, t)
  <2> SUFFICES ASSUME NEW h \in 1..Len(H), NEW i \in 1..Len(H[h]),
                      h =< p.parsed \/ (h = p.parsed + 1 /\ i =< p.handled)
               PROVE  h =< q.parsed \/ (h = q.parsed + 1 /\ i =< q.handled)
    BY DEF Happened
  <2>1. Len(H[h]) \in Nat
    OBVIOUS
  <2> QED
    BY <1>1, <2>1 DEF NotTicked
<1>6. Known(H, q, d)
  BY <1>4, <1>5 DEF Good, Known
<1> QED
  BY <1>2, <1>3, <1>4, <1>6 DEF Onward, Good, Final, Quiet

\* Nor does the end of a block.
LEMMA EndGood ==
  ASSUME NEW H, NEW p, NEW d, Good(H, p, d), p.handled # NotTicked, p.handled = Len(H[p.parsed + 1]),
         p.parsed < Len(H), \A h \in 1..Len(H) : Len(H[h]) \in Nat, Len(H) \in Nat,
         NEW q, q = At(p.parsed + 1)
  PROVE  Onward(H, p, d, q, d)
<1>1. /\ p \in Places /\ p.indexing = 0 /\ q.indexing = 0 /\ q.parsed = p.parsed + 1 /\ q.handled = NotTicked
      /\ p.parsed \in Nat
  BY DEF Good, Stands, Places, At
<1>2. Stands(H, q)
  BY <1>1 DEF Stands, Places, At, NotTicked
<1>3. InSlots(q, d)
  BY <1>1 DEF Good, InSlots, LastSlot
<1>4. NoncesUsed(q, d) /\ AtHand(H, q, d) /\ \A t : WasInput(p, d, t) => WasInput(q, d, t)
  BY <1>1 DEF Good, NoncesUsed, AtHand, WasInput, Current
<1>5. \A t : Happened(H, p, t) => Happened(H, q, t)
  <2> SUFFICES ASSUME NEW h \in 1..Len(H), NEW i \in 1..Len(H[h]),
                      h =< p.parsed \/ (h = p.parsed + 1 /\ i =< p.handled)
               PROVE  h =< q.parsed \/ (h = q.parsed + 1 /\ i =< q.handled)
    BY DEF Happened
  <2>1. h \in Nat /\ p.parsed \in Nat /\ q.parsed = p.parsed + 1
    BY <1>1
  <2>3. h =< q.parsed
    BY <2>1
  <2> QED
    BY <2>3
<1>6. Known(H, q, d)
  BY <1>4, <1>5 DEF Good, Known
<1> QED
  BY <1>2, <1>3, <1>4, <1>6 DEF Onward, Good, Final, Quiet

\* What a place tells of the operation there.
LEMMA OpThere ==
  ASSUME NEW H, NEW p, NEW d, Good(H, p, d), p.parsed < Len(H), Len(H) \in Nat,
         \A h \in 1..Len(H) : Len(H[h]) \in Nat,
         p.handled # NotTicked, p.handled # Len(H[p.parsed + 1])
  PROVE  /\ p \in Places /\ p.parsed \in Nat /\ p.handled \in Nat /\ p.indexing \in Nat
         /\ p.parsed + 1 \in 1..Len(H) /\ p.handled + 1 \in 1..Len(H[p.parsed + 1])
         /\ \A k \in Nat : Stands(H, [parsed |-> p.parsed, handled |-> p.handled, indexing |-> k])
         /\ Stands(H, [parsed |-> p.parsed, handled |-> p.handled + 1, indexing |-> 0])
         /\ LastSlot(p) = SlotOf(p.parsed + 1) /\ SlotOf(p.parsed + 1) \in Nat
<1>1. Stands(H, p) /\ p \in Places /\ p.parsed \in Nat /\ p.handled \in Int /\ p.indexing \in Nat
  BY DEF Good, Stands, Places
<1>2. p.parsed + 1 \in 1..Len(H) /\ Len(H[p.parsed + 1]) \in Nat
  BY <1>1
<1>3. p.handled \in 0..Len(H[p.parsed + 1])
  BY <1>1 DEF Stands
<1>4. p.handled \in Nat /\ p.handled + 1 \in 1..Len(H[p.parsed + 1]) /\ p.handled + 1 # NotTicked
  BY <1>2, <1>3 DEF NotTicked
<1>5. SlotOf(p.parsed + 1) \in Nat
  BY <1>1, SlotsGrow
<1>6. ASSUME NEW k \in Nat PROVE Stands(H, [parsed |-> p.parsed, handled |-> p.handled, indexing |-> k])
  <2>1. PICK q : q = [parsed |-> p.parsed, handled |-> p.handled, indexing |-> k]
    OBVIOUS
  <2>2. q \in Places /\ q.parsed = p.parsed /\ q.handled = p.handled
    BY <1>1, <2>1 DEF Places
  <2>3. Stands(H, q)
    BY <1>1, <1>3, <2>2 DEF Stands
  <2> QED
    BY <2>1, <2>3
<1>7. Stands(H, [parsed |-> p.parsed, handled |-> p.handled + 1, indexing |-> 0])
  <2>1. PICK q : q = [parsed |-> p.parsed, handled |-> p.handled + 1, indexing |-> 0]
    OBVIOUS
  <2>2. q \in Places /\ q.parsed = p.parsed /\ q.handled = p.handled + 1 /\ q.indexing = 0
    BY <1>1, <2>1 DEF Places
  <2>3. q.handled \in 0..Len(H[q.parsed + 1]) /\ q.parsed =< Len(H)
    BY <1>1, <1>2, <1>4, <2>2
  <2>4. Stands(H, q)
    BY <2>2, <2>3 DEF Stands
  <2> QED
    BY <2>1, <2>4
<1> QED
  BY <1>1, <1>2, <1>4, <1>5, <1>6, <1>7 DEF LastSlot

\* What has happened has happened at a place further on.
LEMMA HappenedOn ==
  ASSUME NEW H, \A h \in 1..Len(H) : Len(H[h]) \in Nat, NEW p, NEW q,
         p.handled \in Nat, q.parsed = p.parsed, q.handled \in Nat, q.handled >= p.handled, NEW t, Happened(H, p, t)
  PROVE  Happened(H, q, t)
<1>1. PICK h \in 1..Len(H) : \E i \in 1..Len(H[h]) :
        H[h][i] = TxOp(t) /\ (h =< p.parsed \/ (h = p.parsed + 1 /\ i =< p.handled))
  BY DEF Happened
<1>2. PICK i \in 1..Len(H[h]) :
        H[h][i] = TxOp(t) /\ (h =< p.parsed \/ (h = p.parsed + 1 /\ i =< p.handled))
  BY <1>1
<1>3. i \in Nat
  OBVIOUS
<1>4. i =< p.handled => i =< q.handled
  BY <1>3
<1> QED
  BY <1>2, <1>4 DEF Happened

\* A transaction on Hive is seen once.
LEMMA TxGood ==
  ASSUME NEW H, NEW p, NEW d, Good(H, p, d), p.parsed < Len(H), Len(H) \in Nat,
         \A h \in 1..Len(H) : Len(H[h]) \in Nat, OnceOnHive(H),
         p.handled # NotTicked, p.handled # Len(H[p.parsed + 1]),
         NEW t \in HiveTx, OpOf(H, p) = TxOp(t), NEW a,
         NEW q, q = [parsed |-> p.parsed, handled |-> p.handled + 1, indexing |-> 0],
         NEW e, e = WithStatus(d, Marked(d.status, t, "INCLUDED"), a)
  PROVE  Onward(H, p, d, q, e)
<1>1. /\ p \in Places /\ p.parsed \in Nat /\ p.handled \in Nat
      /\ p.parsed + 1 \in 1..Len(H) /\ p.handled + 1 \in 1..Len(H[p.parsed + 1])
      /\ Stands(H, q) /\ LastSlot(p) = SlotOf(p.parsed + 1)
  BY OpThere
<1>2. p.indexing = 0 /\ t \in Tx
  BY Assumed DEF Good, AtHand, TxOp
<1>3. q.parsed = p.parsed /\ q.handled = p.handled + 1 /\ q.indexing = 0 /\ q.handled # NotTicked
      /\ q.handled \in Nat /\ q.handled >= p.handled
  BY <1>1 DEF NotTicked
<1>4. /\ e.headers = d.headers /\ e.nonce = d.nonce /\ e.contract = d.contract
      /\ \A u \in Tx : e.status[u] = IF u = t THEN "INCLUDED" ELSE d.status[u]
      /\ e.status \in [Tx -> Status]
  BY DEF WithStatus, Marked, Good, DbGood, Status
<1>5. d.status[t] = "NONE"
  <2>1. ASSUME Happened(H, p, t) PROVE FALSE
    <3>1. PICK h \in 1..Len(H) : \E i \in 1..Len(H[h]) :
            H[h][i] = TxOp(t) /\ (h =< p.parsed \/ (h = p.parsed + 1 /\ i =< p.handled))
      BY <2>1 DEF Happened
    <3>2. PICK i \in 1..Len(H[h]) :
            H[h][i] = TxOp(t) /\ (h =< p.parsed \/ (h = p.parsed + 1 /\ i =< p.handled))
      BY <3>1
    <3>3. H[p.parsed + 1][p.handled + 1] = TxOp(t)
      BY DEF OpOf
    <3>4. h = p.parsed + 1 /\ i = p.handled + 1
      BY <1>1, <3>2, <3>3 DEF OnceOnHive
    <3> QED
      BY <1>1, <3>2, <3>4
  <2> QED
    BY <1>2, <2>1 DEF Good, Known
<1>6. \A u \in Elems(d.contract) : u # t /\ u \in Tx
  <2>1. \A u \in Elems(d.contract) : u \in Call /\ d.status[u] = "CONFIRMED"
    BY DEF Good, DbGood, Elems
  <2> QED
    BY <1>5, <2>1, IndexAssumption
<1>7. DbGood(e)
  BY <1>4, <1>6 DEF Good, DbGood
<1>8. InSlots(q, e)
  <2>1. LastSlot(q) = LastSlot(p)
    BY <1>1, <1>3 DEF LastSlot
  <2> QED
    BY <1>4, <2>1 DEF Good, InSlots
<1>9. NoncesUsed(q, e) /\ AtHand(H, q, e) /\ \A u : WasInput(p, d, u) => WasInput(q, e, u)
  BY <1>2, <1>3, <1>4 DEF Good, NoncesUsed, AtHand, WasInput, Current
<1>10. Known(H, q, e)
  <2> SUFFICES ASSUME NEW u \in Tx, e.status[u] # "NONE"
               PROVE  IF u \in HiveTx THEN Happened(H, q, u) ELSE WasInput(q, e, u)
    BY DEF Known
  <2>1. CASE u = t
    <3>1. q.parsed + 1 \in 1..Len(H) /\ q.handled \in 1..Len(H[q.parsed + 1]) /\ q.handled =< q.handled
          /\ H[q.parsed + 1][q.handled] = TxOp(t)
      BY <1>1, <1>3 DEF OpOf
    <3>2. Happened(H, q, t)
      BY <3>1 DEF Happened
    <3> QED
      BY <2>1, <3>2
  <2>2. CASE u # t
    <3>1. d.status[u] # "NONE"
      BY <1>4, <2>2
    <3>2. IF u \in HiveTx THEN Happened(H, p, u) ELSE WasInput(p, d, u)
      BY <3>1 DEF Good, Known
    <3> QED
      BY <1>1, <1>3, <1>9, <3>2, HappenedOn
  <2> QED
    BY <2>1, <2>2
<1>11. Final(d, e) /\ Quiet(d, e)
  BY <1>4, <1>5 DEF Final, Quiet
<1> QED
  BY <1>1, <1>4, <1>7, <1>8, <1>9, <1>10, <1>11 DEF Good, Onward

\* A header that is rejected leaves everything as it was.
LEMMA RejectGood ==
  ASSUME NEW H, NEW p, NEW d, Good(H, p, d), p.parsed < Len(H), Len(H) \in Nat,
         \A h \in 1..Len(H) : Len(H[h]) \in Nat,
         p.handled # NotTicked, p.handled # Len(H[p.parsed + 1]), p.indexing = 0,
         NEW q, q = [parsed |-> p.parsed, handled |-> p.handled + 1, indexing |-> 0]
  PROVE  Onward(H, p, d, q, d)
<1>1. p.handled \in Nat /\ Stands(H, q) /\ LastSlot(p) = SlotOf(p.parsed + 1)
  BY OpThere
<1>2. q.parsed = p.parsed /\ q.handled = p.handled + 1 /\ q.indexing = 0 /\ q.handled # NotTicked
      /\ q.handled \in Nat /\ q.handled >= p.handled
  BY <1>1 DEF NotTicked
<1>3. InSlots(q, d)
  <2>1. LastSlot(q) = LastSlot(p)
    BY <1>1, <1>2 DEF LastSlot
  <2> QED
    BY <2>1 DEF Good, InSlots
<1>4. NoncesUsed(q, d) /\ AtHand(H, q, d) /\ \A u : WasInput(p, d, u) => WasInput(q, d, u)
  BY <1>2 DEF Good, NoncesUsed, AtHand, WasInput, Current
<1>5. \A u : Happened(H, p, u) => Happened(H, q, u)
  BY <1>1, <1>2, HappenedOn
<1>6. Known(H, q, d)
  BY <1>4, <1>5 DEF Good, Known
<1> QED
  BY <1>1, <1>3, <1>4, <1>6 DEF Good, Onward, Final, Quiet

\* Nonces are numbers.
LEMMA NonceType ==
  ASSUME NEW b, WellFormed(b), NEW i \in InputsOf(b)
  PROVE  NonceAt(b, i) \in Nat /\ b.txs[i].txs[1] \in Tx \ HiveTx /\ i \in Nat
<1>1. b.txs[i].txs[1] \in Tx \ HiveTx /\ i \in Nat
  BY DEF WellFormed, InputsOf
<1> QED
  BY <1>1, IndexAssumption DEF NonceAt

\* A header accepted is one more, of a block built out of this database.
LEMMA AcceptGood ==
  ASSUME NEW H, NEW p, NEW d, Good(H, p, d), p.parsed < Len(H), Len(H) \in Nat,
         \A h \in 1..Len(H) : Len(H[h]) \in Nat,
         p.handled # NotTicked, p.handled # Len(H[p.parsed + 1]), p.indexing = 0,
         NEW op, op = OpOf(H, p), op.kind = "block", NEW s, s = SlotOf(p.parsed + 1),
         op.block.end = s, \A x \in d.headers : x.slot # s,
         NEW d0, BuiltOn(d0, op.block), Quiet(d0, d),
         NEW q, q = [parsed |-> p.parsed, handled |-> p.handled, indexing |-> p.indexing + 1],
         NEW e, e = [headers |-> d.headers \cup {HeaderAt(s, op)}, status |-> d.status,
                     anchor |-> d.anchor, nonce |-> d.nonce, contract |-> d.contract]
  PROVE  Onward(H, p, d, q, e)
<1>1. /\ p \in Places /\ p.parsed \in Nat /\ p.handled \in Nat /\ LastSlot(p) = s /\ s \in Nat
      /\ \A k \in Nat : Stands(H, [parsed |-> p.parsed, handled |-> p.handled, indexing |-> k])
  BY OpThere
<1>2. q.parsed = p.parsed /\ q.handled = p.handled /\ q.indexing = 1 /\ Stands(H, q)
  BY <1>1
<1>3. PICK x : x = HeaderAt(s, op)
  OBVIOUS
<1>4. x.slot = s /\ x.block = op.block
  BY <1>3 DEF HeaderAt
<1>5. e.headers = d.headers \cup {x} /\ e.status = d.status /\ e.nonce = d.nonce /\ e.contract = d.contract
  BY <1>3
<1>6. /\ WellFormed(op.block) /\ GoesOn(op.block, d.headers) /\ NewTo(d, op.block)
  <2>1. \A i \in OutputsOf(op.block) : \A t \in Elems(op.block.txs[i].txs) : t \in Tx
    <3> SUFFICES ASSUME NEW i \in OutputsOf(op.block), NEW t \in Elems(op.block.txs[i].txs)
                 PROVE  t \in Tx
      OBVIOUS
    <3>1. i \in 1..Len(op.block.txs) /\ op.block.txs \in Seq(Entry)
      BY DEF OutputsOf, BuiltOn, WellFormed
    <3>2. op.block.txs[i] \in Entry
      BY <3>1
    <3>3. op.block.txs[i].txs \in Seq(Tx)
      BY <3>2 DEF Entry
    <3> QED
      BY <3>3 DEF Elems
  <2>2. WellFormed(op.block) /\ GoesOn(op.block, d.headers)
    BY DEF BuiltOn, Quiet
  <2>3. NewTo(d, op.block)
    BY <2>1 DEF BuiltOn, NewTo, Quiet
  <2> QED
    BY <2>2, <2>3
<1>7. /\ \A y \in d.headers : y.slot \in Nat /\ y.slot < s /\ y.block.end = y.slot /\ WellFormed(y.block)
      /\ \A y, z \in d.headers : y.slot = z.slot => y = z
      /\ \A y \in d.headers \ {FirstHeader} : \E z \in d.headers :
           /\ z.slot < y.slot /\ y.block.start = z.slot + 1
           /\ \A w \in d.headers : w.slot < y.slot => w.slot =< z.slot
  <2>1. \A y \in d.headers : y.slot \in Nat /\ y.slot =< s /\ y.slot # s
    BY <1>1 DEF Good, InSlots, DbGood, OneAfterOther
  <2> QED
    BY <1>1, <2>1 DEF Good, DbGood, OneAfterOther
<1>8. OneAfterOther(e.headers)
  <2>1. ASSUME NEW y \in e.headers PROVE y.slot \in Nat /\ y.block.end = y.slot /\ WellFormed(y.block)
    <3>1. CASE y = x
      BY <1>1, <1>4, <1>6, <3>1
    <3>2. CASE y \in d.headers
      BY <1>7, <3>2
    <3> QED
      BY <1>5, <3>1, <3>2
  <2>2. ASSUME NEW y \in e.headers, NEW z \in e.headers, y.slot = z.slot PROVE y = z
    BY <1>4, <1>5, <1>7, <2>2
  <2>3. ASSUME NEW y \in e.headers \ {FirstHeader}
        PROVE  \E z \in e.headers :
                 /\ z.slot < y.slot /\ y.block.start = z.slot + 1
                 /\ \A w \in e.headers : w.slot < y.slot => w.slot =< z.slot
    <3>1. CASE y = x
      <4>1. PICK z \in d.headers : x.block.start = z.slot + 1 /\ \A w \in d.headers : w.slot =< z.slot
        BY <1>4, <1>6 DEF GoesOn
      <4>2. z.slot < y.slot /\ z \in e.headers
        BY <1>4, <1>5, <1>7, <3>1
      <4>3. \A w \in e.headers : w.slot < y.slot => w.slot =< z.slot
        BY <1>1, <1>4, <1>5, <3>1, <4>1
      <4> QED
        BY <3>1, <4>1, <4>2, <4>3
    <3>2. CASE y \in d.headers
      <4>1. PICK z \in d.headers : /\ z.slot < y.slot /\ y.block.start = z.slot + 1
                                   /\ \A w \in d.headers : w.slot < y.slot => w.slot =< z.slot
        BY <1>7, <3>2
      <4>2. ~(x.slot < y.slot)
        BY <1>1, <1>4, <1>7, <3>2
      <4>3. \A w \in e.headers : w.slot < y.slot => w.slot =< z.slot
        BY <1>5, <4>1, <4>2
      <4> QED
        BY <1>5, <4>1, <4>3
    <3> QED
      BY <1>5, <3>1, <3>2
  <2> QED
    BY <2>1, <2>2, <2>3 DEF OneAfterOther
<1>9. \A y \in d.headers : \A i \in InputsOf(y.block) : NonceAt(y.block, i) < d.nonce /\ NonceAt(y.block, i) \in Nat
  BY <1>7, NonceType DEF Good, NoncesUsed, Current
<1>10. \A j \in InputsOf(op.block) : d.nonce =< NonceAt(op.block, j) /\ NonceAt(op.block, j) \in Nat
  BY <1>6, NonceType DEF NewTo
<1>11. NoncesRise(e.headers)
  <2> SUFFICES ASSUME NEW y \in e.headers, NEW z \in e.headers, y.slot < z.slot,
                      NEW i \in InputsOf(y.block), NEW j \in InputsOf(z.block)
               PROVE  NonceAt(y.block, i) < NonceAt(z.block, j)
    BY DEF NoncesRise
  <2>1. y # x /\ y \in d.headers
    <3>1. ~(x.slot < z.slot)
      BY <1>1, <1>4, <1>5, <1>7
    <3> QED
      BY <1>5, <3>1
  <2>2. CASE z = x
    <3>1. NonceAt(y.block, i) < d.nonce /\ NonceAt(y.block, i) \in Nat
      BY <1>9, <2>1
    <3>2. j \in InputsOf(op.block) /\ z.block = op.block
      BY <1>4, <2>2
    <3>3. d.nonce =< NonceAt(z.block, j) /\ NonceAt(z.block, j) \in Nat /\ d.nonce \in Nat
      BY <1>10, <3>2 DEF Good, DbGood
    <3> QED
      BY <3>1, <3>3
  <2>3. CASE z \in d.headers
    BY <2>1, <2>3 DEF Good, DbGood, NoncesRise
  <2> QED
    BY <1>5, <2>2, <2>3
<1>12. DbGood(e)
  BY <1>5, <1>8, <1>11 DEF Good, DbGood
<1>13. InSlots(q, e)
  <2>1. LastSlot(q) = s
    BY <1>1, <1>2 DEF LastSlot
  <2>2. \A y \in e.headers : y.slot =< s
    BY <1>1, <1>4, <1>5, <1>7
  <2> QED
    BY <2>1, <2>2 DEF InSlots
<1>14. ASSUME NEW u, WasInput(p, d, u) PROVE WasInput(q, e, u)
  <2>1. PICK y \in d.headers : \E i \in InputsOf(y.block) : y.block.txs[i].txs[1] = u
    BY <1>14 DEF WasInput
  <2>2. y \in e.headers /\ ~Current(q, y)
    BY <1>2, <1>5, <2>1 DEF Current
  <2> QED
    BY <2>1, <2>2 DEF WasInput
<1>15. \A u : Happened(H, p, u) => Happened(H, q, u)
  BY <1>2 DEF Happened
<1>16. Known(H, q, e)
  BY <1>5, <1>14, <1>15 DEF Good, Known
<1>17. NoncesUsed(q, e)
  <2>1. Current(q, x)
    BY <1>2, <1>4 DEF Current
  <2> QED
    BY <1>5, <1>9, <2>1 DEF NoncesUsed
<1>18. AtHand(H, q, e)
  <2>1. OpOf(H, q) = op
    BY <1>2 DEF OpOf
  <2>2. HeaderAt(SlotOf(q.parsed + 1), op) \in e.headers
    BY <1>2, <1>3, <1>5
  <2> QED
    BY <1>5, <1>6, <2>1, <2>2 DEF AtHand, NewTo
<1>19. Final(d, e) /\ d.headers \subseteq e.headers
  BY <1>5 DEF Final
<1>20. ~(\A y \in e.headers : y.slot # SlotOf(p.parsed + 1))
  BY <1>4, <1>5
<1> QED
  BY <1>2, <1>12, <1>13, <1>16, <1>17, <1>18, <1>19, <1>20 DEF Good, Onward

\* What an output executes are transactions.
LEMMA OutputTxs ==
  ASSUME NEW b, WellFormed(b), NEW i \in OutputsOf(b)
  PROVE  /\ i \in 1..Len(b.txs) /\ b.txs[i].type = "output"
         /\ b.txs[i].txs \in Seq(Tx) /\ b.txs[i].state \in Seq(Call) /\ \A t \in Elems(b.txs[i].txs) : t \in Tx
<1>1. i \in 1..Len(b.txs) /\ b.txs[i].type = "output" /\ b.txs \in Seq(Entry)
  BY DEF OutputsOf, WellFormed
<1>2. b.txs[i] \in Entry
  BY <1>1
<1>3. b.txs[i].txs \in Seq(Tx) /\ b.txs[i].state \in Seq(Call)
  BY <1>2 DEF Entry
<1> QED
  BY <1>1, <1>3 DEF Elems

\* The place of an entry.
AtOne(H, p, d, b, k) ==
  /\ Good(H, p, d) /\ p.parsed < Len(H) /\ Len(H) \in Nat
  /\ \A h \in 1..Len(H) : Len(H[h]) \in Nat
  /\ p.handled # NotTicked /\ p.handled # Len(H[p.parsed + 1])
  /\ p.indexing = k /\ k # 0 /\ b = OpOf(H, p).block

\* What the block at hand is to the database.
Hand(H, p, d, b, k) ==
  /\ k \in Nat /\ OpOf(H, p).kind = "block" /\ WellFormed(b)
  /\ \E x \in d.headers : x.block = b /\ Current(p, x)
  /\ \A i \in InputsOf(b) : d.nonce =< NonceAt(b, i)
  /\ \A i \in OutputsOf(b) : i >= k =>
       /\ b.txs[i].state = d.contract \o b.txs[i].txs
       /\ \A t \in Elems(b.txs[i].txs) : d.status[t] = "INCLUDED"

LEMMA HandIs ==
  ASSUME NEW H, NEW p, NEW d, NEW b, NEW k, AtOne(H, p, d, b, k)
  PROVE  Hand(H, p, d, b, k)
<1>1. Good(H, p, d) /\ p.indexing = k /\ k # 0 /\ b = OpOf(H, p).block
  BY DEF AtOne
<1>2. k \in Nat
  BY <1>1 DEF Good, Stands, Places
<1>3. PICK x : x = HeaderAt(SlotOf(p.parsed + 1), OpOf(H, p))
  OBVIOUS
<1>4. x \in d.headers /\ x.block = b /\ x.slot = SlotOf(p.parsed + 1)
  <2>1. x.block = b /\ x.slot = SlotOf(p.parsed + 1)
    BY <1>1, <1>3 DEF HeaderAt
  <2> QED
    BY <1>1, <1>3, <2>1 DEF Good, AtHand
<1>5. Current(p, x)
  BY <1>1, <1>4 DEF Current
<1>6. WellFormed(b)
  BY <1>1, <1>4 DEF Good, DbGood, OneAfterOther
<1>7. /\ OpOf(H, p).kind = "block"
      /\ \A i \in InputsOf(b) : d.nonce =< NonceAt(b, i)
      /\ \A i \in OutputsOf(b) : i >= k =>
              /\ b.txs[i].state = d.contract \o b.txs[i].txs
              /\ \A t \in Elems(b.txs[i].txs) : d.status[t] = "INCLUDED"
  BY <1>1 DEF Good, AtHand
<1> QED
  BY <1>2, <1>4, <1>5, <1>6, <1>7 DEF Hand

\* An entry that changes neither headers nor nonces, gives a status only to its own
\* input, and leaves the outputs to come what they are.
EntryOK(d, e, b, k) ==
  /\ e.headers = d.headers /\ e.nonce = d.nonce /\ DbGood(e) /\ Final(d, e)
  /\ \A t \in Tx : e.status[t] # "NONE" =>
       d.status[t] # "NONE" \/ (k \in InputsOf(b) /\ t = b.txs[k].txs[1])
  /\ \A i \in OutputsOf(b) : i >= k + 1 =>
       /\ b.txs[i].state = e.contract \o b.txs[i].txs
       /\ \A t \in Elems(b.txs[i].txs) : e.status[t] = "INCLUDED"

LEMMA EntryGood ==
  ASSUME NEW H, NEW p, NEW d, NEW b, NEW k, AtOne(H, p, d, b, k),
         NEW q, q = [parsed |-> p.parsed, handled |-> p.handled, indexing |-> p.indexing + 1],
         NEW e, EntryOK(d, e, b, k)
  PROVE  Onward(H, p, d, q, e)
<1>0. /\ e.headers = d.headers /\ e.nonce = d.nonce /\ DbGood(e) /\ Final(d, e)
      /\ \A t \in Tx : e.status[t] # "NONE" =>
           d.status[t] # "NONE" \/ (k \in InputsOf(b) /\ t = b.txs[k].txs[1])
      /\ \A i \in OutputsOf(b) : i >= k + 1 =>
           /\ b.txs[i].state = e.contract \o b.txs[i].txs
           /\ \A t \in Elems(b.txs[i].txs) : e.status[t] = "INCLUDED"
  BY DEF EntryOK
<1>1. /\ k \in Nat /\ OpOf(H, p).kind = "block" /\ WellFormed(b)
      /\ \A i \in InputsOf(b) : d.nonce =< NonceAt(b, i)
  BY HandIs DEF Hand
<1>12. Hand(H, p, d, b, k)
  BY HandIs
<1>2. PICK x \in d.headers : x.block = b /\ Current(p, x)
  BY <1>12 DEF Hand
<1>3. /\ p \in Places /\ p.parsed \in Nat /\ p.handled \in Nat /\ LastSlot(p) = SlotOf(p.parsed + 1)
      /\ Stands(H, [parsed |-> p.parsed, handled |-> p.handled, indexing |-> k + 1])
  <2>1. /\ Good(H, p, d) /\ p.parsed < Len(H) /\ Len(H) \in Nat
        /\ \A h \in 1..Len(H) : Len(H[h]) \in Nat
        /\ p.handled # NotTicked /\ p.handled # Len(H[p.parsed + 1])
    BY DEF AtOne
  <2>2. k + 1 \in Nat
    BY <1>1
  <2> QED
    BY <2>1, <2>2, OpThere
<1>4. q.parsed = p.parsed /\ q.handled = p.handled /\ q.indexing = k + 1 /\ Stands(H, q) /\ q.indexing # 0
      /\ p.indexing = k /\ k # 0
  BY <1>1, <1>3 DEF AtOne
<1>5. \A y : Current(q, y) <=> Current(p, y)
  BY <1>4 DEF Current
<1>6. InSlots(q, e)
  <2>1. LastSlot(q) = LastSlot(p)
    BY <1>4 DEF LastSlot
  <2> QED
    BY <1>0, <2>1 DEF AtOne, Good, InSlots
<1>7. NoncesUsed(q, e)
  BY <1>0, <1>5 DEF AtOne, Good, NoncesUsed
<1>8. ASSUME NEW t, WasInput(p, d, t) PROVE WasInput(q, e, t)
  <2>1. PICK y \in d.headers : \E i \in InputsOf(y.block) :
          y.block.txs[i].txs[1] = t /\ (Current(p, y) => i < p.indexing)
    BY <1>8 DEF WasInput
  <2>2. PICK i \in InputsOf(y.block) :
          y.block.txs[i].txs[1] = t /\ (Current(p, y) => i < p.indexing)
    BY <2>1
  <2>3. Current(q, y) => i < q.indexing
    <3>1. i \in Nat
      BY DEF InputsOf
    <3> QED
      BY <1>1, <1>4, <1>5, <2>2, <3>1
  <2> QED
    BY <1>0, <2>2, <2>3 DEF WasInput
<1>9. Known(H, q, e)
  <2> SUFFICES ASSUME NEW t \in Tx, e.status[t] # "NONE"
               PROVE  IF t \in HiveTx THEN Happened(H, q, t) ELSE WasInput(q, e, t)
    BY DEF Known
  <2>1. CASE d.status[t] # "NONE"
    <3>1. IF t \in HiveTx THEN Happened(H, p, t) ELSE WasInput(p, d, t)
      BY <2>1 DEF AtOne, Good, Known
    <3>2. Happened(H, p, t) => Happened(H, q, t)
      BY <1>4 DEF Happened
    <3> QED
      BY <1>8, <3>1, <3>2
  <2>2. CASE k \in InputsOf(b) /\ t = b.txs[k].txs[1]
    <3>1. t \notin HiveTx
      BY <1>1, <2>2, NonceType
    <3>2. k < q.indexing
      BY <1>1, <1>4
    <3>3. WasInput(q, e, t)
      BY <1>0, <1>2, <2>2, <3>2 DEF WasInput
    <3> QED
      BY <3>1, <3>3
  <2> QED
    BY <1>0, <2>1, <2>2
<1>10. AtHand(H, q, e)
  <2>1. OpOf(H, q) = OpOf(H, p) /\ OpOf(H, p).block = b
    BY <1>4 DEF OpOf, AtOne
  <2>2. HeaderAt(SlotOf(q.parsed + 1), OpOf(H, q)) \in e.headers
    BY <1>0, <1>4, <2>1 DEF AtOne, Good, AtHand
  <2> QED
    BY <1>0, <1>1, <1>4, <2>1, <2>2 DEF AtHand
<1>11. ~(\A y \in e.headers : y.slot # SlotOf(p.parsed + 1))
  BY <1>0, <1>2 DEF Current
<1> QED
  BY <1>0, <1>4, <1>6, <1>7, <1>9, <1>10, <1>11 DEF Onward, Good

\* An input of the block at hand has not been seen before.
LEMMA InputIsNew ==
  ASSUME NEW H, NEW p, NEW d, NEW b, NEW k, AtOne(H, p, d, b, k), k \in InputsOf(b),
         NEW t, t = b.txs[k].txs[1]
  PROVE  t \in Tx \ HiveTx /\ d.status[t] = "NONE"
<1>1. /\ k \in Nat /\ WellFormed(b)
      /\ \A i \in InputsOf(b) : d.nonce =< NonceAt(b, i)
  BY HandIs DEF Hand
<1>2. t \in Tx \ HiveTx /\ NonceAt(b, k) = NonceOf[t] /\ NonceAt(b, k) \in Nat
  BY <1>1, NonceType DEF NonceAt
<1>3. ASSUME WasInput(p, d, t) PROVE FALSE
  <2>1. PICK y \in d.headers : \E i \in InputsOf(y.block) :
          y.block.txs[i].txs[1] = t /\ (Current(p, y) => i < p.indexing)
    BY <1>3 DEF WasInput
  <2>2. PICK i \in InputsOf(y.block) :
          y.block.txs[i].txs[1] = t /\ (Current(p, y) => i < p.indexing)
    BY <2>1
  <2>3. NonceAt(y.block, i) = NonceAt(b, k)
    BY <1>2, <2>2 DEF NonceAt
  <2>4. CASE Current(p, y)
    <3>0. Hand(H, p, d, b, k)
      BY HandIs
    <3>1. PICK x \in d.headers : x.block = b /\ Current(p, x)
      BY <3>0 DEF Hand
    <3>2. x = y
      BY <2>4, <3>1 DEF Current, AtOne, Good, DbGood, OneAfterOther
    <3>3. i < k
      BY <2>2, <2>4 DEF AtOne
    <3>4. NonceAt(b, i) < NonceAt(b, k)
      BY <1>1, <2>2, <3>1, <3>2, <3>3 DEF WellFormed
    <3>5. NonceAt(b, i) = NonceAt(b, k)
      BY <2>3, <3>1, <3>2
    <3> QED
      BY <1>2, <3>4, <3>5
  <2>5. CASE ~Current(p, y)
    <3>1. NonceAt(y.block, i) < d.nonce
      BY <2>2, <2>5 DEF AtOne, Good, NoncesUsed
    <3>2. d.nonce =< NonceAt(b, k) /\ d.nonce \in Nat
      BY <1>1 DEF AtOne, Good, DbGood
    <3> QED
      BY <1>2, <2>3, <3>1, <3>2
  <2> QED
    BY <2>4, <2>5
<1> QED
  BY <1>2, <1>3 DEF AtOne, Good, Known

\* Indexing an input.
LEMMA InputGood ==
  ASSUME NEW H, NEW p, NEW d, NEW b, NEW k, AtOne(H, p, d, b, k), k \in DOMAIN b.txs, b.txs[k].type = "input",
         NEW q, q = [parsed |-> p.parsed, handled |-> p.handled, indexing |-> p.indexing + 1],
         NEW e, e = Entered(d, b, k)
  PROVE  Onward(H, p, d, q, e)
<1> DEFINE t == b.txs[k].txs[1]
<1>1. k \in Nat /\ WellFormed(b) /\ k \in InputsOf(b)
  <2>1. k \in Nat /\ WellFormed(b)
    BY HandIs DEF Hand
  <2>2. DOMAIN b.txs = 1..Len(b.txs)
    BY <2>1 DEF WellFormed
  <2> QED
    BY <2>1, <2>2 DEF InputsOf
<1>2. t \in Tx \ HiveTx /\ d.status[t] = "NONE"
  BY <1>1, InputIsNew
<1>3. /\ e.headers = d.headers /\ e.nonce = d.nonce /\ e.contract = d.contract
      /\ e.status = Marked(d.status, t, "INCLUDED")
  BY DEF Entered, WithStatus
<1> HIDE DEF t
<1>4. e.status \in [Tx -> Status] /\ \A u \in Tx : e.status[u] = IF u = t THEN "INCLUDED" ELSE d.status[u]
  BY <1>3 DEF Marked, Status, AtOne, Good, DbGood
<1>5. \A u \in Elems(d.contract) : u # t /\ u \in Tx
  <2>1. \A u \in Elems(d.contract) : u \in Call /\ d.status[u] = "CONFIRMED"
    BY DEF AtOne, Good, DbGood, Elems
  <2> QED
    BY <1>2, <2>1, IndexAssumption
<1>6. DbGood(e)
  BY <1>3, <1>4, <1>5 DEF AtOne, Good, DbGood
<1>7. Final(d, e)
  BY <1>2, <1>4 DEF Final
<1>8. ASSUME NEW i \in OutputsOf(b), i >= k + 1
      PROVE  /\ b.txs[i].state = e.contract \o b.txs[i].txs
             /\ \A u \in Elems(b.txs[i].txs) : e.status[u] = "INCLUDED"
  <2>1. i >= k
    BY <1>1, <1>8 DEF OutputsOf
  <2>0. Hand(H, p, d, b, k)
    BY HandIs
  <2>2. /\ b.txs[i].state = d.contract \o b.txs[i].txs
        /\ \A u \in Elems(b.txs[i].txs) : d.status[u] = "INCLUDED"
    BY <2>0, <2>1 DEF Hand
  <2>3. \A u \in Elems(b.txs[i].txs) : u \in Tx
    BY <1>1, OutputTxs
  <2> QED
    BY <1>3, <1>4, <2>2, <2>3
<1>9. \A u \in Tx : e.status[u] # "NONE" => d.status[u] # "NONE" \/ (k \in InputsOf(b) /\ u = b.txs[k].txs[1])
  BY <1>1, <1>4 DEF t
<1>10. EntryOK(d, e, b, k)
  BY <1>3, <1>6, <1>7, <1>8, <1>9 DEF EntryOK
<1> QED
  BY <1>10, EntryGood

\* Sequences without repetitions that have nothing in common make one.
LEMMA JoinInjective ==
  ASSUME NEW T, NEW a \in Seq(T), NEW b \in Seq(T), IsInjective(a), IsInjective(b),
         \A x \in Elems(a) : x \notin Elems(b), NEW c, c = a \o b
  PROVE  IsInjective(c) /\ \A x \in Elems(c) : x \in Elems(a) \/ x \in Elems(b)
<1>1. /\ c \in Seq(T) /\ Len(a) \in Nat /\ Len(b) \in Nat /\ Len(c) = Len(a) + Len(b)
      /\ \A i \in 1..Len(c) :
           \/ i \in 1..Len(a) /\ c[i] = a[i]
           \/ i > Len(a) /\ i - Len(a) \in 1..Len(b) /\ c[i] = b[i - Len(a)]
  BY JoinIs
<1>2. DOMAIN a = 1..Len(a) /\ DOMAIN b = 1..Len(b) /\ DOMAIN c = 1..Len(c)
  BY <1>1
<1>3. ASSUME NEW i \in 1..Len(c)
      PROVE  \/ i \in DOMAIN a /\ c[i] = a[i] /\ c[i] \in Elems(a)
             \/ i > Len(a) /\ i - Len(a) \in DOMAIN b /\ c[i] = b[i - Len(a)] /\ c[i] \in Elems(b)
  BY <1>1, <1>2 DEF Elems
<1>4. ASSUME NEW i \in DOMAIN c, NEW j \in DOMAIN c, c[i] = c[j] PROVE i = j
  <2>0. i \in 1..Len(c) /\ j \in 1..Len(c) /\ i \in Nat /\ j \in Nat
    BY <1>2
  <2>1. CASE i \in DOMAIN a /\ c[i] = a[i] /\ c[i] \in Elems(a)
    <3>1. j \in DOMAIN a /\ c[j] = a[j]
      BY <1>3, <1>4, <2>0, <2>1
    <3> QED
      BY <1>4, <2>1, <3>1 DEF IsInjective
  <2>2. CASE i > Len(a) /\ i - Len(a) \in DOMAIN b /\ c[i] = b[i - Len(a)] /\ c[i] \in Elems(b)
    <3>1. j > Len(a) /\ j - Len(a) \in DOMAIN b /\ c[j] = b[j - Len(a)]
      BY <1>3, <1>4, <2>0, <2>2
    <3>2. i - Len(a) = j - Len(a)
      BY <1>4, <2>2, <3>1 DEF IsInjective
    <3> QED
      BY <1>1, <2>0, <3>2
  <2> QED
    BY <1>3, <2>0, <2>1, <2>2
<1>5. IsInjective(c)
  BY <1>4 DEF IsInjective
<1>6. ASSUME NEW x \in Elems(c) PROVE x \in Elems(a) \/ x \in Elems(b)
  <2>1. PICK i \in DOMAIN c : x = c[i]
    BY DEF Elems
  <2> QED
    BY <1>2, <1>3, <2>1
<1> QED
  BY <1>5, <1>6

\* Indexing an output.
LEMMA OutputGood ==
  ASSUME NEW H, NEW p, NEW d, NEW b, NEW k, AtOne(H, p, d, b, k), k \in DOMAIN b.txs, b.txs[k].type = "output",
         NEW q, q = [parsed |-> p.parsed, handled |-> p.handled, indexing |-> p.indexing + 1],
         NEW e, e = Entered(d, b, k)
  PROVE  Onward(H, p, d, q, e)
<1>0. Hand(H, p, d, b, k)
  BY HandIs
<1>1. k \in Nat /\ WellFormed(b) /\ k \in OutputsOf(b)
  <2>1. k \in Nat /\ WellFormed(b)
    BY <1>0 DEF Hand
  <2>2. DOMAIN b.txs = 1..Len(b.txs)
    BY <2>1 DEF WellFormed
  <2> QED
    BY <2>1, <2>2 DEF OutputsOf
<1>2. PICK txs, st : txs = b.txs[k].txs /\ st = b.txs[k].state
  OBVIOUS
<1>3. /\ txs \in Seq(Tx) /\ st \in Seq(Call) /\ \A t \in Elems(txs) : t \in Tx
      /\ st = d.contract \o txs /\ \A t \in Elems(txs) : d.status[t] = "INCLUDED"
  <2>1. k >= k
    BY <1>1
  <2>2. st = d.contract \o txs /\ \A t \in Elems(txs) : d.status[t] = "INCLUDED"
    BY <1>0, <1>1, <1>2, <2>1 DEF Hand
  <2> QED
    BY <1>1, <1>2, <2>2, OutputTxs
<1>4. /\ e.headers = d.headers /\ e.nonce = d.nonce /\ e.contract = st
      /\ e.status = [t \in Tx |-> IF t \in Elems(txs) THEN "CONFIRMED" ELSE d.status[t]]
  BY <1>2 DEF Entered
<1>5. e.status \in [Tx -> Status]
      /\ \A t \in Tx : e.status[t] = IF t \in Elems(txs) THEN "CONFIRMED" ELSE d.status[t]
  BY <1>4 DEF Status, AtOne, Good, DbGood
<1>6. /\ DbGood(d) /\ d.contract \in Seq(Call) /\ IsInjective(d.contract)
      /\ \A t \in Elems(d.contract) : d.status[t] = "CONFIRMED"
  BY DEF AtOne, Good, DbGood
<1>7. IsInjective(st) /\ \A x \in Elems(st) : x \in Elems(d.contract) \/ x \in Elems(txs)
  <2>1. Call \subseteq Tx
    BY IndexAssumption
  <2>2. d.contract \in Seq(Tx)
    BY <1>6, <2>1
  <2>3. IsInjective(txs)
    BY <1>1, <1>2 DEF WellFormed
  <2>4. \A x \in Elems(d.contract) : x \notin Elems(txs)
    BY <1>3, <1>6
  <2>5. txs \in Seq(Tx) /\ st = d.contract \o txs
    BY <1>3
  <2>6. IsInjective(d.contract)
    BY <1>6
  <2>7. PICK c : c = d.contract
    OBVIOUS
  <2>8. c \in Seq(Tx) /\ IsInjective(c) /\ st = c \o txs /\ \A x \in Elems(c) : x \notin Elems(txs)
    BY <2>2, <2>4, <2>5, <2>6, <2>7
  <2>9. IsInjective(st) /\ \A x \in Elems(st) : x \in Elems(c) \/ x \in Elems(txs)
    BY <2>3, <2>5, <2>8, JoinInjective
  <2> QED
    BY <2>7, <2>9
<1>8. \A t \in Elems(st) : e.status[t] = "CONFIRMED"
  <2>1. \A t \in Elems(st) : t \in Tx
    <3>1. Call \subseteq Tx
      BY IndexAssumption
    <3> QED
      BY <1>3, <3>1 DEF Elems
  <2> QED
    BY <1>5, <1>6, <1>7, <2>1
<1>9. DbGood(e)
  <2>1. /\ e.nonce \in Nat /\ FirstHeader \in e.headers /\ OneAfterOther(e.headers)
        /\ NoncesRise(e.headers)
    BY <1>4, <1>6 DEF DbGood
  <2>2. e.contract \in Seq(Call) /\ IsInjective(e.contract)
        /\ \A t \in Elems(e.contract) : e.status[t] = "CONFIRMED"
    BY <1>3, <1>4, <1>7, <1>8
  <2> QED
    BY <1>5, <2>1, <2>2 DEF DbGood
<1>10. Final(d, e)
  BY <1>3, <1>5 DEF Final
<1>11. ASSUME NEW i \in OutputsOf(b), i >= k + 1 PROVE FALSE
  <2>1. i \in Nat /\ k \in 1..(i - 1)
    <3>1. i \in Nat /\ k >= 1
      BY <1>1 DEF OutputsOf
    <3> QED
      BY <1>1, <1>11, <3>1
  <2> QED
    BY <1>1, <2>1 DEF WellFormed, OutputsOf
<1>12. \A t \in Tx : e.status[t] # "NONE" => d.status[t] # "NONE"
  BY <1>3, <1>5
<1>13. EntryOK(d, e, b, k)
  BY <1>4, <1>9, <1>10, <1>11, <1>12 DEF EntryOK
<1> QED
  BY <1>13, EntryGood

\* Indexing the events.
LEMMA EventsGood ==
  ASSUME NEW H, NEW p, NEW d, NEW b, NEW k, AtOne(H, p, d, b, k), k \in DOMAIN b.txs, b.txs[k].type = "events",
         NEW q, q = [parsed |-> p.parsed, handled |-> p.handled, indexing |-> p.indexing + 1],
         NEW e, e = Entered(d, b, k)
  PROVE  Onward(H, p, d, q, e)
<1>0. Hand(H, p, d, b, k)
  BY HandIs
<1>1. k \in Nat /\ WellFormed(b) /\ k \in 1..Len(b.txs)
  <2>1. k \in Nat /\ WellFormed(b)
    BY <1>0 DEF Hand
  <2>2. DOMAIN b.txs = 1..Len(b.txs)
    BY <2>1 DEF WellFormed
  <2> QED
    BY <2>1, <2>2
<1>2. /\ e.headers = d.headers /\ e.nonce = d.nonce /\ e.contract = d.contract
      /\ e.status \in [Tx -> Status]
      /\ \A t \in Tx : e.status[t] = d.status[t]
                       \/ (d.status[t] = "INCLUDED" /\ e.status[t] \in {"CONFIRMED", "FAILED"})
  <2> DEFINE within(t) == /\ d.status[t] = "INCLUDED"
                          /\ d.anchor[t].height \in (b.start - 1)..b.end
             s == [t \in Tx |-> IF ~within(t) THEN d.status[t]
                                ELSE IF t \in Elems(b.txs[k].txs) THEN "CONFIRMED" ELSE "FAILED"]
  <2>1. e = WithStatus(d, s, d.anchor)
    BY DEF Entered
  <2>2. e.headers = d.headers /\ e.nonce = d.nonce /\ e.contract = d.contract /\ e.status = s
    BY <2>1 DEF WithStatus
  <2>3. \A t \in Tx : s[t] = d.status[t] \/ (d.status[t] = "INCLUDED" /\ s[t] \in {"CONFIRMED", "FAILED"})
    OBVIOUS
  <2>4. s \in [Tx -> Status]
    BY DEF Status, AtOne, Good, DbGood
  <2> QED
    BY <2>2, <2>3, <2>4
<1>3. DbGood(d) /\ \A t \in Elems(d.contract) : t \in Tx /\ d.status[t] = "CONFIRMED"
  <2>1. DbGood(d) /\ Call \subseteq Tx
    BY IndexAssumption DEF AtOne, Good
  <2> QED
    BY <2>1 DEF DbGood, Elems
<1>4. DbGood(e)
  <2>1. \A t \in Elems(d.contract) : e.status[t] = "CONFIRMED"
    BY <1>2, <1>3
  <2> QED
    BY <1>2, <1>3, <2>1 DEF DbGood
<1>5. Final(d, e)
  BY <1>2 DEF Final
<1>6. ASSUME NEW i \in OutputsOf(b), i >= k + 1 PROVE FALSE
  <2>1. i \in Nat /\ k \in 1..(i - 1)
    <3>1. i \in Nat /\ k >= 1
      BY <1>1 DEF OutputsOf
    <3> QED
      BY <1>1, <1>6, <3>1
  <2> QED
    BY <1>1, <2>1 DEF WellFormed
<1>7. \A t \in Tx : e.status[t] # "NONE" => d.status[t] # "NONE"
  BY <1>2
<1>8. EntryOK(d, e, b, k)
  BY <1>2, <1>4, <1>5, <1>6, <1>7 DEF EntryOK
<1> QED
  BY <1>8, EntryGood

\* Any other entry changes nothing.
LEMMA OtherGood ==
  ASSUME NEW H, NEW p, NEW d, NEW b, NEW k, AtOne(H, p, d, b, k),
         NEW q, q = [parsed |-> p.parsed, handled |-> p.handled, indexing |-> p.indexing + 1]
  PROVE  Onward(H, p, d, q, d)
<1>0. Hand(H, p, d, b, k)
  BY HandIs
<1>1. \A i \in OutputsOf(b) : i >= k + 1 => i >= k
  BY <1>0 DEF OutputsOf, Hand
<1>2. EntryOK(d, d, b, k)
  BY <1>0, <1>1 DEF EntryOK, Hand, AtOne, Good, Final
<1> QED
  BY <1>2, EntryGood

\* A block's inputs are the entries at the places f gives, in their order.
TakenFrom(in, b, f) ==
  /\ f \in [1..Len(in) -> InputsOf(b)] /\ Increasing(f)
  /\ \A m \in 1..Len(in) : in[m] = b.txs[f[m]]

\* The inputs of a block, one by one.
LEMMA InputsAre ==
  ASSUME NEW b, WellFormed(b), NEW in, in = Inputs(b)
  PROVE  /\ in \in Seq(Entry)
         /\ \A i \in InputsOf(b) : \E m \in 1..Len(in) : in[m] = b.txs[i]
         /\ \E f \in [1..Len(in) -> InputsOf(b)] :
              Increasing(f) /\ \A m \in 1..Len(in) : in[m] = b.txs[f[m]]
<1> DEFINE S == {x \in Elems(b.txs) : x.type = "input"}
<1>1. b.txs \in Seq(Entry)
  BY DEF WellFormed
<1>2. in \in Seq(Entry) /\ Picks(in, b.txs, S, Len(b.txs))
  BY <1>1, ThoseAre DEF Inputs
<1>3. \A i \in 1..Len(b.txs) : b.txs[i] \in S <=> i \in InputsOf(b)
  <2>1. DOMAIN b.txs = 1..Len(b.txs)
    BY <1>1
  <2> QED
    BY <2>1 DEF Elems, InputsOf
<1> HIDE DEF S
<1>4. PICK f \in [1..Len(in) -> 1..Len(b.txs)] :
        Increasing(f) /\ \A m \in 1..Len(in) : in[m] = b.txs[f[m]] /\ in[m] \in S
  BY <1>2 DEF Picks
<1>5. f \in [1..Len(in) -> InputsOf(b)]
  BY <1>3, <1>4
<1>6. \A i \in InputsOf(b) : \E m \in 1..Len(in) : in[m] = b.txs[i]
  BY <1>2, <1>3 DEF Picks, InputsOf
<1> QED
  BY <1>2, <1>4, <1>5, <1>6

\* The nonce after a block is beyond those of its inputs.
LEMMA NonceBeyond ==
  ASSUME NEW b, WellFormed(b), NEW n \in Nat, \A i \in InputsOf(b) : n =< NonceAt(b, i),
         NEW in, in = Inputs(b),
         NEW v, v = IF in = <<>> THEN n ELSE NonceOf[in[Len(in)].txs[1]] + 1
  PROVE  v \in Nat /\ n =< v /\ \A i \in InputsOf(b) : NonceAt(b, i) < v
<1>1. in \in Seq(Entry) /\ \A i \in InputsOf(b) : \E m \in 1..Len(in) : in[m] = b.txs[i]
  BY InputsAre
<1>2. PICK f \in [1..Len(in) -> InputsOf(b)] :
        Increasing(f) /\ \A m \in 1..Len(in) : in[m] = b.txs[f[m]]
  BY InputsAre
<1>3. CASE in = <<>>
  <2>1. Len(in) = 0
    BY <1>3
  <2>2. \A i \in InputsOf(b) : FALSE
    BY <1>1, <2>1
  <2> QED
    BY <1>3, <2>2
<1>4. CASE in # <<>>
  <2>1. Len(in) \in 1..Len(in) /\ Len(in) \in Nat
    BY <1>1, <1>4
  <2>2. PICK l : l = f[Len(in)]
    OBVIOUS
  <2>3. l \in InputsOf(b) /\ NonceAt(b, l) \in Nat /\ v = NonceAt(b, l) + 1 /\ l \in Nat
    <3>1. l \in InputsOf(b) /\ in[Len(in)] = b.txs[l]
      BY <1>2, <2>1, <2>2
    <3>2. v = NonceOf[in[Len(in)].txs[1]] + 1
      BY <1>4, Zenon
    <3> QED
      BY <3>1, <3>2, NonceType DEF NonceAt
  <2>4. ASSUME NEW i \in InputsOf(b) PROVE NonceAt(b, i) < v
    <3>1. PICK m \in 1..Len(in) : in[m] = b.txs[i]
      BY <1>1
    <3>2. f[m] \in InputsOf(b) /\ NonceAt(b, i) = NonceAt(b, f[m]) /\ NonceAt(b, i) \in Nat /\ f[m] \in Nat
      BY <1>2, <3>1, NonceType DEF NonceAt
    <3>3. f[m] = l \/ f[m] < l
      <4>1. m = Len(in) \/ m < Len(in)
        BY <2>1
      <4>2. DOMAIN f = 1..Len(in)
        BY <1>2
      <4> QED
        BY <1>2, <2>1, <2>2, <4>1, <4>2 DEF Increasing
    <3>4. NonceAt(b, f[m]) = NonceAt(b, l) \/ NonceAt(b, f[m]) < NonceAt(b, l)
      BY <2>3, <3>2, <3>3 DEF WellFormed
    <3> QED
      BY <2>3, <3>2, <3>4
  <2>5. n =< NonceAt(b, l)
    BY <2>3
  <2> QED
    BY <2>3, <2>4, <2>5
<1> QED
  BY <1>3, <1>4

\* Indexing the nonces, when every entry has been.
LEMMA NoncesGood ==
  ASSUME NEW H, NEW p, NEW d, NEW b, NEW k, AtOne(H, p, d, b, k),
         NEW q, q = [parsed |-> p.parsed, handled |-> p.handled + 1, indexing |-> 0],
         NEW in, in = Inputs(b), NEW v, v = IF in = <<>> THEN d.nonce ELSE NonceOf[in[Len(in)].txs[1]] + 1,
         NEW e, e = [headers |-> d.headers, status |-> d.status, anchor |-> d.anchor,
                     contract |-> d.contract, nonce |-> v]
  PROVE  Onward(H, p, d, q, e)
<1>0. Hand(H, p, d, b, k)
  BY HandIs
<1>1. /\ k \in Nat /\ WellFormed(b) /\ \A i \in InputsOf(b) : d.nonce =< NonceAt(b, i)
  BY <1>0 DEF Hand
<1>2. PICK x \in d.headers : x.block = b /\ Current(p, x)
  BY <1>0 DEF Hand
<1>3. /\ Good(H, p, d) /\ p.parsed < Len(H) /\ Len(H) \in Nat
      /\ p.handled # NotTicked /\ p.handled # Len(H[p.parsed + 1])
      /\ \A h \in 1..Len(H) : Len(H[h]) \in Nat
  BY DEF AtOne
<1>4. DbGood(d) /\ d.nonce \in Nat
  BY <1>3 DEF Good, DbGood
<1>5. v \in Nat /\ d.nonce =< v /\ \A i \in InputsOf(b) : NonceAt(b, i) < v
  BY <1>1, <1>4, NonceBeyond
<1>6. /\ p.parsed \in Nat /\ p.handled \in Nat /\ LastSlot(p) = SlotOf(p.parsed + 1) /\ Stands(H, q)
  BY <1>3, OpThere
<1>7. q.parsed = p.parsed /\ q.handled = p.handled + 1 /\ q.indexing = 0 /\ q.handled # NotTicked
      /\ q.handled \in Nat /\ q.handled >= p.handled
  BY <1>6 DEF NotTicked
<1>8. e.headers = d.headers /\ e.nonce = v /\ e.contract = d.contract /\ e.status = d.status
  OBVIOUS
<1>9. DbGood(e)
  BY <1>4, <1>5, <1>8 DEF DbGood
<1>10. InSlots(q, e)
  <2>1. LastSlot(q) = LastSlot(p)
    BY <1>6, <1>7 DEF LastSlot
  <2> QED
    BY <1>3, <1>8, <2>1 DEF Good, InSlots
<1>11. NoncesUsed(q, e)
  <2> SUFFICES ASSUME NEW y \in d.headers, NEW i \in InputsOf(y.block)
               PROVE  NonceAt(y.block, i) < v
    BY <1>8 DEF NoncesUsed
  <2>1. CASE Current(p, y)
    <3>1. y = x
      BY <1>2, <1>4, <2>1 DEF Current, DbGood, OneAfterOther
    <3> QED
      BY <1>2, <1>5, <3>1
  <2>2. CASE ~Current(p, y)
    <3>1. NonceAt(y.block, i) < d.nonce
      BY <1>3, <2>2 DEF Good, NoncesUsed
    <3>2. NonceAt(y.block, i) \in Nat
      BY <1>4, NonceType DEF DbGood, OneAfterOther
    <3> QED
      BY <1>4, <1>5, <3>1, <3>2
  <2> QED
    BY <2>1, <2>2
<1>12. \A u : WasInput(p, d, u) => WasInput(q, e, u)
  BY <1>7, <1>8 DEF WasInput, Current
<1>13. \A u : Happened(H, p, u) => Happened(H, q, u)
  BY <1>3, <1>6, <1>7, HappenedOn
<1>14. Known(H, q, e)
  BY <1>3, <1>8, <1>12, <1>13 DEF Good, Known
<1>15. AtHand(H, q, e)
  BY <1>7 DEF AtHand
<1>16. Final(d, e) /\ d.headers \subseteq e.headers
  BY <1>8 DEF Final
<1>17. ~(\A y \in e.headers : y.slot # SlotOf(p.parsed + 1))
  BY <1>2, <1>8 DEF Current
<1> QED
  BY <1>6, <1>9, <1>10, <1>11, <1>14, <1>15, <1>16, <1>17 DEF Onward, Good

\* What must be so of an operation: it is that of a transaction, or a block which
\* when it is accepted was built out of what is there.
Founded(H, p, d) ==
  p.handled # NotTicked /\ p.handled # Len(H[p.parsed + 1]) =>
    \/ \E t \in HiveTx : OpOf(H, p) = TxOp(t)
    \/ /\ OpOf(H, p).kind = "block"
       /\ p.indexing = 0 /\ Accepts(d.headers, p.parsed + 1, OpOf(H, p)) =>
            /\ OpOf(H, p).block.end = SlotOf(p.parsed + 1)
            /\ \E d0 : BuiltOn(d0, OpOf(H, p).block) /\ Quiet(d0, d)

\* Every move of the run.
LEMMA MoveGood ==
  ASSUME NEW H, NEW p, NEW d, Good(H, p, d), p.parsed < Len(H), Len(H) \in Nat,
         \A h \in 1..Len(H) : Len(H[h]) \in Nat, OnceOnHive(H), Founded(H, p, d),
         NEW q, q = Move(H, p, d), NEW e, e = Change(H, p, d)
  PROVE  Onward(H, p, d, q, e)
<1>1. CASE p.handled = NotTicked
  <2>1. q = [parsed |-> p.parsed, handled |-> 0, indexing |-> 0] /\ e = d
    BY <1>1 DEF Move, Change
  <2> QED
    BY <1>1, <2>1, TickGood
<1>2. CASE p.handled # NotTicked /\ p.handled = Len(H[p.parsed + 1])
  <2>1. q = At(p.parsed + 1) /\ e = d
    BY <1>2 DEF Move, Change, At
  <2> QED
    BY <1>2, <2>1, EndGood
<1>3. CASE p.handled # NotTicked /\ p.handled # Len(H[p.parsed + 1])
  <2> PICK op : op = OpOf(H, p)
    OBVIOUS
  <2>0. op = H[p.parsed + 1][p.handled + 1]
    BY DEF OpOf
  <2>1. CASE \E t \in HiveTx : op = TxOp(t)
    <3>1. PICK t \in HiveTx : op = TxOp(t)
      BY <2>1
    <3>2. op.kind = "tx" /\ op.tx = t
      BY <3>1 DEF TxOp
    <3>3. ~Enters(H, p, d)
      BY <2>0, <3>2 DEF Enters
    <3>4. q = [parsed |-> p.parsed, handled |-> p.handled + 1, indexing |-> 0]
      BY <1>3, <3>3 DEF Move
    <3>5. PICK a : e = WithStatus(d, Marked(d.status, t, "INCLUDED"), a)
      BY <1>3, <2>0, <3>2 DEF Change
    <3> QED
      BY <1>3, <3>1, <3>4, <3>5, TxGood
  <2>2. CASE op.kind = "block" /\ p.indexing = 0 /\ Accepts(d.headers, p.parsed + 1, op)
    <3>1. Enters(H, p, d)
      BY <2>0, <2>2 DEF Enters
    <3>2. q = [parsed |-> p.parsed, handled |-> p.handled, indexing |-> p.indexing + 1]
      BY <1>3, <3>1 DEF Move
    <3>3. PICK s : s = SlotOf(p.parsed + 1)
      OBVIOUS
    <3>4. e = [headers |-> d.headers \cup {HeaderAt(s, op)}, status |-> d.status,
               anchor |-> d.anchor, nonce |-> d.nonce, contract |-> d.contract]
      BY <1>3, <2>0, <2>2, <3>1, <3>3 DEF Change
    <3>5. ~\E t \in HiveTx : op = TxOp(t)
      BY <2>2 DEF TxOp
    <3>6. op.block.end = s /\ \E d0 : BuiltOn(d0, op.block) /\ Quiet(d0, d)
      BY <1>3, <2>2, <3>3, <3>5 DEF Founded
    <3>7. PICK d0 : BuiltOn(d0, op.block) /\ Quiet(d0, d)
      BY <3>6
    <3>8. \A x \in d.headers : x.slot # s
      BY <2>2, <3>3 DEF Accepts
    <3> QED
      BY <1>3, <2>2, <3>2, <3>3, <3>4, <3>6, <3>7, <3>8, AcceptGood
  <2>3. CASE op.kind = "block" /\ p.indexing = 0 /\ ~Accepts(d.headers, p.parsed + 1, op)
    <3>1. ~Enters(H, p, d)
      BY <2>0, <2>3 DEF Enters
    <3>2. q = [parsed |-> p.parsed, handled |-> p.handled + 1, indexing |-> 0] /\ e = d
      BY <1>3, <2>0, <2>3, <3>1 DEF Move, Change
    <3> QED
      BY <1>3, <2>3, <3>2, RejectGood
  <2>4. CASE op.kind = "block" /\ p.indexing # 0
    <3>1. PICK b, k : b = op.block /\ k = p.indexing
      OBVIOUS
    <3>2. AtOne(H, p, d, b, k)
      BY <1>3, <2>4, <3>1 DEF AtOne
    <3>3. CASE k \in DOMAIN b.txs
      <4>1. Enters(H, p, d)
        BY <2>0, <2>4, <3>1, <3>3 DEF Enters
      <4>2. q = [parsed |-> p.parsed, handled |-> p.handled, indexing |-> p.indexing + 1]
            /\ e = Entered(d, b, k)
        BY <1>3, <2>0, <2>4, <3>1, <4>1 DEF Move, Change
      <4>3. CASE b.txs[k].type = "input"
        BY <3>2, <3>3, <4>2, <4>3, InputGood
      <4>4. CASE b.txs[k].type = "output"
        BY <3>2, <3>3, <4>2, <4>4, OutputGood
      <4>5. CASE b.txs[k].type = "events"
        BY <3>2, <3>3, <4>2, <4>5, EventsGood
      <4>6. CASE b.txs[k].type \notin {"input", "output", "events"}
        <5>1. e = d
          BY <4>2, <4>6 DEF Entered
        <5> QED
          BY <3>2, <4>2, <5>1, OtherGood
      <4> QED
        BY <4>3, <4>4, <4>5, <4>6
    <3>4. CASE k \notin DOMAIN b.txs
      <4>1. ~Enters(H, p, d)
        BY <2>0, <2>4, <3>1, <3>4 DEF Enters
      <4>2. q = [parsed |-> p.parsed, handled |-> p.handled + 1, indexing |-> 0]
        BY <1>3, <4>1 DEF Move
      <4>3. PICK in : in = Inputs(b)
        OBVIOUS
      <4>4. PICK v : v = IF in = <<>> THEN d.nonce ELSE NonceOf[in[Len(in)].txs[1]] + 1
        OBVIOUS
      <4>5. e = [headers |-> d.headers, status |-> d.status, anchor |-> d.anchor,
                 contract |-> d.contract, nonce |-> v]
        BY <1>3, <2>0, <2>4, <3>1, <4>1, <4>3, <4>4 DEF Change
      <4> QED
        BY <3>2, <4>2, <4>3, <4>4, <4>5, NoncesGood
    <3> QED
      BY <3>3, <3>4
  <2>5. op.kind = "block" \/ \E t \in HiveTx : op = TxOp(t)
    BY <1>3 DEF Founded
  <2> QED
    BY <2>1, <2>2, <2>3, <2>4, <2>5
<1> QED
  BY <1>1, <1>2, <1>3

\* A block of a slot, built out of what a node had there.
BlockSound(F, from, b) ==
  /\ b.end \in 1..MaxHead /\ b.end % RoundLength = 0 /\ from = Schedule[b.end]
  /\ At(b.end - 1) \in DOMAIN F /\ BuiltOn(F[At(b.end - 1)], b)

HiveSound(F) ==
  /\ HiveHead =< MaxHead /\ OnceOnHive(hive)
  /\ \A h \in 1..HiveHead : DOMAIN hive[h] = 1..Len(hive[h])
  /\ \A h \in 1..HiveHead : \A i \in 1..Len(hive[h]) :
       \/ \E t \in HiveTx : hive[h][i] = TxOp(t)
       \/ hive[h][i].kind = "block" /\ BlockSound(F, hive[h][i].from, hive[h][i].block)

PoolSound(F) ==
  \A m \in mempool : m.op.kind = "block" /\ BlockSound(F, m.op.from, m.op.block)

Proposed(F) == \A n \in Node : proposing[n] # NoProposal => BlockSound(F, n, proposing[n].block)

\* As long as no block of the slot has been accepted, what was there at its
\* start is there.
Undisturbed(F, p) ==
  LET s == SlotOf(p.parsed + 1) IN
  s # 0 /\ (\A x \in F[p].headers : x.slot # s) => Quiet(F[At(s - 1)], F[p])

DbSound(F, p) ==
  Good(hive, p, F[p]) /\ Undisturbed(F, p) /\ \A b \in 0..p.parsed : At(b) \in DOMAIN F

Sound(F) ==
  HiveSound(F) /\ PoolSound(F) /\ Proposed(F) /\ \A p \in DOMAIN F : DbSound(F, p)

SoundRun == \E F, last : IsRun(F, last) /\ OnRun(F) /\ Sound(F)

BuildInv ==
  /\ BlocksOK /\ crashes =< MaxCrashes /\ fetchErrors =< MaxFetchErrors
  /\ AllWell => SoundRun

\* The one database is sound at the start.
LEMMA BuildInit == Init => BuildInv
<1> SUFFICES ASSUME Init PROVE BuildInv
  OBVIOUS
<1>1. BlocksOK /\ crashes = 0 /\ fetchErrors = 0 /\ MaxCrashes \in Nat /\ MaxFetchErrors \in Nat
  BY BlocksInit, IndexAssumption DEF Init, IndexInit
<1>2. PICK d : d = [headers |-> {FirstHeader}, status |-> [t \in Tx |-> "NONE"],
                    anchor |-> [t \in Tx |-> Nowhere], nonce |-> 0, contract |-> <<>>]
  OBVIOUS
<1>3. PICK p, F : p = At(0) /\ F = [x \in {p} |-> d]
  OBVIOUS
<1>4. p \in Places /\ p.parsed = 0 /\ p.handled = NotTicked /\ p.indexing = 0 /\ DOMAIN F = {p} /\ F[p] = d
  BY <1>3 DEF At, Places, NotTicked
<1>5. hive = <<>> /\ HiveHead = 0 /\ Len(hive) = 0 /\ mempool = {}
  BY DEF Init, IndexInit, HiveHead
<1>6. \A n \in Node : Place(n) = p /\ Data(n) = d /\ proposing[n] = NoProposal
  BY <1>2, <1>3 DEF Init, IndexInit, Place, Data, Settled, At
<1>7. IsRun(F, p) /\ OnRun(F)
  BY <1>4, <1>6 DEF IsRun, OnRun, UpTo
<1>8. DbGood(d)
  <2>1. /\ d.headers = {FirstHeader} /\ d.nonce = 0 /\ d.contract = <<>>
        /\ \A t \in Tx : d.status[t] = "NONE"
        /\ d.status \in [Tx -> Status]
    BY <1>2 DEF Status
  <2>2. FirstHeader.slot = 0 /\ FirstHeader.block.end = 0 /\ FirstHeader.block.txs = <<>>
    BY DEF FirstHeader
  <2>3. /\ <<>> \in Seq(Entry) /\ <<>> \in Seq(Call) /\ Len(<<>>) = 0 /\ 1..0 = {} /\ DOMAIN <<>> = {}
    OBVIOUS
  <2>4. InputsOf(FirstHeader.block) = {} /\ OutputsOf(FirstHeader.block) = {}
    BY <2>2, <2>3 DEF InputsOf, OutputsOf
  <2>5. WellFormed(FirstHeader.block)
    BY <2>2, <2>3, <2>4 DEF WellFormed
  <2>6. OneAfterOther(d.headers) /\ NoncesRise(d.headers)
    BY <2>1, <2>2, <2>4, <2>5 DEF OneAfterOther, NoncesRise
  <2>7. IsInjective(<<>>) /\ Elems(<<>>) = {}
    BY <2>3 DEF IsInjective, Elems
  <2> QED
    BY <2>1, <2>3, <2>6, <2>7 DEF DbGood
<1>9. Good(hive, p, d)
  <2>1. Stands(hive, p)
    BY <1>4, <1>5 DEF Stands
  <2>2. d.headers = {FirstHeader} /\ FirstHeader.slot = 0 /\ \A t \in Tx : d.status[t] = "NONE"
    BY <1>2 DEF FirstHeader
  <2>3. LastSlot(p) = 0
    BY <1>4, SlotsGrow DEF LastSlot
  <2>4. InputsOf(FirstHeader.block) = {}
    <3>1. FirstHeader.block.txs = <<>> /\ Len(<<>>) = 0
      BY DEF FirstHeader
    <3> QED
      BY <3>1 DEF InputsOf
  <2>5. InSlots(p, d) /\ Known(hive, p, d) /\ NoncesUsed(p, d) /\ AtHand(hive, p, d)
    BY <1>4, <2>2, <2>3, <2>4 DEF InSlots, Known, NoncesUsed, AtHand
  <2> QED
    BY <1>8, <2>1, <2>5 DEF Good
<1>10. DbSound(F, p)
  <2>1. \A b \in 0..p.parsed : At(b) \in DOMAIN F
    BY <1>3, <1>4
  <2>2. Undisturbed(F, p)
    <3>1. PICK s : s = SlotOf(p.parsed + 1)
      OBVIOUS
    <3>2. s = 0 \/ s = 1
      <4>1. RoundLength \in Nat \ {0} /\ 1 % RoundLength \in Nat /\ 1 % RoundLength =< 1
        BY Assumed
      <4> QED
        BY <1>4, <3>1, <4>1 DEF SlotOf
    <3>3. s = 1 => At(s - 1) = p
      BY <1>3
    <3>4. Quiet(F[p], F[p])
      BY DEF Quiet
    <3> QED
      BY <3>1, <3>2, <3>3, <3>4 DEF Undisturbed
  <2> QED
    BY <1>4, <1>9, <2>1, <2>2 DEF DbSound
<1>11. HiveSound(F) /\ PoolSound(F) /\ Proposed(F)
  BY <1>5, <1>6, IndexAssumption DEF HiveSound, PoolSound, Proposed, OnceOnHive
<1>12. SoundRun
  BY <1>4, <1>7, <1>10, <1>11 DEF SoundRun, Sound
<1> QED
  BY <1>1, <1>12 DEF BuildInv

\* What was sound remains so when the run is prolonged.
LEMMA BlockSoundOn ==
  ASSUME NEW F, NEW G, DOMAIN F \subseteq DOMAIN G, \A x \in DOMAIN F : G[x] = F[x],
         NEW n, NEW b, BlockSound(F, n, b)
  PROVE  BlockSound(G, n, b)
BY DEF BlockSound

\* On a chain that is longer too.
LEMMA GoodOnLonger ==
  ASSUME NEW H, NEW K, Len(H) \in Nat, Len(K) \in Nat, Len(H) =< Len(K),
         \A h \in 1..Len(H) : K[h] = H[h] /\ Len(H[h]) \in Nat,
         NEW p, NEW d, Good(H, p, d)
  PROVE  Good(K, p, d)
<1>1. Stands(H, p) /\ p.parsed \in Nat /\ p.parsed =< Len(H)
  BY DEF Good, Stands, Places
<1>2. p.parsed < Len(H) => K[p.parsed + 1] = H[p.parsed + 1]
  <2>1. p.parsed < Len(H) => p.parsed + 1 \in 1..Len(H)
    BY <1>1
  <2> QED
    BY <2>1
<1>3. Stands(K, p)
  <2>1. p.parsed =< Len(K) /\ (p.parsed < Len(H) => p.parsed < Len(K))
    BY <1>1
  <2> QED
    BY <1>1, <1>2, <2>1 DEF Stands
<1>4. ASSUME NEW t, Happened(H, p, t) PROVE Happened(K, p, t)
  <2>1. PICK h \in 1..Len(H) : \E i \in 1..Len(H[h]) :
          H[h][i] = TxOp(t) /\ (h =< p.parsed \/ (h = p.parsed + 1 /\ i =< p.handled))
    BY <1>4 DEF Happened
  <2>2. h \in 1..Len(K) /\ K[h] = H[h]
    OBVIOUS
  <2> QED
    BY <2>1, <2>2 DEF Happened
<1>5. p.indexing # 0 => OpOf(K, p) = OpOf(H, p)
  BY <1>1, <1>2 DEF Stands, OpOf
<1>6. AtHand(K, p, d)
  BY <1>5 DEF Good, AtHand
<1>7. Known(K, p, d)
  BY <1>4 DEF Good, Known
<1> QED
  BY <1>3, <1>6, <1>7 DEF Good

\* A Hive block holds what was sent and is not there yet, each once.
LEMMA HiveTakes ==
  ASSUME BlocksOK, HiveBlock
  PROVE  \E S \in SUBSET Candidates : \E ops :
           /\ hive' = Append(hive, ops) /\ mempool' \subseteq mempool
           /\ Len(ops) \in Nat /\ Len(ops) =< OpsPerBlock /\ DOMAIN ops = 1..Len(ops) /\ \A i \in 1..Len(ops) : ops[i] \in S
           /\ \A i, j \in 1..Len(ops) : ops[i] = ops[j] => i = j
<1>1. PICK S \in SUBSET Candidates : Cardinality(S) =< OpsPerBlock /\
        \E ops \in SetToSeqs(S) : hive' = Append(hive, ops) /\ mempool' \subseteq mempool
  BY DEF HiveBlock
<1>2. PICK ops \in SetToSeqs(S) : hive' = Append(hive, ops) /\ mempool' \subseteq mempool
  BY <1>1
<1>3. IsFiniteSet(S)
  BY CandidatesFinite, FS_Subset
<1>4. Cardinality(S) \in Nat
  BY <1>3, FS_CardinalityType
<1>5. ops \in [1..Cardinality(S) -> S]
      /\ \A i, j \in 1..Cardinality(S) : i # j => ops[i] # ops[j]
  BY DEF SetToSeqs
<1>6. Len(ops) = Cardinality(S) /\ DOMAIN ops = 1..Len(ops)
  BY <1>4, <1>5
<1> QED
  BY <1>1, <1>2, <1>4, <1>5, <1>6

\* A new Hive block holds only what is sound, and no transaction again.
LEMMA HiveBlockSound ==
  ASSUME BlocksOK, HiveBlock, NEW F, HiveSound(F), PoolSound(F), Proposed(F)
  PROVE  (HiveSound(F) /\ PoolSound(F) /\ Proposed(F))'
<1>1. PICK S \in SUBSET Candidates : \E ops :
           /\ hive' = Append(hive, ops) /\ mempool' \subseteq mempool
           /\ Len(ops) \in Nat /\ Len(ops) =< OpsPerBlock /\ DOMAIN ops = 1..Len(ops) /\ \A i \in 1..Len(ops) : ops[i] \in S
           /\ \A i, j \in 1..Len(ops) : ops[i] = ops[j] => i = j
  BY HiveTakes
<1>2. PICK ops :
           /\ hive' = Append(hive, ops) /\ mempool' \subseteq mempool
           /\ Len(ops) \in Nat /\ Len(ops) =< OpsPerBlock /\ DOMAIN ops = 1..Len(ops) /\ \A i \in 1..Len(ops) : ops[i] \in S
           /\ \A i, j \in 1..Len(ops) : ops[i] = ops[j] => i = j
  BY <1>1
<1>3. PICK N : N = HiveHead
  OBVIOUS
<1>4. /\ N \in Nat /\ HiveHead' = N + 1 /\ Len(hive) = N /\ Len(hive') = N + 1
      /\ \A h \in 1..N : hive'[h] = hive[h]
      /\ \A h \in 1..N : Len(hive[h]) \in Nat
  BY <1>3, HiveGrows DEF HiveHead, BlocksOK, HiveOK
<1>5. hive'[N + 1] = ops
  <2>1. PICK T : hive \in Seq(T)
    BY DEF BlocksOK, HiveOK
  <2>2. Len(hive) = N /\ hive' = Append(hive, ops)
    BY <1>2, <1>4
  <2> QED
    BY <2>1, <2>2
<1>6. \A h \in 1..(N + 1) : h \in 1..N \/ h = N + 1
  BY <1>4
<1>7. N + 1 =< MaxHead /\ MaxHead \in Nat
  BY <1>3, <1>4, IndexAssumption DEF HiveBlock
<1>8. ASSUME NEW i \in 1..Len(ops)
      PROVE  \/ \E t \in HiveTx \ OnHive : ops[i] = TxOp(t)
             \/ \E m \in mempool : m.until > N /\ m.op = ops[i]
  <2>1. ops[i] \in Candidates
    BY <1>2
  <2> QED
    BY <1>3, <2>1 DEF Candidates
<1>9. ASSUME NEW h \in 1..(N + 1), NEW i \in 1..Len(hive'[h])
      PROVE  \/ \E t \in HiveTx : hive'[h][i] = TxOp(t)
             \/ hive'[h][i].kind = "block" /\ BlockSound(F, hive'[h][i].from, hive'[h][i].block)
  <2>1. CASE h \in 1..N
    BY <1>3, <1>4, <2>1 DEF HiveSound
  <2>2. CASE h = N + 1
    <3>1. i \in 1..Len(ops) /\ hive'[h][i] = ops[i]
      BY <1>5, <2>2
    <3>2. CASE \E t \in HiveTx \ OnHive : ops[i] = TxOp(t)
      BY <3>1, <3>2
    <3>3. CASE \E m \in mempool : m.until > N /\ m.op = ops[i]
      <4>1. PICK m \in mempool : m.until > N /\ m.op = ops[i]
        BY <3>3
      <4>2. m.op.kind = "block" /\ BlockSound(F, m.op.from, m.op.block)
        BY <1>3, <4>1 DEF PoolSound
      <4> QED
        BY <3>1, <4>1, <4>2
    <3> QED
      BY <1>8, <3>1, <3>2, <3>3
  <2> QED
    BY <1>6, <2>1, <2>2
<1>10. ASSUME NEW t \in HiveTx, NEW h \in 1..(N + 1), NEW k \in 1..(N + 1), NEW i \in 1..Len(hive'[h]),
              NEW j \in 1..Len(hive'[k]), hive'[h][i] = TxOp(t), hive'[k][j] = TxOp(t)
       PROVE  h = k /\ i = j
  <2>1. ASSUME NEW a \in 1..N, NEW x \in 1..Len(hive[a]), hive[a][x] = TxOp(t),
               NEW y \in 1..Len(ops), ops[y] = TxOp(t)
        PROVE  FALSE
    <3>1. t \in OnHive
      <4>1. DOMAIN hive = 1..N /\ a \in DOMAIN hive
        <5>1. PICK T : hive \in Seq(T)
          BY DEF BlocksOK, HiveOK
        <5> QED
          BY <1>4, <5>1
      <4>2. TxOp(t) \in Elems(hive[a])
        <5>3. DOMAIN hive[a] = 1..Len(hive[a])
          BY <1>3 DEF HiveSound
        <5> QED
          BY <2>1, <5>3 DEF Elems
      <4> QED
        BY <4>1, <4>2 DEF OnHive
    <3>2. CASE \E u \in HiveTx \ OnHive : ops[y] = TxOp(u)
      BY <2>1, <3>1, <3>2 DEF TxOp
    <3>3. CASE \E m \in mempool : m.until > N /\ m.op = ops[y]
      BY <2>1, <3>3 DEF TxOp, PoolSound
    <3> QED
      BY <1>8, <3>2, <3>3
  <2>2. CASE h \in 1..N /\ k \in 1..N
    BY <1>3, <1>4, <1>10, <2>2 DEF HiveSound, OnceOnHive, HiveHead
  <2>3. CASE h \in 1..N /\ k = N + 1
    BY <1>4, <1>5, <1>10, <2>1, <2>3
  <2>4. CASE h = N + 1 /\ k \in 1..N
    BY <1>4, <1>5, <1>10, <2>1, <2>4
  <2>5. CASE h = N + 1 /\ k = N + 1
    BY <1>2, <1>5, <1>10, <2>5
  <2> QED
    BY <1>6, <2>2, <2>3, <2>4, <2>5
<1>11. HiveSound(F)'
  <2>1. OnceOnHive(hive')
    BY <1>4, <1>10 DEF OnceOnHive
  <2>2. HiveHead' =< MaxHead
    BY <1>4, <1>7
  <2>3. \A h \in 1..(N + 1) : DOMAIN hive'[h] = 1..Len(hive'[h])
    BY <1>2, <1>3, <1>4, <1>5, <1>6 DEF HiveSound
  <2> QED
    BY <1>4, <1>9, <2>1, <2>2, <2>3 DEF HiveSound
<1>12. PoolSound(F)'
  BY <1>2, <1>3 DEF PoolSound
<1>13. Proposed(F)'
  BY <1>3 DEF Proposed, HiveBlock
<1> QED
  BY <1>11, <1>12, <1>13

\* All of it remains sound when Hive produces a block.
LEMMA HiveGoesOn ==
  ASSUME BlocksOK, HiveBlock, SoundRun
  PROVE  SoundRun'
<1>1. PICK F, last : IsRun(F, last) /\ OnRun(F) /\ Sound(F)
  BY DEF SoundRun
<1>2. IsRun(F, last)'
  BY <1>1, RunOnLonger
<1>3. OnRun(F)'
  BY <1>1 DEF HiveBlock, dbVars, OnRun, Place, Data, Settled
<1>4. (HiveSound(F) /\ PoolSound(F) /\ Proposed(F))'
  BY <1>1, HiveBlockSound DEF Sound
<1>5. ASSUME NEW p \in DOMAIN F PROVE DbSound(F, p)'
  <2>1. Good(hive, p, F[p]) /\ Undisturbed(F, p) /\ \A b \in 0..p.parsed : At(b) \in DOMAIN F
    BY <1>1 DEF Sound, DbSound
  <2>2. /\ Len(hive') = Len(hive) + 1 /\ Len(hive) \in Nat
        /\ \A h \in 1..Len(hive) : hive'[h] = hive[h]
    BY HiveGrows DEF HiveHead
  <2>3. \A h \in 1..Len(hive) : Len(hive[h]) \in Nat
    BY DEF BlocksOK, HiveOK, HiveHead
  <2>4. Good(hive', p, F[p])
    <3>1. Len(hive') \in Nat /\ Len(hive) =< Len(hive')
      BY <2>2
    <3> QED
      BY <2>1, <2>2, <2>3, <3>1, GoodOnLonger
  <2> QED
    BY <2>1, <2>4 DEF DbSound, Undisturbed
<1>6. Sound(F)'
  BY <1>4, <1>5 DEF Sound
<1> QED
  BY <1>2, <1>3, <1>6 DEF SoundRun

\* The next height is a slot of its own or of the same slot.
LEMMA SlotStep ==
  ASSUME NEW a \in Nat
  PROVE  SlotOf(a) \in 0..a /\ (SlotOf(a + 1) = a + 1 \/ SlotOf(a + 1) = SlotOf(a))
<1> DEFINE L == RoundLength
           p == a \div L
           q == (a + 1) \div L
<1>1. L \in Nat \ {0}
  BY Assumed
<1>2. p \in Nat /\ q \in Nat /\ a = L * p + (a % L) /\ a + 1 = L * q + ((a + 1) % L)
      /\ a % L \in 0..(L - 1) /\ (a + 1) % L \in 0..(L - 1)
  BY <1>1
<1>3. SlotOf(a) = L * p /\ SlotOf(a + 1) = L * q /\ L * p \in Nat /\ L * q \in Nat
  BY <1>1, <1>2 DEF SlotOf
<1>4. L * p =< L * q
  BY <1>3, SlotsGrow
<1>5. q = p \/ q < p \/ q > p
  BY <1>2
<1>6. ASSUME q > p PROVE L * q = a + 1
  <2>1. L * (p + 1) =< L * q /\ L * (p + 1) = L * p + L
    BY <1>1, <1>2, <1>6
  <2> QED
    BY <1>1, <1>2, <1>3, <2>1
<1>7. ASSUME q < p PROVE FALSE
  <2>1. L * (q + 1) =< L * p /\ L * (q + 1) = L * q + L
    BY <1>1, <1>2, <1>7
  <2> QED
    BY <1>1, <1>2, <1>3, <1>4, <2>1
<1>8. L * p \in 0..a
  BY <1>2, <1>3
<1> QED
  BY <1>3, <1>5, <1>6, <1>7, <1>8

\* The slot of every block is its own.
Punctual(d) == \A x \in d.headers : x.block.end = x.slot

\* Whatever block a node accepts in its own slot was built out of what it has.
LEMMA HiveFounds ==
  ASSUME BlocksOK, NEW F, HiveSound(F), NEW p \in DOMAIN F, DbSound(F, p),
         p.parsed < HiveHead, Punctual(Change(hive, p, F[p]))
  PROVE  Founded(hive, p, F[p])
<1> SUFFICES ASSUME p.handled # NotTicked, p.handled # Len(hive[p.parsed + 1])
             PROVE  \/ \E t \in HiveTx : OpOf(hive, p) = TxOp(t)
                    \/ /\ OpOf(hive, p).kind = "block"
                       /\ p.indexing = 0 /\ Accepts(F[p].headers, p.parsed + 1, OpOf(hive, p)) =>
                            /\ OpOf(hive, p).block.end = SlotOf(p.parsed + 1)
                            /\ \E d0 : BuiltOn(d0, OpOf(hive, p).block) /\ Quiet(d0, F[p])
  BY DEF Founded
<1>1. PICK h, op : h = p.parsed + 1 /\ op = OpOf(hive, p)
  OBVIOUS
<1>2. p \in Places /\ p.parsed \in Nat /\ p.handled \in 0..Len(hive[h]) /\ HiveHead \in Nat
  BY <1>1, HeadType DEF DbSound, Good, Stands, Places
<1>3. h \in 1..HiveHead
  BY <1>1, <1>2
<1>4. Len(hive[h]) \in Nat
  BY <1>3 DEF BlocksOK, HiveOK
<1>5. p.handled + 1 \in 1..Len(hive[h])
  BY <1>1, <1>2, <1>4
<1>6. op = hive[h][p.handled + 1]
  BY <1>1 DEF OpOf
<1>7. \/ \E t \in HiveTx : op = TxOp(t)
      \/ op.kind = "block" /\ BlockSound(F, op.from, op.block)
  BY <1>3, <1>5, <1>6 DEF HiveSound
<1>8. ASSUME op.kind = "block", BlockSound(F, op.from, op.block), p.indexing = 0,
             Accepts(F[p].headers, h, op)
      PROVE  op.block.end = SlotOf(h) /\ \E d0 : BuiltOn(d0, op.block) /\ Quiet(d0, F[p])
  <2>1. PICK s : s = op.block.end
    OBVIOUS
  <2>2. s \in 1..MaxHead /\ BuiltOn(F[At(s - 1)], op.block)
    BY <1>8, <2>1 DEF BlockSound
  <2>3. SlotOf(h) = s
    <3>1. Enters(hive, p, F[p]) /\ op = hive[p.parsed + 1][p.handled + 1]
      BY <1>1, <1>8 DEF Enters, OpOf
    <3>2. HeaderAt(SlotOf(h), op) \in Change(hive, p, F[p]).headers
      BY <1>1, <1>8, <3>1 DEF Change
    <3>3. HeaderAt(SlotOf(h), op).block.end = HeaderAt(SlotOf(h), op).slot
      BY <3>2 DEF Punctual
    <3> QED
      BY <2>1, <3>3 DEF HeaderAt
  <2>4. \A x \in F[p].headers : x.slot # SlotOf(h)
    BY <1>8 DEF Accepts
  <2>5. MaxHead \in Nat
    BY IndexAssumption
  <2>6. s # 0
    BY <2>2, <2>5
  <2>7. Quiet(F[At(s - 1)], F[p])
    BY <1>1, <2>3, <2>4, <2>6 DEF DbSound, Undisturbed
  <2> QED
    BY <2>1, <2>2, <2>3, <2>7
<1> QED
  BY <1>1, <1>7, <1>8

\* What has not gone after two steps.
LEMMA QuietTransitive ==
  ASSUME NEW d, NEW e, NEW f, Quiet(d, e), Quiet(e, f)
  PROVE  Quiet(d, f)
BY DEF Quiet

\* The place a run goes on to is sound as those before it, and nothing final
\* changes.
LEMMA SoundProlonged ==
  ASSUME BlocksOK, NEW F, HiveSound(F), DOMAIN F \subseteq Places,
         \A x \in DOMAIN F : DbSound(F, x), NEW p \in DOMAIN F, p.parsed < HiveHead,
         Punctual(Change(hive, p, F[p])), NEW G, Prolongs(G, F, p)
  PROVE  (\A x \in DOMAIN G : DbSound(G, x)) /\ Final(F[p], Change(hive, p, F[p]))
<1>1. PICK q, d, e : q = Move(hive, p, d) /\ d = F[p] /\ e = Change(hive, p, d)
  OBVIOUS
<1>2. DOMAIN G = DOMAIN F \cup {q} /\ G[q] = e /\ \A x \in DOMAIN F : G[x] = F[x]
  BY <1>1 DEF Prolongs
<1>3. /\ DbSound(F, p) /\ Good(hive, p, d) /\ Undisturbed(F, p) /\ \A b \in 0..p.parsed : At(b) \in DOMAIN F
      /\ p \in Places /\ p.parsed \in Nat
  BY <1>1 DEF DbSound, Places
<1>4. Len(hive) \in Nat /\ p.parsed < Len(hive) /\ \A h \in 1..Len(hive) : Len(hive[h]) \in Nat
  BY HeadType DEF BlocksOK, HiveOK, HiveHead
<1>5. Founded(hive, p, d)
  BY <1>1, <1>3, HiveFounds
<1>6. OnceOnHive(hive)
  BY DEF HiveSound
<1>7. Onward(hive, p, d, q, e)
  BY <1>1, <1>3, <1>4, <1>5, <1>6, MoveGood
<1>8. ASSUME NEW x \in DOMAIN F PROVE DbSound(G, x)
  <2>1. Good(hive, x, F[x]) /\ Undisturbed(F, x) /\ (\A b \in 0..x.parsed : At(b) \in DOMAIN F) /\ x.parsed \in Nat
    BY DEF DbSound, Places
  <2>2. PICK s : s = SlotOf(x.parsed + 1)
    OBVIOUS
  <2>3. s \in Nat /\ s =< x.parsed + 1
    <3>1. x.parsed + 1 \in Nat
      BY <2>1
    <3>2. s \in 0..(x.parsed + 1)
      BY <2>2, <3>1, SlotStep
    <3> QED
      BY <2>1, <3>2
  <2>4. s # 0 => s - 1 \in 0..x.parsed
    BY <2>1, <2>3
  <2>5. s # 0 => G[At(s - 1)] = F[At(s - 1)]
    BY <1>2, <2>1, <2>4
  <2>6. Undisturbed(G, x)
    BY <1>2, <2>1, <2>2, <2>5 DEF Undisturbed
  <2> QED
    BY <1>2, <2>1, <2>6 DEF DbSound
<1>9. DbSound(G, q)
  <2>1. Good(hive, q, e) /\ d.headers \subseteq e.headers
        /\ ((\A x \in e.headers : x.slot # SlotOf(p.parsed + 1)) => Quiet(d, e))
    BY <1>7 DEF Onward
  <2>2. PICK s : s = SlotOf(p.parsed + 1)
    OBVIOUS
  <2>3. s \in 0..(p.parsed + 1)
    BY <1>3, <2>2, SlotStep
  <2>4. s # 0 => s - 1 \in 0..p.parsed
    BY <1>3, <2>3
  <2>5. s # 0 => At(s - 1) \in DOMAIN F /\ G[At(s - 1)] = F[At(s - 1)]
    BY <1>2, <1>3, <2>4
  <2>6. s # 0 /\ (\A x \in d.headers : x.slot # s) => Quiet(G[At(s - 1)], d)
    BY <1>1, <1>3, <2>2, <2>5 DEF Undisturbed
  <2>7. s # 0 /\ (\A x \in e.headers : x.slot # s) => Quiet(G[At(s - 1)], e)
    BY <2>1, <2>2, <2>6, QuietTransitive
  <2>8. CASE q.parsed = p.parsed
    <3>1. Undisturbed(G, q)
      BY <1>2, <2>2, <2>7, <2>8 DEF Undisturbed
    <3>2. \A b \in 0..q.parsed : At(b) \in DOMAIN G
      BY <1>2, <1>3, <2>8
    <3> QED
      BY <1>2, <2>1, <3>1, <3>2 DEF DbSound
  <2>9. CASE q = At(p.parsed + 1)
    <3>1. q.parsed = p.parsed + 1 /\ q.parsed + 1 \in Nat
      BY <1>3, <2>9 DEF At
    <3>2. SlotOf(q.parsed + 1) = q.parsed + 1 \/ SlotOf(q.parsed + 1) = s
      <4>1. p.parsed + 1 \in Nat
        BY <1>3
      <4> QED
        BY <2>2, <3>1, <4>1, SlotStep
    <3>3. SlotOf(q.parsed + 1) = q.parsed + 1 => At(SlotOf(q.parsed + 1) - 1) = q
      BY <1>3, <2>9, <3>1
    <3>4. Quiet(e, e)
      BY DEF Quiet
    <3>5. Undisturbed(G, q)
      BY <1>2, <2>7, <3>2, <3>3, <3>4 DEF Undisturbed
    <3>6. \A b \in 0..q.parsed : At(b) \in DOMAIN G
      <4>1. \A b \in 0..q.parsed : b \in 0..p.parsed \/ b = p.parsed + 1
        BY <1>3, <3>1
      <4> QED
        BY <1>2, <1>3, <2>9, <4>1
    <3> QED
      BY <1>2, <2>1, <3>5, <3>6 DEF DbSound
  <2>10. q.parsed = p.parsed \/ q = At(p.parsed + 1)
    BY <1>1 DEF Move, At
  <2> QED
    BY <2>8, <2>9, <2>10
<1>10. Final(d, e)
  BY <1>7 DEF Onward
<1> QED
  BY <1>1, <1>2, <1>8, <1>9, <1>10

\* What is on the way to Hive remains sound when the run is prolonged.
LEMMA OthersSoundOn ==
  ASSUME NEW F, NEW G, DOMAIN F \subseteq DOMAIN G, \A x \in DOMAIN F : G[x] = F[x],
         HiveSound(F), PoolSound(F), Proposed(F)
  PROVE  HiveSound(G) /\ PoolSound(G) /\ Proposed(G)
<1>1. \A n, b : BlockSound(F, n, b) => BlockSound(G, n, b)
  BY BlockSoundOn
<1>2. HiveSound(G)
  BY <1>1 DEF HiveSound
<1>3. PoolSound(G)
  BY <1>1 DEF PoolSound
<1>4. Proposed(G)
  BY <1>1 DEF Proposed
<1> QED
  BY <1>2, <1>3, <1>4

\* So it does when a witness broadcasts its block.
LEMMA BroadcastSound ==
  ASSUME BlocksOK, NEW G, HiveSound(G), PoolSound(G), Proposed(G), NEW n \in Node, EndProposal(n)
  PROVE  (HiveSound(G) /\ PoolSound(G) /\ Proposed(G))'
<1>1. hive' = hive /\ HiveHead' = HiveHead
  BY DEF EndProposal, HiveHead
<1>2. PICK p, m : p = proposing[n] /\ m = [op |-> BlockOp(n, p.block, p.signers), until |-> HiveHead + Expiry]
  OBVIOUS
<1>3. mempool' \subseteq mempool \cup {m}
  BY <1>2 DEF EndProposal
<1>4. BlockSound(G, n, p.block)
  BY <1>2 DEF EndProposal, Proposed
<1>5. m.op.kind = "block" /\ m.op.from = n /\ m.op.block = p.block
  BY <1>2 DEF BlockOp
<1>6. PoolSound(G)'
  BY <1>3, <1>4, <1>5 DEF PoolSound
<1>7. Proposed(G)'
  <2>1. \A k \in Node : proposing'[k] = proposing[k] \/ proposing'[k] = NoProposal
    BY DEF EndProposal, BlocksOK, ProposingOK
  <2> QED
    BY <2>1 DEF Proposed
<1>8. HiveSound(G)'
  BY <1>1 DEF HiveSound
<1> QED
  BY <1>6, <1>7, <1>8

\* A node's own step keeps what is final, and the run sound.
LEMMA NodeGoesOn ==
  ASSUME BlocksOK, BlocksOK', SoundRun, InOwnSlots', NEW n \in Node,
         \/ IndexStep(n) /\ ~FetchFails(n) /\ UNCHANGED blockVars
         \/ Tick(n)
         \/ EndProposal(n)
  PROVE  SoundRun' /\ Final(Data(n), Data(n)')
<1>1. PICK F, last : IsRun(F, last) /\ OnRun(F) /\ Sound(F)
  BY DEF SoundRun
<1>2. hive' = hive /\ HiveHead' = HiveHead
  BY DEF HiveHead, IndexStep, ParseTx, RejectBlock, IndexHeader, IndexInput, IndexOutput,
     IndexEvents, IndexAnchorRef, IndexNonces, FinishBlock, Tick, EndProposal
<1>3. Follows(n)
  BY TxFollows, HeaderFollows, InputFollows, OutputFollows, EventsFollow,
     AnchorRefFollows, NoncesFollow, EndsFollow DEF IndexStep
<1>4. \A m \in Node \ {n} : Stays(m)
  BY OthersStay
<1>5. PICK G, l : IsRun(G, l)' /\ OnRun(G)' /\ Prolongs(G, F, Place(n))
  BY <1>1, <1>2, <1>3, <1>4, RunProlonged
<1>6. PICK p : p = Place(n)
  OBVIOUS
<1>7. /\ p \in DOMAIN F /\ F[p] = Data(n) /\ p.parsed < HiveHead
      /\ Data(n)' = Change(hive, p, F[p]) /\ DOMAIN F \subseteq Places
  BY <1>1, <1>3, <1>6 DEF OnRun, IsRun, Follows, Place
<1>8. (\A x \in DOMAIN G : DbSound(G, x)) /\ Final(Data(n), Data(n)')
  <2>1. Data(n)'.headers = headers'[n]
    BY DEF Data
  <2>2. Punctual(Change(hive, p, F[p]))
    BY <1>7, <2>1 DEF InOwnSlots, Punctual
  <2> QED
    BY <1>1, <1>5, <1>6, <1>7, <2>2, SoundProlonged DEF Sound
<1>9. HiveSound(G) /\ PoolSound(G) /\ Proposed(G)
  BY <1>1, <1>5, OthersSoundOn DEF Sound, Prolongs
<1>10. (HiveSound(G) /\ PoolSound(G) /\ Proposed(G))'
  <2>1. CASE EndProposal(n)
    BY <1>9, <2>1, BroadcastSound
  <2>2. CASE UNCHANGED blockVars
    BY <1>2, <1>9, <2>2 DEF blockVars, HiveSound, PoolSound, Proposed
  <2> QED
    BY <2>1, <2>2 DEF Tick
<1>11. Sound(G)'
  BY <1>2, <1>8, <1>10 DEF Sound, DbSound, Undisturbed
<1> QED
  BY <1>5, <1>8, <1>11 DEF SoundRun

\* A block starts after the last header a node has.
LEMMA BlockGoesOn ==
  ASSUME NEW n \in Node, NEW p, Good(hive, p, Data(n)), NEW b, b.start = LastEnd(n) + 1
  PROVE  GoesOn(b, headers[n])
<1>1. DbGood(Data(n)) /\ InSlots(p, Data(n)) /\ p.parsed \in Nat /\ Data(n).headers = headers[n]
  BY DEF Good, Stands, Places, Data
<1>2. FirstHeader \in headers[n] /\ \A x \in headers[n] : x.slot \in Nat /\ x.block.end = x.slot
  BY <1>1 DEF DbGood, OneAfterOther
<1>3. PICK N : N = LastSlot(p)
  OBVIOUS
<1>4. N \in Nat
  <2>1. PICK a : a = IF p.handled = NotTicked THEN p.parsed ELSE p.parsed + 1
    OBVIOUS
  <2>2. a \in Nat
    BY <1>1, <2>1
  <2> QED
    BY <1>3, <2>1, <2>2, SlotsGrow DEF LastSlot
<1>5. PICK S : S = {x.block.end : x \in headers[n]}
  OBVIOUS
<1>6. S \subseteq 0..N /\ S # {}
  BY <1>1, <1>2, <1>3, <1>4, <1>5 DEF InSlots
<1>7. Max(S) \in S /\ \A x \in S : x =< Max(S)
  BY <1>4, <1>6, GreatestNat
<1>8. b.start = Max(S) + 1
  BY <1>5 DEF LastEnd
<1>9. PICK y \in headers[n] : y.block.end = Max(S)
  BY <1>5, <1>7
<1>10. y.slot = Max(S) /\ \A z \in headers[n] : z.slot =< Max(S)
  BY <1>2, <1>5, <1>7, <1>9
<1> QED
  BY <1>8, <1>9, <1>10 DEF GoesOn

\* What a witness proposes is sound.
LEMMA ProposeSound ==
  ASSUME BlocksOK, NEW F, OnRun(F), Sound(F), NEW n \in Node, Propose(n)
  PROVE  Proposed(F)'
<1>1. PICK h : h = parsed[n] + 1
  OBVIOUS
<1>2. /\ parsed[n] < HiveHead /\ handled[n] = NotTicked /\ h % RoundLength = 0 /\ Schedule[h] = n
      /\ HiveHead - parsed[n] < MaxLag /\ hive' = hive
  BY <1>1 DEF Propose, AtTick, IsMySlot, indexVars
<1>3. PICK b \in OfferedBlocks(n, h) :
        proposing' = [proposing EXCEPT ![n] = [slot |-> h, block |-> b, at |-> HiveHead, signers |-> {n}]]
  BY <1>1 DEF Propose
<1>4. PICK offered \in PoolOrders(n) : b \in Blocks(n, h, offered)
  BY <1>3 DEF OfferedBlocks
<1>5. HiveHead \in Nat /\ parsed[n] \in Nat /\ MaxHead \in Nat /\ MaxLag \in Nat /\ Patience \in Nat
  BY HeadType, IndexAssumption, BlockAssumption DEF BlocksOK, PlaceOK
<1>6. indexing[n] = 0
  BY <1>2, AtOperation DEF BlocksOK, PlaceOK
<1>7. Place(n) = At(h - 1)
  <2>1. h - 1 = parsed[n]
    BY <1>1, <1>5
  <2> QED
    BY <1>2, <1>6, <2>1 DEF Place, At
<1>8. At(h - 1) \in DOMAIN F /\ F[At(h - 1)] = Data(n) /\ Good(hive, At(h - 1), Data(n))
  BY <1>7 DEF OnRun, Sound, DbSound
<1>9. nonce[n] \in Nat /\ contract[n] \in Seq(Call)
  BY <1>8 DEF Good, DbGood, Data
<1>10. b.end = h /\ b.start = LastEnd(n) + 1 /\ WellFormed(b) /\ NewTo(Data(n), b)
  BY <1>4, <1>9, BuildIs
<1>11. BuiltOn(Data(n), b)
  <2>1. GoesOn(b, headers[n])
    BY <1>8, <1>10, BlockGoesOn
  <2>2. Data(n).headers = headers[n]
    BY DEF Data
  <2> QED
    BY <1>10, <2>1, <2>2 DEF BuiltOn
<1>12. h \in 1..MaxHead
  <2>1. HiveHead =< MaxHead
    BY DEF Sound, HiveSound
  <2> QED
    BY <1>1, <1>2, <1>5, <2>1
<1>13. BlockSound(F, n, b)
  BY <1>2, <1>8, <1>10, <1>11, <1>12 DEF BlockSound
<1>14. \A k \in Node : k # n => proposing'[k] = proposing[k]
  BY <1>3 DEF BlocksOK, ProposingOK
<1>15. proposing'[n].block = b
  BY <1>3 DEF BlocksOK, ProposingOK
<1> SUFFICES ASSUME NEW k \in Node, proposing'[k] # NoProposal PROVE BlockSound(F, k, proposing'[k].block)
  BY DEF Proposed
<1>16. CASE k = n
  BY <1>13, <1>15, <1>16
<1>17. CASE k # n
  BY <1>14, <1>17 DEF Sound, Proposed
<1> QED
  BY <1>16, <1>17

\* Nothing else is built.
LEMMA StaySound ==
  ASSUME SoundRun, hive' = hive, mempool' = mempool, \A m \in Node : Stays(m),
         \A n \in Node : proposing'[n] # NoProposal =>
           proposing[n] # NoProposal /\ proposing'[n].block = proposing[n].block
  PROVE  SoundRun'
<1>1. PICK F, last : IsRun(F, last) /\ OnRun(F) /\ Sound(F)
  BY DEF SoundRun
<1>2. IsRun(F, last)' /\ OnRun(F)' /\ HiveHead' = HiveHead
  BY <1>1 DEF IsRun, OnRun, Stays, HiveHead
<1>3. HiveSound(F)' /\ PoolSound(F)' /\ \A x \in DOMAIN F : DbSound(F, x)'
  BY <1>1, <1>2 DEF Sound, HiveSound, PoolSound, DbSound, Undisturbed
<1>4. Proposed(F)'
  BY <1>1, <1>2 DEF Sound, Proposed
<1> QED
  BY <1>2, <1>3, <1>4 DEF SoundRun, Sound

\* Every step keeps the run sound and what is final as it is, as long as nothing
\* has failed and no block came late.
FinalStep == \A n \in Node : Final(Data(n), Data(n)')

\* A node forgets no header.
LEMMA HeadersStay ==
  ASSUME BlocksOK, [Next]_vars, NEW n \in Node
  PROVE  headers[n] \subseteq headers'[n]
<1>1. \/ headers' = headers
      \/ \E m \in Node : IndexHeader(m)
  BY DEF Next, HiveBlock, Announce, IndexStep, ParseTx, RejectBlock, IndexInput, IndexOutput, IndexEvents,
     IndexAnchorRef, IndexNonces, FetchFails, FinishBlock, Tick, Propose, EndProposal, Crash, Restart, Sign,
     indexVars, dbVars, vars
<1>2. ASSUME NEW m \in Node, IndexHeader(m) PROVE headers[n] \subseteq headers'[n]
  BY <1>2 DEF IndexHeader, BlocksOK, DbOK
<1> QED
  BY <1>1, <1>2

\* Once something has gone wrong it has.
LEMMA WellBefore ==
  ASSUME BlocksOK, [Next]_vars, AllWell', crashes \in Nat, fetchErrors \in Nat,
         crashes' >= crashes, fetchErrors' >= fetchErrors
  PROVE  AllWell
<1>1. InOwnSlots
  <2> SUFFICES ASSUME NEW n \in Node, NEW x \in headers[n] PROVE x.block.end = x.slot
    BY DEF InOwnSlots
  <2>1. x \in headers'[n]
    BY HeadersStay
  <2> QED
    BY <2>1 DEF AllWell, InOwnSlots
<1>2. crashes = 0 /\ fetchErrors = 0
  BY DEF AllWell
<1> QED
  BY <1>1, <1>2 DEF AllWell

LEMMA BuildStep ==
  ASSUME BuildInv, [Next]_vars
  PROVE  BuildInv' /\ (AllWell' => FinalStep)
<1>1. BlocksOK /\ BlocksOK' /\ crashes \in Nat /\ fetchErrors \in Nat
  BY BlocksStep DEF BuildInv, BlocksOK
<1>2. crashes' =< MaxCrashes /\ fetchErrors' =< MaxFetchErrors /\ crashes' >= crashes /\ fetchErrors' >= fetchErrors
  <2>1. MaxCrashes \in Nat /\ MaxFetchErrors \in Nat /\ crashes =< MaxCrashes /\ fetchErrors =< MaxFetchErrors
    BY IndexAssumption DEF BuildInv
  <2>2. \/ crashes' = crashes
        \/ crashes < MaxCrashes /\ crashes' = crashes + 1
    BY DEF Next, HiveBlock, Announce, IndexStep, ParseTx, RejectBlock, IndexHeader, IndexInput, IndexOutput,
       IndexEvents, IndexAnchorRef, IndexNonces, FetchFails, FinishBlock, Tick, Propose, EndProposal, Crash,
       Restart, Sign, indexVars, vars
  <2>3. \/ fetchErrors' = fetchErrors
        \/ fetchErrors < MaxFetchErrors /\ fetchErrors' = fetchErrors + 1
    BY DEF Next, HiveBlock, Announce, IndexStep, ParseTx, RejectBlock, IndexHeader, IndexInput, IndexOutput,
       IndexEvents, IndexAnchorRef, IndexNonces, FetchFails, FinishBlock, Tick, Propose, EndProposal, Crash,
       Restart, Sign, indexVars, vars
  <2> QED
    BY <1>1, <2>1, <2>2, <2>3
<1>3. SUFFICES ASSUME AllWell' PROVE SoundRun' /\ FinalStep
  BY <1>1, <1>2 DEF BuildInv
<1>4. SoundRun /\ crashes = 0 /\ fetchErrors = 0 /\ crashes' = 0 /\ fetchErrors' = 0 /\ InOwnSlots'
  <2>1. AllWell
    BY <1>1, <1>2, <1>3, WellBefore
  <2> QED
    BY <1>3, <2>1 DEF BuildInv, AllWell
<1>5. \A n \in Node : Stays(n) => Final(Data(n), Data(n)')
  BY DEF Stays, Final
<1>6. CASE HiveBlock
  <2>1. \A n \in Node : Stays(n)
    BY <1>6 DEF HiveBlock, dbVars, Stays, Place, Data, Settled
  <2> QED
    BY <1>1, <1>4, <1>5, <1>6, <2>1, HiveGoesOn DEF FinalStep
<1>7. ASSUME NEW n \in Node, NEW t \in Tx, Announce(n, t), UNCHANGED blockVars PROVE SoundRun' /\ FinalStep
  <2>1. status' = [status EXCEPT ![n][t] = "UNCONFIRMED"] /\ status[n][t] = "NONE"
    BY <1>7 DEF Announce
  <2>2. status \in [Node -> [Tx -> Status]] /\ status' \in [Node -> [Tx -> Status]]
    BY <1>1 DEF BlocksOK, DbOK
  <2>3. \A m \in Node : Settled(m)' = Settled(m)
    BY <2>1, <2>2 DEF Settled
  <2>4. \A m \in Node : Stays(m)
    BY <1>7, <2>3 DEF Announce, Stays, Place, Data
  <2> QED
    BY <1>4, <1>5, <1>7, <2>4, StaySound DEF Announce, blockVars, FinalStep
<1>8. ASSUME NEW n \in Node,
             (IndexStep(n) /\ UNCHANGED blockVars) \/ Tick(n) \/ EndProposal(n)
      PROVE  SoundRun' /\ FinalStep
  <2>1. ~FetchFails(n)
    BY <1>4 DEF FetchFails
  <2>2. SoundRun' /\ Final(Data(n), Data(n)')
    BY <1>1, <1>4, <1>8, <2>1, NodeGoesOn
  <2>3. \A m \in Node \ {n} : Stays(m)
    BY <1>1, <1>8, OthersStay
  <2> QED
    BY <1>5, <2>2, <2>3 DEF FinalStep
<1>9. ASSUME NEW n \in Node, Crash(n) PROVE FALSE
  BY <1>1, <1>4, <1>9 DEF Crash, Restart
<1>10. ASSUME UNCHANGED indexVars PROVE \A m \in Node : Stays(m)
  BY <1>10 DEF indexVars, Stays, Place, Data, Settled
<1>11. ASSUME NEW n \in Node, Propose(n) PROVE SoundRun' /\ FinalStep
  <2>1. UNCHANGED indexVars /\ mempool' = mempool
    BY <1>11 DEF Propose
  <2>2. \A m \in Node : Stays(m)
    BY <1>10, <2>1
  <2>3. PICK F, last : IsRun(F, last) /\ OnRun(F) /\ Sound(F)
    BY <1>4 DEF SoundRun
  <2>4. IsRun(F, last)' /\ OnRun(F)' /\ HiveHead' = HiveHead /\ hive' = hive
    BY <2>1, <2>2, <2>3 DEF IsRun, OnRun, Stays, HiveHead, indexVars
  <2>5. Proposed(F)'
    BY <1>1, <1>11, <2>3, ProposeSound
  <2>6. HiveSound(F)' /\ PoolSound(F)' /\ \A x \in DOMAIN F : DbSound(F, x)'
    BY <2>1, <2>3, <2>4 DEF Sound, HiveSound, PoolSound, DbSound, Undisturbed
  <2> QED
    BY <1>5, <2>2, <2>4, <2>5, <2>6 DEF SoundRun, Sound, FinalStep
<1>12. ASSUME NEW n \in Node, NEW m \in Node, Sign(m, n) PROVE SoundRun' /\ FinalStep
  <2>1. UNCHANGED indexVars /\ mempool' = mempool /\ hive' = hive
    BY <1>12 DEF Sign, indexVars
  <2>2. \A k \in Node : Stays(k)
    BY <1>10, <2>1
  <2>3. \A k \in Node : proposing'[k] = IF k = n THEN [proposing[n] EXCEPT !.signers = @ \cup {m}]
                                        ELSE proposing[k]
    BY <1>1, <1>12 DEF Sign, BlocksOK, ProposingOK
  <2>4. \A k \in Node : proposing'[k] # NoProposal =>
           proposing[k] # NoProposal /\ proposing'[k].block = proposing[k].block
    <3> SUFFICES ASSUME NEW k \in Node, proposing'[k] # NoProposal
                 PROVE  proposing[k] # NoProposal /\ proposing'[k].block = proposing[k].block
      OBVIOUS
    <3>1. CASE k = n
      BY <1>12, <2>3, <3>1 DEF Sign
    <3>2. CASE k # n
      BY <2>3, <3>2
    <3> QED
      BY <3>1, <3>2
  <2> QED
    BY <1>4, <1>5, <2>1, <2>2, <2>4, StaySound DEF FinalStep
<1>13. CASE UNCHANGED vars
  BY <1>4, <1>5, <1>10, <1>13, StaySound DEF vars, indexVars, FinalStep
<1> QED
  BY <1>6, <1>7, <1>8, <1>9, <1>11, <1>12, <1>13 DEF Next

\* What a node's database is like.
LEMMA DataGood ==
  ASSUME BuildInv, AllWell, NEW n \in Node
  PROVE  \E d : DbGood(d) /\ d.headers = headers[n] /\ d.contract = contract[n]
<1>1. PICK F, last : IsRun(F, last) /\ OnRun(F) /\ Sound(F)
  BY DEF BuildInv, SoundRun
<1>2. DbGood(Data(n))
  BY <1>1 DEF OnRun, Sound, DbSound, Good
<1>3. Data(n).headers = headers[n] /\ Data(n).contract = contract[n]
  BY DEF Data
<1> QED
  BY <1>2, <1>3

\* VSC blocks follow each other: for any nodes, weights, schedule, delays and
\* transactions, until a node crashes, a fetch fails or a block is indexed under a
\* later slot.
THEOREM BlocksFollow == Spec => []RangesContiguous
<1>1. BuildInv => RangesContiguous
  <2> SUFFICES ASSUME BuildInv, AllWell, NEW n \in Node,
                      NEW x \in headers[n] \ {FirstHeader}
               PROVE  /\ \E y \in headers[n] : y.block.end + 1 = x.block.start /\ y.slot < x.slot
                      /\ \A y \in headers[n] \ {x} : y.block.start # x.block.start
    BY DEF RangesContiguous
  <2>1. PICK d : DbGood(d) /\ d.headers = headers[n]
    BY DataGood
  <2>2. PICK hs : hs = headers[n] /\ OneAfterOther(hs)
    BY <2>1 DEF DbGood
  <2>3. \A y \in hs : y.slot \in Nat /\ y.block.end = y.slot
    BY <2>2 DEF OneAfterOther
  <2>4. ASSUME NEW u \in hs \ {FirstHeader}
        PROVE  \E y \in hs : /\ y.slot < u.slot /\ u.block.start = y.slot + 1
                             /\ \A z \in hs : z.slot < u.slot => z.slot =< y.slot
    BY <2>2 DEF OneAfterOther
  <2>5. ASSUME NEW u \in hs \ {FirstHeader}, NEW v \in hs, v.slot < u.slot
        PROVE  v.block.start < u.block.start
    <3>1. PICK y \in hs : /\ y.slot < u.slot /\ u.block.start = y.slot + 1
                          /\ \A z \in hs : z.slot < u.slot => z.slot =< y.slot
      BY <2>4
    <3>2. v.slot =< y.slot /\ v.slot \in Nat /\ y.slot \in Nat
      BY <2>3, <2>5, <3>1
    <3>3. CASE v = FirstHeader
      BY <3>1, <3>2, <3>3 DEF FirstHeader
    <3>4. CASE v # FirstHeader
      <4>1. PICK w \in hs : w.slot < v.slot /\ v.block.start = w.slot + 1
        BY <2>4, <3>4
      <4> QED
        BY <2>3, <3>1, <3>2, <4>1
    <3> QED
      BY <3>3, <3>4
  <2>6. \E y \in hs : y.block.end + 1 = x.block.start /\ y.slot < x.slot
    BY <2>2, <2>3, <2>4
  <2>7. ASSUME NEW y \in hs \ {x} PROVE y.block.start # x.block.start
    <3>1. y.slot # x.slot /\ y.slot \in Nat /\ x.slot \in Nat
      BY <2>2, <2>3 DEF OneAfterOther
    <3>2. CASE y.slot < x.slot
      <4>1. y.block.start < x.block.start
        BY <2>2, <2>5, <3>2
      <4>2. PICK z \in hs : x.block.start = z.slot + 1
        BY <2>2, <2>4
      <4> QED
        BY <2>3, <4>1, <4>2
    <3>3. CASE x.slot < y.slot
      <4>1. y # FirstHeader
        BY <2>3, <2>2, <3>1, <3>3 DEF FirstHeader
      <4>2. x.block.start < y.block.start
        BY <2>2, <2>5, <3>3, <4>1
      <4>3. PICK z \in hs : y.block.start = z.slot + 1
        BY <2>4, <4>1
      <4>4. PICK w \in hs : x.block.start = w.slot + 1
        BY <2>2, <2>4
      <4> QED
        BY <2>3, <4>2, <4>3, <4>4
    <3> QED
      BY <3>1, <3>2, <3>3
  <2> QED
    BY <2>2, <2>6, <2>7
<1> QED
  BY <1>1, BuildInit, BuildStep, PTL DEF Spec

\* No key's nonce is used by two inputs, and no call is executed twice, as long.
THEOREM NothingHappensTwice == Spec => []NothingTwice
<1>1. BuildInv => ExecutedOnce
  <2> SUFFICES ASSUME BuildInv, AllWell, NEW n \in Node PROVE IsInjective(contract[n])
    BY DEF ExecutedOnce
  <2> QED
    BY DataGood DEF DbGood
<1>2. BuildInv => NonceUsedOnce
  <2> SUFFICES ASSUME BuildInv, AllWell, NEW n \in Node,
                      NEW x \in headers[n], NEW y \in headers[n],
                      NEW i \in DOMAIN Inputs(x.block), NEW j \in DOMAIN Inputs(y.block),
                      NonceOf[Offered(x.block)[i]] = NonceOf[Offered(y.block)[j]]
               PROVE  x = y /\ i = j
    BY DEF NonceUsedOnce
  <2>1. PICK d : DbGood(d) /\ d.headers = headers[n]
    BY DataGood
  <2>2. PICK hs : hs = headers[n] /\ OneAfterOther(hs) /\ NoncesRise(hs)
    BY <2>1 DEF DbGood
  <2>3. WellFormed(x.block) /\ WellFormed(y.block) /\ x.slot \in Nat /\ y.slot \in Nat
    BY <2>2 DEF OneAfterOther
  <2>4. PICK in, on : in = Inputs(x.block) /\ on = Inputs(y.block)
    OBVIOUS
  <2>5. ASSUME NEW b, WellFormed(b)
        PROVE  Inputs(b) \in Seq(Entry) /\ \E f : TakenFrom(Inputs(b), b, f)
    <3>1. PICK s : s = Inputs(b)
      OBVIOUS
    <3>2. /\ s \in Seq(Entry)
          /\ \E f \in [1..Len(s) -> InputsOf(b)] :
               Increasing(f) /\ \A m \in 1..Len(s) : s[m] = b.txs[f[m]]
      BY <2>5, <3>1, InputsAre
    <3>3. \E f : TakenFrom(s, b, f)
      BY ONLY <3>2 DEF TakenFrom
    <3> QED
      BY ONLY <3>1, <3>2, <3>3
  <2>6. /\ in \in Seq(Entry) /\ on \in Seq(Entry)
        /\ \E f : TakenFrom(in, x.block, f)
        /\ \E f : TakenFrom(on, y.block, f)
    <3>1. Inputs(x.block) \in Seq(Entry) /\ \E f : TakenFrom(Inputs(x.block), x.block, f)
      BY ONLY <2>3, <2>5
    <3>2. Inputs(y.block) \in Seq(Entry) /\ \E f : TakenFrom(Inputs(y.block), y.block, f)
      BY ONLY <2>3, <2>5
    <3> QED
      BY ONLY <2>4, <3>1, <3>2
  <2> PICK f : TakenFrom(in, x.block, f)
    BY ONLY <2>6
  <2> PICK g : TakenFrom(on, y.block, g)
    BY ONLY <2>6
  <2>7. /\ f \in [1..Len(in) -> InputsOf(x.block)] /\ Increasing(f)
        /\ \A m \in 1..Len(in) : in[m] = x.block.txs[f[m]]
    BY DEF TakenFrom
  <2>8. /\ g \in [1..Len(on) -> InputsOf(y.block)]
        /\ \A m \in 1..Len(on) : on[m] = y.block.txs[g[m]]
    BY DEF TakenFrom
  <2>9. i \in 1..Len(in) /\ j \in 1..Len(on) /\ Len(in) \in Nat /\ Len(on) \in Nat
    BY <2>4, <2>5, <2>6
  <2>10. NonceAt(x.block, f[i]) = NonceAt(y.block, g[j])
    <3>1. Offered(x.block)[i] = in[i].txs[1] /\ Offered(y.block)[j] = on[j].txs[1]
      BY <2>4 DEF Offered
    <3> QED
      BY <2>7, <2>8, <2>9, <3>1 DEF NonceAt
  <2>11. f[i] \in InputsOf(x.block) /\ g[j] \in InputsOf(y.block)
    BY <2>7, <2>8, <2>9
  <2>12. /\ NonceAt(x.block, f[i]) \in Nat /\ NonceAt(y.block, g[j]) \in Nat
    BY <2>3, <2>11, NonceType
  <2>13. ~(x.slot < y.slot) /\ ~(y.slot < x.slot)
    <3>1. x.slot < y.slot => NonceAt(x.block, f[i]) < NonceAt(y.block, g[j])
      BY <2>2, <2>11 DEF NoncesRise
    <3>2. y.slot < x.slot => NonceAt(y.block, g[j]) < NonceAt(x.block, f[i])
      BY <2>2, <2>11 DEF NoncesRise
    <3> QED
      BY <2>10, <2>12, <3>1, <3>2
  <2>14. x = y
    BY <2>2, <2>3, <2>13 DEF OneAfterOther
  <2>15. in = on /\ f[i] \in Nat /\ f[j] \in Nat
    BY <2>4, <2>7, <2>8, <2>9, <2>14 DEF InputsOf
  <2>16. ASSUME NEW a \in 1..Len(in), NEW b \in 1..Len(in), a < b
         PROVE  NonceAt(x.block, f[a]) < NonceAt(x.block, f[b])
    <3>1. f[a] \in InputsOf(x.block) /\ f[b] \in InputsOf(x.block) /\ f[a] < f[b]
      BY <2>7, <2>16 DEF Increasing
    <3> QED
      BY <2>3, <3>1 DEF WellFormed
  <2>17. NonceAt(y.block, g[j]) = NonceAt(x.block, f[j])
    BY <2>7, <2>8, <2>9, <2>14, <2>15 DEF NonceAt
  <2>18. ~(i < j) /\ ~(j < i)
    BY <2>9, <2>10, <2>12, <2>15, <2>16, <2>17
  <2>19. i = j
    BY <2>9, <2>18
  <2> QED
    BY <2>14, <2>19
<1> QED
  BY <1>1, <1>2, BuildInit, BuildStep, PTL DEF Spec, NothingTwice

\* A step in which a node crashes, fails to fetch or accepts a block that came late
\* changes no status.
LEMMA FailingKeeps ==
  ASSUME BlocksOK, [Next]_vars, AllWell, ~AllWell'
  PROVE  status' = status
<1>1. \/ \E n \in Node : FetchFails(n) \/ Crash(n) \/ IndexHeader(n)
      \/ crashes' = crashes /\ fetchErrors' = fetchErrors /\ headers' = headers
  BY DEF Next, HiveBlock, Announce, IndexStep, ParseTx, RejectBlock, IndexInput, IndexOutput,
     IndexEvents, IndexAnchorRef, IndexNonces, FinishBlock, Tick, Propose, EndProposal, Sign, indexVars, dbVars,
     vars
<1>2. ~(crashes' = crashes /\ fetchErrors' = fetchErrors /\ headers' = headers)
  BY DEF AllWell, InOwnSlots
<1> QED
  BY <1>1, <1>2 DEF FetchFails, Crash, Restart, IndexHeader, dbVars

\* What has been confirmed or failed stays so, as long.
THEOREM ConfirmedForGood == Spec => StatusFinal
<1>1. ASSUME BuildInv, [Next]_vars, AllWell, NEW n \in Node,
             NEW t \in DOMAIN status[n], status[n][t] \in {"CONFIRMED", "FAILED"}
      PROVE  status'[n][t] = status[n][t]
  <2>1. BlocksOK /\ BlocksOK'
    BY <1>1, BlocksStep DEF BuildInv
  <2>2. CASE AllWell'
    <3>1. Final(Data(n), Data(n)')
      BY <1>1, <2>2, BuildStep DEF FinalStep
    <3>2. t \in Tx /\ status[n] \in [Tx -> Status] /\ status'[n] \in [Tx -> Status]
      BY <1>1, <2>1 DEF BlocksOK, DbOK
    <3>3. Data(n).status[t] = status[n][t]
      BY <1>1, <3>2 DEF Data, Settled
    <3>4. Data(n)'.status[t] = IF status'[n][t] \in {"NONE", "UNCONFIRMED"} THEN "NONE" ELSE status'[n][t]
      BY <3>2 DEF Data, Settled
    <3>5. Data(n)'.status[t] = status[n][t]
      BY <1>1, <3>1, <3>2, <3>3 DEF Final
    <3> QED
      BY <1>1, <3>4, <3>5
  <2>3. CASE ~AllWell'
    BY <1>1, <2>1, <2>3, FailingKeeps
  <2> QED
    BY <2>2, <2>3
<1>2. BuildInv /\ [Next]_vars =>
        [AllWell => \A n \in Node : \A t \in DOMAIN status[n] :
           status[n][t] \in {"CONFIRMED", "FAILED"} => status'[n][t] = status[n][t]]_vars
  BY <1>1
<1> QED
  BY <1>2, BuildInit, BuildStep, PTL DEF Spec, StatusFinal

-------------------------------------------------------------------------------
(* Types, whatever fails. *)

BlockTyped(b, head) == WellFormed(b) /\ b.end \in Nat /\ b.end =< head
OpTyped(o, head) == (\E t \in HiveTx : o = TxOp(t)) \/ (o.kind = "block" /\ BlockTyped(o.block, head))

HiveTyped ==
  /\ \A h \in 1..HiveHead : Len(hive[h]) =< OpsPerBlock /\ \A i \in 1..Len(hive[h]) : OpTyped(hive[h][i], HiveHead)
  /\ \A m \in mempool : OpTyped(m.op, HiveHead)

PlaceTyped == \A n \in Node :
  handled[n] = NotTicked \/ (parsed[n] < HiveHead /\ handled[n] \in 0..Len(hive[parsed[n] + 1]))

DbTyped == \A n \in Node :
  /\ anchor[n] \in [Tx -> [height : 0..HiveHead, index : Nat]]
  /\ nonce[n] \in Nat /\ contract[n] \in Seq(Call)

ProposalsTyped == \A n \in Node : proposing[n] # NoProposal =>
  BlockTyped(proposing[n].block, HiveHead) /\ proposing[n].signers \subseteq Node

TypeInv == BlocksOK /\ HiveTyped /\ PlaceTyped /\ DbTyped /\ ProposalsTyped

LEMMA TypeInit == Init => TypeInv
<1> SUFFICES ASSUME Init PROVE TypeInv
  OBVIOUS
<1>1. BlocksOK
  BY BlocksInit
<1>2. hive = <<>> /\ HiveHead = 0 /\ mempool = {} /\ 1..0 = {}
  BY DEF Init, IndexInit, HiveHead
<1>3. HiveTyped
  BY <1>2 DEF HiveTyped
<1>4. PlaceTyped /\ ProposalsTyped
  BY DEF Init, IndexInit, PlaceTyped, ProposalsTyped
<1>5. DbTyped
  <2>1. Nowhere \in [height : 0..HiveHead, index : Nat] /\ <<>> \in Seq(Call)
    BY <1>2 DEF Nowhere
  <2> QED
    BY <2>1 DEF Init, IndexInit, DbTyped
<1> QED
  BY <1>1, <1>3, <1>4, <1>5 DEF TypeInv

\* The operation a node handles.
LEMMA OpIsTyped ==
  ASSUME TypeInv, NEW n \in Node, Handling(n)
  PROVE  /\ OpTyped(OpAt(n), HiveHead) /\ handled[n] \in Nat /\ parsed[n] \in Nat /\ parsed[n] < HiveHead
         /\ HiveHead \in Nat /\ Len(hive[parsed[n] + 1]) \in Nat /\ handled[n] < Len(hive[parsed[n] + 1])
<1>1. BlocksOK /\ HiveHead \in Nat
  BY HeadType DEF TypeInv
<1>2. handled[n] \in Nat /\ parsed[n] \in Nat /\ parsed[n] < HiveHead
  BY <1>1, AtOperation DEF BlocksOK, PlaceOK
<1>3. parsed[n] + 1 \in 1..HiveHead
  BY <1>1, <1>2
<1>4. Len(hive[parsed[n] + 1]) \in Nat
  BY <1>1, <1>3 DEF BlocksOK, HiveOK
<1>5. handled[n] < Len(hive[parsed[n] + 1])
  BY <1>2, <1>4 DEF Handling
<1>6. handled[n] + 1 \in 1..Len(hive[parsed[n] + 1])
  BY <1>2, <1>4, <1>5
<1> QED
  BY <1>1, <1>2, <1>3, <1>4, <1>5, <1>6 DEF TypeInv, HiveTyped, OpAt

\* The block a node indexes, and the entry it is at.
LEMMA AtHandTyped ==
  ASSUME TypeInv, NEW n \in Node, indexing[n] # 0
  PROVE  /\ BlockTyped(OpAt(n).block, HiveHead) /\ indexing[n] \in Nat /\ Handling(n)
         /\ \A k \in DOMAIN Entries(n) : k \in 1..Len(Entries(n)) /\ Entries(n)[k] \in Entry
<1>1. Handling(n) /\ OpAt(n).kind = "block" /\ indexing[n] \in Nat
  BY DEF TypeInv, BlocksOK, PlaceOK
<1>2. BlockTyped(OpAt(n).block, HiveHead)
  <2>1. OpTyped(OpAt(n), HiveHead)
    BY <1>1, OpIsTyped
  <2> QED
    BY <1>1, <2>1 DEF OpTyped, TxOp
<1>3. Entries(n) \in Seq(Entry)
  BY <1>2 DEF BlockTyped, WellFormed, Entries
<1> QED
  BY <1>1, <1>2, <1>3

\* The operations stay typed on a longer chain.
LEMMA HiveTypes ==
  ASSUME TypeInv, HiveBlock
  PROVE  HiveTyped' /\ PlaceTyped' /\ DbTyped' /\ ProposalsTyped'
<1>1. PICK S \in SUBSET Candidates : \E ops :
           /\ hive' = Append(hive, ops) /\ mempool' \subseteq mempool
           /\ Len(ops) \in Nat /\ Len(ops) =< OpsPerBlock /\ DOMAIN ops = 1..Len(ops)
           /\ \A i \in 1..Len(ops) : ops[i] \in S
           /\ \A i, j \in 1..Len(ops) : ops[i] = ops[j] => i = j
  BY HiveTakes DEF TypeInv
<1>2. PICK ops :
           /\ hive' = Append(hive, ops) /\ mempool' \subseteq mempool
           /\ Len(ops) \in Nat /\ Len(ops) =< OpsPerBlock /\ \A i \in 1..Len(ops) : ops[i] \in S
  BY <1>1
<1>3. PICK N : N = HiveHead
  OBVIOUS
<1>4. /\ N \in Nat /\ HiveHead' = N + 1 /\ Len(hive) = N
      /\ \A h \in 1..N : hive'[h] = hive[h]
      /\ \A h \in 1..N : Len(hive[h]) \in Nat
  BY <1>3, HiveGrows DEF HiveHead, BlocksOK, HiveOK, TypeInv
<1>5. hive'[N + 1] = ops
  <2>1. PICK T : hive \in Seq(T)
    BY DEF BlocksOK, HiveOK, TypeInv
  <2> QED
    BY <1>2, <1>4, <2>1
<1>6. \A b : BlockTyped(b, N) => BlockTyped(b, N + 1)
  <2> SUFFICES ASSUME NEW b, b.end \in Nat, b.end =< N PROVE b.end =< N + 1
    BY DEF BlockTyped
  <2> QED
    BY <1>4
<1>7. \A o : OpTyped(o, N) => OpTyped(o, N + 1)
  BY <1>6 DEF OpTyped
<1>8. \A i \in 1..Len(ops) : OpTyped(ops[i], N + 1)
  <2> SUFFICES ASSUME NEW i \in 1..Len(ops) PROVE OpTyped(ops[i], N)
    BY <1>7
  <2>1. ops[i] \in Candidates
    BY <1>2
  <2> QED
    BY <1>3, <2>1 DEF Candidates, OpTyped, HiveTyped, TypeInv
<1>9. HiveTyped'
  <2>1. ASSUME NEW h \in 1..(N + 1)
        PROVE  Len(hive'[h]) =< OpsPerBlock /\ \A i \in 1..Len(hive'[h]) : OpTyped(hive'[h][i], N + 1)
    <3>1. CASE h \in 1..N
      BY <1>3, <1>4, <1>7, <3>1 DEF TypeInv, HiveTyped
    <3>2. CASE h = N + 1
      BY <1>2, <1>5, <1>8, <3>2
    <3> QED
      BY <1>4, <3>1, <3>2
  <2> QED
    BY <1>2, <1>3, <1>4, <1>7, <2>1 DEF TypeInv, HiveTyped
<1>10. /\ parsed' = parsed /\ handled' = handled /\ anchor' = anchor /\ nonce' = nonce
       /\ contract' = contract /\ proposing' = proposing
  BY DEF HiveBlock, dbVars
<1>11. PlaceTyped'
  <2> SUFFICES ASSUME NEW n \in Node, handled[n] # NotTicked
               PROVE  parsed[n] < HiveHead' /\ handled[n] \in 0..Len(hive'[parsed[n] + 1])
    BY <1>10 DEF PlaceTyped
  <2>1. parsed[n] \in Nat /\ parsed[n] < N /\ handled[n] \in 0..Len(hive[parsed[n] + 1])
    BY <1>3 DEF TypeInv, PlaceTyped, BlocksOK, PlaceOK
  <2>2. parsed[n] + 1 \in 1..N
    BY <1>4, <2>1
  <2> QED
    BY <1>4, <2>1, <2>2
<1>12. DbTyped'
  <2>1. 0..HiveHead \subseteq 0..HiveHead'
    BY <1>3, <1>4
  <2>2. [height : 0..HiveHead, index : Nat] \subseteq [height : 0..HiveHead', index : Nat]
    BY <2>1
  <2>3. [Tx -> [height : 0..HiveHead, index : Nat]] \subseteq [Tx -> [height : 0..HiveHead', index : Nat]]
    BY <2>2
  <2> QED
    BY <1>10, <2>3 DEF TypeInv, DbTyped
<1>13. ProposalsTyped'
  BY <1>3, <1>4, <1>6, <1>10 DEF TypeInv, ProposalsTyped
<1> QED
  BY <1>9, <1>11, <1>12, <1>13

\* Where the steps leave nodes.
LEMMA PlaceTypes ==
  ASSUME TypeInv, BlocksOK', hive' = hive, NEW n \in Node,
         \/ IndexStep(n) \/ Tick(n) \/ EndProposal(n) \/ Crash(n)
  PROVE  PlaceTyped'
<1>1. BlocksOK /\ HiveHead' = HiveHead /\ parsed' \in [Node -> Nat] /\ handled \in [Node -> Int]
      /\ parsed \in [Node -> Nat] /\ HiveHead \in Nat
  BY HeadType DEF TypeInv, HiveHead, BlocksOK, PlaceOK
<1>2. ASSUME NEW m \in Node, parsed'[m] = parsed[m], handled'[m] = handled[m]
      PROVE  handled'[m] = NotTicked \/ (parsed'[m] < HiveHead /\ handled'[m] \in 0..Len(hive[parsed'[m] + 1]))
  BY <1>2 DEF TypeInv, PlaceTyped
<1>3. ASSUME NEW m \in Node \ {n} PROVE parsed'[m] = parsed[m] /\ handled'[m] = handled[m]
  BY <1>1 DEF IndexStep, ParseTx, RejectBlock, IndexHeader, IndexInput, IndexOutput, IndexEvents,
     IndexAnchorRef, IndexNonces, FetchFails, FinishBlock, Tick, EndProposal, Crash, Restart
<1>4. handled'[n] = NotTicked \/ (parsed'[n] < HiveHead /\ handled'[n] \in 0..Len(hive[parsed'[n] + 1]))
  <2>1. CASE IndexHeader(n) \/ IndexInput(n) \/ IndexOutput(n) \/ IndexEvents(n) \/ IndexAnchorRef(n)
    <3>1. parsed'[n] = parsed[n] /\ handled'[n] = handled[n]
      BY <2>1 DEF IndexHeader, IndexInput, IndexOutput, IndexEvents, IndexAnchorRef
    <3> QED
      BY <1>2, <3>1
  <2>2. CASE ParseTx(n) \/ RejectBlock(n) \/ IndexNonces(n) \/ FetchFails(n)
    <3>1. Handling(n)
      BY <1>1, <2>2 DEF ParseTx, RejectBlock, IndexNonces, FetchFails, BlocksOK, PlaceOK
    <3>2. parsed'[n] = parsed[n] /\ handled'[n] = handled[n] + 1
      BY <1>1, <2>2 DEF ParseTx, RejectBlock, IndexNonces, FetchFails
    <3>3. /\ handled[n] \in Nat /\ parsed[n] < HiveHead
          /\ Len(hive[parsed[n] + 1]) \in Nat /\ handled[n] < Len(hive[parsed[n] + 1])
      BY <3>1, OpIsTyped
    <3>4. handled[n] + 1 \in 0..Len(hive[parsed[n] + 1])
      BY <3>3
    <3> QED
      BY <3>2, <3>3, <3>4
  <2>3. CASE FinishBlock(n) \/ Crash(n)
    BY <1>1, <2>3 DEF FinishBlock, Crash, Restart
  <2>4. CASE Tick(n) \/ EndProposal(n)
    <3>1. handled'[n] = 0 /\ parsed' = parsed
      BY <1>1, <2>4 DEF Tick, EndProposal
    <3>2. parsed[n] < HiveHead
      BY <1>1, <2>4 DEF Tick, AtTick, EndProposal, BlocksOK, ProposingOK
    <3>3. parsed[n] + 1 \in 1..HiveHead
      BY <1>1, <3>2
    <3>4. Len(hive[parsed[n] + 1]) \in Nat
      BY <1>1, <3>3 DEF BlocksOK, HiveOK
    <3> QED
      BY <3>1, <3>2, <3>4
  <2> QED
    BY <2>1, <2>2, <2>3, <2>4 DEF IndexStep
<1> QED
  BY <1>1, <1>2, <1>3, <1>4 DEF PlaceTyped

\* The nonce after a block is a number.
LEMMA NextNonceType ==
  ASSUME NEW n, nonce[n] \in Nat, NEW b, WellFormed(b)
  PROVE  NextNonce(n, b) \in Nat
<1>1. PICK in : in = Inputs(b)
  OBVIOUS
<1>2. NextNonce(n, b) = IF in = <<>> THEN nonce[n] ELSE NonceOf[in[Len(in)].txs[1]] + 1
  BY <1>1 DEF NextNonce
<1>3. CASE in = <<>>
  BY <1>2, <1>3
<1>4. CASE in # <<>>
  <2>1. in \in Seq(Entry) /\ \E f \in [1..Len(in) -> InputsOf(b)] :
          Increasing(f) /\ \A m \in 1..Len(in) : in[m] = b.txs[f[m]]
    BY <1>1, InputsAre
  <2>2. PICK f \in [1..Len(in) -> InputsOf(b)] : \A m \in 1..Len(in) : in[m] = b.txs[f[m]]
    BY <2>1
  <2>3. Len(in) \in 1..Len(in)
    BY <1>4, <2>1
  <2>4. f[Len(in)] \in InputsOf(b) /\ in[Len(in)] = b.txs[f[Len(in)]]
    BY <2>2, <2>3
  <2>5. NonceAt(b, f[Len(in)]) \in Nat
    BY <2>4, NonceType
  <2>6. NextNonce(n, b) = NonceAt(b, f[Len(in)]) + 1
    BY <1>2, <1>4, <2>4 DEF NonceAt
  <2> QED
    BY <2>5, <2>6
<1> QED
  BY <1>3, <1>4

\* What indexing writes.
LEMMA DbTypes ==
  ASSUME TypeInv, BlocksOK', hive' = hive, NEW n \in Node,
         \/ IndexStep(n) \/ Tick(n) \/ EndProposal(n) \/ Crash(n)
  PROVE  DbTyped'
<1>1. /\ HiveHead' = HiveHead /\ HiveHead \in Nat /\ BlocksOK
      /\ headers = [m \in Node |-> headers[m]]
      /\ anchor = [m \in Node |-> [t \in Tx |-> anchor[m][t]]]
      /\ nonce = [m \in Node |-> nonce[m]] /\ contract = [m \in Node |-> contract[m]]
  BY HeadType DEF TypeInv, HiveHead, BlocksOK, DbOK
<1>2. \A m \in Node : /\ anchor[m] \in [Tx -> [height : 0..HiveHead, index : Nat]]
                      /\ nonce[m] \in Nat /\ contract[m] \in Seq(Call)
  BY DEF TypeInv, DbTyped
<1>3. ASSUME NEW t, NEW h \in 0..HiveHead, NEW i \in Nat,
             anchor' = [anchor EXCEPT ![n][t] = [height |-> h, index |-> i]]
      PROVE  \A m \in Node : anchor'[m] \in [Tx -> [height : 0..HiveHead, index : Nat]]
  <2>1. [height |-> h, index |-> i] \in [height : 0..HiveHead, index : Nat]
    OBVIOUS
  <2>2. anchor'[n] = [anchor[n] EXCEPT ![t] = [height |-> h, index |-> i]]
        /\ \A m \in Node \ {n} : anchor'[m] = anchor[m]
    BY <1>1, <1>3
  <2> QED
    BY <1>2, <2>1, <2>2
<1>4. CASE ParseTx(n)
  <2>1. parsed[n] \in Nat /\ parsed[n] < HiveHead /\ handled[n] \in Nat
    BY <1>4, OpIsTyped DEF ParseTx
  <2>2. parsed[n] + 1 \in 0..HiveHead
    BY <1>1, <2>1
  <2>3. \A m \in Node : anchor'[m] \in [Tx -> [height : 0..HiveHead, index : Nat]]
    BY <1>3, <1>4, <2>1, <2>2 DEF ParseTx
  <2> QED
    BY <1>1, <1>2, <1>4, <2>3 DEF ParseTx, DbTyped
<1>5. CASE IndexInput(n)
  <2>1. BlockTyped(OpAt(n).block, HiveHead) /\ indexing[n] \in Nat /\ indexing[n] # 0
    BY <1>5, AtHandTyped DEF IndexInput, AtEntry
  <2>2. OpAt(n).block.end \in 0..HiveHead /\ indexing[n] - 1 \in Nat
    BY <1>1, <2>1 DEF BlockTyped
  <2>3. \A m \in Node : anchor'[m] \in [Tx -> [height : 0..HiveHead, index : Nat]]
    BY <1>3, <1>5, <2>2 DEF IndexInput
  <2> QED
    BY <1>1, <1>2, <1>5, <2>3 DEF IndexInput, DbTyped
<1>6. CASE IndexOutput(n)
  <2>1. Entries(n)[indexing[n]] \in Entry
    BY <1>6, AtHandTyped DEF IndexOutput, AtEntry
  <2>2. Entries(n)[indexing[n]].state \in Seq(Call)
    BY <2>1 DEF Entry
  <2> QED
    BY <1>1, <1>2, <1>6, <2>2 DEF IndexOutput, DbTyped
<1>7. CASE IndexNonces(n)
  <2>1. WellFormed(OpAt(n).block)
    BY <1>7, AtHandTyped DEF IndexNonces, BlockTyped
  <2>2. NextNonce(n, OpAt(n).block) \in Nat
    BY <1>2, <2>1, NextNonceType
  <2> QED
    BY <1>1, <1>2, <1>7, <2>2 DEF IndexNonces, DbTyped
<1>8. CASE UNCHANGED <<anchor, nonce, contract>>
  BY <1>1, <1>2, <1>8 DEF DbTyped
<1> QED
  BY <1>4, <1>5, <1>6, <1>7, <1>8 DEF IndexStep, RejectBlock, IndexHeader, IndexEvents,
     IndexAnchorRef, FetchFails, FinishBlock, Tick, EndProposal, Crash, Restart, dbVars

\* What is on the way to Hive.
LEMMA SentTypes ==
  ASSUME TypeInv, BlocksOK', hive' = hive, NEW n \in Node, blockVars' = blockVars
         \/ Tick(n) \/ EndProposal(n) \/ Crash(n) \/ Propose(n) \/ \E m \in Node : Sign(m, n)
  PROVE  HiveTyped' /\ ProposalsTyped'
<1>1. /\ HiveHead' = HiveHead /\ HiveHead \in Nat /\ BlocksOK
      /\ proposing = [m \in Node |-> proposing[m]]
  BY HeadType DEF TypeInv, HiveHead, BlocksOK, ProposingOK
<1>2. ASSUME NEW m \in Node, proposing[m] # NoProposal
      PROVE  BlockTyped(proposing[m].block, HiveHead) /\ proposing[m].signers \subseteq Node
  BY <1>2 DEF TypeInv, ProposalsTyped
<1>3. HiveTyped'
  <2>1. ASSUME NEW o, mempool' \subseteq mempool \cup {o}, OpTyped(o.op, HiveHead) PROVE HiveTyped'
    BY <1>1, <2>1 DEF TypeInv, HiveTyped
  <2>2. CASE mempool' = mempool
    BY <1>1, <2>2 DEF TypeInv, HiveTyped
  <2>3. CASE EndProposal(n)
    <3>1. PICK p, o : p = proposing[n] /\ o = [op |-> BlockOp(n, p.block, p.signers), until |-> HiveHead + Expiry]
      OBVIOUS
    <3>2. mempool' \subseteq mempool \cup {o}
      BY <2>3, <3>1 DEF EndProposal
    <3>3. OpTyped(o.op, HiveHead)
      <4>1. BlockTyped(p.block, HiveHead)
        BY <1>2, <2>3, <3>1 DEF EndProposal
      <4>2. o.op.kind = "block" /\ o.op.block = p.block
        BY <3>1 DEF BlockOp
      <4> QED
        BY <4>1, <4>2 DEF OpTyped
    <3> QED
      BY <2>1, <3>2, <3>3
  <2> QED
    BY <2>2, <2>3 DEF blockVars, Tick, Crash, Propose, Sign
<1>4. ProposalsTyped'
  <2>1. CASE \A m \in Node : proposing'[m] = proposing[m] \/ proposing'[m] = NoProposal
    BY <1>1, <1>2, <2>1 DEF ProposalsTyped
  <2>2. CASE Propose(n)
    <3>1. PICK h : h = parsed[n] + 1
      OBVIOUS
    <3>2. PICK b \in OfferedBlocks(n, h) :
            proposing' = [proposing EXCEPT ![n] = [slot |-> h, block |-> b, at |-> HiveHead, signers |-> {n}]]
      BY <2>2, <3>1 DEF Propose
    <3>3. PICK offered \in PoolOrders(n) : b \in Blocks(n, h, offered)
      BY <3>2 DEF OfferedBlocks
    <3>4. nonce[n] \in Nat /\ contract[n] \in Seq(Call)
      BY DEF TypeInv, DbTyped
    <3>5. b.end = h /\ WellFormed(b)
      BY <1>1, <3>3, <3>4, BuildIs
    <3>6. h \in Nat /\ h =< HiveHead
      <4>1. parsed[n] < HiveHead
        BY <2>2 DEF Propose, AtTick
      <4>2. parsed[n] \in Nat
        BY <1>1 DEF BlocksOK, PlaceOK
      <4> QED
        BY <1>1, <3>1, <4>1, <4>2
    <3>7. BlockTyped(b, HiveHead)
      BY <3>5, <3>6 DEF BlockTyped
    <3>8. PICK p : p = [slot |-> h, block |-> b, at |-> HiveHead, signers |-> {n}]
      OBVIOUS
    <3>9. p.block = b /\ p.signers = {n}
      BY <3>8
    <3>10. \A m \in Node : proposing'[m] = IF m = n THEN p ELSE proposing[m]
      BY <1>1, <3>2, <3>8
    <3> QED
      BY <1>1, <1>2, <3>7, <3>9, <3>10 DEF ProposalsTyped
  <2>3. ASSUME NEW m \in Node, Sign(m, n) PROVE ProposalsTyped'
    <3>1. \A k \in Node : proposing'[k] = IF k = n THEN [proposing[n] EXCEPT !.signers = @ \cup {m}]
                                          ELSE proposing[k]
      BY <1>1, <2>3 DEF Sign
    <3>2. PICK p, q : p = proposing[n] /\ q = [p EXCEPT !.signers = @ \cup {m}]
      OBVIOUS
    <3>3. p # NoProposal /\ BlockTyped(p.block, HiveHead) /\ p.signers \subseteq Node
      BY <1>2, <2>3, <3>2 DEF Sign
    <3>4. q.block = p.block /\ q.signers \subseteq Node
      BY <3>2, <3>3
    <3>5. \A k \in Node : proposing'[k] = IF k = n THEN q ELSE proposing[k]
      BY <3>1, <3>2
    <3> QED
      BY <1>1, <1>2, <3>3, <3>4, <3>5 DEF ProposalsTyped
  <2>4. CASE EndProposal(n) \/ Crash(n)
    <3>1. \A m \in Node : proposing'[m] = proposing[m] \/ proposing'[m] = NoProposal
      BY <1>1, <2>4 DEF EndProposal, Crash
    <3> QED
      BY <2>1, <3>1
  <2>5. CASE proposing' = proposing
    BY <2>1, <2>5
  <2> QED
    BY <2>2, <2>3, <2>4, <2>5 DEF blockVars, Tick
<1> QED
  BY <1>3, <1>4

\* Every step keeps the types.
LEMMA TypeStep == TypeInv /\ [Next]_vars => TypeInv'
<1> SUFFICES ASSUME TypeInv, [Next]_vars PROVE TypeInv'
  OBVIOUS
<1>1. BlocksOK /\ BlocksOK'
  BY BlocksStep DEF TypeInv
<1>2. CASE HiveBlock
  BY <1>1, <1>2, HiveTypes DEF TypeInv
<1>3. ASSUME hive' = hive, parsed' = parsed, handled' = handled, anchor' = anchor, nonce' = nonce, contract' = contract
      PROVE  PlaceTyped' /\ DbTyped'
  BY <1>3 DEF TypeInv, PlaceTyped, DbTyped, HiveHead
<1>4. ASSUME hive' = hive, blockVars' = blockVars PROVE HiveTyped' /\ ProposalsTyped'
  BY <1>4 DEF TypeInv, HiveTyped, ProposalsTyped, blockVars, HiveHead
<1>5. ASSUME NEW n \in Node, NEW t \in Tx, Announce(n, t), UNCHANGED blockVars PROVE TypeInv'
  BY <1>1, <1>3, <1>4, <1>5 DEF Announce, TypeInv
<1>6. ASSUME NEW n \in Node, (IndexStep(n) /\ UNCHANGED blockVars) \/ Tick(n) \/ EndProposal(n) \/ Crash(n)
      PROVE  TypeInv'
  <2>1. hive' = hive
    BY <1>6 DEF IndexStep, ParseTx, RejectBlock, IndexHeader, IndexInput, IndexOutput, IndexEvents,
       IndexAnchorRef, IndexNonces, FetchFails, FinishBlock, Tick, EndProposal, Crash, Restart
  <2>2. PlaceTyped' /\ DbTyped'
    BY <1>1, <1>6, <2>1, PlaceTypes, DbTypes
  <2>3. HiveTyped' /\ ProposalsTyped'
    BY <1>1, <1>6, <2>1, SentTypes
  <2> QED
    BY <1>1, <2>2, <2>3 DEF TypeInv
<1>7. ASSUME NEW n \in Node, Propose(n) \/ \E m \in Node : Sign(m, n) PROVE TypeInv'
  <2>1. UNCHANGED indexVars
    BY <1>7 DEF Propose, Sign
  <2>2. HiveTyped' /\ ProposalsTyped'
    BY <1>1, <1>7, <2>1, SentTypes DEF indexVars
  <2> QED
    BY <1>1, <1>3, <2>1, <2>2 DEF indexVars, TypeInv
<1>8. CASE UNCHANGED vars
  <2>1. UNCHANGED indexVars /\ UNCHANGED blockVars
    BY <1>8 DEF vars, blockVars
  <2> QED
    BY <1>1, <1>3, <1>4, <2>1 DEF indexVars, TypeInv
<1> QED
  BY <1>2, <1>5, <1>6, <1>7, <1>8 DEF Next

\* The databases, the chain and what is proposed are of their types, through
\* crashes and fetches that fail; while a proposal is awaited its node handles
\* nothing.
THEOREM BlocksAreTyped == Spec => []BlockTypeOK
<1>1. TypeInv => BlockTypeOK
  <2> SUFFICES ASSUME TypeInv PROVE BlockTypeOK
    OBVIOUS
  <2>1. BlocksOK /\ HiveHead \in Nat /\ OpsPerBlock \in Nat
    BY HeadType, Assumed DEF TypeInv
  <2>2. ASSUME NEW n \in Node
        PROVE  /\ parsed[n] \in 0..HiveHead /\ saved[n] \in 0..parsed[n]
               /\ handled[n] \in NotTicked..OpsPerBlock /\ indexing[n] \in Nat
               /\ status[n] \in [Tx -> Status]
               /\ (proposing[n] # NoProposal => handled[n] = NotTicked /\ proposing[n].signers \subseteq Node)
    <3>1. parsed[n] \in Nat /\ parsed[n] =< HiveHead /\ saved[n] \in Nat /\ saved[n] =< parsed[n]
          /\ handled[n] \in Int /\ indexing[n] \in Nat
      BY <2>1 DEF BlocksOK, PlaceOK
    <3>2. handled[n] \in NotTicked..OpsPerBlock
      <4>1. CASE handled[n] = NotTicked
        BY <2>1, <4>1 DEF NotTicked
      <4>2. CASE parsed[n] < HiveHead /\ handled[n] \in 0..Len(hive[parsed[n] + 1])
        <5>1. parsed[n] + 1 \in 1..HiveHead
          BY <2>1, <3>1, <4>2
        <5>2. Len(hive[parsed[n] + 1]) =< OpsPerBlock /\ Len(hive[parsed[n] + 1]) \in Nat
          BY <2>1, <5>1 DEF TypeInv, HiveTyped, BlocksOK, HiveOK
        <5> QED
          BY <2>1, <4>2, <5>2 DEF NotTicked
      <4> QED
        BY <4>1, <4>2 DEF TypeInv, PlaceTyped
    <3>3. status[n] \in [Tx -> Status]
      BY <2>1 DEF BlocksOK, DbOK
    <3>4. proposing[n] # NoProposal => handled[n] = NotTicked /\ proposing[n].signers \subseteq Node
      BY <2>1 DEF BlocksOK, ProposingOK, TypeInv, ProposalsTyped
    <3> QED
      BY <2>1, <3>1, <3>2, <3>3, <3>4
  <2>3. ASSUME NEW n \in Node
        PROVE  /\ anchor[n] \in [Tx -> [height : 0..HiveHead, index : Nat]]
               /\ nonce[n] \in Nat /\ contract[n] \in Seq(Call)
    BY DEF TypeInv, DbTyped
  <2>4. \A h \in 1..HiveHead : Len(hive[h]) =< OpsPerBlock
    BY DEF TypeInv, HiveTyped
  <2> QED
    BY <2>2, <2>3, <2>4 DEF BlockTypeOK
<1> QED
  BY <1>1, TypeInit, TypeStep, PTL DEF Spec
===============================================================================
