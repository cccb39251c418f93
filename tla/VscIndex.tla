------------------------------- MODULE VscIndex -------------------------------
(***************************************************************************)
(* What a node makes of the Hive chain: TransactionPoolV2.blockParser      *)
(* records the transactions users put on Hive, and the vsc.propose_block   *)
(* branch of chainBridgeV2.ts indexes the VSC blocks witnesses put there,  *)
(* entry by entry, in its own database.                                    *)
(*                                                                         *)
(* Every node parses the blocks one after the other and can be sent back   *)
(* to its last checkpoint by a crash: the feed of BlockFeed, which         *)
(* StreamParser implements.  VscBlock adds the witnesses' side.            *)
(***************************************************************************)
EXTENDS Integers, Sequences, FiniteSets

CONSTANTS
  Node,         \* the members of the elected witness set
  Tx,           \* VSC transactions
  HiveTx,       \* those sent as Hive operations; the others are off-chain
  Call,         \* those that call the contract; the others are transfers
  Invalid,      \* transfers that exceed their sender's balance
  NonceOf,      \* headers.nonce of off-chain transactions, all of one key
  Weight,       \* a member's weight in the election
  Schedule,     \* the witness of each slot
  RoundLength,  \* networks.ts roundLength, 10 in the code
  MaxHead,      \* bound: Hive stops growing at this height
  MaxCrashes,   \* bound on crashes
  MaxFetchErrors \* bound on failing IPFS fetches

ASSUME IndexAssumption ==
  /\ IsFiniteSet(Node) /\ IsFiniteSet(Tx)
  /\ HiveTx \subseteq Tx /\ Call \subseteq Tx /\ Invalid \subseteq Tx \ Call
  /\ NonceOf \in [Tx \ HiveTx -> Nat]
  /\ Weight \in [Node -> Nat \ {0}]
  /\ RoundLength \in Nat \ {0} /\ MaxHead \in Nat
  /\ Schedule \in [0..MaxHead -> Node]
  /\ MaxCrashes \in Nat /\ MaxFetchErrors \in Nat

VARIABLES
  hive,         \* the Hive chain: hive[h] holds the operations of block h
  parsed,       \* StreamParser.lastParsed
  handled,      \* operations handled of block parsed + 1, NotTicked at its start
  indexing,     \* the entry indexed next of the VSC block at hand, 0 if none
  saved,        \* last_hb_processed, where a restart goes on from
  headers,      \* block_headers
  status,       \* transaction_pool: status
  anchor,       \* transaction_pool: anchored_height and anchored_index
  nonce,        \* nonce_map
  contract,     \* the contract's state: the calls executed to reach it
  crashes, fetchErrors

indexVars == <<hive, parsed, handled, indexing, saved, headers, status, anchor,
               nonce, contract, crashes, fetchErrors>>
dbVars == <<headers, status, anchor, nonce, contract>>

NotTicked == -1
Status == {"NONE", "UNCONFIRMED", "INCLUDED", "CONFIRMED", "FAILED"}
Nowhere == [height |-> 0, index |-> 0]

\* A block is a record of start, end and txs, the sequence of its entries: each
\* of a type (input, output, events or anchor_ref), with its transactions and,
\* for an output, the contract's state after them.
TxOp(t) == [kind |-> "tx", tx |-> t]
BlockOp(n, b, S) == [kind |-> "block", from |-> n, block |-> b, signers |-> S]

\* The network has been running: every node has indexed the block of slot 0.
FirstHeader == [slot |-> 0, block |-> [start |-> 0, end |-> 0, txs |-> <<>>], signers |-> Node]

HiveHead == Len(hive)
SlotOf(h) == h - (h % RoundLength)
Elems(s) == {s[i] : i \in DOMAIN s}

\* The elements of s that are in S, in the order of s.
Those(s, S) ==
  LET those[i \in 0..Len(s)] ==
        IF i = 0 THEN <<>>
        ELSE IF s[i] \in S THEN Append(those[i - 1], s[i]) ELSE those[i - 1]
  IN those[Len(s)]

-------------------------------------------------------------------------------
\* The sum of the weights of the members in S.
WeightOf(S) ==
  LET sum[T \in SUBSET Node] ==
        IF T = {} THEN 0
        ELSE LET n == CHOOSE m \in T : TRUE IN Weight[n] + sum[T \ {n}]
  IN sum[S]

\* The operation node n is handling, in the block it is parsing.
OpAt(n) == hive[parsed[n] + 1][handled[n] + 1]
Handling(n) == parsed[n] < HiveHead /\ handled[n] \in 0..(Len(hive[parsed[n] + 1]) - 1)

IndexInit ==
  /\ hive = <<>>
  /\ parsed = [n \in Node |-> 0]
  /\ handled = [n \in Node |-> NotTicked]
  /\ indexing = [n \in Node |-> 0]
  /\ saved = [n \in Node |-> 0]
  /\ headers = [n \in Node |-> {FirstHeader}]
  /\ status = [n \in Node |-> [t \in Tx |-> "NONE"]]
  /\ anchor = [n \in Node |-> [t \in Tx |-> Nowhere]]
  /\ nonce = [n \in Node |-> 0]
  /\ contract = [n \in Node |-> <<>>]
  /\ crashes = 0 /\ fetchErrors = 0

-------------------------------------------------------------------------------
(* Transactions. *)

\* onTxAnnounce: a transaction sent over p2p enters the pool unless its nonce
\* has been used.
Announce(n, t) ==
  /\ t \notin HiveTx
  /\ status[n][t] = "NONE"
  /\ NonceOf[t] >= nonce[n]
  /\ status' = [status EXCEPT ![n][t] = "UNCONFIRMED"]
  /\ UNCHANGED <<hive, parsed, handled, indexing, saved, headers, anchor, nonce,
                 contract, crashes, fetchErrors>>

\* TransactionPoolV2.blockParser upserts a vsc.tx operation as included,
\* whatever the record said before.
ParseTx(n) ==
  LET t == OpAt(n).tx IN
  /\ Handling(n) /\ indexing[n] = 0
  /\ OpAt(n).kind = "tx"
  /\ status' = [status EXCEPT ![n][t] = "INCLUDED"]
  /\ anchor' = [anchor EXCEPT ![n][t] =
                  [height |-> parsed[n] + 1, index |-> handled[n]]]
  /\ handled' = [handled EXCEPT ![n] = @ + 1]
  /\ UNCHANGED <<hive, parsed, indexing, saved, headers, nonce, contract,
                 crashes, fetchErrors>>

-------------------------------------------------------------------------------
(* Blocks. *)

\* The id of a header is the hash of the block; the signature is taken off before.
SameId(x, op) == x.block = op.block
HeaderAt(slot, op) == [slot |-> slot, block |-> op.block, signers |-> op.signers]

\* Mutant: the slot is taken from the head of Hive, not from the block parsed.
AcceptsAtHead(known, h, op) ==
  /\ Schedule[SlotOf(HiveHead)] = op.from
  /\ 3 * WeightOf(op.signers) >= 2 * WeightOf(Node)
  /\ \A x \in known : x.slot # SlotOf(HiveHead) /\ ~SameId(x, op)

\* The tests a vsc.propose_block operation in Hive block h must pass,
\* at a node that knows the given headers.
Accepts(known, h, op) ==
  /\ Schedule[SlotOf(h)] = op.from
  /\ 3 * WeightOf(op.signers) >= 2 * WeightOf(Node)
  /\ \A x \in known : x.slot # SlotOf(h) /\ ~SameId(x, op)

RejectBlock(n) ==
  /\ Handling(n) /\ indexing[n] = 0
  /\ OpAt(n).kind = "block"
  /\ ~Accepts(headers[n], parsed[n] + 1, OpAt(n))
  /\ handled' = [handled EXCEPT ![n] = @ + 1]
  /\ UNCHANGED <<hive, parsed, indexing, saved, dbVars, crashes, fetchErrors>>

\* Node n is about to index an entry of the given type.
Entries(n) == OpAt(n).block.txs
AtEntry(n, type) ==
  /\ indexing[n] # 0 /\ indexing[n] \in DOMAIN Entries(n)
  /\ Entries(n)[indexing[n]].type = type

\* Mutant: the header is stored under the slot of the head of Hive.
IndexHeaderAtHead(n) ==
  /\ Handling(n) /\ indexing[n] = 0
  /\ OpAt(n).kind = "block"
  /\ Accepts(headers[n], parsed[n] + 1, OpAt(n))
  /\ headers' = [headers EXCEPT ![n] =
                   @ \cup {HeaderAt(SlotOf(HiveHead), OpAt(n))}]
  /\ indexing' = [indexing EXCEPT ![n] = 1]
  /\ UNCHANGED <<hive, parsed, handled, saved, status, anchor, nonce, contract,
                 crashes, fetchErrors>>

\* The header is written first, before any of the block's entries.
IndexHeader(n) ==
  LET h == parsed[n] + 1 IN
  /\ Handling(n) /\ indexing[n] = 0
  /\ OpAt(n).kind = "block"
  /\ Accepts(headers[n], h, OpAt(n))
  /\ headers' = [headers EXCEPT ![n] =
                   @ \cup {HeaderAt(SlotOf(h), OpAt(n))}]
  /\ indexing' = [indexing EXCEPT ![n] = 1]
  /\ UNCHANGED <<hive, parsed, handled, saved, status, anchor, nonce, contract,
                 crashes, fetchErrors>>

IndexInput(n) ==
  LET b == OpAt(n).block
      t == b.txs[indexing[n]].txs[1]
  IN
  /\ AtEntry(n, "input")
  /\ status' = [status EXCEPT ![n][t] = "INCLUDED"]
  /\ anchor' = [anchor EXCEPT ![n][t] = [height |-> b.end, index |-> indexing[n] - 1]]
  /\ indexing' = [indexing EXCEPT ![n] = @ + 1]
  /\ UNCHANGED <<hive, parsed, handled, saved, headers, nonce, contract, crashes,
                 fetchErrors>>

IndexOutput(n) ==
  LET e == Entries(n)[indexing[n]] IN
  /\ AtEntry(n, "output")
  /\ contract' = [contract EXCEPT ![n] = e.state]
  /\ status' = [status EXCEPT ![n] =
                  [t \in Tx |-> IF t \in Elems(e.txs) THEN "CONFIRMED" ELSE @[t]]]
  /\ indexing' = [indexing EXCEPT ![n] = @ + 1]
  /\ UNCHANGED <<hive, parsed, handled, saved, headers, anchor, nonce, crashes,
                 fetchErrors>>

\* Mutant: every transaction up to the end of the block's range.
InRangeEver(n, b, t) == status[n][t] # "NONE" /\ anchor[n][t].height =< b.end

\* Transactions included in the block's range: confirmed when they dispatched
\* events, failed otherwise.
InRange(n, b, t) ==
  status[n][t] = "INCLUDED" /\ anchor[n][t].height \in (b.start - 1)..b.end

IndexEvents(n) ==
  LET b == OpAt(n).block
      e == b.txs[indexing[n]]
  IN
  /\ AtEntry(n, "events")
  /\ status' = [status EXCEPT ![n] =
                  [t \in Tx |-> IF ~InRange(n, b, t) THEN @[t]
                                ELSE IF t \in Elems(e.txs) THEN "CONFIRMED"
                                ELSE "FAILED"]]
  /\ indexing' = [indexing EXCEPT ![n] = @ + 1]
  /\ UNCHANGED <<hive, parsed, handled, saved, headers, anchor, nonce, contract,
                 crashes, fetchErrors>>

\* An anchor_ref entry is fetched and nothing more.
IndexAnchorRef(n) ==
  /\ AtEntry(n, "anchor_ref")
  /\ indexing' = [indexing EXCEPT ![n] = @ + 1]
  /\ UNCHANGED <<hive, parsed, handled, saved, dbVars, crashes, fetchErrors>>

Inputs(b) == Those(b.txs, {e \in Elems(b.txs) : e.type = "input"})

\* Mutant: the nonce is stored as it is.
NextNonceUsed(n, b) ==
  LET in == Inputs(b) IN
  IF in = <<>> THEN nonce[n] ELSE NonceOf[in[Len(in)].txs[1]]

\* nonceMap holds the nonce of the block's last input.
NextNonce(n, b) ==
  LET in == Inputs(b) IN
  IF in = <<>> THEN nonce[n] ELSE NonceOf[in[Len(in)].txs[1]] + 1

\* The nonces are written last, when every entry has been indexed.
IndexNonces(n) ==
  /\ indexing[n] # 0 /\ indexing[n] \notin DOMAIN Entries(n)
  /\ nonce' = [nonce EXCEPT ![n] = NextNonce(n, OpAt(n).block)]
  /\ indexing' = [indexing EXCEPT ![n] = 0]
  /\ handled' = [handled EXCEPT ![n] = @ + 1]
  /\ UNCHANGED <<hive, parsed, saved, headers, status, anchor, contract, crashes,
                 fetchErrors>>

\* A fetch from IPFS throws: of block_full before the header is written or of
\* an entry after it.  The catch around the branch drops the rest of the block.
FetchFails(n) ==
  /\ fetchErrors < MaxFetchErrors
  /\ Handling(n) /\ OpAt(n).kind = "block"
  /\ \/ indexing[n] = 0 /\ Accepts(headers[n], parsed[n] + 1, OpAt(n))
     \/ indexing[n] \in DOMAIN Entries(n)
  /\ indexing' = [indexing EXCEPT ![n] = 0]
  /\ handled' = [handled EXCEPT ![n] = @ + 1]
  /\ fetchErrors' = fetchErrors + 1
  /\ UNCHANGED <<hive, parsed, saved, dbVars, crashes>>

-------------------------------------------------------------------------------
(* The feed. *)

\* The last parser of a block has run; the checkpoint may be written.
FinishBlock(n) ==
  /\ parsed[n] < HiveHead
  /\ handled[n] = Len(hive[parsed[n] + 1])
  /\ parsed' = [parsed EXCEPT ![n] = @ + 1]
  /\ handled' = [handled EXCEPT ![n] = NotTicked]
  /\ \E s \in {saved[n], parsed[n] + 1} : saved' = [saved EXCEPT ![n] = s]
  /\ UNCHANGED <<hive, indexing, dbVars, crashes, fetchErrors>>

\* The process stops wherever it is and starts again from its checkpoint.
Restart(n) ==
  /\ crashes < MaxCrashes
  /\ crashes' = crashes + 1
  /\ parsed' = [parsed EXCEPT ![n] = saved[n]]
  /\ handled' = [handled EXCEPT ![n] = NotTicked]
  /\ indexing' = [indexing EXCEPT ![n] = 0]
  /\ UNCHANGED <<hive, saved, dbVars, fetchErrors>>

\* One step of node n's indexing.
IndexStep(n) ==
  \/ ParseTx(n) \/ RejectBlock(n) \/ IndexHeader(n)
  \/ IndexInput(n) \/ IndexOutput(n) \/ IndexEvents(n) \/ IndexAnchorRef(n)
  \/ IndexNonces(n) \/ FetchFails(n) \/ FinishBlock(n)
===============================================================================
