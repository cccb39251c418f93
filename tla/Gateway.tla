-------------------------------- MODULE Gateway --------------------------------
(***************************************************************************)
(* The multisig account on Hive that holds the deposits: batches of        *)
(* withdrawals of witness/balanceKeeper.ts and rotations of its owner keys *)
(* of witness/multisig.ts.                                                 *)
(*                                                                         *)
(* At certain heights the owner of the schedule slot builds a Hive         *)
(* transaction from what it has indexed up to there, asks its peers for    *)
(* signatures on theirs, and broadcasts its own when enough of those fit.  *)
(* The transaction refers to the block of the height and expires soon      *)
(* after it.  Batches name the withdrawals they pay; a node that parses    *)
(* one marks them COMPLETE.                                                *)
(***************************************************************************)
EXTENDS Integers, Sequences, FiniteSets

CONSTANTS
  Node,         \* the nodes, each with its owner key
  Withdrawal,
  FirstKeys,    \* owner keys of the multisig account to begin with
  Electable,    \* sets of nodes that may be elected
  Every,        \* by kind, heights at which it is due (20, 1200 in the code)
  Life,         \* by kind, blocks until it expires (10, 600 in the code)
  AnswerTime,   \* by kind, blocks signatures are waited for (3, 4 in the code)
  MinKeys,      \* keys a rotation must have (3 in the code)
  Owners,       \* by height, the nodes that take the slot for theirs
  MaxLag,       \* the parse lag below which a node proposes (5 in the code)
  Prompt,       \* whether nodes and peers keep up with Hive
  Trail,        \* blocks the parsers are behind the head of Hive at least
  MaxHeight,    \* bound: Hive blocks
  MaxIndexed,   \* bound: height up to which withdrawals are credited
  MaxElections, \* bound: elections
  MaxFails,     \* bound: references or events a node cannot fetch
  MaxRestarts   \* bound: restarts

Kind == {"batch", "rotate"}

\* A transaction has expired when the next one of its kind is due.
ASSUME GatewayAssumption ==
  /\ FirstKeys \subseteq Node /\ Electable \subseteq SUBSET Node /\ Prompt \in BOOLEAN
  /\ Every \in [Kind -> Nat \ {0}] /\ Life \in [Kind -> Nat] /\ AnswerTime \in [Kind -> Nat]
  /\ \A kind \in Kind : Life[kind] < Every[kind]
  /\ {MinKeys, MaxLag, Trail, MaxHeight, MaxIndexed, MaxElections, MaxFails, MaxRestarts} \subseteq Nat
  /\ Owners \in [1..MaxHeight -> SUBSET Node]

VARIABLES
  hive,        \* what concerns the gateway in each Hive block
  auth,        \* the account's owner keys, and the height they were rotated at
  sent,        \* transactions broadcast and not on Hive yet
  parsed,      \* the last block each node has run its parsers on
  seen,        \* the last block whose elections it has stored
  withdrawals, \* bridge_withdrawals of each node: status by withdrawal
  call,        \* by node and kind, the transaction it collects signatures on
  elections, fails, restarts

counters == <<elections, fails, restarts>>
vars == <<hive, auth, sent, parsed, seen, withdrawals, call, counters>>

now == Len(hive)
NoCall == [at |-> 0]
Nothing == [op |-> "none"]

Init ==
  /\ hive = <<>> /\ sent = {}
  /\ auth = [keys |-> FirstKeys, at |-> 0]
  /\ parsed = [n \in Node |-> 0] /\ seen = parsed
  /\ withdrawals = [n \in Node |-> [w \in {} |-> "PENDING"]]
  /\ call = [n \in Node |-> [k \in Kind |-> NoCall]]
  /\ elections = 0 /\ fails = 0 /\ restarts = 0

-------------------------------------------------------------------------------
(* Building transactions. *)

\* createSafeDivision: Math.round(size * 6 / 11).
Threshold(size) == (12 * size + 11) \div 22

Enough(keys, signers) == Cardinality(signers \cap keys) >= Threshold(Cardinality(keys))

\* createWithdrawTx takes what is PENDING now, whatever the height.
Pending(n) == {w \in DOMAIN withdrawals[n] : withdrawals[n][w] = "PENDING"}

\* Mutant: the members of the last election, whatever the height.
LastElected(n, h) ==
  LET E == {i \in 1..seen[n] : hive[i].op = "elect"}
  IN IF E = {} THEN FirstKeys ELSE hive[CHOOSE i \in E : \A j \in E : j =< i].members

\* The members of the election valid at a height, their owner keys and no more.
Elected(n, h) ==
  LET E == {i \in 1..seen[n] : i < h /\ hive[i].op = "elect"}
  IN IF E = {} THEN FirstKeys ELSE hive[CHOOSE i \in E : \A j \in E : j =< i].members

Build(n, kind, h) == IF kind = "batch" THEN Pending(n) ELSE Elected(n, h)

-------------------------------------------------------------------------------
(* Proposing: handleBlockTick and the parser of MultisigSystem.init. *)

Proposes(n, kind, h) ==
  /\ h % Every[kind] = 0 /\ n \in Owners[h] /\ now - parsed[n] < MaxLag
  /\ kind = "batch" => Pending(n) # {}
  /\ kind = "rotate" => Cardinality(Elected(n, h)) >= MinKeys /\ n \in auth.keys

\* runBatchOperation and runKeyRotation up to the call; the key rotation
\* counts the node's own signature at once.  Nodes without one of the keys get
\* the request too, to no effect.
Calls(n, h) ==
  [call EXCEPT ![n] = [kind \in Kind |->
     IF ~Proposes(n, kind, h) THEN @[kind]
     ELSE [at |-> h, till |-> now + AnswerTime[kind], content |-> Build(n, kind, h),
           keys |-> auth.keys, waiting |-> IF kind = "batch" THEN auth.keys ELSE auth.keys \ {n},
           signed |-> IF kind = "batch" THEN {} ELSE {n}]]]

\* Mutant: a signer's parser, not its fetcher, has to be past the height.
FitsParsed(m, n, kind) ==
  LET c == call[n][kind]
  IN /\ kind = "batch" => c.at < parsed[m]
     /\ m \in auth.keys \cap c.keys
     /\ Build(m, kind, c.at) = c.content

\* Whoever gets the request builds the transaction for the height from what it
\* knows then, and signs it if it holds a key of the account.  For a batch its
\* fetcher has to be past the height.  The signature counts if it fits the
\* caller's transaction and its key is one the caller has read.
Fits(m, n, kind) ==
  LET c == call[n][kind]
  IN /\ kind = "batch" => c.at < now
     /\ m \in auth.keys \cap c.keys
     /\ Build(m, kind, c.at) = c.content

\* handleMessage, and the handler of multisig.request_rotate.  A request comes
\* once: whoever does not sign on receipt never does.  The caller broadcasts as
\* soon as the signatures reach the threshold.
Answer(m, n, kind) ==
  /\ call[n][kind] # NoCall /\ m \in call[n][kind].waiting
  /\ LET c == call[n][kind]
         signed == IF Fits(m, n, kind) THEN c.signed \cup {m} ELSE c.signed
     IN IF Fits(m, n, kind) /\ Enough(c.keys, signed)
        THEN /\ sent' = sent \cup {[op |-> kind, at |-> c.at, content |-> c.content, signed |-> signed]}
             /\ call' = [call EXCEPT ![n][kind] = NoCall]
        ELSE /\ call' = [call EXCEPT ![n][kind] =
                           [c EXCEPT !.signed = signed, !.waiting = c.waiting \ {m}]]
             /\ UNCHANGED sent
  /\ UNCHANGED <<hive, auth, parsed, seen, withdrawals, counters>>

-------------------------------------------------------------------------------
(* Hive. *)

\* Mutant: the batch keeps the default lifetime of constructHiveTx.
LongLived(tx, h) == h =< tx.at + 2 * Life[tx.op] + 2

\* A transaction is good until it expires, once, and under the owner keys of
\* the moment; a signature that is not needed spoils it.
Unexpired(tx, h) == h =< tx.at + Life[tx.op]

Accepts(tx, h) ==
  /\ Unexpired(tx, h)
  /\ tx.signed \subseteq auth.keys /\ Enough(auth.keys, tx.signed)
  /\ \A i \in DOMAIN hive : hive[i].op \in Kind =>
       <<hive[i].op, hive[i].at, hive[i].content>> # <<tx.op, tx.at, tx.content>>

\* Nodes and peers answer within a block's time, if they are prompt.
KeptUp ==
  Prompt => \A n \in Node :
    /\ parsed[n] + Trail >= now
    /\ \A kind \in Kind : call[n][kind] # NoCall => call[n][kind].waiting = {}

\* Calls that have waited long enough end without a transaction.
HiveBlock(op) ==
  /\ now < MaxHeight /\ KeptUp
  /\ hive' = Append(hive, op)
  /\ call' = [n \in Node |-> [k \in Kind |->
       IF call[n][k] # NoCall /\ call[n][k].till =< now THEN NoCall ELSE call[n][k]]]
  /\ UNCHANGED <<parsed, seen, withdrawals>>

\* Hive takes up what is sent first if it is prompt.
OtherBlock(op) ==
  /\ HiveBlock(op)
  /\ Prompt => \A tx \in sent : ~Accepts(tx, now + 1)
  /\ sent' = {tx \in sent : Unexpired(tx, now + 2)}
  /\ UNCHANGED auth

EmptyBlock == OtherBlock(Nothing) /\ UNCHANGED counters

\* A VSC block with events of a withdrawal.
IndexBlock ==
  \E w \in Withdrawal :
    /\ now < MaxIndexed
    /\ \A i \in DOMAIN hive : hive[i].op = "index" => hive[i].id # w
    /\ OtherBlock([op |-> "index", id |-> w])
    /\ UNCHANGED counters

ElectionBlock ==
  \E members \in Electable :
    /\ elections < MaxElections /\ elections' = elections + 1
    /\ OtherBlock([op |-> "elect", members |-> members])
    /\ UNCHANGED <<fails, restarts>>

MultisigBlock ==
  \E tx \in sent :
    /\ Accepts(tx, now + 1)
    /\ HiveBlock([op |-> tx.op, at |-> tx.at, content |-> tx.content])
    /\ auth' = IF tx.op = "rotate" THEN [keys |-> tx.content, at |-> tx.at] ELSE auth
    /\ sent' = {other \in sent \ {tx} : Unexpired(other, now + 2)}
    /\ UNCHANGED counters

-------------------------------------------------------------------------------
(* Parsing. *)

Mark(n, ids, status) ==
  [withdrawals EXCEPT ![n] = [w \in DOMAIN @ \cup ids |-> IF w \in ids THEN status ELSE @[w]]]

\* processEvents on a withdrawal, and handleTxTick on a batch, which upserts.
\* A block whose header is known is not indexed again.
Apply(n, op) ==
  CASE op.op = "index" /\ op.id \notin DOMAIN withdrawals[n] ->
         withdrawals' = Mark(n, {op.id}, "PENDING")
    [] op.op = "batch" -> withdrawals' = Mark(n, op.content, "COMPLETE")
    [] OTHER -> UNCHANGED withdrawals

\* The block parsers, then the transaction's.  What cannot be fetched from
\* IPFS is passed over.
Parse(n) ==
  LET h == parsed[n] + 1
  IN /\ parsed[n] + Trail < now
     /\ call' = Calls(n, h)
     /\ parsed' = [parsed EXCEPT ![n] = h]
     /\ seen' = [seen EXCEPT ![n] = IF h > @ THEN h ELSE @]
     /\ \/ Apply(n, hive[h]) /\ UNCHANGED fails
        \/ /\ hive[h].op \in {"index", "batch"} /\ fails < MaxFails
           /\ fails' = fails + 1 /\ UNCHANGED withdrawals
     /\ UNCHANGED <<hive, auth, sent, elections, restarts>>

\* The process stops while it runs a block's parsers or between two blocks.
Restart(n) ==
  /\ restarts < MaxRestarts /\ restarts' = restarts + 1
  /\ call' = [call EXCEPT ![n] = [k \in Kind |-> NoCall]]
  /\ parsed' \in {parsed, [parsed EXCEPT ![n] = IF @ > 0 THEN @ - 1 ELSE 0]}
  /\ UNCHANGED <<hive, auth, sent, seen, withdrawals, elections, fails>>

Next ==
  \/ EmptyBlock \/ IndexBlock \/ ElectionBlock \/ MultisigBlock
  \/ \E n \in Node : Parse(n) \/ Restart(n)
  \/ \E m, n \in Node, kind \in Kind : Answer(m, n, kind)

Spec == Init /\ [][Next]_vars
FairSpec == Spec /\ WF_vars(Next)

-------------------------------------------------------------------------------
Tx(op) == [op : {op}, at : Nat, content : SUBSET (IF op = "batch" THEN Withdrawal ELSE Node)]
Paying == {i \in DOMAIN hive : hive[i].op = "batch"}

GatewayTypeOK ==
  /\ \A i \in DOMAIN hive :
       hive[i] \in {Nothing} \cup [op : {"index"}, id : Withdrawal]
                   \cup [op : {"elect"}, members : Electable] \cup Tx("batch") \cup Tx("rotate")
  /\ auth.keys \subseteq Node /\ auth.at \in 0..now
  /\ \A tx \in sent : tx.op \in Kind /\ tx.signed \subseteq Node
  /\ parsed \in [Node -> 0..now] /\ seen \in [Node -> 0..now]
  /\ \A n \in Node : parsed[n] =< seen[n]
  /\ \A n \in Node : /\ DOMAIN withdrawals[n] \subseteq Withdrawal
                     /\ \A w \in DOMAIN withdrawals[n] : withdrawals[n][w] \in {"PENDING", "COMPLETE"}
                     /\ \A k \in Kind : call[n][k] # NoCall => call[n][k].signed \subseteq Node
  /\ elections \in 0..MaxElections /\ fails \in 0..MaxFails /\ restarts \in 0..MaxRestarts

\* A withdrawal is paid by the batch of one height only: a batch has expired
\* before the next one is built, and whoever builds that one has marked what
\* the earlier one paid, however far behind the nodes are that sign it.
PaidOnce ==
  \A i, j \in Paying : hive[i].content \cap hive[j].content # {} => hive[i].at = hive[j].at

\* The keys are those of an election that was valid at the height they were
\* rotated at, although nodes that have not seen it take part, and they are
\* never put back to those of an earlier rotation that arrives late.
KeysAreElected ==
  LET E == {i \in DOMAIN hive : i < auth.at /\ hive[i].op = "elect"}
  IN auth.keys = IF E = {} THEN FirstKeys ELSE hive[CHOOSE i \in E : \A j \in E : j =< i].members

KeysMoveOn == [][auth'.at >= auth.at]_vars

\* A withdrawal is paid in the end, although an election changes the keys, a
\* proposer restarts, or a node has lost track of what is pending.
EveryWithdrawalPaid ==
  \A w \in Withdrawal :
    (\E i \in DOMAIN hive : hive[i].op = "index" /\ hive[i].id = w)
      ~> (\E i \in Paying : w \in hive[i].content)
===============================================================================
