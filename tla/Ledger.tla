-------------------------------- MODULE Ledger --------------------------------
(***************************************************************************)
(* The balances of VSC accounts on one node: BalanceKeeper of              *)
(* witness/balanceKeeper.ts, and the transfers and withdrawals TxContext   *)
(* of witness/index.ts executes for a block.                               *)
(*                                                                         *)
(* Hive transfers to the multisig account become deposits in the ledger.   *)
(* Building a VSC block executes transactions against snapshots of the     *)
(* balances and yields events; indexing the block writes the events to the *)
(* ledger.  Withdrawals are paid out by a batch transaction on Hive.  HIVE *)
(* and HBD are kept apart throughout and alike: one token is modelled.     *)
(***************************************************************************)
EXTENDS Integers, Sequences, FiniteSets, SequencesExt

CONSTANTS
  Account,    \* VSC accounts
  Amount,     \* amounts sent, in thousandths
  Tx,         \* transactions; Op, From, To and Sum say what each does
  Op, From, To, Sum,
  MaxOps,     \* bound: Hive operations
  MaxBlocks,  \* bound: VSC blocks
  MaxRestarts \* bound: restarts of the node

\* No account has the name of the internal owner, and no transaction the name
\* the deposits have in the ledger.  Sums have any sign: nothing between a user's
\* operation and executeTx looks at it.
ASSUME LedgerAssumption ==
  /\ "#withdraw" \notin Account /\ "hive" \notin Tx
  /\ Amount \subseteq Nat \ {0}
  /\ Op \in [Tx -> {"transfer", "withdraw"}]
  /\ From \in [Tx -> Account] /\ To \in [Tx -> Account]
  /\ Sum \in [Tx -> Int]
  /\ MaxOps \in Nat /\ MaxBlocks \in Nat /\ MaxRestarts \in Nat

VARIABLES
  hive,        \* the Hive operations that matter, one to a Hive block
  height,      \* how many of them this node has handled
  included,    \* transaction_pool: the height of the transactions INCLUDED
  ledger,      \* bridge_ledger, by id
  balances,    \* bridge_balances: records [account, height, amount]
  withdrawals, \* bridge_withdrawals, by id
  lastEnd,     \* end_block of the last VSC block
  block,       \* the VSC block being made or indexed, or NoBlock
  blocks,      \* how many there have been
  spoilt,      \* a restart has cut the indexing of a block short, or made two
               \* blocks execute the transaction at their border
  restarts

dbVars == <<included, ledger, balances, withdrawals>>
vars == <<hive, height, dbVars, lastEnd, block, blocks, spoilt, restarts>>

Withdraw == "#withdraw"    \* the internal owner withdrawals are credited to
NoBlock == [stage |-> "none"]
Empty == <<>>              \* the function with no values in its domain

\* MongoDB's findOneAndUpdate with upsert.
Upsert(db, id, record) == [i \in DOMAIN db \cup {id} |-> IF i = id THEN record ELSE db[i]]

Total(db, ids) ==
  LET amount == [i \in ids |-> db[i].amount] IN MapThenSumSet(LAMBDA i : amount[i], ids)

Init ==
  /\ hive = <<>> /\ height = 0
  /\ included = Empty /\ ledger = Empty /\ balances = {} /\ withdrawals = Empty
  /\ lastEnd = 0 /\ block = NoBlock /\ blocks = 0
  /\ spoilt = FALSE /\ restarts = 0

-------------------------------------------------------------------------------
(* Hive. *)

Pending == {i \in DOMAIN withdrawals : withdrawals[i].status = "PENDING"}

On(op) == {h \in DOMAIN hive : hive[h].op = op}

\* The multisig account holds what was sent to it less what it has paid out.
Vault == Total(hive, On("deposit")) - Total(hive, On("batch"))

\* A user sends tokens to the multisig account for some VSC account.
HiveTransfer ==
  \E a \in Account, n \in Amount :
    hive' = Append(hive, [op |-> "deposit", owner |-> a, amount |-> n])

\* A user sends a transaction.
HiveTx ==
  \E t \in Tx :
    /\ \A h \in DOMAIN hive : hive[h].op = "tx" => hive[h].tx # t
    /\ hive' = Append(hive, [op |-> "tx", tx |-> t])

\* The members of the multisig pay a batch of the withdrawals pending; Hive takes
\* no transfer of nothing or less.
HiveBatch ==
  \E S \in SUBSET Pending :
    /\ S # {} /\ Total(withdrawals, S) =< Vault
    /\ \A i \in S : withdrawals[i].amount > 0
    /\ height = Len(hive)
    /\ hive' = Append(hive, [op |-> "batch", ids |-> S, amount |-> Total(withdrawals, S)])

Hive ==
  /\ Len(hive) < MaxOps
  /\ HiveTransfer \/ HiveTx \/ HiveBatch
  /\ UNCHANGED <<height, dbVars, lastEnd, block, blocks, spoilt, restarts>>

Idle == block.stage # "indexing"

\* Mutant: the deposit is inserted under an id of its own each time.
DepositInserted(h) ==
  /\ hive[h].op = "deposit"
  /\ ledger' = Upsert(ledger, <<"hive", h, Cardinality(DOMAIN ledger)>>,
                 [owner |-> hive[h].owner, amount |-> hive[h].amount, height |-> h])
  /\ UNCHANGED <<included, balances, withdrawals>>

\* handleTxTick on a transfer: the deposit is upserted under the id of the
\* operation, so that a replay writes the same record again.
Deposit(h) ==
  /\ hive[h].op = "deposit"
  /\ ledger' = Upsert(ledger, <<"hive", h>>,
                 [owner |-> hive[h].owner, amount |-> hive[h].amount, height |-> h])
  /\ UNCHANGED <<included, balances, withdrawals>>

\* The transaction pool's parser on a vsc.tx operation.
Include(h) ==
  /\ hive[h].op = "tx"
  /\ included' = Upsert(included, hive[h].tx, h)
  /\ UNCHANGED <<ledger, balances, withdrawals>>

\* handleTxTick on a bridge_ref: the withdrawals it names are complete.
Complete(h) ==
  /\ hive[h].op = "batch"
  /\ withdrawals' = [i \in DOMAIN withdrawals |->
                       IF i \in hive[h].ids
                       THEN [withdrawals[i] EXCEPT !.status = "COMPLETE"]
                       ELSE withdrawals[i]]
  /\ UNCHANGED <<included, ledger, balances>>

Handle ==
  /\ Idle /\ height < Len(hive)
  /\ height' = height + 1
  /\ Deposit(height + 1) \/ Include(height + 1) \/ Complete(height + 1)
  /\ UNCHANGED <<hive, lastEnd, block, blocks, spoilt, restarts>>

-------------------------------------------------------------------------------
(* Balances. *)

OwnedBy(a, h) == {i \in DOMAIN ledger : ledger[i].owner = a /\ ledger[i].height =< h}

\* The sum of an account's ledger entries up to a height.
LedgerSum(a, h) == Total(ledger, OwnedBy(a, h))

\* findOne({account}): any record of the account, nothing if there is none.
Recorded(a) ==
  LET mine == {r \in balances : r.account = a}
  IN IF mine = {} THEN {0} ELSE {r.amount : r \in mine}

\* getSnapshot: the recorded balance and all ledger entries up to the height.
Snapshots(a, h) == {r + LedgerSum(a, h) : r \in Recorded(a)}

-------------------------------------------------------------------------------
(* Building a block: TxContext. *)

\* The two events of a transaction.
Debit(t)  == [tx |-> t, owner |-> From[t], amount |-> -Sum[t]]
Credit(t) == [tx |-> t, owner |-> IF Op[t] = "withdraw" THEN Withdraw ELSE To[t],
              amount |-> Sum[t]]

\* Mutant: the balances stay those of the snapshots.
NotApplied(bal, e) == bal

\* applyLedgerOp: only accounts' balances are kept, not the internal owners'.
Applied(bal, e) ==
  IF e.owner \in Account THEN [bal EXCEPT ![e.owner] = @ + e.amount] ELSE bal

\* executeTx: a transaction that exceeds its sender's balance has no effect.
ExecuteTx(ctx, t) ==
  IF Sum[t] > ctx.balances[From[t]] THEN ctx
  ELSE [balances |-> Applied(Applied(ctx.balances, Debit(t)), Credit(t)),
        events |-> ctx.events \o <<Debit(t), Credit(t)>>]

Events(run, bal) ==
  LET ctx[i \in 0..Len(run)] == IF i = 0 THEN [balances |-> bal, events |-> <<>>]
                                ELSE ExecuteTx(ctx[i - 1], run[i])
  IN ctx[Len(run)].events

\* Mutant: every transaction included up to the end.
InWindowEver(end) == {t \in DOMAIN included : included[t] =< end}
InWindow(end) == {t \in DOMAIN included : included[t] \in lastEnd..end}

\* A witness builds a block when its parser reaches the slot's Hive block: that
\* block's operations are still to come.  Snapshots are taken at its height.
Build ==
  /\ block = NoBlock /\ blocks < MaxBlocks
  /\ LET end == height + 1 IN
     \E run \in SetToSeqs(InWindow(end)) :
       \E bal \in [Account -> UNION {Snapshots(a, end) : a \in Account}] :
         /\ run # <<>>
         /\ \A a \in Account : bal[a] \in Snapshots(a, end)
         /\ block' = [stage |-> "built", start |-> lastEnd + 1, end |-> end,
                      from |-> bal, events |-> Events(run, bal), owners |-> {}, next |-> 1]
  /\ blocks' = blocks + 1
  /\ UNCHANGED <<hive, height, dbVars, lastEnd, spoilt, restarts>>

\* It is not signed by enough members in time.
Abandon ==
  /\ block.stage = "built"
  /\ block' = NoBlock
  /\ UNCHANGED <<hive, height, dbVars, lastEnd, blocks, spoilt, restarts>>

-------------------------------------------------------------------------------
(* Indexing it: processEvents, and the status update of chainBridgeV2. *)

ExecutedBefore(t) == \E id \in DOMAIN ledger \cup DOMAIN withdrawals : id[1] = t

\* A transaction in the Hive block that ends the last VSC block and lies in the
\* window of this one too; a replay includes it again.
AgainAtBorder(t) == included[t] = lastEnd /\ ExecutedBefore(t)

\* The block is on Hive and its slot has none yet.
StartIndex ==
  /\ block.stage = "built" /\ height >= block.end /\ block.end > lastEnd
  /\ lastEnd' = block.end
  /\ block' = [block EXCEPT !.stage = "indexing"]
  /\ spoilt' = (spoilt \/ \E i \in DOMAIN block.events : AgainAtBorder(block.events[i].tx))
  /\ UNCHANGED <<hive, height, dbVars, blocks, restarts>>

\* Event i goes to the ledger, or to the withdrawals when its owner is internal.
ProcessEvent ==
  /\ block.stage = "indexing" /\ block.next =< Len(block.events)
  /\ LET e == block.events[block.next]
         id == <<e.tx, block.next>>
     IN IF e.owner = Withdraw
        THEN /\ withdrawals' = Upsert(withdrawals, id,
                                 [amount |-> e.amount, status |-> "PENDING"])
             /\ block' = [block EXCEPT !.next = @ + 1]
             /\ UNCHANGED ledger
        ELSE /\ ledger' = Upsert(ledger, id,
                            [owner |-> e.owner, amount |-> e.amount, height |-> block.end])
             /\ block' = [block EXCEPT !.next = @ + 1, !.owners = @ \cup {e.owner}]
             /\ UNCHANGED withdrawals
  /\ UNCHANGED <<hive, height, included, balances, lastEnd, blocks, spoilt, restarts>>

Processed == block.stage = "indexing" /\ block.next > Len(block.events)

\* The balance of an account the events touched is recorded anew.
RecordBalance ==
  /\ Processed
  /\ \E a \in block.owners : \E amt \in Snapshots(a, block.end) :
       /\ balances' = {r \in balances : r.account # a \/ r.height # block.end}
                      \cup {[account |-> a, height |-> block.end, amount |-> amt]}
       /\ block' = [block EXCEPT !.owners = @ \ {a}]
  /\ UNCHANGED <<hive, height, included, ledger, withdrawals, lastEnd, blocks, spoilt, restarts>>

\* If there are events, what is included in the block's range is now confirmed
\* or failed.
EndIndex ==
  /\ Processed /\ block.owners = {}
  /\ included' = [t \in {u \in DOMAIN included :
                     block.events = <<>> \/ included[u] \notin (block.start - 1)..block.end}
                  |-> included[t]]
  /\ block' = NoBlock
  /\ UNCHANGED <<hive, height, ledger, balances, withdrawals, lastEnd, blocks, spoilt, restarts>>

\* The process starts again from an earlier block.  A block that was being
\* indexed is lost: its header is there, so it is not indexed again.
Restart ==
  /\ restarts < MaxRestarts
  /\ restarts' = restarts + 1
  /\ height' \in 0..height
  /\ spoilt' = (spoilt \/ block.stage = "indexing")
  /\ block' = IF block.stage = "indexing" THEN NoBlock ELSE block
  /\ UNCHANGED <<hive, dbVars, lastEnd, blocks>>

Next ==
  \/ Hive \/ Handle \/ Build \/ Abandon
  \/ StartIndex \/ ProcessEvent \/ RecordBalance \/ EndIndex \/ Restart

Spec == Init /\ [][Next]_vars

-------------------------------------------------------------------------------
(* Properties. *)

\* The type invariant; one balance record per account and height.
LedgerTypeOK ==
  /\ height \in 0..Len(hive)
  /\ \A i \in DOMAIN ledger : ledger[i].owner \in Account /\ ledger[i].amount \in Int
  /\ \A i \in DOMAIN withdrawals : withdrawals[i].amount \in Int
  /\ \A r, s \in balances : r.account = s.account /\ r.height = s.height => r = s
  /\ \A t \in DOMAIN included : t \in Tx /\ included[t] \in 1..Len(hive)

\* What accounts own and what is still to be paid out is what the multisig
\* account holds, whatever is replayed, unless restarts have spoilt the ledger:
\* no event is written twice or lost, no deposit counted twice.
Conserved ==
  block.stage # "indexing" /\ ~spoilt /\ height = Len(hive) =>
    Total(ledger, DOMAIN ledger) + Total(withdrawals, Pending) = Vault

\* Accounts and pending withdrawals add up to what the multisig account holds, in
\* a ledger that is of its type.
LedgerOK == LedgerTypeOK /\ Conserved

\* What the transactions of a block take from their senders is there, in the order
\* of the block's events and counted from the snapshots it started from: no debit
\* leaves a sender below nothing, not even one whose snapshot is below.  This says
\* nothing of the account credited, which a transfer of a negative sum takes below
\* nothing: executeTx compares the sum with the sender's balance alone.
SpendsWhatItHas ==
  block.stage = "built" =>
    \A k \in DOMAIN block.events : block.events[k] = Debit(block.events[k].tx) =>
      LET a == block.events[k].owner
      IN block.from[a] + Total(block.events, {i \in 1..k : block.events[i].owner = a}) >= 0

\* A withdrawal that was paid is not pending again, whatever is replayed, unless
\* restarts have made two blocks execute it.
PaidStaysPaid ==
  [][~spoilt' => \A i \in DOMAIN withdrawals : withdrawals[i].status = "COMPLETE" =>
       withdrawals'[i] = withdrawals[i]]_vars

\* The balances recorded for the accounts of a block are what their ledger
\* entries add up to.
RecordsLedgerSum ==
  block = NoBlock /\ ~spoilt => \A r \in balances : r.amount = LedgerSum(r.account, r.height)
===============================================================================
