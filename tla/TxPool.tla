-------------------------------- MODULE TxPool --------------------------------
(***************************************************************************)
(* The pool of off-chain transactions: onTxAnnounce, ingestTx, the         *)
(* rebroadcast and transactionCleaner of transactionPool.ts, running next  *)
(* to the parser that indexes the blocks those transactions end up in.     *)
(*                                                                         *)
(* All transactions here are of one key, so one nonce counts; what a block *)
(* does to them is the input branch of VscIndex, in smaller steps.         *)
(***************************************************************************)
EXTENDS Integers, Sequences, FiniteSets

CONSTANTS
  Node, Tx,
  NonceOf,  \* headers.nonce of each transaction
  Alike,    \* transactions the reject filter takes for others it holds
  MaxBlocks \* bound: VSC blocks

\* What the constants must be.
PoolAssumption ==
  (\A t \in Tx : NonceOf[t] \in Nat) /\ Alike \subseteq Tx /\ MaxBlocks \in Nat

VARIABLES
  chain,    \* the blocks, each a sequence of transactions
  pool,     \* of each node: the status of each transaction's record
  nonce,    \* of each node: nonceMap
  filter,   \* of each node: rejectFilter
  old,      \* of each node: records first seen an hour ago
  hears,    \* of each node and transaction: where onTxAnnounce is
  takes,    \* of each node and transaction: where ingestTx is
  at, part, \* of each node: blocks indexed, and the next step within a block
  cleans    \* of each node: where the cleaner is, with its list and its nonce

vars == <<chain, pool, nonce, filter, old, hears, takes, at, part, cleans>>

Resting == [step |-> "rest", list |-> {}, limit |-> 0]

Init ==
  /\ chain = <<>>
  /\ pool = [n \in Node |-> [t \in Tx |-> "NONE"]]
  /\ nonce = [n \in Node |-> 0]
  /\ filter = [n \in Node |-> {}] /\ old = [n \in Node |-> {}]
  /\ hears = [n \in Node |-> [t \in Tx |-> "idle"]]
  /\ takes = [n \in Node |-> [t \in Tx |-> "idle"]]
  /\ at = [n \in Node |-> 0] /\ part = [n \in Node |-> <<1, "insert">>]
  /\ cleans = [n \in Node |-> Resting]

Known(n, t) == pool[n][t] # "NONE"
Used(n, t) == NonceOf[t] < nonce[n]
Insert(n, t, s) == pool' = [pool EXCEPT ![n][t] = IF @ = "NONE" THEN s ELSE @]

-------------------------------------------------------------------------------
(* onTxAnnounce: three waits, for the record, the nonce and the signature. *)

Hears(n, t, now, next) == hears[n][t] = now /\ hears' = [hears EXCEPT ![n][t] = next]

\* A message about the transaction, sent again and again by whoever has it
\* unconfirmed, the node itself among them.
Hear(n, t) ==
  /\ \E m \in Node : pool[m][t] = "UNCONFIRMED"
  /\ Hears(n, t, "idle", IF Known(n, t) THEN "known" ELSE "new")
  /\ UNCHANGED <<chain, pool, nonce, filter, old, takes, at, part, cleans>>

Rejected(n, t) == t \in filter[n] \/ (t \in Alike /\ filter[n] # {})

HearCheck(n, t) ==
  /\ \/ Hears(n, t, "known", "idle")
     \/ Hears(n, t, "new", IF Rejected(n, t) \/ Used(n, t) THEN "idle" ELSE "insert")
  /\ filter' = [filter EXCEPT ![n] =
                  IF ~Rejected(n, t) /\ Used(n, t) THEN @ \cup {t} ELSE @]
  /\ UNCHANGED <<chain, pool, nonce, old, takes, at, part, cleans>>

\* The id of a record is unique: a second insertion throws.
HearInsert(n, t) ==
  /\ Hears(n, t, "insert", "idle") /\ Insert(n, t, "UNCONFIRMED")
  /\ UNCHANGED <<chain, nonce, filter, old, takes, at, part, cleans>>

-------------------------------------------------------------------------------
(* ingestTx, called by a client: the filter is not looked at. *)

Takes(n, t, now, next) == takes[n][t] = now /\ takes' = [takes EXCEPT ![n][t] = next]

Take(n, t) ==
  /\ ~Used(n, t) /\ Takes(n, t, "idle", "find")
  /\ UNCHANGED <<chain, pool, nonce, filter, old, hears, at, part, cleans>>

TakeFind(n, t) ==
  /\ Takes(n, t, "find", IF Known(n, t) THEN "idle" ELSE "insert")
  /\ UNCHANGED <<chain, pool, nonce, filter, old, hears, at, part, cleans>>

TakeInsert(n, t) ==
  /\ Takes(n, t, "insert", "idle") /\ Insert(n, t, "UNCONFIRMED")
  /\ UNCHANGED <<chain, nonce, filter, old, hears, at, part, cleans>>

-------------------------------------------------------------------------------
(* Blocks. *)

NextNonce == IF chain = <<>> THEN 0
             ELSE LET b == chain[Len(chain)] IN NonceOf[b[Len(b)]] + 1

\* A node that has indexed everything proposes transactions of its pool with
\* consecutive nonces, and the others sign.
Propose(n) ==
  /\ Len(chain) < MaxBlocks /\ at[n] = Len(chain)
  /\ \E b \in {<<t>> : t \in Tx} \cup (Tx \X Tx) :
       /\ \A i \in DOMAIN b : /\ pool[n][b[i]] = "UNCONFIRMED"
                              /\ NonceOf[b[i]] = nonce[n] + i - 1
       /\ chain' = Append(chain, b)
  /\ UNCHANGED <<pool, nonce, filter, old, hears, takes, at, part, cleans>>

Indexing(n, step) == at[n] < Len(chain) /\ part[n][2] = step
Entry(n) == chain[at[n] + 1][part[n][1]]
Last(n) == part[n][1] = Len(chain[at[n] + 1])
NextPart(n) ==
  part' = [part EXCEPT ![n] = IF Last(n) THEN <<@[1], "nonce">> ELSE <<@[1] + 1, "insert">>]

IndexInsert(n) ==
  /\ Indexing(n, "insert") /\ Insert(n, Entry(n), "INCLUDED")
  /\ IF Known(n, Entry(n)) THEN part' = [part EXCEPT ![n][2] = "update"] ELSE NextPart(n)
  /\ UNCHANGED <<chain, nonce, filter, old, hears, takes, at, cleans>>

\* The record that was in the way is updated, if it is still there.
IndexUpdate(n) ==
  /\ Indexing(n, "update") /\ NextPart(n)
  /\ pool' = [pool EXCEPT ![n][Entry(n)] = IF @ = "NONE" THEN @ ELSE "INCLUDED"]
  /\ UNCHANGED <<chain, nonce, filter, old, hears, takes, at, cleans>>

IndexNonce(n) ==
  /\ Indexing(n, "nonce")
  /\ nonce' = [nonce EXCEPT ![n] = NonceOf[Entry(n)] + 1]
  /\ at' = [at EXCEPT ![n] = @ + 1] /\ part' = [part EXCEPT ![n] = <<1, "insert">>]
  /\ UNCHANGED <<chain, pool, filter, old, hears, takes, cleans>>

-------------------------------------------------------------------------------
(* transactionCleaner, every 15 minutes: a list, its nonces, its deletions. *)

Age(n, t) ==
  /\ pool[n][t] = "UNCONFIRMED" /\ t \notin old[n]
  /\ old' = [old EXCEPT ![n] = @ \cup {t}]
  /\ UNCHANGED <<chain, pool, nonce, filter, hears, takes, at, part, cleans>>

Stale(n) == {t \in old[n] : pool[n][t] = "UNCONFIRMED"}

CleanList(n) ==
  /\ cleans[n].step = "rest" /\ Stale(n) # {}
  /\ cleans' = [cleans EXCEPT ![n] = [step |-> "nonce", list |-> Stale(n), limit |-> 0]]
  /\ UNCHANGED <<chain, pool, nonce, filter, old, hears, takes, at, part>>

CleanNonce(n) ==
  /\ cleans[n].step = "nonce"
  /\ cleans' = [cleans EXCEPT ![n].step = "delete", ![n].limit = nonce[n]]
  /\ UNCHANGED <<chain, pool, nonce, filter, old, hears, takes, at, part>>

\* Mutants: the next nonce counts as used; the cleaner looks for the wrong ones.
PastNext(n, t) == NonceOf[t] =< cleans[n].limit
PastWrong(n, t) == NonceOf[t] + 1 < cleans[n].limit

Past(n, t) == NonceOf[t] < cleans[n].limit

\* One of the list: by id, whatever the record says by now.
CleanOne(n) ==
  /\ cleans[n].step = "delete"
  /\ \E t \in cleans[n].list :
       /\ cleans' = [cleans EXCEPT ![n] =
                       LET left == cleans[n].list \ {t} IN
                         IF left = {} THEN Resting ELSE [@ EXCEPT !.list = left]]
       /\ pool' = [pool EXCEPT ![n][t] = IF Past(n, t) THEN "NONE" ELSE @]
       /\ filter' = [filter EXCEPT ![n] = IF Past(n, t) THEN @ \cup {t} ELSE @]
       /\ old' = [old EXCEPT ![n] = IF Past(n, t) THEN @ \ {t} ELSE @]
  /\ UNCHANGED <<chain, nonce, hears, takes, at, part>>

Index(n) == IndexInsert(n) \/ IndexUpdate(n) \/ IndexNonce(n)
Clean(n) == CleanList(n) \/ CleanNonce(n) \/ CleanOne(n)
Handle(n, t) == HearCheck(n, t) \/ HearInsert(n, t) \/ TakeFind(n, t) \/ TakeInsert(n, t)

Next ==
  \E n \in Node :
    \/ Propose(n) \/ Index(n) \/ Clean(n)
    \/ \E t \in Tx : Hear(n, t) \/ Take(n, t) \/ Handle(n, t) \/ Age(n, t)

Spec == Init /\ [][Next]_vars

\* What is started goes on, the cleaner's timer fires, an hour passes, and a
\* transaction that is sent every five minutes is heard at last.
FairSpec ==
  /\ Spec
  /\ \A n \in Node :
       /\ WF_vars(Index(n)) /\ WF_vars(CleanList(n)) /\ WF_vars(CleanNonce(n) \/ CleanOne(n))
       /\ \A t \in Tx : WF_vars(Handle(n, t)) /\ SF_vars(Hear(n, t)) /\ SF_vars(Age(n, t))

-------------------------------------------------------------------------------
PoolTypeOK ==
  /\ \A n \in Node, t \in Tx : pool[n][t] \in {"NONE", "UNCONFIRMED", "INCLUDED"}
  /\ \A n \in Node :
       /\ filter[n] \subseteq Tx /\ cleans[n].list \subseteq old[n]
       /\ at[n] \in 0..Len(chain) /\ cleans[n].limit =< nonce[n]

\* A transaction that may still be included is not taken out of the pool, nor
\* kept from coming into it, whatever the cleaner and the parser do meanwhile.
UnusedStays ==
  \A n \in Node, t \in Tx :
    ~Used(n, t) => (Known(n, t) => pool'[n][t] # "NONE") /\ t \notin filter'[n]
UnusedIsWelcome == [][UnusedStays]_vars

LeftOver(n, t) == pool[n][t] = "UNCONFIRMED" /\ Used(n, t)

Missing(n, m, t) == pool[n][t] = "UNCONFIRMED" /\ ~Known(m, t) /\ ~Rejected(m, t)
===============================================================================
