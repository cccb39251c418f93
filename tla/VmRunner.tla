------------------------------- MODULE VmRunner -------------------------------
(***************************************************************************)
(* The process that runs contracts: vm-runner.ts.                          *)
(*                                                                         *)
(* One process runs all contract calls of one VSC block, on one thread,    *)
(* and writes the state they leave when it is told to finish.  A message   *)
(* is handled as soon as the thread is free, also while a call before it   *)
(* waits for IPFS or the database.  What calls share is shared here: the   *)
(* cache, the ledger stack, the balances seen and the intents.  One        *)
(* contract and one asset.  A call moves what the contract asks for: no    *)
(* system call looks at who signed it, nor at the sign of an amount.       *)
(***************************************************************************)
EXTENDS Integers, Sequences, FiniteSets

CONSTANTS
  Key, Value,   \* keys and values of the contract's state
  Null, Empty,  \* no value; the empty string, which may be one of the values
  Writes,       \* the values each call may write
  InitState,    \* the state when the block starts
  NumCalls,     \* calls in the block
  User,         \* accounts of users
  Own, Self,    \* accounts of the contract, by tag, and the one without a tag
  Funds,        \* balances in the database
  Limit,        \* the limit of each call's intent, below all amounts if it has none
  Amounts,      \* amounts calls move, of either sign
  Loops,        \* whether contracts may run for ever
  MaxOps,       \* bound: system calls of a call
  MaxFaults     \* bound: faults of IPFS

Account == User \cup Own

\* What hive.draw moves into one of the contract's accounts, hive.transfer and
\* hive.withdraw (to Null) from one; hive.getbalance only looks.
Moves(amounts) ==
  [kind : {"draw"}, from : Account, to : Own, amount : amounts]
  \cup [kind : {"pay"}, from : Own, to : User \cup {Self, Null}, amount : amounts]
  \cup [kind : {"look"}, from : Account, to : {Null}, amount : {0}]

ASSUME RunnerAssumption ==
  /\ NumCalls \in Nat /\ MaxOps \in Nat /\ MaxFaults \in Nat
  /\ Null \notin Value /\ Null # Empty
  /\ Writes \in [1..NumCalls -> SUBSET Value]
  /\ InitState \in [Key -> Value \cup {Null}]
  /\ User \cap Own = {} /\ Self \in Own /\ Null \notin Account
  /\ Funds \in [Account -> Int] /\ Limit \in [1..NumCalls -> Int]
  /\ Amounts \subseteq Int /\ Loops \in BOOLEAN

VARIABLES
  stored,  \* stateMerkle: the contract's state in IPFS
  cache,   \* stateCache, null for no value
  temp,    \* opCache
  ledger,  \* ledgerStack: what was moved, by which call
  seen,    \* accounts in balanceSnapshots
  intent,  \* whose intents are checked
  pc,      \* of every call: where its execution is
  arg,     \* of every call: what it waits for
  ops,     \* of every call: system calls made
  finishing, final, \* whether finish runs, and the keys it has written
  alive,
  faults,
  inbox, outbox \* messages of the process that started this one, and to it

runnerVars ==
  <<stored, cache, temp, ledger, seen, intent, pc, arg, ops, finishing, final, alive, faults,
    inbox, outbox>>

None == [x \in {} |-> Null]

\* Values by key: one put, and all of f over those of g.
Put(f, k, v) == [x \in DOMAIN f \cup {k} |-> IF x = k THEN v ELSE f[x]]
Over(f, g) == [x \in DOMAIN f \cup DOMAIN g |-> IF x \in DOMAIN f THEN f[x] ELSE g[x]]

RunnerInit ==
  /\ stored = InitState /\ cache = None /\ temp = None
  /\ ledger = <<>> /\ seen = {} /\ intent = 0
  /\ pc = [c \in 1..NumCalls |-> "none"] /\ arg = [c \in 1..NumCalls |-> Null]
  /\ ops = [c \in 1..NumCalls |-> 0]
  /\ finishing = FALSE /\ final = {} /\ alive = TRUE /\ faults = 0
  /\ inbox = <<>> /\ outbox = <<>>

-------------------------------------------------------------------------------
(* StateCache. *)

\* Mutant: a failed call's writes stay in the temporary cache.
RevertedNothing == temp

\* revertState.
Reverted == None

\* finishOp.
Committed == Over(temp, cache)

Cached(k) == k \in DOMAIN temp \cup DOMAIN cache

-------------------------------------------------------------------------------
(* The thread. *)

\* Nothing else runs while a call runs.
Free == alive /\ \A c \in 1..NumCalls : pc[c] \notin {"run", "stuck"}

Running(c) == alive /\ pc[c] = "run"
Goto(c, step) == pc' = [pc EXCEPT ![c] = step]
More(c) == ops[c] < MaxOps /\ ops' = [ops EXCEPT ![c] = @ + 1]
Fault == faults < MaxFaults /\ faults' = faults + 1

Answer(c, good, taken) == [type |-> "stop", id |-> c, ok |-> good, ledger |-> taken]

\* A call message: setBalances and the start of executeCall, up to the wait
\* for the module's instance.
TakeCall ==
  /\ Free /\ inbox # <<>> /\ Head(inbox).type = "call"
  /\ seen' = Head(inbox).balances
  /\ intent' = Head(inbox).id
  /\ Goto(Head(inbox).id, "load") /\ inbox' = Tail(inbox)
  /\ UNCHANGED <<stored, cache, temp, ledger, arg, ops, finishing, final, alive,
                 faults, outbox>>

Loaded(c) ==
  /\ Free /\ pc[c] = "load" /\ Goto(c, "run")
  /\ UNCHANGED <<stored, cache, temp, ledger, seen, intent, arg, ops, finishing,
                 final, alive, faults,
                 inbox, outbox>>

\* No such action, or a module that cannot be set up: nothing is reverted.
NotLoaded(c) ==
  /\ Free /\ pc[c] = "load" /\ Goto(c, "over")
  /\ outbox' = Append(outbox, Answer(c, FALSE, <<>>))
  /\ UNCHANGED <<stored, cache, temp, ledger, seen, intent, arg, ops, finishing,
                 final, alive, faults, inbox>>

\* db.setObject and db.delObject.
Set(c, k, v) ==
  /\ Running(c) /\ More(c)
  /\ temp' = Put(temp, k, v)
  /\ UNCHANGED <<stored, cache, ledger, seen, intent, pc, arg, finishing, final,
                 alive, faults, inbox, outbox>>

\* db.getObject of a key that is not cached waits for IPFS; one that is
\* changes nothing.
Get(c, k) ==
  /\ Running(c) /\ More(c) /\ ~Cached(k)
  /\ Goto(c, "read") /\ arg' = [arg EXCEPT ![c] = k]
  /\ UNCHANGED <<stored, cache, temp, ledger, seen, intent, finishing, final, alive,
                 faults, inbox, outbox>>

\* An error of IPFS reads as no value.
Got(c) ==
  /\ Free /\ pc[c] = "read" /\ Goto(c, "run")
  /\ \/ cache' = Put(cache, arg[c], stored[arg[c]]) /\ UNCHANGED faults
     \/ Fault /\ cache' = Put(cache, arg[c], Null)
  /\ UNCHANGED <<stored, temp, ledger, seen, intent, arg, ops, finishing, final,
                 alive, inbox, outbox>>

\* Mutant: a balance may be asked for again.
AskAgain(c, m) ==
  /\ Running(c) /\ More(c)
  /\ Goto(c, "fund") /\ arg' = [arg EXCEPT ![c] = m]
  /\ UNCHANGED <<stored, cache, temp, ledger, seen, intent, finishing, final, alive, faults,
                 inbox, outbox>>

\* Each of these calls asks for the balance of the account it takes from first.
Ask(c, m) ==
  /\ Running(c) /\ More(c) /\ m.from \notin seen
  /\ Goto(c, "fund") /\ arg' = [arg EXCEPT ![c] = m]
  /\ UNCHANGED <<stored, cache, temp, ledger, seen, intent, finishing, final, alive,
                 faults, inbox, outbox>>

\* What call c has drawn so far is looked for under names the entries of the
\* ledger stack do not have: the limit is one of each draw.
Drawn(c) == 0

Allowed(c, m) ==
  /\ m.kind # "look"
  /\ m.kind = "draw" => m.amount + Drawn(c) =< Limit[intent]
  /\ m.amount =< Funds[m.from]

\* Both sides of what is moved are one entry.
Entry(c, m) == [from |-> m.from, to |-> m.to, amount |-> m.amount, by |-> c, nr |-> ops[c]]

Funded(c) ==
  /\ Free /\ pc[c] = "fund" /\ Goto(c, "run")
  /\ seen' = seen \cup {arg[c].from}
  /\ ledger' = IF Allowed(c, arg[c]) THEN Append(ledger, Entry(c, arg[c])) ELSE ledger
  /\ UNCHANGED <<stored, cache, temp, intent, arg, ops, finishing, final, alive,
                 faults, inbox, outbox>>

\* sdk.revert: the call goes on.
Revert(c) ==
  /\ Running(c) /\ More(c)
  /\ temp' = Reverted /\ ledger' = <<>>
  /\ UNCHANGED <<stored, cache, seen, intent, pc, arg, finishing, final, alive,
                 faults, inbox, outbox>>

\* The function returns: finishOp, whichever calls wrote what is there.
Return(c) ==
  /\ Running(c) /\ Goto(c, "over")
  /\ outbox' = Append(outbox, Answer(c, TRUE, ledger))
  /\ cache' = Committed /\ temp' = None /\ ledger' = <<>>
  /\ UNCHANGED <<stored, seen, intent, arg, ops, finishing, final, alive, faults, inbox>>

\* An exception: revertOp.
Throw(c) ==
  /\ Goto(c, "over")
  /\ outbox' = Append(outbox, Answer(c, FALSE, <<>>))
  /\ temp' = Reverted /\ ledger' = <<>>
  /\ UNCHANGED <<stored, cache, seen, intent, arg, finishing, final, alive, faults, inbox>>

\* The contract's own exception, or that of asking for a balance seen before,
\* which reads a field the snapshot does not have.
Throws(c) == Running(c) /\ UNCHANGED ops /\ Throw(c)

Loop(c) ==
  /\ Loops /\ Running(c) /\ Goto(c, "stuck")
  /\ UNCHANGED <<stored, cache, temp, ledger, seen, intent, arg, ops, finishing,
                 final, alive, faults,
                 inbox, outbox>>

-------------------------------------------------------------------------------
(* finish: finalizeState, one key at a time, each with waits for IPFS. *)

TakeFinish ==
  /\ Free /\ inbox # <<>> /\ Head(inbox).type = "finish"
  /\ finishing' = TRUE /\ inbox' = Tail(inbox)
  /\ UNCHANGED <<stored, cache, temp, ledger, seen, intent, pc, arg, ops, final,
                 alive, faults, outbox>>

\* Mutant: what is written is written again.
LeftAll == DOMAIN cache

Left == DOMAIN cache \ final

\* An empty value is not written.
Written(k) == IF cache[k] = Empty THEN stored ELSE [stored EXCEPT ![k] = cache[k]]

\* A failed put is logged.
Write(k) ==
  /\ Free /\ finishing /\ k \in Left
  /\ \/ stored' = Written(k) /\ UNCHANGED faults
     \/ Fault /\ cache[k] # Null /\ UNCHANGED stored
  /\ final' = final \cup {k}
  /\ UNCHANGED <<cache, temp, ledger, seen, intent, pc, arg, ops, finishing, alive,
                 inbox, outbox>>

\* An exception of removeLink is not caught: the process ends.
DeleteThrows(k) ==
  /\ Free /\ finishing /\ k \in Left /\ cache[k] = Null /\ Fault
  /\ alive' = FALSE
  /\ UNCHANGED <<stored, cache, temp, ledger, seen, intent, pc, arg, ops, finishing,
                 final, inbox, outbox>>

Exit ==
  /\ Free /\ finishing /\ Left = {}
  /\ outbox' = Append(outbox, [type |-> "finish", state |-> stored])
  /\ alive' = FALSE
  /\ UNCHANGED <<stored, cache, temp, ledger, seen, intent, pc, arg, ops, finishing,
                 final, faults, inbox>>

Step(c) ==
  \/ Loaded(c) \/ NotLoaded(c) \/ Got(c) \/ Funded(c)
  \/ Revert(c) \/ Return(c) \/ Throws(c) \/ Loop(c)
  \/ \E k \in Key : Get(c, k) \/ \E v \in Writes[c] \cup {Null} : Set(c, k, v)
  \/ \E m \in Moves(Amounts) : Ask(c, m)

RunnerNext ==
  TakeCall \/ TakeFinish \/ Exit \/ (\E c \in 1..NumCalls : Step(c))
  \/ \E k \in Key : Write(k) \/ DeleteThrows(k)
===============================================================================
