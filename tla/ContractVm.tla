------------------------------ MODULE ContractVm ------------------------------
(***************************************************************************)
(* The contract calls of a block: TxContext (witness/index.ts), VmContext  *)
(* (contractEngineV2.ts) and VmContainer (vm/utils.ts) on the node's side, *)
(* and the process that runs them, VmRunner.                               *)
(*                                                                         *)
(* The node sends one call, waits for an answer or for its timer, and      *)
(* sends the next.  A call the timer gave up on goes on in the process,    *)
(* and its answer is taken for that of the call waited for then.           *)
(***************************************************************************)
EXTENDS VmRunner

CONSTANT MaxTimeouts \* bound: calls that take longer than the timer

ASSUME VmAssumption == MaxTimeouts \in Nat

VARIABLES
  phase,    \* run, finish (waiting for the last answer) or done
  waiting,  \* the call waited for, or 0
  sent,     \* calls sent
  results,  \* of each call: what the block records of it
  touched,  \* accounts whose balance the block has changed
  timeouts,
  output    \* the contract's state the block records, Null before

vars == <<runnerVars, phase, waiting, sent, results, touched, timeouts, output>>

Init ==
  /\ RunnerInit
  /\ phase = "run" /\ waiting = 0 /\ sent = 0
  /\ results = <<>> /\ touched = {} /\ timeouts = 0 /\ output = Null

ToRunner(m) == inbox' = Append(inbox, m)
RunnerElse ==
  UNCHANGED <<stored, cache, temp, ledger, seen, intent, pc, arg, ops, finishing, final,
              faults>>

-------------------------------------------------------------------------------
(* executeTx of a contract call. *)

SendCall ==
  /\ phase = "run" /\ waiting = 0 /\ sent < NumCalls
  /\ sent' = sent + 1 /\ waiting' = sent + 1
  /\ ToRunner([type |-> "call", id |-> sent + 1, balances |-> touched])
  /\ RunnerElse
  /\ UNCHANGED <<alive, outbox, phase, results, touched, timeouts, output>>

\* applyLedgerOp of both sides, if they are accounts.
Touches(taken) == UNION {{taken[i].from, taken[i].to} \cap Account : i \in DOMAIN taken}

Arrived(type) == outbox # <<>> /\ Head(outbox).type = type /\ outbox' = Tail(outbox)

\* Whatever call the answer is of: reqId is not looked at.
Answered ==
  /\ Arrived("stop") /\ waiting # 0
  /\ results' = Append(results, [ok |-> Head(outbox).ok, ledger |-> Head(outbox).ledger])
  /\ touched' = touched \cup Touches(Head(outbox).ledger)
  /\ waiting' = 0
  /\ RunnerElse
  /\ UNCHANGED <<alive, inbox, phase, sent, timeouts, output>>

\* Nobody listens.
Dropped ==
  /\ Arrived("stop") /\ waiting = 0
  /\ RunnerElse
  /\ UNCHANGED <<alive, inbox, phase, waiting, sent, results, touched, timeouts, output>>

Timeout ==
  /\ waiting # 0 /\ timeouts < MaxTimeouts /\ timeouts' = timeouts + 1
  /\ results' = Append(results, [ok |-> FALSE, ledger |-> <<>>])
  /\ waiting' = 0
  /\ RunnerElse
  /\ UNCHANGED <<alive, inbox, outbox, phase, sent, touched, output>>

-------------------------------------------------------------------------------
(* finalize: finishIterator, then close. *)

SendFinish ==
  /\ phase = "run" /\ waiting = 0 /\ sent = NumCalls
  /\ phase' = "finish" /\ ToRunner([type |-> "finish"])
  /\ RunnerElse
  /\ UNCHANGED <<alive, outbox, waiting, sent, results, touched, timeouts, output>>

Finished ==
  /\ phase = "finish" /\ Arrived("finish")
  /\ phase' = "done" /\ output' = Head(outbox).state /\ alive' = FALSE
  /\ RunnerElse
  /\ UNCHANGED <<inbox, waiting, sent, results, touched, timeouts>>

Host == SendCall \/ Answered \/ Dropped \/ Timeout \/ SendFinish \/ Finished
HostIdle == UNCHANGED <<phase, waiting, sent, results, touched, timeouts, output>>

Next == Host \/ (RunnerNext /\ HostIdle)

Spec == Init /\ [][Next]_vars

\* The messages arrive, the timer of a call that is not answered fires, and the
\* process goes on; nothing says that a call which may run for ever returns.
RunnerStep == RunnerNext /\ (\A c \in 1..NumCalls : ~Loop(c)) /\ HostIdle
FairSpec == Spec /\ WF_vars(Host) /\ WF_vars(RunnerStep)

-------------------------------------------------------------------------------
Total(taken, a) ==
  LET sum[i \in 0..Len(taken)] ==
        IF i = 0 THEN 0
        ELSE sum[i - 1] + (IF taken[i].from = a THEN taken[i].amount ELSE 0)
  IN sum[Len(taken)]

VmTypeOK ==
  /\ stored \in [Key -> Value \cup {Null}]
  /\ DOMAIN cache \cup DOMAIN temp \cup final \subseteq Key
  /\ \A c \in 1..NumCalls : pc[c] \in {"none", "load", "run", "read", "fund", "stuck", "over"}
  /\ Cardinality({c \in 1..NumCalls : pc[c] \in {"run", "stuck"}}) =< 1
  /\ phase \in {"run", "finish", "done"} /\ waiting \in {0, sent} /\ sent \in 0..NumCalls
  /\ Len(results) = sent - (IF waiting = 0 THEN 0 ELSE 1)
  /\ touched \subseteq Account

InBound(sum, bound) == sum =< 0 \/ sum =< bound

\* What a call takes from any one user's account stays within the limit of its
\* intent, however many draws it makes, until a call times out and a later one
\* starts inside it.  Whose account it is nothing checks, so a call may take the
\* limit from each of several.
DrawnWithinIntent == timeouts = 0 =>
  \A i \in DOMAIN results, a \in User : InBound(Total(results[i].ledger, a), Limit[i])

\* All calls of a block together send no more from an account than it has, again
\* until one times out.  This is the sender's side: moving a negative amount takes
\* from the account it goes to, whose balance and intent nothing asks for.
NotOverdrawn == timeouts = 0 =>
  LET all[i \in 0..Len(results)] == IF i = 0 THEN <<>> ELSE all[i - 1] \o results[i].ledger
  IN \A a \in Account : InBound(Total(all[Len(results)], a), Funds[a])

\* Nothing that is taken is counted twice, also when answers are taken for those
\* of other calls.
TakenOnce ==
  \A i, j \in DOMAIN results :
    \A m \in DOMAIN results[i].ledger, n \in DOMAIN results[j].ledger :
      LET x == results[i].ledger[m]  y == results[j].ledger[n]
      IN x.by = y.by /\ x.nr = y.nr => i = j /\ m = n

\* Calls take from each account they send from within their intents and its funds,
\* and nothing taken is counted twice.
DrawsAreCovered == DrawnWithinIntent /\ NotOverdrawn /\ TakenOnce

\* Every block's execution comes to an end, whatever calls time out.
BlockEnds == <>(phase = "done")

-------------------------------------------------------------------------------
(* The calls are atomic, while IPFS answers and none takes longer than its *)
(* timer.                                                                 *)

Told == \E i \in DOMAIN outbox : outbox[i].type = "finish"

\* The process says nothing after it has told that it finished.
Oks ==
  [i \in 1..(Len(results) + Len(outbox) - (IF Told THEN 1 ELSE 0)) |->
     IF i =< Len(results) THEN results[i].ok ELSE outbox[i - Len(results)].ok]

Output ==
  IF phase = "done" THEN output
  ELSE IF Told THEN stored ELSE Null

Atomic == INSTANCE AtomicCalls WITH
  db <- Over(cache, stored), calls <- Oks, out <- Output

\* Every step of the node and the process is a step of AtomicCalls or none.
AtomicStep == faults' = 0 /\ timeouts' = 0 => [Atomic!Next]_<<Over(cache, stored), Oks, Output>>

\* Calls that are answered in time happen one after another, each as a whole or
\* not at all.
CallsAreAtomic == Atomic!Init /\ [][AtomicStep]_vars
===============================================================================
