--------------------------- MODULE ContractVmProofs ---------------------------
(***************************************************************************)
(* Proofs about ContractVm for every value of its constants: the state is  *)
(* of its type, calls take from each account within intent and funds,      *)
(* nothing is counted twice, and calls answered in time are atomic.        *)
(***************************************************************************)
EXTENDS ContractVm, SumTheorems

Calls == 1..NumCalls
Places == {"none", "load", "run", "read", "fund", "stuck", "over"}

\* What a call has taken, and the messages.
Entries == [from : Account, to : Account \cup {Null}, amount : Int, by : Calls, nr : Nat]
State == [Key -> Value \cup {Null}]
CallMessage == [type : {"call"}, id : Calls, balances : SUBSET Account]
FinishMessage == [type : {"finish"}]
StopMessage == [type : {"stop"}, id : Calls, ok : BOOLEAN, ledger : Seq(Entries)]
StateMessage == [type : {"finish"}, state : State]

\* Values by key.
Cells(f) == DOMAIN f \subseteq Key /\ \A k \in DOMAIN f : f[k] \in Value \cup {Null}

RunnerTyped ==
  /\ stored \in State /\ Cells(cache) /\ Cells(temp) /\ final \subseteq Key
  /\ ledger \in Seq(Entries) /\ seen \subseteq Account
  /\ pc \in [Calls -> Places] /\ ops \in [Calls -> Nat] /\ DOMAIN arg = Calls
  /\ \A c \in Calls :
       /\ pc[c] = "read" => arg[c] \in Key
       /\ pc[c] = "fund" => arg[c] \in Moves(Amounts)
  /\ \A c, d \in Calls : pc[c] \in {"run", "stuck"} /\ pc[d] \in {"run", "stuck"} => c = d
  /\ inbox \in Seq(CallMessage \cup FinishMessage) /\ outbox \in Seq(StopMessage \cup StateMessage)
  /\ faults \in Nat

HostTyped ==
  /\ phase \in {"run", "finish", "done"} /\ sent \in 0..NumCalls /\ waiting \in {0, sent}
  /\ results \in Seq([ok : BOOLEAN, ledger : Seq(Entries)])
  /\ Len(results) = sent - (IF waiting = 0 THEN 0 ELSE 1)
  /\ touched \subseteq Account /\ timeouts \in Nat

Typed == RunnerTyped /\ HostTyped

LEMMA TypedInit ==
  ASSUME Init PROVE Typed
<1> USE RunnerAssumption DEF Init, RunnerInit
<1>1. Calls \subseteq Int /\ Cells(None)
  BY DEF Calls, Cells, None
<1>2. RunnerTyped
  BY <1>1 DEF RunnerTyped, State, Calls, Places
<1>3. HostTyped
  BY DEF HostTyped
<1> QED
  BY <1>2, <1>3 DEF Typed

-------------------------------------------------------------------------------
(* Values by key. *)

LEMMA CellsOver ==
  ASSUME NEW f, NEW g, Cells(f), Cells(g) PROVE Cells(Over(f, g))
  BY DEF Cells, Over

LEMMA CellsPut ==
  ASSUME NEW f, Cells(f), NEW k \in Key, NEW x \in Value \cup {Null} PROVE Cells(Put(f, k, x))
  BY DEF Cells, Put

-------------------------------------------------------------------------------
(* What calls move. *)

LEMMA MovesAre ==
  ASSUME NEW m \in Moves(Amounts)
  PROVE  /\ m.from \in Account /\ m.to \in Account \cup {Null} /\ m.amount \in Int
         /\ m.from \in User /\ m.kind # "look" => m.kind = "draw"
<1>1. Amounts \subseteq Int /\ Self \in Own /\ User \cap Own = {}
  BY RunnerAssumption
<1>2. CASE m \in [kind : {"draw"}, from : Account, to : Own, amount : Amounts]
  BY <1>1, <1>2 DEF Account
<1>3. CASE m \in [kind : {"pay"}, from : Own, to : User \cup {Self, Null}, amount : Amounts]
  BY <1>1, <1>3 DEF Account
<1>4. CASE m \in [kind : {"look"}, from : Account, to : {Null}, amount : {0}]
  BY <1>4
<1> QED
  BY <1>2, <1>3, <1>4 DEF Moves

LEMMA EntryIs ==
  ASSUME NEW c \in Calls, NEW m \in Moves(Amounts), ops[c] \in Nat
  PROVE  /\ Entry(c, m) \in Entries /\ Entry(c, m).from = m.from /\ Entry(c, m).amount = m.amount
         /\ Entry(c, m).by = c /\ Entry(c, m).nr = ops[c]
<1>1. m.from \in Account /\ m.to \in Account \cup {Null} /\ m.amount \in Int
  BY MovesAre
<1> QED
  BY <1>1 DEF Entry, Entries

\* What both ends of a step keep.
LEMMA TypedTakeCall ==
  ASSUME Typed, TakeCall PROVE RunnerTyped'
<1>0. RunnerTyped
  BY DEF Typed
<1>1. Head(inbox) \in CallMessage /\ Tail(inbox) \in Seq(CallMessage \cup FinishMessage)
  BY <1>0 DEF TakeCall, RunnerTyped, CallMessage, FinishMessage
<1>2. PICK c \in Calls : c = Head(inbox).id /\ Head(inbox).balances \subseteq Account
  BY <1>1 DEF CallMessage
<1>3. /\ pc' = [pc EXCEPT ![c] = "load"] /\ inbox' = Tail(inbox) /\ seen' = Head(inbox).balances
      /\ UNCHANGED <<stored, cache, temp, ledger, arg, ops, finishing, final, alive, faults, outbox>>
  BY <1>2 DEF TakeCall, Goto
<1>4. pc' \in [Calls -> Places] /\ \A d \in Calls : pc'[d] = pc[d] \/ pc'[d] = "load"
  BY <1>0, <1>3 DEF RunnerTyped, Places
<1> QED
  BY <1>0, <1>1, <1>2, <1>3, <1>4 DEF RunnerTyped, Cells

\* One call at most is on the thread.
LEMMA OneRuns ==
  ASSUME RunnerTyped, NEW c \in Calls, NEW step \in Places, pc' = [pc EXCEPT ![c] = step],
         step \in {"run", "stuck"} => pc[c] \in {"run", "stuck"} \/ Free
  PROVE  /\ pc' \in [Calls -> Places] /\ pc'[c] = step /\ \A d \in Calls : d # c => pc'[d] = pc[d]
         /\ \A d, e \in Calls : pc'[d] \in {"run", "stuck"} /\ pc'[e] \in {"run", "stuck"} => d = e
<1>1. pc' \in [Calls -> Places] /\ pc'[c] = step /\ \A d \in Calls : d # c => pc'[d] = pc[d]
  BY DEF RunnerTyped
<1>2. step \in {"run", "stuck"} => \A d \in Calls : d # c => pc[d] \notin {"run", "stuck"}
  <2>1. CASE pc[c] \in {"run", "stuck"}
    BY <2>1 DEF RunnerTyped
  <2>2. CASE Free
    BY <2>2 DEF Free, Calls
  <2> QED
    BY <2>1, <2>2
<1>3. \A d, e \in Calls : pc'[d] \in {"run", "stuck"} /\ pc'[e] \in {"run", "stuck"} => d = e
  BY <1>1, <1>2 DEF RunnerTyped
<1> QED
  BY <1>1, <1>3

\* The thread's steps about a call that neither write nor answer.
LEMMA TypedMoves ==
  ASSUME Typed, NEW c \in Calls,
         \/ Loaded(c) \/ Loop(c) \/ (\E k \in Key : Get(c, k))
         \/ \E m \in Moves(Amounts) : Ask(c, m)
  PROVE  RunnerTyped'
<1>0. RunnerTyped
  BY DEF Typed
<1>1. UNCHANGED <<stored, cache, temp, ledger, seen, final, faults, inbox, outbox>>
  BY DEF Loaded, Loop, Get, Ask
<1>2. PICK step \in Places : /\ pc' = [pc EXCEPT ![c] = step]
                             /\ step \in {"run", "stuck"} => pc[c] \in {"run", "stuck"} \/ Free
  BY DEF Loaded, Loop, Get, Ask, Goto, Places, Running
<1>3. /\ pc' \in [Calls -> Places] /\ pc'[c] = step /\ \A d \in Calls : d # c => pc'[d] = pc[d]
      /\ \A d, e \in Calls : pc'[d] \in {"run", "stuck"} /\ pc'[e] \in {"run", "stuck"} => d = e
  BY <1>0, <1>2, OneRuns
<1>4. ops' \in [Calls -> Nat]
  BY <1>0 DEF Loaded, Loop, Get, Ask, More, RunnerTyped
<1>5. DOMAIN arg' = Calls /\ \A d \in Calls : d # c => arg'[d] = arg[d]
  BY <1>0 DEF Loaded, Loop, Get, Ask, RunnerTyped
<1>6. /\ step = "read" => arg'[c] \in Key
      /\ step = "fund" => arg'[c] \in Moves(Amounts)
  BY <1>0, <1>2, <1>3, RunnerAssumption DEF Loaded, Loop, Get, Ask, RunnerTyped, Goto
<1>7. ASSUME NEW d \in Calls
      PROVE  /\ pc'[d] = "read" => arg'[d] \in Key
             /\ pc'[d] = "fund" => arg'[d] \in Moves(Amounts)
  <2>1. CASE d = c
    BY <1>3, <1>6, <2>1
  <2>2. CASE d # c
    BY <1>0, <1>3, <1>5, <2>2 DEF RunnerTyped
  <2> QED
    BY <2>1, <2>2
<1> QED
  BY <1>0, <1>1, <1>3, <1>4, <1>5, <1>7 DEF RunnerTyped, Cells

\* Those that do: to "run" or "over".
LEMMA TypedWrites ==
  ASSUME Typed, NEW c \in Calls,
         \/ Got(c) \/ Funded(c) \/ NotLoaded(c) \/ Revert(c) \/ Return(c) \/ Throws(c)
         \/ \E k \in Key : \E v \in Writes[c] \cup {Null} : Set(c, k, v)
  PROVE  RunnerTyped'
<1>0. RunnerTyped
  BY DEF Typed
<1> USE DEF Throws, Throw, Reverted
<1>1. UNCHANGED <<stored, arg, final, inbox>>
  BY DEF Got, Funded, NotLoaded, Revert, Return, Set
<1>2. /\ pc' \in [Calls -> Places] /\ \A d \in Calls : pc'[d] = pc[d] \/ pc'[d] \in {"run", "over"}
      /\ \A d, e \in Calls : pc'[d] \in {"run", "stuck"} /\ pc'[e] \in {"run", "stuck"} => d = e
  <2>1. CASE UNCHANGED pc
    BY <1>0, <2>1 DEF RunnerTyped
  <2>2. ASSUME NEW step \in {"run", "over"}, pc' = [pc EXCEPT ![c] = step], step = "run" => Free
        PROVE  /\ pc' \in [Calls -> Places]
               /\ \A d \in Calls : pc'[d] = pc[d] \/ pc'[d] \in {"run", "over"}
               /\ \A d, e \in Calls : pc'[d] \in {"run", "stuck"} /\ pc'[e] \in {"run", "stuck"} => d = e
    <3>1. step \in Places
      BY DEF Places
    <3>2. step \in {"run", "stuck"} => pc[c] \in {"run", "stuck"} \/ Free
      BY <2>2
    <3> HIDE DEF Throws, Throw
    <3>3. /\ pc' \in [Calls -> Places] /\ pc'[c] = step /\ \A d \in Calls : d # c => pc'[d] = pc[d]
          /\ \A d, e \in Calls : pc'[d] \in {"run", "stuck"} /\ pc'[e] \in {"run", "stuck"} => d = e
      BY <1>0, <2>2, <3>1, <3>2, OneRuns
    <3> QED
      BY <3>3
  <2>3. CASE Got(c) \/ Funded(c)
    BY <2>2, <2>3 DEF Got, Funded, Goto
  <2>4. CASE NotLoaded(c) \/ Return(c) \/ Throws(c)
    BY <2>2, <2>4 DEF NotLoaded, Return, Goto
  <2>5. CASE Revert(c) \/ \E k \in Key : \E v \in Writes[c] \cup {Null} : Set(c, k, v)
    BY <2>1, <2>5 DEF Revert, Set
  <2> QED
    BY <2>3, <2>4, <2>5
<1>3. ops' \in [Calls -> Nat]
  <2>1. UNCHANGED ops \/ More(c)
    BY DEF Got, Funded, NotLoaded, Revert, Return, Set
  <2> QED
    BY <1>0, <2>1 DEF More, RunnerTyped
<1>4. Cells(cache') /\ Cells(temp')
  <2>1. Cells(None)
    BY DEF Cells, None
  <2>2. CASE Got(c)
    <3>1. arg[c] \in Key /\ stored[arg[c]] \in Value \cup {Null}
      BY <1>0, <2>2 DEF Got, RunnerTyped, State
    <3> QED
      BY <1>0, <2>2, <3>1, CellsPut DEF Got, RunnerTyped
  <2>3. CASE \E k \in Key : \E v \in Writes[c] \cup {Null} : Set(c, k, v)
    <3>1. Writes[c] \subseteq Value
      BY RunnerAssumption DEF Calls
    <3> QED
      BY <1>0, <2>3, <3>1, CellsPut DEF Set, RunnerTyped
  <2>4. CASE Return(c)
    BY <1>0, <2>1, <2>4, CellsOver DEF Return, Committed, RunnerTyped
  <2>5. CASE Funded(c) \/ NotLoaded(c) \/ Revert(c) \/ Throws(c)
    BY <1>0, <2>1, <2>5 DEF Funded, NotLoaded, Revert, RunnerTyped
  <2> QED
    BY <2>2, <2>3, <2>4, <2>5
<1>5. ledger' \in Seq(Entries) /\ seen' \subseteq Account
  <2>1. CASE Funded(c)
    <3>1. arg[c] \in Moves(Amounts) /\ ops[c] \in Nat
      BY <1>0, <2>1 DEF Funded, RunnerTyped
    <3>2. arg[c].from \in Account /\ Entry(c, arg[c]) \in Entries
      BY <3>1, MovesAre, EntryIs
    <3> QED
      BY <1>0, <2>1, <3>2 DEF Funded, RunnerTyped
  <2>2. CASE ~Funded(c)
    <3>1. (UNCHANGED ledger \/ ledger' = <<>>) /\ UNCHANGED seen
      BY <2>2 DEF Got, NotLoaded, Revert, Return, Set
    <3>2. ledger \in Seq(Entries) /\ seen \subseteq Account /\ <<>> \in Seq(Entries)
      BY <1>0 DEF RunnerTyped
    <3> QED
      BY <3>1, <3>2
  <2> QED
    BY <2>1, <2>2
<1>6. outbox' \in Seq(StopMessage \cup StateMessage)
  <2>1. ASSUME NEW good \in BOOLEAN, NEW taken \in Seq(Entries), outbox' = Append(outbox, Answer(c, good, taken))
        PROVE  outbox' \in Seq(StopMessage \cup StateMessage)
    <3>1. Answer(c, good, taken) \in StopMessage
      BY DEF Answer, StopMessage
    <3> QED
      BY <1>0, <2>1, <3>1 DEF RunnerTyped
  <2>2. <<>> \in Seq(Entries) /\ ledger \in Seq(Entries)
    BY <1>0 DEF RunnerTyped
  <2> QED
    BY <1>0, <2>1, <2>2 DEF Got, Funded, NotLoaded, Revert, Return, Set, RunnerTyped
<1>7. faults' \in Nat
  <2>1. UNCHANGED faults \/ Fault
    BY DEF Got, Funded, NotLoaded, Revert, Return, Set
  <2> QED
    BY <1>0, <2>1 DEF Fault, RunnerTyped
<1>8. \A d \in Calls :
        /\ pc'[d] = "read" => arg'[d] \in Key
        /\ pc'[d] = "fund" => arg'[d] \in Moves(Amounts)
  BY <1>0, <1>1, <1>2 DEF RunnerTyped
<1>9. /\ stored' \in State /\ final' \subseteq Key /\ DOMAIN arg' = Calls
      /\ inbox' \in Seq(CallMessage \cup FinishMessage)
  BY <1>0, <1>1 DEF RunnerTyped
<1> QED
  BY <1>2, <1>3, <1>4, <1>5, <1>6, <1>7, <1>8, <1>9 DEF RunnerTyped

\* Finishing.
LEMMA TypedFinishes ==
  ASSUME Typed, TakeFinish \/ Exit \/ \E k \in Key : Write(k) \/ DeleteThrows(k)
  PROVE  RunnerTyped'
<1>0. RunnerTyped
  BY DEF Typed
<1>1. UNCHANGED <<cache, temp, ledger, seen, pc, arg, ops>>
  BY DEF TakeFinish, Exit, Write, DeleteThrows
<1>2. stored' \in State /\ final' \subseteq Key
  <2>1. CASE \E k \in Key : Write(k)
    <3>1. PICK k \in Key : Write(k)
      BY <2>1
    <3>2. cache[k] \in Value \cup {Null}
      BY <1>0, <3>1 DEF Write, Left, RunnerTyped, Cells
    <3> QED
      BY <1>0, <3>1, <3>2 DEF Write, Written, RunnerTyped, State
  <2>2. CASE ~\E k \in Key : Write(k)
    BY <1>0, <2>2 DEF TakeFinish, Exit, DeleteThrows, RunnerTyped
  <2> QED
    BY <2>1, <2>2
<1>3. inbox' \in Seq(CallMessage \cup FinishMessage) /\ faults' \in Nat
  <2>1. UNCHANGED faults \/ Fault
    BY DEF TakeFinish, Exit, Write, DeleteThrows
  <2>2. UNCHANGED inbox \/ (inbox # <<>> /\ inbox' = Tail(inbox))
    BY DEF TakeFinish, Exit, Write, DeleteThrows
  <2>3. faults' \in Nat
    BY <1>0, <2>1 DEF Fault, RunnerTyped
  <2>4. inbox \in Seq(CallMessage \cup FinishMessage)
    BY <1>0 DEF RunnerTyped
  <2> QED
    BY <2>2, <2>3, <2>4
<1>4. outbox' \in Seq(StopMessage \cup StateMessage)
  <2>1. [type |-> "finish", state |-> stored] \in StateMessage
    BY <1>0 DEF RunnerTyped, StateMessage
  <2>2. UNCHANGED outbox \/ outbox' = Append(outbox, [type |-> "finish", state |-> stored])
    BY DEF TakeFinish, Exit, Write, DeleteThrows
  <2>3. outbox \in Seq(StopMessage \cup StateMessage)
    BY <1>0 DEF RunnerTyped
  <2> QED
    BY <2>1, <2>2, <2>3
<1> QED
  BY <1>0, <1>1, <1>2, <1>3, <1>4 DEF RunnerTyped

LEMMA TypedRunner ==
  ASSUME Typed, RunnerNext, HostIdle PROVE Typed'
<1>1. RunnerTyped'
  BY TypedTakeCall, TypedMoves, TypedWrites, TypedFinishes DEF RunnerNext, Step, Calls
<1>2. HostTyped'
  BY DEF Typed, HostTyped, HostIdle
<1> QED
  BY <1>1, <1>2 DEF Typed

LEMMA TypedHost ==
  ASSUME Typed, Host PROVE Typed'
<1>0. RunnerTyped /\ HostTyped /\ NumCalls \in Nat
  BY RunnerAssumption DEF Typed
<1>1. RunnerElse /\ \A m \in StopMessage : m.ledger \in Seq(Entries) /\ m.ok \in BOOLEAN
  BY DEF Host, SendCall, Answered, Dropped, Timeout, SendFinish, Finished, StopMessage
<1>2. /\ inbox' \in Seq(CallMessage \cup FinishMessage)
      /\ outbox' \in Seq(StopMessage \cup StateMessage)
  <2>1. CASE SendCall
    <3>1. sent + 1 \in Calls
      BY <1>0, <2>1 DEF SendCall, HostTyped, Calls
    <3>2. [type |-> "call", id |-> sent + 1, balances |-> touched] \in CallMessage
      BY <1>0, <3>1 DEF HostTyped, CallMessage
    <3> QED
      BY <1>0, <2>1, <3>2 DEF SendCall, ToRunner, RunnerTyped
  <2>2. CASE SendFinish
    <3>1. [type |-> "finish"] \in FinishMessage
      BY DEF FinishMessage
    <3> QED
      BY <1>0, <2>2, <3>1 DEF SendFinish, ToRunner, RunnerTyped
  <2>3. CASE Answered \/ Dropped \/ Finished
    <3>1. UNCHANGED inbox /\ outbox # <<>> /\ outbox' = Tail(outbox)
      BY <2>3 DEF Answered, Dropped, Finished, Arrived
    <3> QED
      BY <1>0, <3>1 DEF RunnerTyped
  <2>4. CASE Timeout
    BY <1>0, <2>4 DEF Timeout, RunnerTyped
  <2> QED
    BY <2>1, <2>2, <2>3, <2>4 DEF Host
<1>3. RunnerTyped'
  <2>1. UNCHANGED <<stored, cache, temp, ledger, seen, intent, pc, arg, ops, finishing, final, faults>>
    BY <1>1 DEF RunnerElse
  <2> QED
    BY <1>0, <1>2, <2>1 DEF RunnerTyped
<1>4. HostTyped'
  <2>1. CASE SendCall
    BY <1>0, <2>1 DEF SendCall, HostTyped
  <2>2. CASE Answered
    <3>1. Head(outbox) \in StopMessage
      BY <1>0, <2>2 DEF Answered, Arrived, RunnerTyped, StateMessage, StopMessage
    <3>2. PICK good \in BOOLEAN, taken \in Seq(Entries) :
            good = Head(outbox).ok /\ taken = Head(outbox).ledger
      BY <1>1, <3>1
    <3>4. Touches(taken) \subseteq Account
      BY DEF Touches
    <3>5. /\ results' = Append(results, [ok |-> good, ledger |-> taken])
          /\ touched' = touched \cup Touches(taken) /\ waiting' = 0 /\ waiting # 0
          /\ UNCHANGED <<phase, sent, timeouts>>
      BY <2>2, <3>2 DEF Answered
    <3> QED
      BY <1>0, <3>4, <3>5 DEF HostTyped
  <2>3. CASE Dropped
    BY <1>0, <2>3 DEF Dropped, HostTyped
  <2>4. CASE Timeout
    <3>1. <<>> \in Seq(Entries)
      OBVIOUS
    <3> QED
      BY <1>0, <2>4, <3>1 DEF Timeout, HostTyped
  <2>5. CASE SendFinish
    BY <1>0, <2>5 DEF SendFinish, HostTyped
  <2>6. CASE Finished
    BY <1>0, <2>6 DEF Finished, HostTyped
  <2> QED
    BY <2>1, <2>2, <2>3, <2>4, <2>5, <2>6 DEF Host
<1> QED
  BY <1>3, <1>4 DEF Typed

LEMMA TypedStep ==
  ASSUME Typed, [Next]_vars PROVE Typed'
<1>1. CASE UNCHANGED vars
  BY <1>1 DEF vars, runnerVars, Typed, RunnerTyped, HostTyped
<1> QED
  BY <1>1, TypedHost, TypedRunner DEF Next

LEMMA AlwaysTyped == Spec => []Typed
  BY TypedInit, TypedStep, PTL DEF Spec

LEMMA TypedIsOK ==
  ASSUME Typed PROVE VmTypeOK
<1> DEFINE onThread == {c \in Calls : pc[c] \in {"run", "stuck"}}
<1>1. Cardinality(onThread) =< 1
  <2>1. CASE onThread = {}
    BY <2>1, FS_EmptySet
  <2>2. CASE onThread # {}
    <3>1. PICK c : c \in onThread
      BY <2>2
    <3>2. onThread = {c}
      BY <3>1 DEF Typed, RunnerTyped
    <3>3. Cardinality({c}) = 1
      BY FS_Singleton
    <3> HIDE DEF onThread
    <3> QED
      BY <3>2, <3>3
  <2> QED
    BY <2>1, <2>2
<1> QED
  BY <1>1 DEF Typed, RunnerTyped, HostTyped, VmTypeOK, Cells, State, Places, Calls

\* Whatever IPFS does and however late answers are, every part of the state is of its
\* type, no more than one call is on the thread, and a call has one result.
THEOREM VmTypeCorrect == Spec => []VmTypeOK
<1>1. Typed => VmTypeOK
  BY TypedIsOK
<1> QED
  BY <1>1, AlwaysTyped, PTL

-------------------------------------------------------------------------------
(* What is taken is known by the call and the number of its system call. *)

Same(x, y) == x.by = y.by /\ x.nr = y.nr
Within(s) == \A m, n \in DOMAIN s : Same(s[m], s[n]) => m = n
Apart(s, t) == \A m \in DOMAIN s : \A n \in DOMAIN t : ~Same(s[m], t[n])

\* Made by system calls that are over, at what calls have made (o) and where they are (p).
Made(s, o, p) ==
  \A m \in DOMAIN s : s[m].nr =< o[s[m].by] /\ (p[s[m].by] = "fund" => s[m].nr < o[s[m].by])

\* What a message says was taken.
Said(m) == IF m.type = "stop" THEN m.ledger ELSE <<>>

OnceInv ==
  /\ Within(ledger) /\ Made(ledger, ops, pc)
  /\ \A i \in DOMAIN outbox : /\ Within(Said(outbox[i])) /\ Made(Said(outbox[i]), ops, pc)
                              /\ Apart(Said(outbox[i]), ledger)
  /\ \A i \in DOMAIN results : /\ Within(results[i].ledger) /\ Made(results[i].ledger, ops, pc)
                               /\ Apart(results[i].ledger, ledger)
  /\ \A i, j \in DOMAIN outbox : i # j => Apart(Said(outbox[i]), Said(outbox[j]))
  /\ \A i, j \in DOMAIN results : i # j => Apart(results[i].ledger, results[j].ledger)
  /\ \A i \in DOMAIN results : \A j \in DOMAIN outbox : Apart(results[i].ledger, Said(outbox[j]))

\* A system call is counted before the call waits, and none is taken back.
Counted ==
  \A c \in Calls : /\ ops[c] \in Nat /\ ops'[c] \in Nat /\ ops'[c] >= ops[c]
                   /\ pc'[c] = "fund" => pc[c] = "fund" \/ ops'[c] > ops[c]

LEMMA AlwaysCounted ==
  ASSUME Typed, [Next]_vars PROVE Counted
<1>0. RunnerTyped /\ Typed'
  BY TypedStep DEF Typed
<1>1. ops \in [Calls -> Nat] /\ ops' \in [Calls -> Nat] /\ pc \in [Calls -> Places]
  BY <1>0 DEF Typed, RunnerTyped
<1>2. CASE UNCHANGED <<pc, ops>>
  BY <1>1, <1>2 DEF Counted
<1>3. ASSUME UNCHANGED ops, NEW c \in Calls, NEW step, step # "fund", pc' = [pc EXCEPT ![c] = step]
      PROVE  Counted
  BY <1>1, <1>3 DEF Counted
<1>4. ASSUME NEW c \in Calls, More(c), NEW step, pc' = [pc EXCEPT ![c] = step] \/ UNCHANGED pc
      PROVE  Counted
  BY <1>1, <1>4 DEF Counted, More
<1>5. CASE UNCHANGED vars \/ Host \/ TakeFinish \/ Exit \/ \E k \in Key : Write(k) \/ DeleteThrows(k)
  BY <1>2, <1>5 DEF vars, runnerVars, Host, SendCall, Answered, Dropped, Timeout, SendFinish,
                    Finished, RunnerElse, TakeFinish, Exit, Write, DeleteThrows
<1>6. CASE TakeCall
  <2>1. Head(inbox) \in CallMessage
    BY <1>0, <1>6 DEF TakeCall, RunnerTyped, CallMessage, FinishMessage
  <2> QED
    BY <1>3, <1>6, <2>1 DEF TakeCall, Goto, CallMessage
<1>7. ASSUME NEW c \in Calls, Step(c) PROVE Counted
  <2>1. CASE Loaded(c) \/ NotLoaded(c) \/ Got(c) \/ Funded(c) \/ Return(c) \/ Throws(c) \/ Loop(c)
    BY <1>3, <2>1 DEF Loaded, NotLoaded, Got, Funded, Return, Throws, Throw, Loop, Goto
  <2>2. CASE Revert(c) \/ (\E k \in Key : Get(c, k)) \/ \E v \in Writes[c] \cup {Null}, k \in Key : Set(c, k, v)
    BY <1>4, <2>2 DEF Revert, Get, Set, Goto
  <2>3. CASE \E m \in Moves(Amounts) : Ask(c, m)
    BY <1>4, <2>3 DEF Ask, Goto
  <2> QED
    BY <1>7, <2>1, <2>2, <2>3 DEF Step
<1> QED
  BY <1>5, <1>6, <1>7 DEF Next, RunnerNext, Calls

LEMMA MadeStays ==
  ASSUME Counted, NEW s \in Seq(Entries), Made(s, ops, pc) PROVE Made(s, ops', pc')
<1>1. ASSUME NEW m \in DOMAIN s
      PROVE  s[m].nr =< ops'[s[m].by] /\ (pc'[s[m].by] = "fund" => s[m].nr < ops'[s[m].by])
  <2>1. s[m] \in Entries
    OBVIOUS
  <2>2. s[m].by \in Calls /\ s[m].nr \in Nat
    BY <2>1 DEF Entries
  <2> QED
    BY <2>2 DEF Counted, Made
<1> QED
  BY <1>1 DEF Made

\* What is said is a sequence of what was taken.
LEMMA SaidIs ==
  ASSUME Typed
  PROVE  /\ ledger \in Seq(Entries)
         /\ \A i \in DOMAIN outbox : Said(outbox[i]) \in Seq(Entries)
         /\ \A i \in DOMAIN results : results[i].ledger \in Seq(Entries)
<1>1. ASSUME NEW i \in DOMAIN outbox PROVE Said(outbox[i]) \in Seq(Entries)
  <2>1. outbox \in Seq(StopMessage \cup StateMessage)
    BY DEF Typed, RunnerTyped
  <2>2. outbox[i] \in StopMessage \/ outbox[i] \in StateMessage
    BY <2>1
  <2>3. CASE outbox[i] \in StopMessage
    BY <2>3 DEF Said, StopMessage
  <2>4. CASE outbox[i] \in StateMessage
    <3>1. Said(outbox[i]) = <<>>
      BY <2>4 DEF Said, StateMessage
    <3>2. <<>> \in Seq(Entries)
      OBVIOUS
    <3> QED
      BY <3>1, <3>2
  <2> QED
    BY <2>2, <2>3, <2>4
<1>2. ASSUME NEW i \in DOMAIN results PROVE results[i].ledger \in Seq(Entries)
  <2>1. PICK R : R = [ok : BOOLEAN, ledger : Seq(Entries)]
    OBVIOUS
  <2>2. results \in Seq(R)
    BY <2>1 DEF Typed, HostTyped
  <2>3. results[i] \in R
    BY <2>2
  <2> QED
    BY <2>1, <2>3
<1> QED
  BY <1>1, <1>2 DEF Typed, RunnerTyped

\* What was made stays so, whoever has it.
LEMMA AllMadeStays ==
  ASSUME Typed, OnceInv, Counted
  PROVE  /\ Made(ledger, ops', pc')
         /\ \A i \in DOMAIN outbox : Made(Said(outbox[i]), ops', pc')
         /\ \A i \in DOMAIN results : Made(results[i].ledger, ops', pc')
  BY SaidIs, MadeStays DEF OnceInv

\* Nothing taken is apart from everything.
LEMMA NothingIsApart ==
  /\ Within(<<>>) /\ \A s : Apart(<<>>, s) /\ Apart(s, <<>>)
  /\ \A o, p : Made(<<>>, o, p)
  BY DEF Within, Apart, Made

LEMMA OnceStays ==
  ASSUME Typed, OnceInv, Counted, UNCHANGED <<outbox, results>>, UNCHANGED ledger \/ ledger' = <<>>
  PROVE  OnceInv'
  BY AllMadeStays, NothingIsApart DEF OnceInv

\* What is taken now is new.
LEMMA OnceFunded ==
  ASSUME Typed, OnceInv, Counted, NEW c \in Calls, Funded(c), HostIdle PROVE OnceInv'
<1>1. CASE UNCHANGED <<outbox, results, ledger>>
  BY <1>1, OnceStays
<1>2. ASSUME NEW e, e.by = c, e.nr = ops[c], ledger' = Append(ledger, e),
             UNCHANGED <<outbox, results, ops>>
      PROVE  OnceInv'
  <2>1. /\ ledger \in Seq(Entries) /\ pc[c] = "fund" /\ ops[c] \in Nat
        /\ pc' = [pc EXCEPT ![c] = "run"] /\ pc \in [Calls -> Places]
    BY DEF Typed, RunnerTyped, Funded, Goto
  <2>2. ASSUME NEW s \in Seq(Entries), Made(s, ops, pc), NEW m \in DOMAIN s
        PROVE  ~Same(s[m], e) /\ ~Same(e, s[m])
    <3>1. s[m] \in Entries
      OBVIOUS
    <3>2. s[m].nr \in Nat
      BY <3>1 DEF Entries
    <3>3. s[m].by = c => s[m].nr < ops[c]
      BY <2>1, <2>2 DEF Made
    <3> QED
      BY <1>2, <2>1, <3>2, <3>3 DEF Same
  <2>3. /\ DOMAIN ledger' = 1..(Len(ledger) + 1) /\ DOMAIN ledger = 1..Len(ledger)
        /\ Len(ledger) \in Nat /\ ledger'[Len(ledger) + 1] = e
        /\ \A m \in DOMAIN ledger : ledger'[m] = ledger[m]
    BY <1>2, <2>1
  <2>4. Within(ledger')
    <3>1. Within(ledger) /\ Made(ledger, ops, pc)
      BY DEF OnceInv
    <3> SUFFICES ASSUME NEW m \in DOMAIN ledger', NEW n \in DOMAIN ledger',
                        Same(ledger'[m], ledger'[n])
                 PROVE  m = n
      BY DEF Within
    <3>2. CASE m \in DOMAIN ledger /\ n \in DOMAIN ledger
      BY <2>3, <3>1, <3>2 DEF Within
    <3>3. CASE m = Len(ledger) + 1 /\ n \in DOMAIN ledger
      BY <2>1, <2>2, <2>3, <3>1, <3>3
    <3>4. CASE m \in DOMAIN ledger /\ n = Len(ledger) + 1
      BY <2>1, <2>2, <2>3, <3>1, <3>4
    <3> QED
      BY <2>3, <3>2, <3>3, <3>4
  <2>5. Made(ledger', ops', pc')
    <3>1. Made(ledger, ops', pc')
      BY AllMadeStays
    <3>2. pc'[c] = "run" /\ ops'[c] = ops[c]
      BY <1>2, <2>1
    <3> SUFFICES ASSUME NEW m \in DOMAIN ledger'
                 PROVE  /\ ledger'[m].nr =< ops'[ledger'[m].by]
                        /\ pc'[ledger'[m].by] = "fund" => ledger'[m].nr < ops'[ledger'[m].by]
      BY DEF Made
    <3>3. CASE m \in DOMAIN ledger
      BY <2>3, <3>1, <3>3 DEF Made
    <3>4. CASE m = Len(ledger) + 1
      BY <1>2, <2>1, <2>3, <3>2, <3>4
    <3> QED
      BY <2>3, <3>3, <3>4
  <2>6. ASSUME NEW s \in Seq(Entries), Made(s, ops, pc), Apart(s, ledger) PROVE Apart(s, ledger')
    <3> SUFFICES ASSUME NEW m \in DOMAIN s, NEW n \in DOMAIN ledger' PROVE ~Same(s[m], ledger'[n])
      BY DEF Apart
    <3>1. CASE n \in DOMAIN ledger
      BY <2>3, <2>6, <3>1 DEF Apart
    <3>2. CASE n = Len(ledger) + 1
      BY <2>2, <2>3, <2>6, <3>2
    <3> QED
      BY <2>3, <3>1, <3>2
  <2>7. /\ \A i \in DOMAIN outbox : Apart(Said(outbox[i]), ledger')
        /\ \A i \in DOMAIN results : Apart(results[i].ledger, ledger')
    BY <2>6, SaidIs DEF OnceInv
  <2> QED
    BY <1>2, <2>4, <2>5, <2>7, AllMadeStays DEF OnceInv
<1>3. CASE ~Allowed(c, arg[c])
  BY <1>1, <1>3 DEF Funded, HostIdle
<1>4. CASE Allowed(c, arg[c])
  <2>1. Entry(c, arg[c]).by = c /\ Entry(c, arg[c]).nr = ops[c]
    BY DEF Entry
  <2>2. ledger' = Append(ledger, Entry(c, arg[c])) /\ UNCHANGED <<outbox, results, ops>>
    BY <1>4 DEF Funded, HostIdle
  <2> QED
    BY <1>2, <2>1, <2>2
<1> QED
  BY <1>3, <1>4

\* What is said of a call is what is in the ledger stack, which then is empty, or
\* nothing.
LEMMA OnceAnswers ==
  ASSUME Typed, OnceInv, Counted, UNCHANGED results, NEW m, outbox' = Append(outbox, m),
         \/ Said(m) = <<>> /\ (UNCHANGED ledger \/ ledger' = <<>>)
         \/ Said(m) = ledger /\ ledger' = <<>>
  PROVE  OnceInv'
<1>1. /\ DOMAIN outbox' = 1..(Len(outbox) + 1) /\ DOMAIN outbox = 1..Len(outbox)
      /\ Len(outbox) \in Nat /\ outbox'[Len(outbox) + 1] = m
      /\ \A i \in DOMAIN outbox : outbox'[i] = outbox[i]
  <2>1. outbox \in Seq(StopMessage \cup StateMessage)
    BY DEF Typed, RunnerTyped
  <2> QED
    BY <2>1
<1>2. ASSUME NEW s, Apart(s, ledger) PROVE Apart(s, Said(m)) /\ Apart(Said(m), s) /\ Apart(s, ledger')
  BY <1>2, NothingIsApart DEF Apart, Same
<1>3. Within(Said(m)) /\ Made(Said(m), ops', pc') /\ Apart(Said(m), ledger')
  BY AllMadeStays, NothingIsApart DEF OnceInv
<1>4. Within(ledger') /\ Made(ledger', ops', pc')
  BY AllMadeStays, NothingIsApart DEF OnceInv
<1>5. ASSUME NEW i \in DOMAIN outbox'
      PROVE  /\ Within(Said(outbox'[i])) /\ Made(Said(outbox'[i]), ops', pc')
             /\ Apart(Said(outbox'[i]), ledger')
             /\ \A r \in DOMAIN results : Apart(results[r].ledger, Said(outbox'[i]))
  <2>1. CASE i \in DOMAIN outbox
    BY <1>1, <1>2, <2>1, AllMadeStays DEF OnceInv
  <2>2. CASE i = Len(outbox) + 1
    BY <1>1, <1>2, <1>3, <2>2 DEF OnceInv
  <2> QED
    BY <1>1, <2>1, <2>2
<1>6. ASSUME NEW i \in DOMAIN outbox', NEW j \in DOMAIN outbox', i # j
      PROVE  Apart(Said(outbox'[i]), Said(outbox'[j]))
  <2>1. CASE i \in DOMAIN outbox /\ j \in DOMAIN outbox
    BY <1>1, <1>6, <2>1 DEF OnceInv
  <2>2. CASE i = Len(outbox) + 1 /\ j \in DOMAIN outbox
    BY <1>1, <1>2, <2>2 DEF OnceInv
  <2>3. CASE i \in DOMAIN outbox /\ j = Len(outbox) + 1
    BY <1>1, <1>2, <2>3 DEF OnceInv
  <2> QED
    BY <1>1, <1>6, <2>1, <2>2, <2>3
<1>7. ASSUME NEW i \in DOMAIN results
      PROVE  /\ Within(results[i].ledger) /\ Made(results[i].ledger, ops', pc')
             /\ Apart(results[i].ledger, ledger')
  BY <1>2, AllMadeStays DEF OnceInv
<1>8. \A i, j \in DOMAIN results : i # j => Apart(results[i].ledger, results[j].ledger)
  BY DEF OnceInv
<1> QED
  BY <1>4, <1>5, <1>6, <1>7, <1>8 DEF OnceInv

\* What the node hears goes to a call's result, or is not heard.
LEMMA OnceHears ==
  ASSUME Typed, OnceInv, Counted, UNCHANGED ledger,
         \/ outbox # <<>> /\ outbox' = Tail(outbox) /\ UNCHANGED results
         \/ /\ outbox # <<>> /\ outbox' = Tail(outbox)
            /\ \E x : x.ledger = Said(Head(outbox)) /\ results' = Append(results, x)
         \/ UNCHANGED outbox /\ \E x : x.ledger = <<>> /\ results' = Append(results, x)
  PROVE  OnceInv'
<1>1. outbox \in Seq(StopMessage \cup StateMessage)
  BY DEF Typed, RunnerTyped
<1>2. PICK R : results \in Seq(R)
  BY DEF Typed, HostTyped
<1>3. ASSUME outbox # <<>>, outbox' = Tail(outbox)
      PROVE  /\ Len(outbox) \in Nat \ {0} /\ DOMAIN outbox = 1..Len(outbox) /\ 1 \in DOMAIN outbox
             /\ Head(outbox) = outbox[1] /\ DOMAIN outbox' = 1..(Len(outbox) - 1)
             /\ \A i \in DOMAIN outbox' : i + 1 \in DOMAIN outbox /\ i + 1 # 1
                                          /\ outbox'[i] = outbox[i + 1]
  BY <1>1, <1>3
<1>4. ASSUME outbox # <<>>, outbox' = Tail(outbox)
      PROVE  /\ \A i \in DOMAIN outbox' :
                  /\ Within(Said(outbox'[i])) /\ Made(Said(outbox'[i]), ops', pc')
                  /\ Apart(Said(outbox'[i]), ledger') /\ Apart(Said(Head(outbox)), Said(outbox'[i]))
                  /\ \A r \in DOMAIN results : Apart(results[r].ledger, Said(outbox'[i]))
             /\ \A i, j \in DOMAIN outbox' : i # j => Apart(Said(outbox'[i]), Said(outbox'[j]))
  <2>0. DOMAIN outbox' = 1..(Len(outbox) - 1) /\ Len(outbox) \in Nat
    BY <1>3, <1>4
  <2>1. DOMAIN outbox' \subseteq Int
    BY <2>0
  <2>2. \A i, j \in DOMAIN outbox' : i # j => i + 1 # j + 1
    BY <2>1
  <2> QED
    BY <1>3, <1>4, <2>2, AllMadeStays DEF OnceInv
<1>5. CASE outbox # <<>> /\ outbox' = Tail(outbox) /\ UNCHANGED results
  BY <1>4, <1>5, AllMadeStays DEF OnceInv
<1>6. ASSUME NEW x, results' = Append(results, x)
      PROVE  /\ DOMAIN results' = 1..(Len(results) + 1) /\ DOMAIN results = 1..Len(results)
             /\ Len(results) \in Nat /\ results'[Len(results) + 1] = x
             /\ \A i \in DOMAIN results : results'[i] = results[i]
  BY <1>2, <1>6
<1>7. ASSUME NEW x, results' = Append(results, x),
             Within(x.ledger), Made(x.ledger, ops', pc'), Apart(x.ledger, ledger),
             \A i \in DOMAIN results : Apart(results[i].ledger, x.ledger),
             \A j \in DOMAIN outbox' :
               /\ Within(Said(outbox'[j])) /\ Made(Said(outbox'[j]), ops', pc')
               /\ Apart(Said(outbox'[j]), ledger')
               /\ Apart(x.ledger, Said(outbox'[j]))
               /\ \A r \in DOMAIN results : Apart(results[r].ledger, Said(outbox'[j])),
             \A i, j \in DOMAIN outbox' : i # j => Apart(Said(outbox'[i]), Said(outbox'[j]))
      PROVE  OnceInv'
  <2>1. /\ DOMAIN results' = 1..(Len(results) + 1) /\ DOMAIN results = 1..Len(results)
        /\ Len(results) \in Nat /\ results'[Len(results) + 1] = x
        /\ \A i \in DOMAIN results : results'[i] = results[i]
    BY <1>6, <1>7
  <2>2. ASSUME NEW i \in DOMAIN results'
        PROVE  /\ Within(results'[i].ledger) /\ Made(results'[i].ledger, ops', pc')
               /\ Apart(results'[i].ledger, ledger')
               /\ \A j \in DOMAIN outbox' : Apart(results'[i].ledger, Said(outbox'[j]))
    <3>1. CASE i \in DOMAIN results
      BY <1>7, <2>1, <3>1, AllMadeStays DEF OnceInv
    <3>2. CASE i = Len(results) + 1
      BY <1>7, <2>1, <3>2
    <3> QED
      BY <2>1, <3>1, <3>2
  <2>3. ASSUME NEW i \in DOMAIN results', NEW j \in DOMAIN results', i # j
        PROVE  Apart(results'[i].ledger, results'[j].ledger)
    <3>1. CASE i \in DOMAIN results /\ j \in DOMAIN results
      BY <2>1, <2>3, <3>1 DEF OnceInv
    <3>2. CASE i = Len(results) + 1 /\ j \in DOMAIN results
      <4>1. Apart(results[j].ledger, x.ledger)
        BY <1>7, <3>2
      <4>2. Apart(x.ledger, results[j].ledger)
        BY <4>1 DEF Apart, Same
      <4> QED
        BY <2>1, <3>2, <4>2
    <3>3. CASE i \in DOMAIN results /\ j = Len(results) + 1
      BY <1>7, <2>1, <3>3
    <3> QED
      BY <2>1, <2>3, <3>1, <3>2, <3>3
  <2>4. Within(ledger') /\ Made(ledger', ops', pc')
    BY AllMadeStays DEF OnceInv
  <2> QED
    BY <1>7, <2>2, <2>3, <2>4 DEF OnceInv
<1>8. ASSUME NEW x, results' = Append(results, x), x.ledger = Said(Head(outbox)),
             outbox # <<>>, outbox' = Tail(outbox)
      PROVE  OnceInv'
  <2>1. 1 \in DOMAIN outbox /\ Head(outbox) = outbox[1]
    BY <1>3, <1>8
  <2>2. /\ Within(x.ledger) /\ Made(x.ledger, ops', pc') /\ Apart(x.ledger, ledger)
        /\ \A i \in DOMAIN results : Apart(results[i].ledger, x.ledger)
    BY <1>8, <2>1, AllMadeStays DEF OnceInv
  <2> QED
    BY <1>4, <1>7, <1>8, <2>2
<1>9. ASSUME NEW x, results' = Append(results, x), x.ledger = <<>>, UNCHANGED outbox PROVE OnceInv'
  <2>1. /\ Within(x.ledger) /\ Made(x.ledger, ops', pc') /\ Apart(x.ledger, ledger)
        /\ \A i \in DOMAIN results : Apart(results[i].ledger, x.ledger)
        /\ \A j \in DOMAIN outbox' : Apart(x.ledger, Said(outbox'[j]))
    BY <1>9, NothingIsApart
  <2> QED
    BY <1>7, <1>9, <2>1, AllMadeStays DEF OnceInv
<1> QED
  BY <1>5, <1>8, <1>9

LEMMA OnceInit ==
  ASSUME Init PROVE OnceInv
<1>1. ledger = <<>> /\ outbox = <<>> /\ results = <<>>
  BY DEF Init, RunnerInit
<1> QED
  BY <1>1, NothingIsApart DEF OnceInv

LEMMA OnceStep ==
  ASSUME Typed, OnceInv, [Next]_vars PROVE OnceInv'
<1>0. Counted
  BY AlwaysCounted
<1>1. CASE UNCHANGED <<outbox, results, ledger>>
  BY <1>0, <1>1, OnceStays
<1>2. CASE Host
  <2>1. RunnerElse
    BY <1>2 DEF Host, SendCall, Answered, Dropped, Timeout, SendFinish, Finished
  <2>2. UNCHANGED ledger
    BY <2>1 DEF RunnerElse
  <2>3. CASE SendCall \/ SendFinish
    BY <1>1, <2>2, <2>3 DEF SendCall, SendFinish
  <2>4. CASE Dropped \/ Finished
    BY <1>0, <2>2, <2>4, OnceHears DEF Dropped, Finished, Arrived
  <2>5. CASE Answered
    <3>1. PICK x : x = [ok |-> Head(outbox).ok, ledger |-> Head(outbox).ledger]
      OBVIOUS
    <3>2. x.ledger = Said(Head(outbox))
      BY <2>5, <3>1 DEF Answered, Arrived, Said
    <3>3. outbox # <<>> /\ outbox' = Tail(outbox) /\ results' = Append(results, x)
      BY <2>5, <3>1 DEF Answered, Arrived
    <3> QED
      BY <1>0, <2>2, <3>2, <3>3, OnceHears
  <2>6. CASE Timeout
    <3>1. PICK x : x = [ok |-> FALSE, ledger |-> <<>>]
      OBVIOUS
    <3>2. x.ledger = <<>> /\ UNCHANGED outbox /\ results' = Append(results, x)
      BY <2>6, <3>1 DEF Timeout
    <3> QED
      BY <1>0, <2>2, <3>2, OnceHears
  <2> QED
    BY <1>2, <2>3, <2>4, <2>5, <2>6 DEF Host
<1>3. CASE RunnerNext /\ HostIdle
  <2>0. UNCHANGED results
    BY <1>3 DEF HostIdle
  <2>1. CASE TakeCall \/ TakeFinish \/ \E k \in Key : Write(k) \/ DeleteThrows(k)
    BY <1>1, <2>0, <2>1 DEF TakeCall, TakeFinish, Write, DeleteThrows
  <2>2. CASE Exit
    <3>1. PICK m : m = [type |-> "finish", state |-> stored]
      OBVIOUS
    <3>2. Said(m) = <<>> /\ outbox' = Append(outbox, m) /\ UNCHANGED ledger
      BY <2>2, <3>1 DEF Exit, Said
    <3> QED
      BY <1>0, <2>0, <3>2, OnceAnswers
  <2>3. ASSUME NEW c \in Calls, Step(c) PROVE OnceInv'
    <3>1. CASE Loaded(c) \/ Got(c) \/ Loop(c) \/ (\E k \in Key : Get(c, k))
               \/ (\E k \in Key : \E v \in Writes[c] \cup {Null} : Set(c, k, v))
               \/ \E m \in Moves(Amounts) : Ask(c, m)
      BY <1>1, <2>0, <3>1 DEF Loaded, Got, Loop, Get, Set, Ask
    <3>2. CASE Revert(c)
      BY <1>0, <2>0, <3>2, OnceStays DEF Revert
    <3>3. CASE Funded(c)
      BY <1>0, <1>3, <3>3, OnceFunded
    <3>4. ASSUME NEW good, NEW taken, outbox' = Append(outbox, Answer(c, good, taken)),
                 \/ taken = <<>> /\ (UNCHANGED ledger \/ ledger' = <<>>)
                 \/ taken = ledger /\ ledger' = <<>>
          PROVE  OnceInv'
      <4>1. Said(Answer(c, good, taken)) = taken
        BY DEF Said, Answer
      <4> QED
        BY <1>0, <2>0, <3>4, <4>1, OnceAnswers
    <3>5. CASE NotLoaded(c) \/ Return(c) \/ Throws(c)
      BY <3>4, <3>5 DEF NotLoaded, Return, Throws, Throw
    <3> QED
      BY <2>3, <3>1, <3>2, <3>3, <3>5 DEF Step
  <2> QED
    BY <1>3, <2>1, <2>2, <2>3 DEF RunnerNext, Calls
<1>4. CASE UNCHANGED vars
  BY <1>1, <1>4 DEF vars, runnerVars
<1> QED
  BY <1>2, <1>3, <1>4 DEF Next

LEMMA AlwaysOnce == Spec => [](Typed /\ OnceInv)
<1>1. Init => Typed /\ OnceInv
  BY TypedInit, OnceInit
<1>2. Typed /\ OnceInv /\ [Next]_vars => (Typed /\ OnceInv)'
  BY TypedStep, OnceStep
<1> QED
  BY <1>1, <1>2, PTL DEF Spec

LEMMA OnceIsTakenOnce ==
  ASSUME OnceInv PROVE TakenOnce
<1> SUFFICES ASSUME NEW i \in DOMAIN results, NEW j \in DOMAIN results,
                    NEW m \in DOMAIN results[i].ledger, NEW n \in DOMAIN results[j].ledger,
                    Same(results[i].ledger[m], results[j].ledger[n])
             PROVE  i = j /\ m = n
  BY DEF TakenOnce, Same
<1>1. i = j
  BY DEF OnceInv, Apart
<1> QED
  BY <1>1 DEF OnceInv, Within

-------------------------------------------------------------------------------
(* One call after another, until one times out: what the messages, the     *)
(* process and the ledger stack are at each stage of a call, and of the    *)
(* end.                                                                    *)

From(s) == {s[m].from : m \in DOMAIN s}

\* Taken once from an account, and within call c's intent and the funds.
Covered(s, c) ==
  /\ \A m, n \in DOMAIN s : s[m].from = s[n].from => m = n
  /\ \A m \in DOMAIN s : /\ s[m].amount =< Funds[s[m].from]
                         /\ s[m].from \in User => s[m].amount =< Limit[c]

Clean == ledger = <<>> /\ temp = None

Idle == waiting = 0 /\ inbox = <<>> /\ outbox = <<>> /\ Clean

Asked ==
  /\ waiting # 0 /\ pc[waiting] = "none" /\ Clean
  /\ inbox = <<[type |-> "call", id |-> waiting, balances |-> touched]>> /\ outbox = <<>>

Executing ==
  /\ waiting # 0 /\ pc[waiting] \notin {"none", "over"} /\ intent = waiting
  /\ inbox = <<>> /\ outbox = <<>>
  /\ pc[waiting] = "load" => Clean
  /\ pc[waiting] = "read" => arg[waiting] \notin DOMAIN cache
  /\ pc[waiting] = "fund" => arg[waiting].from \notin seen
  /\ \A k \in DOMAIN temp : temp[k] \in Writes[waiting] \cup {Null}
  /\ touched \subseteq seen /\ From(ledger) \subseteq seen /\ From(ledger) \cap touched = {}
  /\ Covered(ledger, waiting)

Replied ==
  /\ waiting # 0 /\ pc[waiting] = "over" /\ Clean
  /\ inbox = <<>> /\ Len(outbox) = 1 /\ outbox[1].type = "stop"
  /\ Covered(outbox[1].ledger, waiting) /\ From(outbox[1].ledger) \cap touched = {}

Calling ==
  /\ phase = "run" /\ alive /\ ~finishing /\ final = {}
  /\ Idle \/ Asked \/ Executing \/ Replied

Ending ==
  /\ phase = "finish" /\ waiting = 0 /\ sent = NumCalls /\ Clean
  /\ \/ inbox = <<[type |-> "finish"]>> /\ outbox = <<>> /\ alive /\ ~finishing /\ final = {}
     \/ inbox = <<>> /\ outbox = <<>> /\ finishing
     \/ inbox = <<>> /\ outbox = <<[type |-> "finish", state |-> stored]>> /\ ~alive

Ended == phase = "done" /\ waiting = 0 /\ inbox = <<>> /\ outbox = <<>> /\ ~alive

\* Calls not sent have not begun, and those before the one waited for are over.
InOrder == \A c \in Calls : c # waiting => pc[c] = IF c > sent THEN "none" ELSE "over"

ResultsCovered ==
  /\ \A i \in DOMAIN results : /\ Covered(results[i].ledger, i)
                               /\ From(results[i].ledger) \subseteq touched
  /\ \A i, j \in DOMAIN results : i # j => From(results[i].ledger) \cap From(results[j].ledger) = {}

Turn == InOrder /\ ResultsCovered /\ (Calling \/ Ending \/ Ended)

LEMMA TurnInit ==
  ASSUME Init PROVE Turn
<1>1. phase = "run" /\ alive /\ ~finishing /\ final = {} /\ Idle
  BY DEF Init, RunnerInit, Idle, Clean
<1>2. InOrder
  BY DEF Init, RunnerInit, InOrder, Calls
<1>3. ResultsCovered
  BY DEF Init, ResultsCovered
<1> QED
  BY <1>1, <1>2, <1>3 DEF Turn, Calling

\* A call that has begun and is not over is the one waited for.
LEMMA BegunIsWaited ==
  ASSUME Typed, Turn, NEW c \in Calls, pc[c] \notin {"none", "over"}
  PROVE  c = waiting /\ Calling /\ Executing
<1>1. c = waiting /\ c # 0
  BY DEF Turn, InOrder, Calls
<1> QED
  BY <1>1 DEF Turn, Calling, Ending, Ended, Idle, Asked, Replied

\* The process goes on with the call waited for.
LEMMA TurnGoesOn ==
  ASSUME Typed, Turn, HostIdle, NEW c \in Calls, pc[c] \notin {"none", "over"},
         UNCHANGED pc \/ \E step \in Places : pc' = [pc EXCEPT ![c] = step],
         UNCHANGED <<finishing, final, alive>>, Executing' \/ Replied'
  PROVE  Turn'
<1>1. c = waiting /\ Calling
  BY BegunIsWaited
<1>2. UNCHANGED <<phase, waiting, sent, results, touched>>
  BY DEF HostIdle
<1>3. \A d \in Calls : d # waiting => pc'[d] = pc[d]
  BY <1>1 DEF Typed, RunnerTyped
<1>4. InOrder'
  BY <1>2, <1>3 DEF Turn, InOrder
<1>5. ResultsCovered'
  BY <1>2 DEF Turn, ResultsCovered
<1>6. Calling'
  BY <1>1, <1>2 DEF Calling
<1> QED
  BY <1>4, <1>5, <1>6 DEF Turn

LEMMA NothingIsCovered ==
  /\ From(<<>>) = {} /\ \A c : Covered(<<>>, c)
  /\ DOMAIN None = {}
  BY DEF From, Covered, None

LEMMA TurnTakeCall ==
  ASSUME Typed, Turn, TakeCall, HostIdle PROVE Turn'
<1>1. Calling /\ Asked
  <2>1. inbox # <<>> /\ Head(inbox).type = "call"
    BY DEF TakeCall
  <2>2. inbox # <<[type |-> "finish"]>>
    <3>1. Head(<<[type |-> "finish"]>>) = [type |-> "finish"]
      OBVIOUS
    <3> QED
      BY <2>1, <3>1
  <2> QED
    BY <2>1, <2>2 DEF Turn, Calling, Ending, Ended, Idle, Executing, Replied
<1>2. UNCHANGED <<phase, waiting, sent, results, touched>>
  BY DEF HostIdle
<1>3. waiting \in Calls /\ waiting = sent
  BY <1>1 DEF Typed, HostTyped, Asked, Calls
<1>4. /\ intent' = waiting /\ pc' = [pc EXCEPT ![waiting] = "load"] /\ seen' = touched
      /\ inbox' = <<>> /\ UNCHANGED <<cache, temp, ledger, finishing, final, alive, outbox>>
  <2>1. Head(inbox) = [type |-> "call", id |-> waiting, balances |-> touched] /\ Tail(inbox) = <<>>
    BY <1>1 DEF Asked
  <2>2. Head(inbox).id = waiting /\ Head(inbox).balances = touched
    BY <2>1
  <2> QED
    BY <2>1, <2>2 DEF TakeCall, Goto
<1>5. pc'[waiting] = "load" /\ \A d \in Calls : d # waiting => pc'[d] = pc[d]
  BY <1>3, <1>4 DEF Typed, RunnerTyped
<1>6. Executing'
  BY <1>1, <1>2, <1>4, <1>5, NothingIsCovered DEF Asked, Executing, Clean
<1>7. InOrder'
  BY <1>2, <1>5 DEF Turn, InOrder
<1>8. ResultsCovered'
  BY <1>2 DEF Turn, ResultsCovered
<1>9. Calling'
  BY <1>1, <1>2, <1>4, <1>6 DEF Calling
<1> QED
  BY <1>7, <1>8, <1>9 DEF Turn

\* Steps of a call that take nothing.
LEMMA TurnMoves ==
  ASSUME Typed, Turn, HostIdle, NEW c \in Calls,
         \/ Loaded(c) \/ Loop(c) \/ Got(c) \/ Revert(c)
         \/ \E k \in Key : Get(c, k) \/ \E v \in Writes[c] \cup {Null} : Set(c, k, v)
         \/ \E m \in Moves(Amounts) : Ask(c, m)
  PROVE  Turn'
<1>0. RunnerTyped
  BY DEF Typed
<1>1. pc[c] \in {"load", "run", "read"}
  BY DEF Loaded, Loop, Got, Revert, Get, Set, Ask, Running
<1>2. c = waiting /\ Calling /\ Executing
  BY <1>1, BegunIsWaited
<1>3. UNCHANGED <<phase, waiting, sent, results, touched>>
  BY DEF HostIdle
<1>4. UNCHANGED <<seen, intent, finishing, final, alive, inbox, outbox>>
  BY DEF Loaded, Loop, Got, Revert, Get, Set, Ask
<1>5. UNCHANGED pc \/ \E step \in Places \ {"none", "over", "load"} : pc' = [pc EXCEPT ![c] = step]
  BY DEF Loaded, Loop, Got, Revert, Get, Set, Ask, Goto, Places
<1>6. pc'[c] \notin {"none", "over"} /\ (pc'[c] # "load" \/ UNCHANGED pc)
  BY <1>0, <1>1, <1>5 DEF RunnerTyped
<1>7. (UNCHANGED ledger \/ ledger' = <<>>)
  BY DEF Loaded, Loop, Got, Revert, Get, Set, Ask
<1>8. From(ledger') \subseteq From(ledger) /\ Covered(ledger', c)
  BY <1>2, <1>7, NothingIsCovered DEF Executing
<1>9. \A k \in DOMAIN temp' : temp'[k] \in Writes[c] \cup {Null}
  <2>1. CASE UNCHANGED temp
    BY <1>2, <2>1 DEF Executing
  <2>2. CASE Revert(c)
    BY <2>2, NothingIsCovered DEF Revert, Reverted
  <2>3. CASE \E k \in Key : \E v \in Writes[c] \cup {Null} : Set(c, k, v)
    BY <1>2, <2>3 DEF Set, Put, Executing
  <2> QED
    BY <2>1, <2>2, <2>3 DEF Loaded, Loop, Got, Get, Ask
<1>10. pc'[c] = "load" => Clean'
  <2>1. CASE pc'[c] = "load"
    <3>1. pc[c] = "load" /\ UNCHANGED pc
      BY <1>6, <2>1
    <3> QED
      BY <1>0, <1>5, <1>6, <2>1, <3>1 DEF Loaded, Loop, Got, Revert, Get, Set, Ask, Running, Goto, RunnerTyped
  <2> QED
    BY <2>1
<1>11. /\ pc'[c] = "read" => arg'[c] \notin DOMAIN cache'
       /\ pc'[c] = "fund" => arg'[c].from \notin seen'
  <2>1. CASE \E k \in Key : Get(c, k)
    BY <1>0, <2>1 DEF Get, Cached, Goto, RunnerTyped
  <2>2. CASE \E m \in Moves(Amounts) : Ask(c, m)
    BY <1>0, <1>4, <2>2 DEF Ask, Goto, RunnerTyped
  <2>3. CASE Loaded(c) \/ Loop(c) \/ Got(c)
    BY <1>0, <2>3 DEF Loaded, Loop, Got, Goto, RunnerTyped
  <2>4. CASE Revert(c) \/ \E k \in Key : \E v \in Writes[c] \cup {Null} : Set(c, k, v)
    BY <2>4 DEF Revert, Set, Running
  <2> QED
    BY <2>1, <2>2, <2>3, <2>4
<1>12. Executing'
  BY <1>2, <1>3, <1>4, <1>6, <1>8, <1>9, <1>10, <1>11 DEF Executing
<1> QED
  BY <1>1, <1>4, <1>5, <1>12, TurnGoesOn

\* A call asks for the balance of an account only once, so that what it takes then
\* is all it takes.
LEMMA TurnFunded ==
  ASSUME Typed, Turn, HostIdle, NEW c \in Calls, Funded(c) PROVE Turn'
<1>0. RunnerTyped
  BY DEF Typed
<1>1. pc[c] = "fund" /\ pc' = [pc EXCEPT ![c] = "run"]
  BY DEF Funded, Goto
<1>2. c = waiting /\ Calling /\ Executing
  BY <1>1, BegunIsWaited
<1>3. UNCHANGED <<phase, waiting, sent, results, touched>>
  BY DEF HostIdle
<1>4. UNCHANGED <<cache, temp, intent, arg, finishing, final, alive, inbox, outbox>>
  BY DEF Funded
<1>5. pc'[c] = "run"
  BY <1>0, <1>1 DEF RunnerTyped
<1>6. PICK a, n : \E m \in Moves(Amounts) : m = arg[c] /\ a = m.from /\ n = m.amount
  BY <1>0, <1>1 DEF RunnerTyped
<1> PICK m \in Moves(Amounts) : m = arg[c] /\ a = m.from /\ n = m.amount
  BY <1>6
<1>7. /\ a \notin seen /\ seen' = seen \cup {a}
      /\ UNCHANGED ledger \/ (Allowed(c, m) /\ ledger' = Append(ledger, Entry(c, m)))
  <2>1. a \notin seen
    BY <1>1, <1>2, <1>6 DEF Executing
  <2>2. /\ seen' = seen \cup {m.from}
        /\ ledger' = IF Allowed(c, m) THEN Append(ledger, Entry(c, m)) ELSE ledger
    BY <1>6 DEF Funded
  <2> QED
    BY <1>6, <2>1, <2>2
<1>8. From(ledger') \subseteq From(ledger) \cup {a} /\ Covered(ledger', c)
  <2>1. CASE UNCHANGED ledger
    BY <1>2, <2>1 DEF Executing, From, Covered
  <2>2. ASSUME Allowed(c, m), NEW e, e.from = a, e.amount = n, ledger' = Append(ledger, e)
        PROVE  From(ledger') \subseteq From(ledger) \cup {a} /\ Covered(ledger', c)
    <3>1. /\ DOMAIN ledger' = 1..(Len(ledger) + 1) /\ DOMAIN ledger = 1..Len(ledger)
          /\ ledger'[Len(ledger) + 1] = e
          /\ \A i \in DOMAIN ledger : ledger'[i] = ledger[i]
      BY <1>0, <2>2 DEF RunnerTyped
    <3>2. \A j \in DOMAIN ledger' : j \in DOMAIN ledger \/ j = Len(ledger) + 1
      <4>1. Len(ledger) \in Nat
        BY <1>0 DEF RunnerTyped
      <4> QED
        BY <3>1, <4>1
    <3>3. Covered(ledger, c) /\ \A j \in DOMAIN ledger : ledger[j].from # a
      BY <1>2, <1>7 DEF Executing, From
    <3>4. n =< Funds[a] /\ (a \in User => n =< Limit[c])
      <4>1. intent = c /\ n \in Int
        BY <1>2, <1>6, MovesAre DEF Executing
      <4>2. n =< Funds[a] /\ (m.kind = "draw" => n + 0 =< Limit[c]) /\ m.kind # "look"
        BY <1>6, <2>2, <4>1 DEF Allowed, Drawn
      <4>3. a \in User => m.kind = "draw"
        BY <1>6, <4>2, MovesAre
      <4>4. n + 0 = n
        BY <4>1
      <4> QED
        BY <4>2, <4>3, <4>4
    <3>5. From(ledger') \subseteq From(ledger) \cup {a}
      BY <2>2, <3>1, <3>2 DEF From
    <3>6. \A j, k \in DOMAIN ledger' : ledger'[j].from = ledger'[k].from => j = k
      BY <2>2, <3>1, <3>2, <3>3 DEF Covered
    <3>7. \A j \in DOMAIN ledger' : /\ ledger'[j].amount =< Funds[ledger'[j].from]
                                    /\ ledger'[j].from \in User => ledger'[j].amount =< Limit[c]
      BY <2>2, <3>1, <3>2, <3>3, <3>4 DEF Covered
    <3> QED
      BY <3>5, <3>6, <3>7 DEF Covered
  <2>3. CASE Allowed(c, m) /\ ledger' = Append(ledger, Entry(c, m))
    <3>1. ops[c] \in Nat
      BY <1>0 DEF RunnerTyped
    <3>2. Entry(c, m).from = a /\ Entry(c, m).amount = n
      BY <1>6, <3>1, EntryIs
    <3> QED
      BY <2>2, <2>3, <3>2
  <2> QED
    BY <1>7, <2>1, <2>3
<1>9. Executing'
  BY <1>2, <1>3, <1>4, <1>5, <1>7, <1>8 DEF Executing
<1>10. "run" \in Places
  BY DEF Places
<1> QED
  BY <1>1, <1>4, <1>9, <1>10, TurnGoesOn

\* A call answers with what it has taken, or with nothing, and leaves nothing.
LEMMA TurnAnswers ==
  ASSUME Typed, Turn, HostIdle, NEW c \in Calls, NotLoaded(c) \/ Return(c) \/ Throws(c)
  PROVE  Turn'
<1>0. RunnerTyped
  BY DEF Typed
<1>1. /\ pc[c] \in {"load", "run"} /\ pc' = [pc EXCEPT ![c] = "over"]
      /\ UNCHANGED <<inbox, finishing, final, alive>>
  BY DEF NotLoaded, Return, Throws, Throw, Running, Goto
<1>2. c = waiting /\ Calling /\ Executing
  BY <1>1, BegunIsWaited
<1>3. UNCHANGED <<phase, waiting, sent, results, touched>>
  BY DEF HostIdle
<1>4. pc'[c] = "over"
  BY <1>0, <1>1 DEF RunnerTyped
<1>5. Clean'
  BY <1>2 DEF NotLoaded, Return, Throws, Throw, Reverted, Executing, Clean
<1>6. PICK taken \in {<<>>, ledger} : \E good \in BOOLEAN : outbox' = Append(outbox, Answer(c, good, taken))
  BY DEF NotLoaded, Return, Throws, Throw
<1>7. PICK good \in BOOLEAN : outbox' = <<Answer(c, good, taken)>>
  BY <1>2, <1>6 DEF Executing
<1>8. Len(outbox') = 1 /\ outbox'[1].type = "stop" /\ outbox'[1].ledger = taken
  BY <1>7 DEF Answer
<1>9. Covered(taken, c) /\ From(taken) \cap touched = {}
  BY <1>2, <1>6, NothingIsCovered DEF Executing
<1>10. Replied'
  BY <1>1, <1>2, <1>3, <1>4, <1>5, <1>8, <1>9 DEF Executing, Replied, Covered, From
<1>11. "over" \in Places
  BY DEF Places
<1> QED
  BY <1>1, <1>10, <1>11, TurnGoesOn

\* The end.
LEMMA TurnFinishes ==
  ASSUME Typed, Turn, HostIdle, TakeFinish \/ Exit \/ \E k \in Key : Write(k) \/ DeleteThrows(k)
  PROVE  Turn'
<1>1. UNCHANGED <<pc, phase, waiting, sent, results, touched, ledger, temp>>
  BY DEF HostIdle, TakeFinish, Exit, Write, DeleteThrows
<1>2. InOrder' /\ ResultsCovered' /\ (Clean => Clean')
  BY <1>1 DEF Turn, InOrder, ResultsCovered, Clean
<1>3. Ending /\ alive
  <2>1. CASE TakeFinish
    <3>1. inbox # <<>> /\ Head(inbox).type = "finish"
      BY <2>1 DEF TakeFinish
    <3>2. ~Asked
      <4>1. Head(<<[type |-> "call", id |-> waiting, balances |-> touched]>>).type = "call"
        OBVIOUS
      <4> QED
        BY <3>1, <4>1 DEF Asked
    <3> QED
      BY <2>1, <3>1, <3>2 DEF Turn, Calling, Ended, Idle, Executing, Replied, TakeFinish, Free
  <2>2. CASE Exit \/ \E k \in Key : Write(k) \/ DeleteThrows(k)
    BY <2>2 DEF Turn, Calling, Ended, Exit, Write, DeleteThrows, Free
  <2> QED
    BY <2>1, <2>2
<1>4. Ending'
  <2>1. CASE TakeFinish
    <3>1. inbox # <<>> /\ inbox' = Tail(inbox) /\ finishing' /\ UNCHANGED outbox
      BY <2>1 DEF TakeFinish
    <3>2. inbox = <<[type |-> "finish"]>> /\ outbox = <<>>
      BY <1>3, <3>1 DEF Ending
    <3>3. inbox' = <<>>
      BY <3>1, <3>2
    <3> QED
      BY <1>1, <1>2, <1>3, <3>1, <3>2, <3>3 DEF Ending
  <2>2. CASE Exit
    <3>1. inbox = <<>> /\ outbox = <<>>
      BY <1>3, <2>2 DEF Ending, Exit
    <3>2. outbox' = <<[type |-> "finish", state |-> stored]>>
      BY <2>2, <3>1 DEF Exit
    <3> QED
      BY <1>1, <1>2, <1>3, <2>2, <3>1, <3>2 DEF Ending, Exit
  <2>3. CASE \E k \in Key : Write(k) \/ DeleteThrows(k)
    <3>1. finishing /\ UNCHANGED <<inbox, outbox, finishing>>
      BY <2>3 DEF Write, DeleteThrows
    <3>2. inbox = <<>> /\ outbox = <<>>
      BY <1>3, <3>1 DEF Ending
    <3> QED
      BY <1>1, <1>2, <1>3, <3>1, <3>2 DEF Ending
  <2> QED
    BY <2>1, <2>2, <2>3
<1> QED
  BY <1>2, <1>4 DEF Turn

\* The node's side.
LEMMA TurnAnswered ==
  ASSUME Typed, Turn, Answered PROVE Turn'
<1>0. HostTyped /\ RunnerElse
  BY DEF Typed, Answered
<1>1. Calling /\ Replied
  BY DEF Answered, Arrived, Turn, Ending, Ended, Calling, Idle, Asked, Executing
<1>2. outbox # <<>> /\ outbox \in Seq(StopMessage \cup StateMessage)
  BY DEF Answered, Arrived, Typed, RunnerTyped
<1>3. Head(outbox) = outbox[1] /\ outbox' = <<>>
  <2>1. outbox' = Tail(outbox) /\ Len(outbox) = 1
    BY <1>1 DEF Answered, Arrived, Replied
  <2> QED
    BY <1>2, <2>1
<1>4. PICK taken : taken = Head(outbox).ledger
  OBVIOUS
<1>5. Covered(taken, waiting) /\ From(taken) \cap touched = {}
  BY <1>1, <1>3, <1>4 DEF Replied
<1>6. PICK x : x = [ok |-> Head(outbox).ok, ledger |-> Head(outbox).ledger]
  OBVIOUS
<1>7. x.ledger = taken /\ results' = Append(results, x)
  BY <1>4, <1>6 DEF Answered
<1>8. Len(results) + 1 = waiting /\ waiting = sent
  BY <1>0, <1>1 DEF HostTyped, Replied
<1>9. /\ DOMAIN results' = 1..(Len(results) + 1) /\ DOMAIN results = 1..Len(results)
      /\ Len(results) \in Nat /\ results'[waiting] = x
      /\ \A i \in DOMAIN results : results'[i] = results[i]
  <2>1. PICK R : results \in Seq(R)
    BY <1>0 DEF HostTyped
  <2> QED
    BY <1>7, <1>8, <2>1
<1>10. \A i \in DOMAIN results' : i \in DOMAIN results \/ i = waiting
  BY <1>8, <1>9
<1>11. From(taken) \subseteq touched' /\ touched \subseteq touched'
  <2>1. touched' = touched \cup Touches(taken)
    BY <1>4 DEF Answered
  <2>2. taken \in Seq(Entries)
    <3>1. 1 \in DOMAIN outbox /\ Said(outbox[1]) = taken
      BY <1>1, <1>2, <1>3, <1>4 DEF Replied, Said
    <3> QED
      BY <3>1, SaidIs
  <2>3. ASSUME NEW m \in DOMAIN taken PROVE taken[m].from \in Touches(taken)
    <3>1. taken[m] \in Entries
      BY <2>2
    <3>2. taken[m].from \in Account
      BY <3>1 DEF Entries
    <3> QED
      BY <3>2 DEF Touches
  <2> QED
    BY <2>1, <2>3 DEF From
<1>12. ResultsCovered'
  <2>1. ASSUME NEW i \in DOMAIN results'
        PROVE  Covered(results'[i].ledger, i) /\ From(results'[i].ledger) \subseteq touched'
    <3>1. CASE i \in DOMAIN results
      BY <1>9, <1>11, <3>1 DEF Turn, ResultsCovered
    <3>2. CASE i = waiting
      BY <1>5, <1>7, <1>9, <1>11, <3>2
    <3> QED
      BY <1>10, <3>1, <3>2
  <2>2. ASSUME NEW i \in DOMAIN results', NEW j \in DOMAIN results', i # j
        PROVE  From(results'[i].ledger) \cap From(results'[j].ledger) = {}
    <3>1. CASE i \in DOMAIN results /\ j \in DOMAIN results
      BY <1>9, <2>2, <3>1 DEF Turn, ResultsCovered
    <3>2. CASE i = waiting /\ j \in DOMAIN results
      <4>1. From(results'[j].ledger) \subseteq touched /\ results'[i].ledger = taken
        BY <1>7, <1>9, <3>2 DEF Turn, ResultsCovered
      <4> QED
        BY <1>5, <4>1
    <3>3. CASE i \in DOMAIN results /\ j = waiting
      <4>1. From(results'[i].ledger) \subseteq touched /\ results'[j].ledger = taken
        BY <1>7, <1>9, <3>3 DEF Turn, ResultsCovered
      <4> QED
        BY <1>5, <4>1
    <3> QED
      BY <1>10, <2>2, <3>1, <3>2, <3>3
  <2> QED
    BY <2>1, <2>2 DEF ResultsCovered, Covered, From
<1>13. /\ waiting' = 0 /\ UNCHANGED <<alive, inbox, phase, sent>>
       /\ UNCHANGED <<temp, ledger, pc, finishing, final>>
  BY <1>0 DEF Answered, RunnerElse
<1>14. InOrder'
  <2>1. ASSUME NEW c \in Calls PROVE pc'[c] = IF c > sent' THEN "none" ELSE "over"
    <3>1. CASE c = waiting
      BY <1>1, <1>8, <1>13, <3>1 DEF Replied, Calls
    <3>2. CASE c # waiting
      BY <1>13, <3>2 DEF Turn, InOrder
    <3> QED
      BY <3>1, <3>2
  <2> QED
    BY <2>1 DEF InOrder
<1>15. Calling'
  BY <1>1, <1>3, <1>13 DEF Calling, Replied, Idle, Clean
<1> QED
  BY <1>12, <1>14, <1>15 DEF Turn

LEMMA TurnHost ==
  ASSUME Typed, Turn, Host, timeouts' = 0 PROVE Turn'
<1>0. RunnerElse /\ HostTyped
  BY DEF Typed, Host, SendCall, Answered, Dropped, Timeout, SendFinish, Finished
<1>1. UNCHANGED <<temp, ledger, pc, finishing, final, stored>>
  BY <1>0 DEF RunnerElse
<1>2. CASE SendCall
  <2>1. Calling /\ Idle
    BY <1>2 DEF SendCall, Turn, Ending, Ended, Calling, Asked, Executing, Replied
  <2>2. /\ sent' = sent + 1 /\ waiting' = sent + 1 /\ sent \in 0..NumCalls /\ sent < NumCalls
        /\ UNCHANGED <<alive, outbox, phase, results, touched>>
    BY <1>0, <1>2 DEF SendCall, HostTyped
  <2>3. inbox' = <<[type |-> "call", id |-> waiting', balances |-> touched']>>
    BY <1>2, <2>1, <2>2 DEF SendCall, ToRunner, Idle
  <2>4. sent + 1 \in Calls /\ pc[sent + 1] = "none" /\ waiting' # 0
    <3>1. sent + 1 \in Calls /\ sent + 1 # 0 /\ sent + 1 > sent /\ waiting = 0
      BY <1>2, <2>2, RunnerAssumption DEF Calls, SendCall
    <3> QED
      BY <2>2, <3>1 DEF Turn, InOrder
  <2>5. Asked'
    BY <1>1, <2>1, <2>2, <2>3, <2>4 DEF Idle, Asked, Clean
  <2>6. InOrder'
    <3>1. ASSUME NEW c \in Calls, c # sent + 1 PROVE c > sent + 1 <=> c > sent
      BY <2>2, <3>1 DEF Calls
    <3>2. waiting = 0 /\ 0 \notin Calls
      BY <1>2 DEF SendCall, Calls
    <3> QED
      BY <1>1, <2>2, <3>1, <3>2 DEF Turn, InOrder
  <2>7. ResultsCovered'
    BY <2>2 DEF Turn, ResultsCovered
  <2> QED
    BY <1>1, <2>1, <2>2, <2>5, <2>6, <2>7 DEF Turn, Calling
<1>3. CASE Answered
  BY <1>3, TurnAnswered
<1>4. CASE Dropped
  <2>1. outbox # <<>> /\ Head(outbox).type = "stop" /\ waiting = 0
    BY <1>4 DEF Dropped, Arrived
  <2>2. outbox = <<[type |-> "finish", state |-> stored]>>
    BY <2>1 DEF Turn, Ending, Ended, Calling, Idle, Asked, Executing, Replied
  <2>3. Head(outbox) = [type |-> "finish", state |-> stored]
    BY <2>2
  <2> QED
    BY <2>1, <2>3
<1>5. CASE Timeout
  BY <1>0, <1>5 DEF Timeout, HostTyped
<1>6. CASE SendFinish
  <2>1. Calling /\ Idle
    BY <1>6 DEF SendFinish, Turn, Ending, Ended, Calling, Asked, Executing, Replied
  <2>2. inbox' = <<[type |-> "finish"]>>
    BY <1>6, <2>1 DEF SendFinish, ToRunner, Idle
  <2>3. /\ phase' = "finish" /\ waiting = 0 /\ sent = NumCalls
        /\ UNCHANGED <<alive, outbox, waiting, sent, results, touched>>
    BY <1>6 DEF SendFinish
  <2>4. InOrder' /\ ResultsCovered'
    BY <1>1, <2>3 DEF Turn, InOrder, ResultsCovered
  <2>5. Ending'
    BY <1>1, <2>1, <2>2, <2>3 DEF Ending, Calling, Idle, Clean
  <2> QED
    BY <2>4, <2>5 DEF Turn
<1>7. CASE Finished
  <2>1. /\ phase = "finish" /\ phase' = "done" /\ outbox # <<>> /\ outbox' = Tail(outbox) /\ ~alive'
        /\ UNCHANGED <<inbox, waiting, sent, results, touched>>
    BY <1>7 DEF Finished, Arrived
  <2>2. Ending /\ inbox = <<>> /\ outbox = <<[type |-> "finish", state |-> stored]>>
    BY <2>1 DEF Turn, Ending, Ended, Calling
  <2>3. outbox' = <<>>
    BY <2>1, <2>2
  <2>4. InOrder' /\ ResultsCovered'
    BY <1>1, <2>1 DEF Turn, InOrder, ResultsCovered
  <2>5. Ended'
    BY <2>1, <2>2, <2>3 DEF Ending, Ended
  <2> QED
    BY <2>4, <2>5 DEF Turn
<1> QED
  BY <1>2, <1>3, <1>4, <1>5, <1>6, <1>7 DEF Host

LEMMA TurnStep ==
  ASSUME Typed, Turn, [Next]_vars, timeouts' = 0 PROVE Turn'
<1>1. CASE UNCHANGED vars
  BY <1>1 DEF vars, runnerVars, Turn, InOrder, ResultsCovered, Calling, Ending, Ended, Idle, Asked,
              Executing, Replied, Clean
<1>2. CASE RunnerNext /\ HostIdle
  <2>1. ASSUME NEW c \in Calls, Step(c) PROVE Turn'
    BY <1>2, <2>1, TurnMoves, TurnFunded, TurnAnswers DEF Step
  <2> QED
    BY <1>2, <2>1, TurnTakeCall, TurnFinishes DEF RunnerNext, Calls
<1> QED
  BY <1>1, <1>2, TurnHost DEF Next

\* Time only runs out.
LEMMA TimesOut ==
  ASSUME Typed, [Next]_vars, timeouts' = 0 PROVE timeouts = 0
<1>1. timeouts \in Nat
  BY DEF Typed, HostTyped
<1>2. UNCHANGED timeouts \/ timeouts' = timeouts + 1
  BY DEF Next, Host, SendCall, Answered, Dropped, Timeout, SendFinish, Finished, HostIdle, vars
<1> QED
  BY <1>1, <1>2

InTurn == timeouts = 0 => Turn

LEMMA AlwaysInTurn == Spec => [](Typed /\ InTurn)
<1>1. Init => Typed /\ InTurn
  BY TypedInit, TurnInit DEF InTurn
<1>2. Typed /\ InTurn /\ [Next]_vars => (Typed /\ InTurn)'
  BY TypedStep, TurnStep, TimesOut DEF InTurn
<1> QED
  BY <1>1, <1>2, PTL DEF Spec

-------------------------------------------------------------------------------
(* Sums of what is taken. *)

\* Taken at most once from an account, the total of it is what was taken then.
LEMMA TotalBounded ==
  ASSUME NEW s \in Seq(Entries), NEW a, NEW B \in Int,
         \A m, n \in DOMAIN s : s[m].from = s[n].from => m = n,
         \A m \in DOMAIN s : s[m].from = a => s[m].amount =< B
  PROVE  InBound(Total(s, a), B)
<1> DEFINE N == Len(s)
           w == [i \in 1..N |-> IF s[i].from = a THEN s[i].amount ELSE 0]
           Rec(f) == f = [i \in 0..N |->
                            IF i = 0 THEN 0
                            ELSE f[i - 1] + (IF s[i].from = a THEN s[i].amount ELSE 0)]
           sum == CHOOSE f : Rec(f)
<1>1. N \in Nat /\ DOMAIN s = 1..N
  OBVIOUS
<1>2. \A i \in 1..N : s[i].amount \in Int /\ w[i] = IF s[i].from = a THEN s[i].amount ELSE 0
  <2>1. \A i \in 1..N : s[i] \in Entries
    BY <1>1
  <2> QED
    BY <2>1 DEF Entries
<1>3. \A i \in 1..N : w[i] \in Int
  BY <1>2
<1>4. Total(s, a) = sum[N]
  BY DEF Total
<1>5. Rec(sum)
  <2> DEFINE step == [p \in Int \X (1..N) |-> p[1] + w[p[2]]]
  <2> HIDE DEF w, N
  <2>1. step \in [Int \X (1..N) -> Int]
    BY <1>3
  <2>2. \A x \in Int, i \in 1..N : step[<<x, i>>] = x + w[i]
    OBVIOUS
  <2> HIDE DEF step
  <2>3. PICK f : Steps(f, Int, N, 0, step)
    <3>1. 0 \in Int
      OBVIOUS
    <3> HIDE DEF Rec
    <3> QED
      BY <1>1, <2>1, <3>1, StepsExist
  <2>4. ASSUME NEW i \in 0..N
        PROVE  f[i] = IF i = 0 THEN 0 ELSE f[i - 1] + (IF s[i].from = a THEN s[i].amount ELSE 0)
    <3>1. CASE i = 0
      BY <2>3, <3>1 DEF Steps
    <3>2. CASE i # 0
      <4>1. i \in 1..N /\ i - 1 \in 0..N
        BY <1>1, <3>2
      <4>2. f[i - 1] \in Int /\ f[i] = step[<<f[i - 1], i>>]
        BY <2>3, <4>1 DEF Steps
      <4> QED
        BY <1>2, <2>2, <3>2, <4>1, <4>2
    <3> QED
      BY <3>1, <3>2
  <2>5. Rec(f)
    BY <2>3, <2>4 DEF Steps
  <2> QED
    BY <2>5
<1> HIDE DEF sum, w
<1>6. sum[0] = 0 /\ \A i \in 1..N : sum[i] = sum[i - 1] + w[i]
  <2>1. \A i \in 0..N : sum[i] = IF i = 0 THEN 0 ELSE sum[i - 1] + (IF s[i].from = a THEN s[i].amount ELSE 0)
    BY <1>5
  <2>2. 0 \in 0..N /\ \A i \in 1..N : i \in 0..N /\ i # 0
    BY <1>1
  <2> QED
    BY <1>2, <2>1, <2>2
<1> HIDE DEF N
<1> DEFINE Fits(i) == /\ sum[i] \in Int /\ InBound(sum[i], B)
                      /\ (\A m \in 1..i : s[m].from # a) => sum[i] = 0
           Bad == {i \in 0..N : ~Fits(i)}
<1>7. ASSUME Bad # {} PROVE FALSE
  <2>1. PICK i \in Bad : \A j \in Bad : i =< j
    <3>1. Bad \subseteq Nat
      BY <1>1
    <3> HIDE DEF Bad
    <3> QED
      BY <1>7, <3>1, LeastNat
  <2>2. i \in 1..N /\ i - 1 \in 0..N /\ i - 1 \notin Bad
    <3>1. Fits(0)
      BY <1>6 DEF InBound
    <3> QED
      BY <1>1, <2>1, <3>1
  <2>3. Fits(i - 1) /\ sum[i] = sum[i - 1] + w[i]
    BY <1>6, <2>2
  <2>4. \A m \in 1..(i - 1) : m \in 1..N /\ m # i /\ m \in 1..i
    BY <1>1, <2>2
  <2>5. CASE s[i].from = a
    <3>1. \A m \in 1..(i - 1) : s[m].from # a
      BY <1>1, <2>2, <2>4, <2>5
    <3>2. sum[i - 1] = 0 /\ w[i] =< B /\ w[i] \in Int
      BY <1>1, <1>2, <1>3, <2>2, <2>3, <2>5, <3>1
    <3>3. i \in 1..i /\ sum[i] = w[i]
      BY <1>1, <2>2, <2>3, <3>2
    <3>4. Fits(i)
      BY <2>5, <3>2, <3>3 DEF InBound
    <3> QED
      BY <2>1, <3>4
  <2>6. CASE s[i].from # a
    <3>1. w[i] = 0
      BY <1>2, <2>2, <2>6
    <3>2. sum[i] = sum[i - 1]
      BY <2>3, <3>1
    <3>3. Fits(i)
      BY <2>3, <2>4, <3>2
    <3> QED
      BY <2>1, <3>3
  <2> QED
    BY <2>5, <2>6
<1>8. Fits(N)
  BY <1>1, <1>7
<1> QED
  BY <1>4, <1>8

\* One after another, what takes from different accounts takes once from each.
LEMMA CoveredJoin ==
  ASSUME NEW s \in Seq(Entries), NEW t \in Seq(Entries), NEW c, Covered(t, c),
         \A m, n \in DOMAIN s : s[m].from = s[n].from => m = n,
         \A m \in DOMAIN s : s[m].amount =< Funds[s[m].from],
         From(s) \cap From(t) = {}
  PROVE  /\ s \o t \in Seq(Entries) /\ From(s \o t) \subseteq From(s) \cup From(t)
         /\ \A m, n \in DOMAIN (s \o t) : (s \o t)[m].from = (s \o t)[n].from => m = n
         /\ \A m \in DOMAIN (s \o t) : (s \o t)[m].amount =< Funds[(s \o t)[m].from]
<1>1. PICK u : u = s \o t
  OBVIOUS
<1>2. /\ u \in Seq(Entries) /\ DOMAIN u = 1..(Len(s) + Len(t)) /\ DOMAIN s = 1..Len(s)
      /\ DOMAIN t = 1..Len(t) /\ Len(s) \in Nat /\ Len(t) \in Nat
      /\ \A m \in 1..(Len(s) + Len(t)) : u[m] = IF m =< Len(s) THEN s[m] ELSE t[m - Len(s)]
  BY <1>1
<1>3. ASSUME NEW m \in DOMAIN u
      PROVE  \/ m \in DOMAIN s /\ u[m] = s[m]
             \/ m - Len(s) \in DOMAIN t /\ u[m] = t[m - Len(s)]
  <2>1. m \in DOMAIN s \/ (m - Len(s) \in DOMAIN t /\ ~(m =< Len(s)))
    BY <1>2
  <2> QED
    BY <1>2, <2>1
<1>4. From(u) \subseteq From(s) \cup From(t)
  BY <1>3 DEF From
<1>5. \A m \in DOMAIN u : u[m].amount =< Funds[u[m].from]
  BY <1>3 DEF Covered
<1>6. ASSUME NEW m \in DOMAIN u, NEW n \in DOMAIN u, u[m].from = u[n].from PROVE m = n
  <2>1. CASE m \in DOMAIN s /\ u[m] = s[m] /\ n \in DOMAIN s /\ u[n] = s[n]
    BY <1>6, <2>1
  <2>2. CASE /\ m - Len(s) \in DOMAIN t /\ u[m] = t[m - Len(s)]
             /\ n - Len(s) \in DOMAIN t /\ u[n] = t[n - Len(s)]
    <3>1. m - Len(s) = n - Len(s)
      BY <1>6, <2>2 DEF Covered
    <3>2. m \in Int /\ n \in Int /\ Len(s) \in Int
      BY <1>2
    <3> QED
      BY <3>1, <3>2
  <2>3. CASE /\ m \in DOMAIN s /\ u[m] = s[m]
             /\ n - Len(s) \in DOMAIN t /\ u[n] = t[n - Len(s)]
    BY <1>6, <2>3 DEF From
  <2>4. CASE /\ n \in DOMAIN s /\ u[n] = s[n]
             /\ m - Len(s) \in DOMAIN t /\ u[m] = t[m - Len(s)]
    BY <1>6, <2>4 DEF From
  <2> QED
    BY <1>3, <2>1, <2>2, <2>3, <2>4
<1> QED
  BY <1>1, <1>2, <1>4, <1>5, <1>6

LEMMA TurnIsWithinIntent ==
  ASSUME Typed, Turn PROVE DrawnWithinIntent
<1> SUFFICES ASSUME NEW i \in DOMAIN results, NEW a \in User
             PROVE  InBound(Total(results[i].ledger, a), Limit[i])
  BY DEF DrawnWithinIntent
<1>1. PICK s : s = results[i].ledger
  OBVIOUS
<1>2. s \in Seq(Entries) /\ Covered(s, i)
  BY <1>1, SaidIs DEF Turn, ResultsCovered
<1>3. Limit[i] \in Int
  <2>1. i \in 1..NumCalls
    <3>1. PICK R : results \in Seq(R)
      BY DEF Typed, HostTyped
    <3>2. i \in 1..Len(results) /\ Len(results) =< sent /\ sent =< NumCalls
      <4>1. DOMAIN results = 1..Len(results) /\ Len(results) \in Nat
        BY <3>1
      <4> QED
        BY <4>1 DEF Typed, HostTyped
    <3> QED
      BY <3>1, <3>2, RunnerAssumption DEF Typed, HostTyped
  <2> QED
    BY <2>1, RunnerAssumption
<1>4. InBound(Total(s, a), Limit[i])
  BY <1>2, <1>3, TotalBounded DEF Covered
<1> QED
  BY <1>1, <1>4

LEMMA TurnIsNotOverdrawn ==
  ASSUME Typed, Turn PROVE NotOverdrawn
<1> DEFINE N == Len(results)
           Rec(f) == f = [i \in 0..N |-> IF i = 0 THEN <<>> ELSE f[i - 1] \o results[i].ledger]
           all == CHOOSE f : Rec(f)
<1>0. NotOverdrawn <=> (timeouts = 0 => \A a \in Account : InBound(Total(all[N], a), Funds[a]))
  BY DEF NotOverdrawn
<1>1. N \in Nat /\ DOMAIN results = 1..N /\ \A i \in 1..N : results[i].ledger \in Seq(Entries)
  <2>1. PICK R : results \in Seq(R)
    BY DEF Typed, HostTyped
  <2>2. N \in Nat /\ DOMAIN results = 1..N
    BY <2>1
  <2> QED
    BY <2>2, SaidIs
<1> HIDE DEF N
<1>2. Rec(all)
  <2> DEFINE step == [p \in Seq(Entries) \X (1..N) |-> p[1] \o results[p[2]].ledger]
  <2>1. step \in [Seq(Entries) \X (1..N) -> Seq(Entries)]
    <3>1. ASSUME NEW p \in Seq(Entries) \X (1..N) PROVE p[1] \o results[p[2]].ledger \in Seq(Entries)
      <4>1. p[1] \in Seq(Entries) /\ results[p[2]].ledger \in Seq(Entries)
        BY <1>1
      <4> QED
        BY <4>1
    <3> QED
      BY <3>1
  <2>2. \A x \in Seq(Entries), i \in 1..N : step[<<x, i>>] = x \o results[i].ledger
    OBVIOUS
  <2>3. <<>> \in Seq(Entries)
    OBVIOUS
  <2> HIDE DEF step
  <2>4. PICK f : Steps(f, Seq(Entries), N, <<>>, step)
    BY <1>1, <2>1, <2>3, StepsExist
  <2>5. ASSUME NEW i \in 0..N PROVE f[i] = IF i = 0 THEN <<>> ELSE f[i - 1] \o results[i].ledger
    <3>1. CASE i = 0
      BY <2>4, <3>1 DEF Steps
    <3>2. CASE i # 0
      <4>1. i \in 1..N /\ i - 1 \in 0..N
        BY <1>1, <3>2
      <4>2. f[i - 1] \in Seq(Entries) /\ f[i] = step[<<f[i - 1], i>>]
        BY <2>4, <4>1 DEF Steps
      <4> QED
        BY <2>2, <3>2, <4>1, <4>2
    <3> QED
      BY <3>1, <3>2
  <2>6. Rec(f)
    BY <2>4, <2>5 DEF Steps
  <2> QED
    BY <2>6
<1> HIDE DEF all
<1>3. all[0] = <<>> /\ \A i \in 1..N : all[i] = all[i - 1] \o results[i].ledger
  <2>1. \A i \in 0..N : all[i] = IF i = 0 THEN <<>> ELSE all[i - 1] \o results[i].ledger
    BY <1>2
  <2>2. 0 \in 0..N /\ \A i \in 1..N : i \in 0..N /\ i # 0
    BY <1>1
  <2> QED
    BY <2>1, <2>2
<1> DEFINE Single(s) == /\ s \in Seq(Entries) /\ \A m, n \in DOMAIN s : s[m].from = s[n].from => m = n
                        /\ \A m \in DOMAIN s : s[m].amount =< Funds[s[m].from]
           Fits(i) == Single(all[i]) /\ \A a \in From(all[i]) : \E j \in 1..i : a \in From(results[j].ledger)
           Bad == {i \in 0..N : ~Fits(i)}
<1>4. ASSUME Bad # {} PROVE FALSE
  <2>1. PICK i \in Bad : \A j \in Bad : i =< j
    <3>1. Bad \subseteq Nat
      BY <1>1
    <3> HIDE DEF Bad
    <3> QED
      BY <1>4, <3>1, LeastNat
  <2>2. i \in 1..N /\ i - 1 \in 0..N /\ i - 1 \notin Bad
    <3>1. Fits(0)
      <4>1. <<>> \in Seq(Entries) /\ DOMAIN <<>> = {}
        OBVIOUS
      <4> QED
        BY <1>3, <4>1 DEF From
    <3> HIDE DEF Fits
    <3> QED
      BY <1>1, <2>1, <3>1
  <2>3. Fits(i - 1) /\ all[i] = all[i - 1] \o results[i].ledger
    BY <1>3, <2>2
  <2>4. /\ results[i].ledger \in Seq(Entries) /\ Covered(results[i].ledger, i)
        /\ \A j \in 1..(i - 1) : From(results[j].ledger) \cap From(results[i].ledger) = {}
    <3>1. \A j \in 1..(i - 1) : j \in 1..N /\ j # i
      BY <1>1, <2>2
    <3> QED
      BY <1>1, <2>2, <3>1 DEF Turn, ResultsCovered
  <2>5. From(all[i - 1]) \cap From(results[i].ledger) = {}
    BY <2>3, <2>4
  <2>6. PICK s, t : s = all[i - 1] /\ t = results[i].ledger
    OBVIOUS
  <2>7. Single(s \o t) /\ From(s \o t) \subseteq From(s) \cup From(t)
    <3>1. Single(s)
      BY <2>3, <2>6
    <3>2. t \in Seq(Entries) /\ Covered(t, i) /\ From(s) \cap From(t) = {}
      BY <2>4, <2>5, <2>6
    <3> QED
      BY <3>1, <3>2, CoveredJoin
  <2>8. \A a \in From(s \o t) : \E j \in 1..i : a \in From(results[j].ledger)
    <3>1. i \in 1..i /\ \A j \in 1..(i - 1) : j \in 1..i
      BY <1>1, <2>2
    <3> QED
      BY <2>3, <2>6, <2>7, <3>1
  <2>9. Fits(i)
    BY <2>3, <2>6, <2>7, <2>8
  <2> QED
    BY <2>1, <2>9
<1>5. Single(all[N])
  <2>1. Fits(N)
    <3> HIDE DEF Fits
    <3> QED
      BY <1>1, <1>4
  <2> QED
    BY <2>1
<1>6. ASSUME NEW a \in Account PROVE InBound(Total(all[N], a), Funds[a])
  <2>1. Funds[a] \in Int
    BY RunnerAssumption
  <2> QED
    BY <1>5, <2>1, TotalBounded
<1> QED
  BY <1>0, <1>6

\* Until a call times out, what one call takes from any user's account is within its
\* intent's limit, and what all calls of a block send from an account is within what it
\* has, whatever accounts they name and whatever amounts of either sign they move; and
\* nothing taken is counted twice, also when answers are taken for those of other calls.
\* It says nothing of what moving a negative amount takes from where it goes to.
THEOREM DrawsAlwaysCovered == Spec => []DrawsAreCovered
<1>1. Typed /\ InTurn => DrawnWithinIntent /\ NotOverdrawn
  BY TurnIsWithinIntent, TurnIsNotOverdrawn DEF InTurn, DrawnWithinIntent, NotOverdrawn
<1>2. OnceInv => TakenOnce
  BY OnceIsTakenOnce
<1> QED
  BY <1>1, <1>2, AlwaysInTurn, AlwaysOnce, PTL DEF DrawsAreCovered

-------------------------------------------------------------------------------
(* The calls are atomic: every step of the node and the process is a step  *)
(* of AtomicCalls or none, as long as IPFS answers and every call is       *)
(* answered in time, and contracts write no empty string.                  *)

NothingEmpty == \A c \in Calls : Empty \notin Writes[c]

\* What finish has written is what the cache has, and what is empty there was so.
Kept ==
  /\ \A k \in final : k \in DOMAIN cache /\ stored[k] = cache[k]
  /\ \A k \in DOMAIN cache : cache[k] = Empty => stored[k] = Empty

KeptInTurn == timeouts = 0 /\ faults = 0 => Kept

LEMMA KeptInit ==
  ASSUME Init PROVE Kept
<1>1. final = {} /\ cache = None
  BY DEF Init, RunnerInit
<1> QED
  BY <1>1, NothingIsCovered DEF Kept

LEMMA KeptStep ==
  ASSUME NothingEmpty, Typed, Turn, Kept, [Next]_vars, faults' = 0 PROVE Kept'
<1>0. RunnerTyped
  BY DEF Typed
<1>1. CASE UNCHANGED <<stored, cache, final>>
  BY <1>1 DEF Kept
<1>2. ASSUME NEW c \in Calls, Got(c) PROVE Kept'
  <2>1. pc[c] = "read"
    BY <1>2 DEF Got
  <2>2. final = {} /\ arg[c] \in Key
    BY <1>0, <2>1, BegunIsWaited DEF Calling, RunnerTyped
  <2>3. /\ UNCHANGED <<stored, final>>
        /\ cache' = Put(cache, arg[c], stored[arg[c]]) \/ cache' = Put(cache, arg[c], Null)
    BY <1>2 DEF Got
  <2>4. Null # Empty
    BY RunnerAssumption
  <2> QED
    BY <2>2, <2>3, <2>4 DEF Kept, Put
<1>3. ASSUME NEW c \in Calls, Return(c) PROVE Kept'
  <2>1. c = waiting /\ final = {} /\ Executing
    BY <1>3, BegunIsWaited DEF Return, Running, Calling
  <2>2. UNCHANGED <<stored, final>> /\ cache' = Over(temp, cache)
    BY <1>3 DEF Return, Committed
  <2>3. \A k \in DOMAIN temp : temp[k] # Empty
    BY <2>1, RunnerAssumption DEF Executing, NothingEmpty
  <2> QED
    BY <2>1, <2>2, <2>3 DEF Kept, Over
<1>4. ASSUME NEW k \in Key, Write(k) PROVE Kept'
  <2>1. stored \in State /\ k \in DOMAIN cache /\ UNCHANGED cache /\ final' = final \cup {k}
    BY <1>0, <1>4 DEF Write, Left, RunnerTyped
  <2>2. stored' = Written(k)
    <3>1. faults \in Nat
      BY <1>0 DEF RunnerTyped
    <3> QED
      BY <1>4, <3>1 DEF Write, Fault
  <2>3. CASE cache[k] = Empty
    BY <2>1, <2>2, <2>3 DEF Kept, Written
  <2>4. CASE cache[k] # Empty
    <3>1. stored' = [stored EXCEPT ![k] = cache[k]]
      BY <2>2, <2>4 DEF Written
    <3>2. stored'[k] = cache[k] /\ \A j \in Key : j # k => stored'[j] = stored[j]
      BY <2>1, <3>1 DEF State
    <3>3. final \subseteq Key /\ DOMAIN cache \subseteq Key
      BY <1>0 DEF RunnerTyped, Cells
    <3> QED
      BY <2>1, <3>2, <3>3 DEF Kept
  <2> QED
    BY <2>3, <2>4
<1>5. CASE UNCHANGED vars \/ Host
  BY <1>1, <1>5 DEF vars, runnerVars, Host, SendCall, Answered, Dropped, Timeout, SendFinish,
                    Finished, RunnerElse
<1>6. CASE TakeCall \/ TakeFinish \/ Exit \/ \E k \in Key : DeleteThrows(k)
  BY <1>1, <1>6 DEF TakeCall, TakeFinish, Exit, DeleteThrows
<1>7. ASSUME NEW c \in Calls, Step(c) PROVE Kept'
  <2>1. CASE Loaded(c) \/ NotLoaded(c) \/ Funded(c) \/ Revert(c) \/ Throws(c) \/ Loop(c)
    BY <1>1, <2>1 DEF Loaded, NotLoaded, Funded, Revert, Throws, Throw, Loop
  <2>2. CASE \/ \E k \in Key : Get(c, k) \/ \E v \in Writes[c] \cup {Null} : Set(c, k, v)
             \/ \E m \in Moves(Amounts) : Ask(c, m)
    BY <1>1, <2>2 DEF Get, Set, Ask
  <2> QED
    BY <1>2, <1>3, <1>7, <2>1, <2>2 DEF Step
<1> QED
  BY <1>4, <1>5, <1>6, <1>7 DEF Next, RunnerNext, Calls

\* Faults only add up.
LEMMA FaultsStay ==
  ASSUME Typed, [Next]_vars, faults' = 0 PROVE faults = 0
<1>1. faults \in Nat
  BY DEF Typed, RunnerTyped
<1>2. UNCHANGED faults \/ Fault
  <2>1. CASE UNCHANGED vars \/ Host
    BY <2>1 DEF vars, runnerVars, Host, SendCall, Answered, Dropped, Timeout, SendFinish,
                Finished, RunnerElse
  <2>2. CASE TakeCall \/ TakeFinish \/ Exit \/ \E k \in Key : Write(k) \/ DeleteThrows(k)
    BY <2>2 DEF TakeCall, TakeFinish, Exit, Write, DeleteThrows
  <2>3. ASSUME NEW c \in Calls, Step(c) PROVE UNCHANGED faults \/ Fault
    BY <2>3 DEF Step, Loaded, NotLoaded, Got, Funded, Revert, Return, Throws, Throw, Loop, Get,
                Set, Ask
  <2> QED
    BY <2>1, <2>2, <2>3 DEF Next, RunnerNext, Calls
<1> QED
  BY <1>1, <1>2 DEF Fault

LEMMA AlwaysKept ==
  ASSUME NothingEmpty PROVE Spec => [](Typed /\ InTurn /\ KeptInTurn)
<1>1. Init => Typed /\ InTurn /\ KeptInTurn
  BY TypedInit, TurnInit, KeptInit DEF InTurn, KeptInTurn
<1>2. Typed /\ InTurn /\ KeptInTurn /\ [Next]_vars => (Typed /\ InTurn /\ KeptInTurn)'
  BY TypedStep, TurnStep, TimesOut, KeptStep, FaultsStay DEF InTurn, KeptInTurn
<1> QED
  BY <1>1, <1>2, PTL DEF Spec

\* The state of AtomicCalls.
Db == Over(cache, stored)

LEMMA DbIs ==
  ASSUME RunnerTyped
  PROVE  Db = [k \in Key |-> IF k \in DOMAIN cache THEN cache[k] ELSE stored[k]]
  BY DEF Db, Over, RunnerTyped, State, Cells

\* The answers are those of the results and, before the node has heard it, the last.
OksOK ==
  /\ Oks \in Seq(BOOLEAN) /\ Len(results) \in Nat /\ DOMAIN results = 1..Len(results)
  /\ ~Replied => Len(Oks) = Len(results) /\ \A i \in 1..Len(results) : Oks[i] = results[i].ok
  /\ Replied => /\ Len(Oks) = Len(results) + 1 /\ Oks[Len(results) + 1] = outbox[1].ok
                /\ \A i \in 1..Len(results) : Oks[i] = results[i].ok
  /\ Calling => ~Told
  /\ Told <=> outbox = <<[type |-> "finish", state |-> stored]>>

LEMMA OksAre ==
  ASSUME Typed, Turn PROVE OksOK
<1> USE DEF OksOK
<1>1. PICK n \in Nat : n = Len(results)
  <2>1. PICK R : results \in Seq(R)
    BY DEF Typed, HostTyped
  <2> QED
    BY <2>1
<1>2. DOMAIN results = 1..n /\ \A i \in 1..n : results[i].ok \in BOOLEAN
  <2>1. PICK R : R = [ok : BOOLEAN, ledger : Seq(Entries)]
    OBVIOUS
  <2>2. results \in Seq(R)
    BY <2>1 DEF Typed, HostTyped
  <2>3. DOMAIN results = 1..n /\ \A i \in 1..n : results[i] \in R
    BY <1>1, <2>2
  <2> QED
    BY <2>1, <2>3
<1>3. CASE outbox = <<>>
  <2>1. ~Told /\ Len(outbox) = 0 /\ ~Replied
    BY <1>3 DEF Told, Replied
  <2>2. Oks = [i \in 1..n |-> IF i =< n THEN results[i].ok ELSE outbox[i - n].ok]
    BY <1>1, <2>1 DEF Oks
  <2>3. Oks \in [1..n -> BOOLEAN] /\ \A i \in 1..n : Oks[i] = results[i].ok
    BY <1>2, <2>2
  <2>4. Oks \in Seq(BOOLEAN) /\ Len(Oks) = n
    BY <2>3
  <2> QED
    BY <1>1, <1>2, <1>3, <2>1, <2>3, <2>4
<1>4. CASE outbox = <<[type |-> "finish", state |-> stored]>>
  <2>1. Told /\ Len(outbox) = 1 /\ ~Replied
    <3>1. 1 \in DOMAIN outbox /\ outbox[1].type = "finish" /\ Len(outbox) = 1
      BY <1>4
    <3> QED
      BY <3>1 DEF Told, Replied
  <2>2. Oks = [i \in 1..n |-> IF i =< n THEN results[i].ok ELSE outbox[i - n].ok]
    <3>1. n + 1 - 1 = n
      OBVIOUS
    <3> QED
      BY <1>1, <2>1, <3>1 DEF Oks
  <2>3. Oks \in [1..n -> BOOLEAN] /\ \A i \in 1..n : Oks[i] = results[i].ok
    BY <1>2, <2>2
  <2>4. Oks \in Seq(BOOLEAN) /\ Len(Oks) = n
    BY <2>3
  <2>5. ~Calling
    BY <1>4, <2>1 DEF Calling, Idle, Asked, Executing
  <2> QED
    BY <1>1, <1>2, <1>4, <2>1, <2>3, <2>4, <2>5
<1>5. CASE Replied
  <2>0. /\ outbox \in Seq(StopMessage \cup StateMessage) /\ Len(outbox) = 1 /\ outbox[1].type = "stop"
    BY <1>5 DEF Replied, Typed, RunnerTyped
  <2>1. DOMAIN outbox = {1} /\ outbox[1] \in StopMessage
    <3>1. DOMAIN outbox = {1} /\ outbox[1] \in StopMessage \cup StateMessage
      BY <2>0
    <3> QED
      BY <2>0, <3>1 DEF StateMessage
  <2>2. ~Told /\ outbox[1].ok \in BOOLEAN
    BY <2>0, <2>1 DEF Told, StopMessage
  <2>3. Oks = [i \in 1..(n + 1) |-> IF i =< n THEN results[i].ok ELSE outbox[i - n].ok]
    BY <1>1, <2>0, <2>2 DEF Oks
  <2>4. \A i \in 1..(n + 1) : i \in 1..n \/ (i = n + 1 /\ ~(i =< n) /\ i - n = 1)
    OBVIOUS
  <2>5. /\ \A i \in 1..n : Oks[i] = results[i].ok
        /\ Oks[n + 1] = outbox[1].ok
    BY <2>3
  <2>6. Oks \in [1..(n + 1) -> BOOLEAN]
    BY <1>2, <2>2, <2>3, <2>4
  <2>7. Oks \in Seq(BOOLEAN) /\ Len(Oks) = n + 1
    BY <2>6
  <2>8. outbox # <<[type |-> "finish", state |-> stored]>>
    BY <2>0
  <2> QED
    BY <1>1, <1>2, <1>5, <2>2, <2>5, <2>7, <2>8
<1> QED
  BY <1>3, <1>4, <1>5 DEF Turn, Calling, Ending, Ended, Idle, Asked, Executing

\* An answer told is the last of the answers.
LEMMA OksGrow ==
  ASSUME Typed, Turn, OksOK, OksOK', ~Replied, Replied', UNCHANGED results
  PROVE  Oks' = Append(Oks, outbox'[1].ok)
<1>1. PICK s, t, n : s = Oks /\ t = Oks' /\ n = Len(results)
  OBVIOUS
<1>2. /\ s \in Seq(BOOLEAN) /\ n \in Nat /\ Len(s) = n
      /\ \A i \in 1..n : s[i] = results[i].ok
  BY <1>1 DEF OksOK
<1>3. t \in Seq(BOOLEAN) /\ Len(t) = n + 1 /\ t[n + 1] = outbox'[1].ok /\ \A i \in 1..n : t[i] = results[i].ok
  <2>1. /\ Oks' \in Seq(BOOLEAN) /\ Len(Oks') = Len(results') + 1
        /\ Oks'[Len(results') + 1] = outbox'[1].ok
        /\ \A i \in 1..Len(results') : Oks'[i] = results'[i].ok
    BY DEF OksOK
  <2> QED
    BY <1>1, <2>1
<1>4. t = Append(s, t[n + 1])
  BY <1>2, <1>3
<1> QED
  BY <1>1, <1>3, <1>4

\* Answers that are not told anew are the same.
LEMMA OksSame ==
  ASSUME Typed, Turn, OksOK, OksOK',
         \/ UNCHANGED results /\ ~Replied /\ ~Replied'
         \/ Replied /\ ~Replied' /\ \E x : x.ok = outbox[1].ok /\ results' = Append(results, x)
  PROVE  Oks' = Oks
<1>1. PICK s, t, n : s = Oks /\ t = Oks' /\ n = Len(results)
  OBVIOUS
<1>2. /\ s \in Seq(BOOLEAN) /\ n \in Nat /\ DOMAIN results = 1..n
      /\ ~Replied => Len(s) = n /\ \A i \in 1..n : s[i] = results[i].ok
      /\ Replied => Len(s) = n + 1 /\ s[n + 1] = outbox[1].ok /\ \A i \in 1..n : s[i] = results[i].ok
  BY <1>1 DEF OksOK
<1>3. /\ t \in Seq(BOOLEAN)
      /\ ~Replied' => Len(t) = Len(results') /\ \A i \in 1..Len(results') : t[i] = results'[i].ok
      /\ Replied' => /\ Len(t) = Len(results') + 1 /\ t[Len(results') + 1] = outbox'[1].ok
                     /\ \A i \in 1..Len(results') : t[i] = results'[i].ok
  <2>1. /\ Oks' \in Seq(BOOLEAN)
        /\ ~Replied' => Len(Oks') = Len(results') /\ \A i \in 1..Len(results') : Oks'[i] = results'[i].ok
        /\ Replied' => /\ Len(Oks') = Len(results') + 1 /\ Oks'[Len(results') + 1] = outbox'[1].ok
                       /\ \A i \in 1..Len(results') : Oks'[i] = results'[i].ok
    BY DEF OksOK
  <2> QED
    BY <1>1, <2>1
<1>4. Len(t) = Len(s) /\ \A i \in 1..Len(s) : t[i] = s[i]
  <2>1. CASE UNCHANGED results /\ ~Replied /\ ~Replied'
    BY <1>1, <1>2, <1>3, <2>1
  <2>2. CASE Replied /\ ~Replied' /\ \E x : x.ok = outbox[1].ok /\ results' = Append(results, x)
    <3>1. PICK x : x.ok = outbox[1].ok /\ results' = Append(results, x)
      BY <2>2
    <3>2. PICK R : results \in Seq(R)
      BY DEF Typed, HostTyped
    <3>3. /\ Len(results') = n + 1 /\ results'[n + 1] = x
          /\ \A i \in 1..n : results'[i] = results[i]
      BY <1>1, <3>1, <3>2
    <3>4. \A i \in 1..(n + 1) : i \in 1..n \/ i = n + 1
      BY <1>2
    <3>5. n + 1 \in 1..(n + 1) /\ \A i \in 1..n : i \in 1..(n + 1)
      BY <1>2
    <3>6. Len(s) = n + 1 /\ Len(t) = n + 1
      BY <1>2, <1>3, <2>2, <3>3
    <3>7. \A i \in 1..n : t[i] = s[i]
      BY <1>2, <1>3, <2>2, <3>3, <3>5
    <3>8. t[n + 1] = s[n + 1]
      BY <1>2, <1>3, <2>2, <3>1, <3>3, <3>5
    <3> QED
      BY <3>4, <3>6, <3>7, <3>8
  <2> QED
    BY <2>1, <2>2
<1> QED
  BY <1>1, <1>2, <1>3, <1>4

\* What is told to the node is the block's output from then on.
LEMMA OutputIs ==
  ASSUME Typed, Turn, OksOK
  PROVE  /\ Calling => Output = Null
         /\ Ending /\ outbox = <<>> => Output = Null
         /\ Ending /\ outbox # <<>> => Output = stored
         /\ Ended => Output = output
  BY DEF OksOK, Output, Told, Calling, Ending, Ended

LEMMA AtomicHost ==
  ASSUME Typed, Turn, OksOK, Turn', OksOK', Host, timeouts' = 0
  PROVE  UNCHANGED <<Db, Oks, Output>>
<1>0. RunnerElse
  BY DEF Host, SendCall, Answered, Dropped, Timeout, SendFinish, Finished
<1>1. UNCHANGED Db /\ UNCHANGED stored
  BY <1>0 DEF RunnerElse, Db, Over
<1>2. CASE SendCall \/ SendFinish
  <2>1. UNCHANGED <<results, outbox>> /\ phase # "done" /\ phase' # "done"
    BY <1>2 DEF SendCall, SendFinish
  <2> QED
    BY <1>1, <2>1 DEF Oks, Told, Output
<1>3. CASE Answered
  <2>1. Replied /\ waiting' = 0 /\ UNCHANGED phase
    BY <1>3 DEF Answered, Arrived, Turn, Ending, Ended, Calling, Idle, Asked, Executing
  <2>2. ~Replied'
    BY <2>1 DEF Replied
  <2>3. Head(outbox) = outbox[1]
    <3>1. outbox \in Seq(StopMessage \cup StateMessage) /\ outbox # <<>>
      BY <1>3 DEF Answered, Arrived, Typed, RunnerTyped
    <3> QED
      BY <3>1
  <2>4. PICK x : x = [ok |-> Head(outbox).ok, ledger |-> Head(outbox).ledger]
    OBVIOUS
  <2>5. x.ok = outbox[1].ok /\ results' = Append(results, x)
    BY <1>3, <2>3, <2>4 DEF Answered
  <2>6. Oks' = Oks
    BY <2>1, <2>2, <2>5, OksSame
  <2>7. ~Told /\ phase = "run"
    BY <2>1 DEF Turn, Ending, Ended, Calling, Replied, OksOK
  <2>8. ~Told' /\ phase' = "run"
    BY <2>1, <2>7 DEF Turn, Ending, Ended, OksOK
  <2> QED
    BY <1>1, <2>6, <2>7, <2>8 DEF Output
<1>4. CASE Finished
  <2>1. phase = "finish" /\ phase' = "done" /\ outbox # <<>> /\ output' = Head(outbox).state /\ UNCHANGED results
    BY <1>4 DEF Finished, Arrived
  <2>2. Ending /\ outbox = <<[type |-> "finish", state |-> stored]>> /\ waiting = 0 /\ waiting' = 0
    BY <1>4, <2>1 DEF Turn, Ending, Ended, Calling, Finished
  <2>3. output' = stored
    BY <2>1, <2>2
  <2>4. Oks' = Oks
    BY <2>1, <2>2, OksSame DEF Replied
  <2>5. Told /\ phase # "done"
    BY <2>1, <2>2 DEF OksOK
  <2> QED
    BY <1>1, <2>1, <2>3, <2>4, <2>5 DEF Output
<1>5. ~Dropped /\ ~Timeout
  <2>1. CASE Dropped
    <3>1. outbox # <<>> /\ Head(outbox).type = "stop" /\ waiting = 0
      BY <2>1 DEF Dropped, Arrived
    <3>2. outbox = <<[type |-> "finish", state |-> stored]>>
      BY <3>1 DEF Turn, Ending, Ended, Calling, Idle, Asked, Executing, Replied
    <3>3. Head(outbox) = [type |-> "finish", state |-> stored]
      BY <3>2
    <3> QED
      BY <3>1, <3>3
  <2>2. CASE Timeout
    <3>1. timeouts \in Nat
      BY DEF Typed, HostTyped
    <3> QED
      BY <2>2, <3>1 DEF Timeout
  <2> QED
    BY <2>1, <2>2
<1> QED
  BY <1>2, <1>3, <1>4, <1>5 DEF Host

\* Steps of the process that tell the node nothing.
LEMMA AtomicSilence ==
  ASSUME Typed, Turn, OksOK, Kept, RunnerNext, HostIdle, faults' = 0, UNCHANGED outbox
  PROVE  UNCHANGED <<Db, Oks, Output>>
<1>0. RunnerTyped
  BY DEF Typed
<1>1. UNCHANGED Oks
  BY DEF HostIdle, Oks, Told
<1>2. CASE UNCHANGED <<stored, cache>>
  BY <1>1, <1>2 DEF Db, Over, Output, Told, HostIdle
<1>3. ASSUME NEW c \in Calls, Got(c) PROVE UNCHANGED <<Db, Oks, Output>>
  <2>1. Executing /\ pc[c] = "read" /\ c = waiting
    BY <1>3, BegunIsWaited DEF Got
  <2>2. arg[c] \in Key \ DOMAIN cache /\ cache' = Put(cache, arg[c], stored[arg[c]]) /\ UNCHANGED stored
    <3>1. faults \in Nat /\ arg[c] \in Key
      BY <1>0, <2>1 DEF RunnerTyped
    <3> QED
      BY <1>3, <2>1, <3>1 DEF Got, Fault, Executing
  <2>3. DOMAIN stored = Key
    BY <1>0 DEF RunnerTyped, State
  <2>4. UNCHANGED Db
    BY <2>2, <2>3 DEF Db, Over, Put
  <2> QED
    BY <1>1, <2>2, <2>4 DEF Output, Told, HostIdle
<1>4. ASSUME NEW k \in Key, Write(k) PROVE UNCHANGED <<Db, Oks, Output>>
  <2>1. k \in DOMAIN cache /\ UNCHANGED cache /\ stored' \in {stored, [stored EXCEPT ![k] = cache[k]]}
    BY <1>4 DEF Write, Left, Written
  <2>2. DOMAIN stored' = DOMAIN stored /\ \A j \in DOMAIN stored : j # k => stored'[j] = stored[j]
    BY <1>0, <2>1 DEF RunnerTyped, State
  <2>3. UNCHANGED Db
    BY <2>1, <2>2 DEF Db, Over
  <2>4. ~Told /\ phase # "done"
    BY <1>4 DEF Turn, Calling, Ending, Ended, Write, Free, Told
  <2> QED
    BY <1>1, <2>3, <2>4 DEF Output, Told, HostIdle
<1>5. CASE TakeCall \/ TakeFinish \/ \E k \in Key : DeleteThrows(k)
  BY <1>2, <1>5 DEF TakeCall, TakeFinish, DeleteThrows
<1>6. ASSUME NEW c \in Calls, Step(c) PROVE UNCHANGED <<Db, Oks, Output>>
  <2>1. CASE Loaded(c) \/ Funded(c) \/ Revert(c) \/ Loop(c)
    BY <1>2, <2>1 DEF Loaded, Funded, Revert, Loop
  <2>2. CASE \/ \E k \in Key : Get(c, k) \/ \E v \in Writes[c] \cup {Null} : Set(c, k, v)
             \/ \E m \in Moves(Amounts) : Ask(c, m)
    BY <1>2, <2>2 DEF Get, Set, Ask
  <2>3. CASE NotLoaded(c) \/ Throws(c)
    BY <1>2, <2>3 DEF NotLoaded, Throws, Throw
  <2>4. CASE Return(c)
    <3>1. outbox = <<>>
      BY <2>4, BegunIsWaited DEF Return, Running, Executing
    <3>2. outbox' = Append(<<>>, Answer(c, TRUE, ledger))
      BY <2>4, <3>1 DEF Return
    <3> QED
      BY <3>1, <3>2
  <2> QED
    BY <1>3, <1>6, <2>1, <2>2, <2>3, <2>4 DEF Step
<1>7. CASE Exit
  <2>1. outbox = <<>>
    BY <1>7 DEF Turn, Calling, Ending, Ended, Exit, Free
  <2>2. outbox' = Append(<<>>, [type |-> "finish", state |-> stored])
    BY <1>7, <2>1 DEF Exit
  <2> QED
    BY <2>1, <2>2
<1> QED
  BY <1>4, <1>5, <1>6, <1>7 DEF RunnerNext, Calls

\* An answer of the call waited for.
LEMMA AtomicAnswer ==
  ASSUME Typed, Turn, OksOK, Turn', OksOK', HostIdle, NEW c \in Calls, Executing, c = waiting, Calling,
         NEW good \in BOOLEAN, NEW taken, outbox' = Append(outbox, Answer(c, good, taken))
  PROVE  /\ Len(Oks) < NumCalls /\ Len(Oks) + 1 = c /\ Oks' = Append(Oks, good)
         /\ Output = Null /\ UNCHANGED Output
<1>1. outbox' = <<Answer(c, good, taken)>>
  BY DEF Executing
<1>2. Len(outbox') = 1 /\ outbox'[1].type = "stop" /\ outbox'[1].ok = good
  <2>1. PICK m : m = Answer(c, good, taken)
    OBVIOUS
  <2>2. m.type = "stop" /\ m.ok = good
    BY <2>1 DEF Answer
  <2> QED
    BY <1>1, <2>1, <2>2
<1>3. UNCHANGED results /\ phase = "run" /\ phase' = "run" /\ waiting' = waiting
  BY DEF HostIdle, Calling
<1>4. Calling' /\ Replied' /\ ~Replied
  BY <1>2, <1>3 DEF Turn, Ending, Ended, Calling, Idle, Asked, Executing, Replied
<1>5. Oks' = Append(Oks, good)
  BY <1>2, <1>3, <1>4, OksGrow
<1>6. Len(Oks) = Len(results) /\ Len(results) = sent - 1 /\ waiting = sent /\ sent \in 0..NumCalls
  BY <1>4 DEF OksOK, Typed, HostTyped, Executing
<1>7. NumCalls \in Nat
  BY RunnerAssumption
<1>8. Len(Oks) < NumCalls /\ Len(Oks) + 1 = c
  BY <1>6, <1>7
<1>9. Output = Null /\ Output' = Null
  BY <1>3, <1>4 DEF OksOK, Output
<1> QED
  BY <1>5, <1>8, <1>9

\* A call that returns writes what it put, and nothing else.
LEMMA AtomicReturn ==
  ASSUME Typed, Turn, OksOK, Turn', OksOK', HostIdle, NEW c \in Calls, Return(c)
  PROVE  Atomic!Succeed
<1>0. RunnerTyped
  BY DEF Typed
<1>1. c = waiting /\ Calling /\ Executing
  BY BegunIsWaited DEF Return, Running
<1>2. outbox' = Append(outbox, Answer(c, TRUE, ledger)) /\ cache' = Over(temp, cache) /\ UNCHANGED stored
  BY DEF Return, Committed
<1>3. /\ Len(Oks) < NumCalls /\ Len(Oks) + 1 = c /\ Oks' = Append(Oks, TRUE)
      /\ Output = Null /\ UNCHANGED Output
  BY <1>1, <1>2, AtomicAnswer
<1> DEFINE changed == DOMAIN temp
           new == [k \in Key |-> IF k \in DOMAIN temp THEN temp[k] ELSE Null]
<1>4. changed \in SUBSET Key /\ new \in [Key -> Writes[Len(Oks) + 1] \cup {Null}]
  BY <1>0, <1>1, <1>3 DEF Executing, RunnerTyped, Cells
<1>5. Db' = [k \in Key |-> IF k \in changed THEN new[k] ELSE Db[k]]
  <2>1. /\ DOMAIN cache \subseteq Key /\ DOMAIN temp \subseteq Key /\ DOMAIN stored = Key
        /\ DOMAIN cache' = DOMAIN temp \cup DOMAIN cache
    BY <1>0, <1>2 DEF RunnerTyped, Cells, State, Over
  <2>2. Db' = [k \in Key |-> IF k \in DOMAIN cache' THEN cache'[k] ELSE stored[k]]
    BY <1>2, <2>1 DEF Db, Over
  <2>3. Db = [k \in Key |-> IF k \in DOMAIN cache THEN cache[k] ELSE stored[k]]
    BY <1>0, DbIs
  <2>4. \A k \in Key : Db'[k] = IF k \in changed THEN new[k] ELSE Db[k]
    BY <1>2, <2>1, <2>2, <2>3 DEF Over
  <2> HIDE DEF changed, new
  <2> QED
    BY <2>2, <2>4
<1> HIDE DEF changed, new
<1> QED
  BY <1>3, <1>4, <1>5 DEF Atomic!Succeed, Db

\* One that does not leaves nothing.
LEMMA AtomicFail ==
  ASSUME Typed, Turn, OksOK, Turn', OksOK', HostIdle, NEW c \in Calls, NotLoaded(c) \/ Throws(c)
  PROVE  Atomic!Fail
<1>1. pc[c] \in {"load", "run"} /\ outbox' = Append(outbox, Answer(c, FALSE, <<>>)) /\ UNCHANGED <<stored, cache>>
  BY DEF NotLoaded, Throws, Throw, Running
<1>2. c = waiting /\ Calling /\ Executing
  BY <1>1, BegunIsWaited
<1>3. /\ Len(Oks) < NumCalls /\ Oks' = Append(Oks, FALSE)
      /\ Output = Null /\ UNCHANGED Output
  BY <1>1, <1>2, AtomicAnswer
<1>4. UNCHANGED Over(cache, stored)
  BY <1>1 DEF Over
<1> QED
  BY <1>3, <1>4 DEF Atomic!Fail

\* The block's output is all that the calls have left.
LEMMA AtomicExit ==
  ASSUME Typed, Turn, OksOK, Turn', OksOK', Kept, HostIdle, Exit
  PROVE  Atomic!Finish
<1>0. RunnerTyped
  BY DEF Typed
<1>1. Ending /\ outbox = <<>>
  BY DEF Turn, Calling, Ending, Ended, Exit, Free
<1>2. outbox' = <<[type |-> "finish", state |-> stored]>> /\ UNCHANGED <<stored, cache>>
  BY <1>1 DEF Exit
<1>3. UNCHANGED <<results, phase, waiting>> /\ phase = "finish" /\ waiting = 0 /\ sent = NumCalls
  BY <1>1 DEF HostIdle, Ending
<1>4. ~Replied /\ ~Replied'
  BY <1>3 DEF Replied
<1>5. Oks' = Oks
  BY <1>3, <1>4, OksSame
<1>6. Len(Oks) = NumCalls
  <2>1. Len(Oks) = Len(results)
    BY <1>4 DEF OksOK
  <2>2. Len(results) = NumCalls
    BY <1>3, RunnerAssumption DEF Typed, HostTyped
  <2> QED
    BY <2>1, <2>2
<1>7. Output = Null
  BY <1>1, OutputIs
<1>8. Output' = stored
  <2>1. Told' /\ phase' # "done" /\ stored' = stored
    BY <1>2, <1>3 DEF OksOK
  <2> QED
    BY <2>1 DEF Output
<1>9. Db = stored
  <2>1. DOMAIN cache \subseteq final
    BY DEF Exit, Left
  <2>2. stored = [k \in Key |-> stored[k]]
    BY <1>0 DEF RunnerTyped, State
  <2>3. \A k \in DOMAIN cache : cache[k] = stored[k]
    BY <2>1 DEF Kept
  <2>4. Db = [k \in Key |-> IF k \in DOMAIN cache THEN cache[k] ELSE stored[k]]
    BY <1>0, DbIs
  <2> QED
    BY <2>2, <2>3, <2>4
<1>10. UNCHANGED Over(cache, stored)
  BY <1>2 DEF Over
<1> QED
  BY <1>5, <1>6, <1>7, <1>8, <1>9, <1>10 DEF Atomic!Finish, Db

LEMMA AtomicInit ==
  ASSUME Init PROVE Atomic!Init
<1>1. cache = None /\ stored = InitState /\ results = <<>> /\ outbox = <<>> /\ phase = "run"
  BY DEF Init, RunnerInit
<1>2. Over(cache, stored) = InitState
  BY <1>1, NothingIsCovered, RunnerAssumption DEF Over
<1>3. ~Told /\ Len(results) = 0 /\ Len(outbox) = 0
  BY <1>1 DEF Told
<1>4. Oks = <<>>
  <2>1. Len(results) + Len(outbox) - 0 = 0
    BY <1>3
  <2>2. Oks = [i \in 1..0 |-> IF i =< Len(results) THEN results[i].ok ELSE outbox[i - Len(results)].ok]
    BY <1>3, <2>1 DEF Oks
  <2> QED
    BY <2>2
<1>5. Output = Null
  BY <1>1, <1>3 DEF Output
<1> QED
  BY <1>2, <1>4, <1>5 DEF Atomic!Init

LEMMA AtomicNext ==
  ASSUME Typed, Turn, OksOK, Turn', OksOK', Kept, Next, timeouts' = 0, faults' = 0
  PROVE  Atomic!Next \/ UNCHANGED <<Db, Oks, Output>>
<1>1. CASE Host
  BY <1>1, AtomicHost
<1>2. CASE RunnerNext /\ HostIdle
  <2>1. CASE UNCHANGED outbox
    BY <1>2, <2>1, AtomicSilence
  <2>2. CASE Exit
    BY <1>2, <2>2, AtomicExit DEF Atomic!Next
  <2>3. ASSUME NEW c \in Calls, NotLoaded(c) \/ Return(c) \/ Throws(c) PROVE Atomic!Next
    BY <1>2, <2>3, AtomicReturn, AtomicFail DEF Atomic!Next
  <2>4. CASE TakeCall \/ TakeFinish \/ \E k \in Key : Write(k) \/ DeleteThrows(k)
    BY <2>1, <2>4 DEF TakeCall, TakeFinish, Write, DeleteThrows
  <2>5. ASSUME NEW c \in Calls, Step(c) PROVE Atomic!Next \/ UNCHANGED <<Db, Oks, Output>>
    <3>1. CASE Loaded(c) \/ Got(c) \/ Funded(c) \/ Revert(c) \/ Loop(c)
      BY <2>1, <3>1 DEF Loaded, Got, Funded, Revert, Loop
    <3>2. CASE \/ \E k \in Key : Get(c, k) \/ \E v \in Writes[c] \cup {Null} : Set(c, k, v)
               \/ \E m \in Moves(Amounts) : Ask(c, m)
      BY <2>1, <3>2 DEF Get, Set, Ask
    <3> QED
      BY <2>3, <2>5, <3>1, <3>2 DEF Step
  <2> QED
    BY <1>2, <2>2, <2>4, <2>5 DEF RunnerNext, Calls
<1> QED
  BY <1>1, <1>2 DEF Next

\* While IPFS answers and no call outlives its timer, calls that share one process, one
\* cache and one ledger stack happen one after another, each as a whole or not at all,
\* and the block records the state they leave, provided no call writes the empty string.
THEOREM PromptCallsAreAtomic ==
  ASSUME NothingEmpty PROVE Spec => CallsAreAtomic
<1> DEFINE OksInTurn == timeouts = 0 => OksOK
           I == Typed /\ InTurn /\ KeptInTurn /\ OksInTurn
<1>1. Spec => []I
  <2>1. Typed /\ InTurn => OksInTurn
    BY OksAre DEF InTurn
  <2> QED
    BY <2>1, AlwaysKept, PTL
<1>2. Init => Atomic!Init
  BY AtomicInit
<1>3. I /\ I' /\ [Next]_vars => [AtomicStep]_vars
  <2> SUFFICES ASSUME I, I', Next, timeouts' = 0, faults' = 0
               PROVE  [Atomic!Next]_<<Over(cache, stored), Oks, Output>>
    BY DEF AtomicStep
  <2>1. timeouts = 0 /\ faults = 0
    BY TimesOut, FaultsStay
  <2>2. Typed /\ Turn /\ OksOK /\ Turn' /\ OksOK' /\ Kept
    BY <2>1 DEF InTurn, KeptInTurn
  <2> QED
    BY <2>2, AtomicNext DEF Db
<1>4. CallsAreAtomic <=> Atomic!Init /\ [][AtomicStep]_vars
  BY DEF CallsAreAtomic
<1> HIDE DEF I
<1> QED
  BY <1>1, <1>2, <1>3, <1>4, PTL DEF Spec

===============================================================================
