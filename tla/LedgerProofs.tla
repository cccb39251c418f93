------------------------------ MODULE LedgerProofs ------------------------------
(***************************************************************************)
(* Proofs about Ledger for every value of its constants: what accounts own *)
(* and are owed is what the multisig account holds, no transaction takes   *)
(* from its sender what is not there, and nothing is paid out twice.       *)
(***************************************************************************)
EXTENDS Ledger, SumTheorems

-------------------------------------------------------------------------------
(* Totals. *)

Amounts(db, S) == [i \in S |-> db[i].amount]

\* A total as a sum over the library's sums.
LEMMA TotalIs ==
  ASSUME NEW db, NEW S
  PROVE  Total(db, S) = SumOf(Amounts(db, S), S)
  BY DEF Total, SumOf, Amounts

\* A total of integers is one.
LEMMA TotalType ==
  ASSUME NEW db, NEW S, IsFiniteSet(S), \A i \in S : db[i].amount \in Int
  PROVE  Total(db, S) \in Int
<1>1. \A i \in S : Amounts(db, S)[i] \in Int
  BY DEF Amounts
<1> QED
  BY <1>1, TotalIs, SumType

\* Two tables with the same amounts have the same total.
LEMMA TotalSame ==
  ASSUME NEW db, NEW other, NEW S, IsFiniteSet(S),
         \A i \in S : db[i].amount \in Int /\ other[i].amount = db[i].amount
  PROVE  Total(other, S) = Total(db, S)
<1>1. Amounts(other, S) = Amounts(db, S)
  BY DEF Amounts
<1> QED
  BY <1>1, TotalIs

\* Nothing totals zero.
LEMMA TotalEmpty == ASSUME NEW db PROVE Total(db, {}) = 0
  BY TotalIs, SumEmpty

\* A record more adds its amount to the total.
LEMMA TotalAdd ==
  ASSUME NEW db, NEW S, IsFiniteSet(S), NEW e, e \notin S,
         \A i \in S \cup {e} : db[i].amount \in Int
  PROVE  Total(db, S \cup {e}) = db[e].amount + Total(db, S)
<1> DEFINE w == Amounts(db, S \cup {e})
           v == Amounts(db, S)
<1>1. /\ \A i \in S \cup {e} : w[i] \in Int
      /\ \A i \in S : v[i] = w[i]
      /\ w[e] = db[e].amount
  BY DEF Amounts
<1>2. Total(db, S \cup {e}) = SumOf(w, S \cup {e}) /\ Total(db, S) = SumOf(v, S)
  BY TotalIs
<1> HIDE DEF w, v
<1>3. SumOf(w, S \cup {e}) = w[e] + SumOf(w, S)
  BY <1>1, SumAdd
<1>4. SumOf(v, S) = SumOf(w, S)
  BY <1>1, SumSame
<1> QED
  BY <1>1, <1>2, <1>3, <1>4

\* A total is that of a part and of the rest.
LEMMA TotalUnion ==
  ASSUME NEW db, NEW S, IsFiniteSet(S), \A i \in S : db[i].amount \in Int, NEW T \in SUBSET S
  PROVE  Total(db, S) = Total(db, T) + Total(db, S \ T)
<1> DEFINE w == Amounts(db, S)
           v == Amounts(db, T)
           u == Amounts(db, S \ T)
<1>1. /\ \A i \in S : w[i] \in Int
      /\ \A i \in T : v[i] = w[i]
      /\ \A i \in S \ T : u[i] = w[i]
  BY DEF Amounts
<1>2. Total(db, S) = SumOf(w, S) /\ Total(db, T) = SumOf(v, T) /\ Total(db, S \ T) = SumOf(u, S \ T)
  BY TotalIs
<1> HIDE DEF w, v, u
<1>3. IsFiniteSet(T) /\ IsFiniteSet(S \ T)
  BY FS_Subset, S \ T \in SUBSET S
<1>4. SumOf(v, T) = SumOf(w, T)
  BY <1>1, <1>3, SumSame
<1>5. SumOf(u, S \ T) = SumOf(w, S \ T)
  BY <1>1, <1>3, SumSame
<1>6. SumOf(w, S) = SumOf(w, T) + SumOf(w, S \ T)
  BY <1>1, SumUnion
<1> QED
  BY <1>2, <1>4, <1>5, <1>6

-------------------------------------------------------------------------------
(* Executing transactions. *)

Event(T) == [tx : T, owner : Account \cup {Withdraw}, amount : Int]
Of(events, k, a) == {i \in 1..k : events[i].owner = a}

\* What events come to from a snapshot of the balances: the balances are kept,
\* and no sender goes below nothing.
Fair(bal, events, from) ==
  /\ bal \in [Account -> Int]
  /\ \A a \in Account : bal[a] = from[a] + Total(events, Of(events, Len(events), a))
  /\ \A k \in 1..Len(events) : events[k] = Debit(events[k].tx) =>
       /\ events[k].owner \in Account
       /\ from[events[k].owner] + Total(events, Of(events, k, events[k].owner)) >= 0

\* The totals of N events and one more.
MoreBy(new, N, events, e) ==
  /\ \A k \in 1..N : \A a : Total(new, Of(new, k, a)) = Total(events, Of(events, k, a))
  /\ \A a : a # e.owner => Total(new, Of(new, N + 1, a)) = Total(events, Of(events, N, a))
  /\ Total(new, Of(new, N + 1, e.owner)) = e.amount + Total(events, Of(events, N, e.owner))
  /\ Total(new, 1..(N + 1)) = e.amount + Total(events, 1..N)
  /\ \A a : Total(events, Of(events, N, a)) \in Int

\* One event more in a block adds its amount to the totals it counts in.
LEMMA EventTotals ==
  ASSUME NEW T, NEW events \in Seq(Event(T)), NEW e \in Event(T), NEW new, new = Append(events, e),
         NEW N, N = Len(events)
  PROVE  MoreBy(new, N, events, e)
<1>1. /\ N \in Nat /\ new \in Seq(Event(T)) /\ Len(new) = N + 1 /\ new[N + 1] = e
      /\ \A i \in 1..N : new[i] = events[i] /\ events[i] \in Event(T)
  OBVIOUS
<1>2. /\ \A i \in 1..(N + 1) : new[i].amount \in Int
      /\ \A i \in 1..N : events[i].amount \in Int /\ new[i].amount = events[i].amount
      /\ new[N + 1].amount = e.amount /\ new[N + 1].owner = e.owner
  BY <1>1 DEF Event
<1>3. ASSUME NEW S \in SUBSET (1..N)
      PROVE  /\ IsFiniteSet(S) /\ Total(new, S) = Total(events, S) /\ Total(events, S) \in Int
             /\ Total(new, S \cup {N + 1}) = e.amount + Total(events, S)
  <2>1. IsFiniteSet(S)
    <3>1. IsFiniteSet(1..N)
      BY <1>1, FS_Interval, 1 \in Int, N \in Int
    <3> QED
      BY <3>1, FS_Subset
  <2>2. \A i \in S : events[i].amount \in Int /\ new[i].amount = events[i].amount
    BY <1>2
  <2>3. Total(new, S) = Total(events, S) /\ Total(events, S) \in Int
    BY <2>1, <2>2, TotalSame, TotalType
  <2>4. N + 1 \notin S /\ \A i \in S \cup {N + 1} : new[i].amount \in Int
    BY <1>1, <1>2
  <2>5. Total(new, S \cup {N + 1}) = new[N + 1].amount + Total(new, S)
    BY <2>1, <2>4, TotalAdd
  <2> QED
    BY <1>2, <2>1, <2>3, <2>5
<1>4. ASSUME NEW k \in 0..N, NEW a
      PROVE  Of(new, k, a) = Of(events, k, a) /\ Of(events, k, a) \in SUBSET (1..N)
  BY <1>1 DEF Of
<1>5. ASSUME NEW a, a # e.owner PROVE Of(new, N + 1, a) = Of(events, N, a)
  BY <1>1, <1>2, <1>5 DEF Of
<1>6. Of(new, N + 1, e.owner) = Of(events, N, e.owner) \cup {N + 1}
  BY <1>1, <1>2 DEF Of
<1>7. 1..(N + 1) = 1..N \cup {N + 1} /\ N \in 0..N /\ 1..N \in SUBSET (1..N)
  BY <1>1
<1>8. Total(new, 1..(N + 1)) = e.amount + Total(events, 1..N) /\ Total(events, 1..N) \in Int
  BY <1>3, <1>7
<1>9. ASSUME NEW k \in 0..N, NEW a
      PROVE  Total(new, Of(new, k, a)) = Total(events, Of(events, k, a))
             /\ Total(events, Of(events, k, a)) \in Int
  BY <1>3, <1>4
<1>10. \A a : a # e.owner => Total(new, Of(new, N + 1, a)) = Total(events, Of(events, N, a))
  BY <1>3, <1>4, <1>5, <1>7
<1>11. Total(new, Of(new, N + 1, e.owner)) = e.amount + Total(events, Of(events, N, e.owner))
  BY <1>3, <1>4, <1>6, <1>7
<1>12. \A a : Total(events, Of(events, N, a)) \in Int
  BY <1>7, <1>9
<1>13. \A k \in 1..N : \A a : Total(new, Of(new, k, a)) = Total(events, Of(events, k, a))
  BY <1>1, <1>9
<1> QED
  BY <1>8, <1>10, <1>11, <1>12, <1>13 DEF MoreBy

\* An event that balances allow.
Payable(bal, e) == e = Debit(e.tx) => e.owner \in Account /\ bal[e.owner] + e.amount >= 0

\* One event more, that its owner can pay, keeps the context fair.
LEMMA FairGoesOn ==
  ASSUME NEW T, NEW events \in Seq(Event(T)), NEW from, NEW bal, Fair(bal, events, from),
         NEW e \in Event(T), Payable(bal, e),
         NEW new, new = Append(events, e), NEW after, after = Applied(bal, e),
         from \in [Account -> Int]
  PROVE  Fair(after, new, from) /\ new \in Seq(Event(T))
<1>0. PICK N : N = Len(events)
  OBVIOUS
<1>1. /\ N \in Nat /\ N \in 0..N /\ new \in Seq(Event(T)) /\ Len(new) = N + 1 /\ new[N + 1] = e
      /\ \A i \in 1..N : new[i] = events[i]
  BY <1>0
<1>2. /\ \A k \in 1..N : \A a : Total(new, Of(new, k, a)) = Total(events, Of(events, k, a))
      /\ \A a : a # e.owner => Total(new, Of(new, N + 1, a)) = Total(events, Of(events, N, a))
      /\ Total(new, Of(new, N + 1, e.owner)) = e.amount + Total(events, Of(events, N, e.owner))
      /\ \A a : Total(events, Of(events, N, a)) \in Int
  <2>1. MoreBy(new, N, events, e)
    BY <1>0, EventTotals
  <2> QED
    BY <2>1 DEF MoreBy
<1>3. /\ after \in [Account -> Int]
      /\ \A a \in Account : after[a] = IF a = e.owner THEN bal[a] + e.amount ELSE bal[a]
  <2>1. bal \in [Account -> Int] /\ e.amount \in Int
    BY DEF Fair, Event
  <2>2. CASE e.owner \in Account
    BY <2>1, <2>2 DEF Applied
  <2>3. CASE e.owner \notin Account
    BY <2>1, <2>3 DEF Applied
  <2> QED
    BY <2>2, <2>3
<1>4. ASSUME NEW a \in Account
      PROVE  after[a] = from[a] + Total(new, Of(new, N + 1, a))
  <2>1. PICK t \in Int, f \in Int, x \in Int :
          t = Total(events, Of(events, N, a)) /\ f = from[a] /\ x = e.amount
    BY <1>2 DEF Event
  <2>2. bal[a] = f + t
    BY <1>0, <2>1 DEF Fair
  <2>3. CASE a = e.owner
    <3>1. Total(new, Of(new, N + 1, a)) = x + t
      BY <1>2, <2>1, <2>3
    <3>2. after[a] = (f + t) + x
      BY <1>3, <2>1, <2>2, <2>3
    <3> QED
      BY <2>1, <3>1, <3>2
  <2>4. CASE a # e.owner
    BY <1>2, <1>3, <2>1, <2>2, <2>4
  <2> QED
    BY <2>3, <2>4
<1>5. ASSUME NEW k \in 1..(N + 1), new[k] = Debit(new[k].tx)
      PROVE  /\ new[k].owner \in Account
             /\ from[new[k].owner] + Total(new, Of(new, k, new[k].owner)) >= 0
  <2>1. CASE k = N + 1
    <3>1. e.owner \in Account /\ bal[e.owner] + e.amount >= 0
      BY <1>1, <1>5, <2>1 DEF Payable
    <3> QED
      BY <1>1, <1>3, <1>4, <2>1, <3>1
  <2>2. CASE k # N + 1
    <3>1. k \in 1..N /\ new[k] = events[k]
      BY <1>1, <2>2
    <3>2. Total(new, Of(new, k, new[k].owner)) = Total(events, Of(events, k, events[k].owner))
      BY <1>2, <3>1
    <3>3. events[k].owner \in Account /\ from[events[k].owner] + Total(events, Of(events, k, events[k].owner)) >= 0
      BY <1>0, <1>5, <3>1 DEF Fair
    <3> QED
      BY <3>1, <3>2, <3>3
  <2> QED
    BY <2>1, <2>2
<1> QED
  BY <1>1, <1>3, <1>4, <1>5 DEF Fair

\* The state between two transactions, and how one takes it on.
Run(T) == [balances : [Account -> Int], events : Seq(Event(T))]

Sound(ctx, from) ==
  /\ Fair(ctx.balances, ctx.events, from)
  /\ Total(ctx.events, 1..Len(ctx.events)) = 0

\* A transaction executed leaves balances and events.
LEMMA ExecuteType ==
  ASSUME NEW T \in SUBSET Tx, NEW ctx \in Run(T), NEW t \in T
  PROVE  ExecuteTx(ctx, t) \in Run(T)
<1>1. /\ From[t] \in Account /\ To[t] \in Account /\ Sum[t] \in Int
      /\ ctx.balances \in [Account -> Int] /\ ctx.events \in Seq(Event(T))
  BY LedgerAssumption DEF Run
<1>2. Debit(t) \in Event(T) /\ Credit(t) \in Event(T)
  BY <1>1 DEF Debit, Credit, Event
<1>3. ASSUME NEW bal \in [Account -> Int], NEW e \in Event(T) PROVE Applied(bal, e) \in [Account -> Int]
  BY <1>3 DEF Applied, Event
<1>4. Applied(Applied(ctx.balances, Debit(t)), Credit(t)) \in [Account -> Int]
  BY <1>1, <1>2, <1>3
<1>5. ctx.events \o <<Debit(t), Credit(t)>> \in Seq(Event(T))
  BY <1>1, <1>2
<1> QED
  BY <1>4, <1>5 DEF ExecuteTx, Run

\* Two elements put after a sequence at once, or one after the other.
LEMMA AppendTwo ==
  ASSUME NEW S, NEW s \in Seq(S), NEW a \in S, NEW b \in S
  PROVE  s \o <<a, b>> = Append(Append(s, a), b)
OBVIOUS

\* A transaction executed keeps the context sound: it spends what is there and its
\* two events cancel out.
LEMMA ExecuteSound ==
  ASSUME NEW T \in SUBSET Tx, NEW ctx \in Run(T), NEW t \in T, NEW from \in [Account -> Int],
         Sound(ctx, from)
  PROVE  Sound(ExecuteTx(ctx, t), from)
<1>1. /\ From[t] \in Account /\ To[t] \in Account /\ Sum[t] \in Int /\ Withdraw \notin Account
      /\ ctx.balances \in [Account -> Int] /\ ctx.events \in Seq(Event(T))
  BY LedgerAssumption DEF Run, Withdraw
<1>2. CASE Sum[t] > ctx.balances[From[t]]
  BY <1>2 DEF ExecuteTx
<1>3. CASE ~(Sum[t] > ctx.balances[From[t]])
  <2>1. PICK d, c, ev, mid, new, bal, last :
          /\ d = Debit(t) /\ c = Credit(t) /\ ev = ctx.events
          /\ mid = Append(ev, d) /\ new = Append(mid, c)
          /\ bal = Applied(ctx.balances, d) /\ last = Applied(bal, c)
    OBVIOUS
  <2>2. /\ d \in Event(T) /\ c \in Event(T)
        /\ d.owner = From[t] /\ d.amount = -Sum[t] /\ c.amount = Sum[t] /\ c.tx = t
    BY <1>1, <2>1 DEF Debit, Credit, Event
  <2>3. ctx.balances[From[t]] - Sum[t] >= 0 /\ ctx.balances[From[t]] \in Int
    BY <1>1, <1>3
  <2>4. Fair(bal, mid, from) /\ mid \in Seq(Event(T))
    <3>1. Fair(ctx.balances, ev, from) /\ ev \in Seq(Event(T))
      BY <1>1, <2>1 DEF Sound
    <3>2. Payable(ctx.balances, d)
      BY <1>1, <2>2, <2>3 DEF Payable
    <3> QED
      BY <2>1, <2>2, <3>1, <3>2, FairGoesOn
  <2>5. Fair(last, new, from) /\ new \in Seq(Event(T))
    <3>1. ASSUME c = Debit(c.tx) PROVE c.owner \in Account /\ bal[c.owner] + c.amount >= 0
      <4>1. c = d
        BY <2>1, <2>2, <3>1
      <4>2. c.owner = From[t] /\ c.amount = 0
        BY <1>1, <2>2, <4>1
      <4>3. bal[From[t]] = ctx.balances[From[t]] + d.amount
        BY <1>1, <2>1, <2>2 DEF Applied
      <4>4. c.amount = d.amount /\ d.amount = 0 - Sum[t] /\ Sum[t] \in Int
        BY <1>1, <2>2, <4>1
      <4>5. bal[From[t]] >= 0
        BY <2>3, <4>3, <4>4
      <4> QED
        BY <1>1, <2>3, <4>2, <4>3, <4>4, <4>5
    <3>2. Payable(bal, c)
      BY <3>1 DEF Payable
    <3> QED
      BY <2>1, <2>2, <2>4, <3>2, FairGoesOn
  <2>6. Total(new, 1..Len(new)) = 0
    <3>1. PICK n, m : n = Len(ev) /\ m = Len(mid)
      OBVIOUS
    <3>2. ev \in Seq(Event(T)) /\ n \in Nat /\ m = n + 1 /\ Len(new) = m + 1
      BY <1>1, <2>1, <2>2, <2>4, <3>1
    <3>3. Total(mid, 1..(n + 1)) = d.amount + Total(ev, 1..n)
      <4>1. MoreBy(mid, n, ev, d)
        BY <2>1, <2>2, <3>1, <3>2, EventTotals
      <4> QED
        BY <4>1 DEF MoreBy
    <3>4. Total(new, 1..(m + 1)) = c.amount + Total(mid, 1..m)
      <4>1. MoreBy(new, m, mid, c)
        BY <2>1, <2>2, <2>4, <3>1, EventTotals
      <4> QED
        BY <4>1 DEF MoreBy
    <3>5. Total(ev, 1..n) = 0
      BY <2>1, <3>1 DEF Sound
    <3> QED
      BY <1>1, <2>2, <3>2, <3>3, <3>4, <3>5
  <2>7. ExecuteTx(ctx, t) = [balances |-> last, events |-> new]
    <3>1. ev \in Seq(Event(T))
      BY <1>1, <2>1
    <3>2. ev \o <<d, c>> = new
      BY <2>1, <2>2, <3>1, AppendTwo
    <3>3. ctx.events \o <<Debit(t), Credit(t)>> = new
      BY <2>1, <3>2
    <3> QED
      BY <1>3, <2>1, <3>3 DEF ExecuteTx
  <2> QED
    BY <2>5, <2>6, <2>7 DEF Sound
<1> QED
  BY <1>2, <1>3

\* The events of a block, of any transactions and from any snapshots.
LEMMA EventsAre ==
  ASSUME NEW T \in SUBSET Tx, NEW N \in Nat, NEW run \in [1..N -> T], NEW from \in [Account -> Int]
  PROVE  \E ctx \in Run(T) : Events(run, from) = ctx.events /\ Sound(ctx, from)
<1> DEFINE ctx0 == [balances |-> from, events |-> <<>>]
           Rec(f) == f = [i \in 0..N |-> IF i = 0 THEN ctx0 ELSE ExecuteTx(f[i - 1], run[i])]
           ctx == CHOOSE f : Rec(f)
<1>1. Len(run) = N
  OBVIOUS
<1>2. Events(run, from) = ctx[N].events
  BY <1>1 DEF Events
<1>3. ctx0 \in Run(T)
  BY DEF Run
<1>4. Rec(ctx)
  <2> DEFINE step == [p \in Run(T) \X (1..N) |-> ExecuteTx(p[1], run[p[2]])]
  <2>1. step \in [Run(T) \X (1..N) -> Run(T)]
    BY ExecuteType
  <2>2. \A x \in Run(T), i \in 1..N : step[<<x, i>>] = ExecuteTx(x, run[i])
    OBVIOUS
  <2> HIDE DEF step, ctx0
  <2>3. PICK f : Steps(f, Run(T), N, ctx0, step)
    BY <1>3, <2>1, StepsExist
  <2>4. ASSUME NEW i \in 0..N PROVE f[i] = IF i = 0 THEN ctx0 ELSE ExecuteTx(f[i - 1], run[i])
    <3>1. CASE i = 0
      BY <2>3, <3>1 DEF Steps
    <3>2. CASE i # 0
      <4>1. i \in 1..N /\ f[i - 1] \in Run(T)
        BY <2>3, <3>2 DEF Steps
      <4> QED
        BY <2>2, <2>3, <3>2, <4>1 DEF Steps
    <3> QED
      BY <3>1, <3>2
  <2>5. Rec(f)
    BY <2>3, <2>4 DEF Steps
  <2> QED
    BY <2>5
<1> HIDE DEF ctx
<1>5. ctx[0] = ctx0 /\ \A i \in 1..N : ctx[i] = ExecuteTx(ctx[i - 1], run[i])
  <2> HIDE DEF ctx0
  <2> QED
    BY <1>4
<1>6. Sound(ctx0, from)
  <2>1. Len(ctx0.events) = 0
    OBVIOUS
  <2>2. \A a : Of(ctx0.events, 0, a) = {} /\ 1..0 = {}
    BY DEF Of
  <2>3. \A a \in Account : ctx0.balances[a] = from[a] + Total(ctx0.events, Of(ctx0.events, 0, a))
    <3>1. Total(ctx0.events, {}) = 0
      BY TotalEmpty
    <3> SUFFICES ASSUME NEW a \in Account
                 PROVE  ctx0.balances[a] = from[a] + Total(ctx0.events, Of(ctx0.events, 0, a))
      OBVIOUS
    <3>2. ctx0.balances[a] = from[a] /\ from[a] \in Int
      OBVIOUS
    <3>3. Total(ctx0.events, Of(ctx0.events, 0, a)) = 0
      BY <2>2, <3>1
    <3> HIDE DEF ctx0
    <3> QED
      BY <3>2, <3>3
  <2> QED
    BY <2>1, <2>2, <2>3, TotalEmpty DEF Sound, Fair
<1> DEFINE Bad == {i \in 0..N : ~(ctx[i] \in Run(T) /\ Sound(ctx[i], from))}
<1>7. ASSUME Bad # {} PROVE FALSE
  <2>1. PICK i \in Bad : \A j \in Bad : i =< j
    <3>1. Bad \subseteq Nat
      OBVIOUS
    <3> HIDE DEF Bad
    <3> QED
      BY <1>7, <3>1, LeastNat
  <2> HIDE DEF ctx0
  <2>2. i \in 1..N /\ i - 1 \in 0..N /\ i - 1 \notin Bad
    BY <1>3, <1>5, <1>6, <2>1
  <2>3. ctx[i - 1] \in Run(T) /\ Sound(ctx[i - 1], from)
    BY <2>2
  <2>4. ctx[i] \in Run(T) /\ Sound(ctx[i], from)
    <3>1. PICK t \in T : t = run[i]
      BY <2>2
    <3>2. ctx[i] = ExecuteTx(ctx[i - 1], t)
      BY <1>5, <2>2, <3>1
    <3> QED
      BY <2>3, <3>2, ExecuteType, ExecuteSound
  <2> QED
    BY <2>1, <2>4
<1>8. ctx[N] \in Run(T) /\ Sound(ctx[N], from)
  BY <1>7, N \in 0..N
<1> QED
  BY <1>2, <1>8

-------------------------------------------------------------------------------
(* The inductive invariant. *)

Id == Tx \X Nat

HiveOp == [op : {"deposit"}, owner : Account, amount : Nat] \cup [op : {"tx"}, tx : Tx]
          \cup [op : {"batch"}, ids : SUBSET Id, amount : Int]

TxAt(t, h) == h \in DOMAIN hive /\ hive[h].op = "tx" /\ hive[h].tx = t

\* A transaction is on Hive once, and included at its height.
HiveOK ==
  /\ hive \in Seq(HiveOp) /\ height \in 0..Len(hive) /\ lastEnd \in Nat /\ spoilt \in BOOLEAN
  /\ \A t \in Tx, g, h \in DOMAIN hive : TxAt(t, g) /\ TxAt(t, h) => g = h
  /\ IsFiniteSet(DOMAIN included)
  /\ \A t \in DOMAIN included : t \in Tx /\ TxAt(t, included[t])

\* The ledger has the deposits of what was handled, and nothing else but what
\* came of transactions of earlier VSC blocks.
DbOK ==
  /\ IsFiniteSet(DOMAIN ledger) /\ DOMAIN ledger \subseteq Id \cup ({"hive"} \X Nat)
  /\ \A i \in DOMAIN ledger : ledger[i].owner \in Account /\ ledger[i].amount \in Int
  /\ IsFiniteSet(DOMAIN withdrawals) /\ DOMAIN withdrawals \subseteq Id
  /\ \A i \in DOMAIN withdrawals : withdrawals[i] \in [amount : Int, status : {"PENDING", "COMPLETE"}]
  /\ \A i \in (DOMAIN ledger \cap Id) \cup DOMAIN withdrawals : \E h \in 1..lastEnd : TxAt(i[1], h)
  /\ \A r \in balances : r.amount \in Int
  /\ \A r, s \in balances : r.account = s.account /\ r.height = s.height => r = s
  /\ \A i \in DOMAIN ledger \ Id :
       i[2] \in On("deposit") /\ ledger[i].amount = hive[i[2]].amount
  /\ \A h \in On("deposit") : h =< height => <<"hive", h>> \in DOMAIN ledger

EventsOK(events, from) ==
  /\ \A k \in 1..Len(events) : events[k] = Debit(events[k].tx) =>
       /\ events[k].owner \in Account
       /\ from[events[k].owner] + Total(events, Of(events, k, events[k].owner)) >= 0
  /\ Total(events, 1..Len(events)) = 0

BlockRecord ==
  [stage : {"built", "indexing"}, start : Nat, end : Nat, from : [Account -> Int],
   events : Seq(Event(Tx)), owners : SUBSET Account, next : Nat]

BlockOK ==
  block # NoBlock =>
    /\ block \in BlockRecord
    /\ EventsOK(block.events, block.from)
    /\ \A k \in 1..Len(block.events) :
         \E h \in (block.start - 1)..block.end : TxAt(block.events[k].tx, h)
    /\ block.stage = "built" =>
         /\ block.start = lastEnd + 1 /\ block.next = 1
         /\ \A k \in 1..Len(block.events) : block.events[k].tx \in DOMAIN included
    /\ block.stage = "indexing" => block.end = lastEnd /\ block.next \in 1..(Len(block.events) + 1)

Batched == {i \in Id : \E h \in On("batch") : i \in hive[h].ids}

Written == IF block.stage = "indexing" THEN Total(block.events, 1..(block.next - 1)) ELSE 0

\* Events of a block are new and add up to nothing; the batches pay each
\* withdrawal once, and what they pay is complete when they have been handled.
Whole ==
  /\ block.stage = "indexing" => \A k \in block.next..Len(block.events) :
       <<block.events[k].tx, k>> \notin DOMAIN ledger \cup DOMAIN withdrawals
  /\ Total(ledger, DOMAIN ledger \cap Id) + Total(withdrawals, DOMAIN withdrawals) = Written
  /\ Batched \subseteq DOMAIN withdrawals
  /\ \A i \in DOMAIN withdrawals : withdrawals[i].status = "COMPLETE" => i \in Batched
  /\ \A h \in On("batch") : h =< height =>
       \A i \in hive[h].ids : withdrawals[i].status = "COMPLETE"
  /\ Total(hive, On("batch")) = Total(withdrawals, Batched)

LedgerInv == HiveOK /\ DbOK /\ BlockOK /\ (~spoilt => Whole)

\* The Hive chain of the invariant.
LEMMA HiveIs ==
  ASSUME HiveOK
  PROVE  /\ Len(hive) \in Nat /\ DOMAIN hive = 1..Len(hive) /\ height \in Nat /\ height =< Len(hive)
         /\ \A h \in DOMAIN hive : hive[h] \in HiveOp
         /\ \A op : On(op) \subseteq 1..Len(hive) /\ IsFiniteSet(On(op))
<1>1. /\ Len(hive) \in Nat /\ DOMAIN hive = 1..Len(hive) /\ height \in Nat /\ height =< Len(hive)
      /\ \A h \in DOMAIN hive : hive[h] \in HiveOp
  BY DEF HiveOK
<1>2. IsFiniteSet(1..Len(hive))
  BY <1>1, FS_Interval, 1 \in Int, Len(hive) \in Int
<1>3. \A op : On(op) \in SUBSET (1..Len(hive))
  BY <1>1 DEF On
<1> QED
  BY <1>1, <1>2, <1>3, FS_Subset

\* The tables of the invariant are finite and their totals integers.
LEMMA DbIs ==
  ASSUME DbOK
  PROVE  /\ \A S \in SUBSET DOMAIN ledger : IsFiniteSet(S) /\ Total(ledger, S) \in Int
         /\ \A S \in SUBSET DOMAIN withdrawals : IsFiniteSet(S) /\ Total(withdrawals, S) \in Int
<1>1. ASSUME NEW S \in SUBSET DOMAIN ledger PROVE IsFiniteSet(S) /\ Total(ledger, S) \in Int
  <2>1. IsFiniteSet(S) /\ \A i \in S : ledger[i].amount \in Int
    BY FS_Subset DEF DbOK
  <2> QED
    BY <2>1, TotalType
<1>2. ASSUME NEW S \in SUBSET DOMAIN withdrawals PROVE IsFiniteSet(S) /\ Total(withdrawals, S) \in Int
  <2>1. IsFiniteSet(S) /\ \A i \in S : withdrawals[i].amount \in Int
    BY FS_Subset DEF DbOK
  <2> QED
    BY <2>1, TotalType
<1> QED
  BY <1>1, <1>2

\* The inductive invariant holds at the start.
LEMMA LedgerInit == Init => LedgerInv
<1> SUFFICES ASSUME Init PROVE LedgerInv
  OBVIOUS
<1>1. DOMAIN Empty = {} /\ IsFiniteSet({})
  BY FS_EmptySet DEF Empty
<1>2. hive \in Seq(HiveOp) /\ Len(hive) = 0 /\ DOMAIN hive = {}
  BY DEF Init
<1>3. HiveOK
  <2>1. height = 0 /\ lastEnd = 0 /\ spoilt = FALSE /\ DOMAIN included = {}
    BY <1>1 DEF Init
  <2>2. height \in 0..Len(hive)
    BY <1>2, <2>1
  <2> QED
    BY <1>1, <1>2, <2>1, <2>2 DEF HiveOK
<1>4. On("batch") = {} /\ On("deposit") = {}
  BY <1>2 DEF On
<1>5. DbOK
  BY <1>1, <1>4 DEF Init, DbOK
<1>6. Whole
  <2>1. block.stage # "indexing" /\ Batched = {} /\ Written = 0
    BY <1>4 DEF Init, NoBlock, Batched, Written
  <2>2. /\ DOMAIN ledger \cap Id = {} /\ DOMAIN withdrawals = {}
        /\ Total(ledger, {}) = 0 /\ Total(withdrawals, {}) = 0 /\ Total(hive, {}) = 0
    BY <1>1, TotalEmpty DEF Init
  <2>3. /\ Total(ledger, DOMAIN ledger \cap Id) = 0 /\ Total(withdrawals, DOMAIN withdrawals) = 0
        /\ Total(hive, On("batch")) = 0 /\ Total(withdrawals, Batched) = 0
    BY <1>4, <2>1, <2>2
  <2> QED
    BY <1>4, <2>1, <2>2, <2>3 DEF Whole
<1> QED
  BY <1>3, <1>5, <1>6 DEF LedgerInv, BlockOK, Init, BlockRecord

-------------------------------------------------------------------------------
(* Hive goes on. *)

\* One operation more on Hive keeps it.
LEMMA HiveGrows ==
  ASSUME LedgerInv, NEW op \in HiveOp, hive' = Append(hive, op),
         UNCHANGED <<height, dbVars, lastEnd, block, spoilt>>,
         op.op = "tx" => \A h \in DOMAIN hive : hive[h].op = "tx" => hive[h].tx # op.tx,
         op.op = "batch" => /\ op.ids \subseteq Pending /\ height = Len(hive)
                            /\ op.amount = Total(withdrawals, op.ids)
  PROVE  LedgerInv'
<1>1. HiveOK /\ DbOK /\ BlockOK /\ (~spoilt => Whole)
  BY DEF LedgerInv
<1>2. PICK N \in Nat : N = Len(hive) /\ DOMAIN hive = 1..N
  BY <1>1, HiveIs
<1>3. /\ hive' \in Seq(HiveOp) /\ Len(hive') = N + 1 /\ DOMAIN hive' = 1..(N + 1) /\ hive'[N + 1] = op
      /\ \A h \in 1..N : hive'[h] = hive[h]
  BY <1>1, <1>2 DEF HiveOK
<1>4. UNCHANGED <<height, included, ledger, balances, withdrawals, lastEnd, block, spoilt>>
  BY DEF dbVars
<1>5. \A t, h : TxAt(t, h) => TxAt(t, h)'
  BY <1>2, <1>3 DEF TxAt
<1>6. \A x : On(x)' = On(x) \cup (IF op.op = x THEN {N + 1} ELSE {})
  BY <1>2, <1>3 DEF On
<1>7. HiveOK'
  <2>1. ASSUME NEW t \in Tx, NEW g \in DOMAIN hive', NEW h \in DOMAIN hive', TxAt(t, g)', TxAt(t, h)'
        PROVE  g = h
    <3>1. ASSUME NEW a \in DOMAIN hive', TxAt(t, a)', a # N + 1 PROVE TxAt(t, a) /\ a \in DOMAIN hive
      BY <1>2, <1>3, <3>1 DEF TxAt
    <3>2. ASSUME NEW a \in DOMAIN hive, TxAt(t, a) PROVE ~TxAt(t, N + 1)'
      BY <1>3, <3>2 DEF TxAt
    <3> QED
      BY <1>1, <2>1, <3>1, <3>2 DEF HiveOK
  <2> QED
    BY <1>1, <1>2, <1>3, <1>4, <1>5, <2>1 DEF HiveOK
<1>8. DbOK'
  <2>1. \A i \in (DOMAIN ledger \cap Id) \cup DOMAIN withdrawals : \E h \in 1..lastEnd : TxAt(i[1], h)'
    BY <1>1, <1>5 DEF DbOK
  <2>2. \A h \in On("deposit") : h \in 1..N /\ h \in On("deposit")' /\ hive'[h] = hive[h]
    BY <1>2, <1>3, <1>6 DEF On
  <2>3. \A h \in On("deposit")' : h =< height => h \in On("deposit")
    BY <1>1, <1>2, <1>6, HiveIs
  <2>4. \A i \in DOMAIN ledger \ Id : i[2] \in On("deposit")' /\ ledger[i].amount = hive'[i[2]].amount
    BY <1>1, <2>2 DEF DbOK
  <2>5. \A h \in On("deposit")' : h =< height => <<"hive", h>> \in DOMAIN ledger
    BY <1>1, <2>3 DEF DbOK
  <2> QED
    BY <1>1, <1>4, <2>1, <2>4, <2>5 DEF DbOK
<1>9. BlockOK'
  <2>1. block # NoBlock => \A k \in 1..Len(block.events) :
          \E h \in (block.start - 1)..block.end : TxAt(block.events[k].tx, h)'
    BY <1>1, <1>5 DEF BlockOK, BlockRecord
  <2> QED
    BY <1>1, <1>4, <2>1 DEF BlockOK, BlockRecord
<1>10. ASSUME Whole PROVE Whole'
  <2>1. On("batch") \subseteq 1..N /\ IsFiniteSet(On("batch")) /\ N + 1 \notin On("batch")
    BY <1>1, <1>2, HiveIs
  <2>2. /\ \A h \in On("batch") : hive'[h] = hive[h] /\ hive[h] \in HiveOp /\ hive[h].op = "batch"
        /\ \A h \in On("batch") : hive[h].amount \in Int
    BY <1>1, <1>2, <1>3, <2>1, HiveIs DEF On, HiveOp
  <2>3. PICK B, U : B = On("batch") /\ U = Batched
    OBVIOUS
  <2>6. Total(hive', B) = Total(hive, B)
    <3>1. \A h \in B : hive[h].amount \in Int /\ hive'[h].amount = hive[h].amount
      BY <2>2, <2>3
    <3>2. IsFiniteSet(B)
      BY <2>1, <2>3
    <3> QED
      BY ONLY <3>1, <3>2, TotalSame
  <2>7. U = {i \in Id : \E h \in B : i \in hive[h].ids}
    BY <2>3 DEF Batched
  <2>8. Batched' = {i \in Id : \E h \in On("batch")' : i \in hive'[h].ids}
    BY DEF Batched
  <2>9. /\ U \subseteq DOMAIN withdrawals /\ Total(hive, B) = Total(withdrawals, U)
        /\ \A i \in DOMAIN withdrawals : withdrawals[i].status = "COMPLETE" => i \in U
        /\ \A h \in B : h =< height => \A i \in hive[h].ids : withdrawals[i].status = "COMPLETE"
    BY <1>10, <2>3 DEF Whole
  <2>4. CASE op.op # "batch"
    <3>1. On("batch")' = B
      BY <1>6, <2>3, <2>4
    <3>2. Batched' = U
      <4>1. \A h \in B : hive'[h].ids = hive[h].ids
        BY <2>2, <2>3
      <4> QED
        BY <2>7, <2>8, <3>1, <4>1
    <3>3. Total(hive', On("batch")') = Total(withdrawals', Batched')
      BY <1>4, <2>6, <2>9, <3>1, <3>2
    <3>4. \A h \in On("batch")' : h =< height => \A i \in hive'[h].ids : withdrawals[i].status = "COMPLETE"
      BY <2>2, <2>3, <2>9, <3>1
    <3> QED
      BY <1>4, <1>10, <2>9, <3>2, <3>3, <3>4 DEF Whole, Written
  <2>5. CASE op.op = "batch"
    <3>1. /\ On("batch")' = B \cup {N + 1}
          /\ op.ids \subseteq Pending /\ height = N /\ op.amount = Total(withdrawals, op.ids)
      BY <1>2, <1>6, <2>3, <2>5
    <3>2. Batched' = U \cup op.ids
      <4>1. hive'[N + 1].ids = op.ids /\ \A h \in B : hive'[h].ids = hive[h].ids
        BY <1>3, <2>2, <2>3
      <4>2. op.ids \subseteq Id
        BY <1>1, <3>1 DEF Pending, DbOK
      <4> QED
        BY <2>7, <2>8, <3>1, <4>1, <4>2
    <3>3. U \cap op.ids = {}
      <4>1. \A i \in U : withdrawals[i].status = "COMPLETE"
        <5> SUFFICES ASSUME NEW i \in U PROVE withdrawals[i].status = "COMPLETE"
          OBVIOUS
        <5>1. PICK h \in B : i \in hive[h].ids
          BY <2>7
        <5> QED
          BY <2>1, <2>3, <2>9, <3>1, <5>1
      <4> QED
        BY <3>1, <4>1 DEF Pending
    <3>4. op.ids \subseteq DOMAIN withdrawals /\ U \subseteq DOMAIN withdrawals
      BY <2>9, <3>1 DEF Pending
    <3>5. Total(withdrawals, U \cup op.ids) = Total(withdrawals, U) + Total(withdrawals, op.ids)
      <4>1. PICK S : S = U \cup op.ids
        OBVIOUS
      <4>2. S \subseteq DOMAIN withdrawals /\ U \in SUBSET S /\ S \ U = op.ids
        BY <3>3, <3>4, <4>1
      <4>3. IsFiniteSet(S) /\ \A i \in S : withdrawals[i].amount \in Int
        BY <1>1, <4>2, DbIs DEF DbOK
      <4>4. Total(withdrawals, S) = Total(withdrawals, U) + Total(withdrawals, S \ U)
        BY <4>2, <4>3, TotalUnion
      <4> QED
        BY <4>1, <4>2, <4>4
    <3>6. Total(hive', B \cup {N + 1}) = op.amount + Total(hive, B)
      <4>1. op.amount \in Int
        BY <2>5 DEF HiveOp
      <4>2. \A h \in B \cup {N + 1} : hive'[h].amount \in Int
        BY <1>3, <2>2, <2>3, <4>1
      <4>3. Total(hive', B \cup {N + 1}) = hive'[N + 1].amount + Total(hive', B)
        BY <2>1, <2>3, <4>2, TotalAdd
      <4> QED
        BY <1>3, <2>6, <4>3
    <3>7. Total(hive', On("batch")') = Total(withdrawals', Batched')
      <4>1. Total(withdrawals, U) \in Int /\ Total(withdrawals, op.ids) \in Int
        BY <1>1, <3>4, DbIs
      <4>2. Total(hive', B \cup {N + 1}) = Total(withdrawals, U \cup op.ids)
        BY <2>9, <3>1, <3>5, <3>6, <4>1
      <4> QED
        BY <1>4, <3>1, <3>2, <4>2
    <3>8. \A h \in On("batch")' : h =< height => \A i \in hive'[h].ids : withdrawals[i].status = "COMPLETE"
      <4>1. ~(N + 1 =< height)
        BY <3>1
      <4> QED
        BY <2>2, <2>3, <2>9, <3>1, <4>1
    <3> QED
      BY <1>4, <1>10, <2>9, <3>2, <3>4, <3>7, <3>8 DEF Whole, Written
  <2> QED
    BY <2>4, <2>5
<1> QED
  BY <1>1, <1>4, <1>7, <1>8, <1>9, <1>10 DEF LedgerInv

\* So does each operation Hive can hold.
LEMMA HiveStep == ASSUME LedgerInv, Hive PROVE LedgerInv'
<1>1. UNCHANGED <<height, dbVars, lastEnd, block, spoilt>>
  BY DEF Hive
<1>2. CASE HiveTransfer
  <2>1. PICK a \in Account, n \in Amount : hive' = Append(hive, [op |-> "deposit", owner |-> a, amount |-> n])
    BY <1>2 DEF HiveTransfer
  <2>2. [op |-> "deposit", owner |-> a, amount |-> n] \in HiveOp
    BY LedgerAssumption DEF HiveOp
  <2> QED
    BY <1>1, <2>1, <2>2, HiveGrows
<1>3. CASE HiveTx
  <2>1. PICK t \in Tx : /\ \A h \in DOMAIN hive : hive[h].op = "tx" => hive[h].tx # t
                        /\ hive' = Append(hive, [op |-> "tx", tx |-> t])
    BY <1>3 DEF HiveTx
  <2>2. [op |-> "tx", tx |-> t] \in HiveOp
    BY DEF HiveOp
  <2> QED
    BY <1>1, <2>1, <2>2, HiveGrows
<1>4. CASE HiveBatch
  <2>1. PICK S \in SUBSET Pending :
          /\ height = Len(hive)
          /\ hive' = Append(hive, [op |-> "batch", ids |-> S, amount |-> Total(withdrawals, S)])
    BY <1>4 DEF HiveBatch
  <2>2. S \subseteq DOMAIN withdrawals /\ DbOK
    BY DEF Pending, LedgerInv
  <2>3. Total(withdrawals, S) \in Int /\ S \subseteq Id
    BY <2>2, DbIs DEF DbOK
  <2>4. PICK op : op = [op |-> "batch", ids |-> S, amount |-> Total(withdrawals, S)]
    OBVIOUS
  <2>5. op \in HiveOp
    BY <2>3, <2>4 DEF HiveOp
  <2> QED
    BY <1>1, <2>1, <2>4, <2>5, HiveGrows
<1> QED
  BY <1>2, <1>3, <1>4 DEF Hive

-------------------------------------------------------------------------------
(* Hive operations are handled. *)

\* While Hive does not change, neither do the operations found on it.
LEMMA SameHive ==
  ASSUME hive' = hive
  PROVE  /\ \A t, h : TxAt(t, h)' <=> TxAt(t, h)
         /\ \A op : On(op)' = On(op)
         /\ Batched' = Batched
<1>1. \A t, h : TxAt(t, h)' <=> TxAt(t, h)
  BY DEF TxAt
<1>2. \A op : On(op)' = On(op)
  BY DEF On
<1> QED
  BY <1>1, <1>2 DEF Batched

\* What is inserted, or updated, in a collection.
Inserted(new, db, id, record) ==
  /\ DOMAIN new = DOMAIN db \cup {id} /\ new[id] = record
  /\ \A i \in DOMAIN db : i # id => new[i] = db[i]

\* What an upsert does to a table.
LEMMA Upserted ==
  ASSUME NEW db, NEW id, NEW record
  PROVE  Inserted(Upsert(db, id, record), db, id, record)
  BY DEF Upsert, Inserted

\* Handling a deposit keeps the invariant.
LEMMA DepositStep ==
  ASSUME LedgerInv, NEW h, h = height + 1, h =< Len(hive), Deposit(h), block.stage # "indexing",
         height' = h, UNCHANGED <<hive, lastEnd, block, spoilt>>
  PROVE  LedgerInv'
<1>1. HiveOK /\ DbOK /\ BlockOK /\ (~spoilt => Whole)
  BY DEF LedgerInv
<1>2. /\ hive[h].op = "deposit" /\ hive[h] \in HiveOp /\ h \in Nat /\ h \in On("deposit")
      /\ hive[h].owner \in Account /\ hive[h].amount \in Nat
  BY <1>1, HiveIs DEF Deposit, HiveOp, On
<1>3. PICK id, e : id = <<"hive", h>> /\ e = [owner |-> hive[h].owner, amount |-> hive[h].amount, height |-> h]
  OBVIOUS
<1>4. ledger' = Upsert(ledger, id, e) /\ UNCHANGED <<included, balances, withdrawals>>
  BY <1>3 DEF Deposit
<1>5. /\ DOMAIN ledger' = DOMAIN ledger \cup {id} /\ ledger'[id] = e
      /\ \A i \in DOMAIN ledger : i # id => ledger'[i] = ledger[i]
      /\ IsFiniteSet(DOMAIN ledger')
  <2>1. IsFiniteSet(DOMAIN ledger)
    BY <1>1 DEF DbOK
  <2>2. Inserted(ledger', ledger, id, e)
    BY <1>4, Upserted
  <2>3. IsFiniteSet(DOMAIN ledger \cup {id})
    BY <2>1, FS_AddElement
  <2> QED
    BY <2>2, <2>3 DEF Inserted
<1>6. id \notin Id /\ id \in {"hive"} \X Nat /\ id[2] = h
  BY <1>2, <1>3, LedgerAssumption DEF Id
<1>7. HiveOK'
  <2>1. height' \in 0..Len(hive)
    BY <1>1, <1>2, HiveIs
  <2> QED
    BY <1>1, <1>4, <2>1, SameHive DEF HiveOK
<1>8. DbOK'
  <2>1. \A i \in DOMAIN ledger' : ledger'[i].owner \in Account /\ ledger'[i].amount \in Int
    <3>1. e.owner \in Account /\ e.amount \in Int
      BY <1>2, <1>3
    <3>2. \A i \in DOMAIN ledger : ledger[i].owner \in Account /\ ledger[i].amount \in Int
      BY <1>1 DEF DbOK
    <3> QED
      BY ONLY <1>5, <3>1, <3>2
  <2>2. \A i \in (DOMAIN ledger' \cap Id) \cup DOMAIN withdrawals' : \E g \in 1..lastEnd : TxAt(i[1], g)'
    BY <1>1, <1>4, <1>5, <1>6, SameHive DEF DbOK
  <2>3. \A i \in DOMAIN ledger' \ Id : i[2] \in On("deposit")' /\ ledger'[i].amount = hive'[i[2]].amount
    BY <1>1, <1>2, <1>3, <1>5, <1>6, SameHive DEF DbOK
  <2>4. \A g \in On("deposit")' : g =< height' => <<"hive", g>> \in DOMAIN ledger'
    <3> SUFFICES ASSUME NEW g \in On("deposit"), g =< h PROVE <<"hive", g>> \in DOMAIN ledger'
      BY SameHive
    <3>1. g \in Nat /\ (g =< height \/ g = h)
      BY <1>1, <1>2, HiveIs
    <3> QED
      BY <1>1, <1>3, <1>5, <3>1 DEF DbOK
  <2> QED
    BY <1>1, <1>4, <1>5, <1>6, <2>1, <2>2, <2>3, <2>4 DEF DbOK
<1>9. BlockOK'
  BY <1>1, <1>4, SameHive DEF BlockOK, BlockRecord
<1>10. ASSUME Whole PROVE Whole'
  <2>1. PICK D, W : D = DOMAIN ledger \cap Id /\ W = DOMAIN withdrawals
    OBVIOUS
  <2>2. DOMAIN ledger' \cap Id = D
    BY <1>5, <1>6, <2>1
  <2>3. Total(ledger', D) = Total(ledger, D)
    <3>1. IsFiniteSet(D) /\ \A i \in D : ledger[i].amount \in Int /\ ledger'[i].amount = ledger[i].amount
      BY <1>1, <1>5, <1>6, <2>1, DbIs DEF DbOK
    <3> QED
      BY <3>1, TotalSame
  <2>4. Total(ledger', DOMAIN ledger' \cap Id) + Total(withdrawals', DOMAIN withdrawals') = Written
    BY <1>4, <1>10, <2>1, <2>2, <2>3 DEF Whole
  <2>5. \A g \in On("batch") : g =< h => g =< height
    <3> SUFFICES ASSUME NEW g \in On("batch"), g =< h PROVE g =< height
      OBVIOUS
    <3>1. g # h /\ g \in Nat
      BY <1>1, <1>2, HiveIs DEF On
    <3> QED
      BY <1>1, <3>1, HiveIs
  <2>6. /\ Written' = Written /\ Batched' = Batched /\ On("batch")' = On("batch")
        /\ Total(hive', On("batch")') = Total(hive, On("batch"))
        /\ Total(withdrawals', Batched') = Total(withdrawals, Batched)
    BY <1>4, SameHive DEF Written
  <2> QED
    BY <1>4, <1>10, <2>4, <2>5, <2>6 DEF Whole
<1> QED
  BY <1>1, <1>7, <1>8, <1>9, <1>10 DEF LedgerInv

\* So does handling a transaction.
LEMMA IncludeStep ==
  ASSUME LedgerInv, NEW h, h = height + 1, h =< Len(hive), Include(h), block.stage # "indexing",
         height' = h, UNCHANGED <<hive, lastEnd, block, spoilt>>
  PROVE  LedgerInv'
<1>1. HiveOK /\ DbOK /\ BlockOK /\ (~spoilt => Whole)
  BY DEF LedgerInv
<1>2. /\ hive[h].op = "tx" /\ hive[h] \in HiveOp /\ h \in Nat /\ hive[h].tx \in Tx
      /\ TxAt(hive[h].tx, h)
  BY <1>1, HiveIs DEF Include, HiveOp, TxAt
<1>3. PICK t : t = hive[h].tx
  OBVIOUS
<1>4. included' = Upsert(included, t, h) /\ UNCHANGED <<ledger, balances, withdrawals>>
  BY <1>3 DEF Include
<1>5. /\ DOMAIN included' = DOMAIN included \cup {t} /\ included'[t] = h
      /\ \A i \in DOMAIN included : i # t => included'[i] = included[i]
      /\ IsFiniteSet(DOMAIN included')
  <2>1. IsFiniteSet(DOMAIN included)
    BY <1>1 DEF HiveOK
  <2>2. Inserted(included', included, t, h)
    BY <1>4, Upserted
  <2>3. IsFiniteSet(DOMAIN included \cup {t})
    BY <2>1, FS_AddElement
  <2> QED
    BY <2>2, <2>3 DEF Inserted
<1>6. HiveOK'
  <2>1. height' \in 0..Len(hive)
    BY <1>1, <1>2, HiveIs
  <2>2. \A u \in DOMAIN included' : u \in Tx /\ TxAt(u, included'[u])
    BY <1>1, <1>2, <1>3, <1>5 DEF HiveOK
  <2>3. (\A u \in DOMAIN included : u \in Tx /\ TxAt(u, included[u]))'
    BY <2>2, SameHive DEF TxAt
  <2> QED
    BY <1>1, <1>5, <2>1, <2>3, SameHive DEF HiveOK
<1>7. \A g \in On("deposit") \cup On("batch") : g =< h => g =< height
  <2> SUFFICES ASSUME NEW g \in On("deposit") \cup On("batch"), g =< h PROVE g =< height
    OBVIOUS
  <2>1. g # h /\ g \in Nat
    BY <1>1, <1>2, HiveIs DEF On
  <2> QED
    BY <1>1, <2>1, HiveIs
<1>8. DbOK'
  BY <1>1, <1>4, <1>7, SameHive DEF DbOK
<1>9. BlockOK'
  BY <1>1, <1>4, <1>5, SameHive DEF BlockOK, BlockRecord
<1>10. ASSUME Whole PROVE Whole'
  BY <1>4, <1>7, <1>10, SameHive DEF Whole, Written
<1> QED
  BY <1>1, <1>6, <1>8, <1>9, <1>10 DEF LedgerInv

\* So does handling a batch that has paid.
LEMMA CompleteStep ==
  ASSUME LedgerInv, NEW h, h = height + 1, h =< Len(hive), Complete(h), block.stage # "indexing",
         height' = h, UNCHANGED <<hive, lastEnd, block, spoilt>>
  PROVE  LedgerInv'
<1>1. HiveOK /\ DbOK /\ BlockOK /\ (~spoilt => Whole)
  BY DEF LedgerInv
<1>2. h \in Nat /\ h \in On("batch") /\ hive[h].op = "batch"
  BY <1>1, HiveIs DEF Complete, On
<1>3. /\ UNCHANGED <<included, ledger, balances>>
      /\ DOMAIN withdrawals' = DOMAIN withdrawals
      /\ \A i \in DOMAIN withdrawals :
           withdrawals'[i] = IF i \in hive[h].ids THEN [withdrawals[i] EXCEPT !.status = "COMPLETE"]
                             ELSE withdrawals[i]
  BY DEF Complete
<1>4. \A i \in DOMAIN withdrawals :
        /\ withdrawals'[i] \in [amount : Int, status : {"PENDING", "COMPLETE"}]
        /\ withdrawals'[i].amount = withdrawals[i].amount /\ withdrawals[i].amount \in Int
        /\ withdrawals'[i].status = IF i \in hive[h].ids THEN "COMPLETE" ELSE withdrawals[i].status
  BY <1>1, <1>3 DEF DbOK
<1>5. HiveOK'
  <2>1. height' \in 0..Len(hive)
    BY <1>1, <1>2, HiveIs
  <2> QED
    BY <1>1, <1>3, <2>1, SameHive DEF HiveOK
<1>6. DbOK'
  <2>1. \A g \in On("deposit") : g =< h => g =< height
    <3> SUFFICES ASSUME NEW g \in On("deposit"), g =< h PROVE g =< height
      OBVIOUS
    <3>1. g # h /\ g \in Nat
      BY <1>1, <1>2, HiveIs DEF On
    <3> QED
      BY <1>1, <3>1, HiveIs
  <2> QED
    BY <1>1, <1>3, <1>4, <2>1, SameHive DEF DbOK
<1>7. BlockOK'
  BY <1>1, <1>3, SameHive DEF BlockOK, BlockRecord
<1>8. ASSUME Whole PROVE Whole'
  <2>1. PICK W, B : W = DOMAIN withdrawals /\ B = Batched
    OBVIOUS
  <2>2. B \in SUBSET W /\ W \in SUBSET W
    BY <1>8, <2>1 DEF Whole
  <2>3. ASSUME NEW S \in SUBSET W PROVE Total(withdrawals', S) = Total(withdrawals, S)
    <3>1. IsFiniteSet(S) /\ \A i \in S : withdrawals[i].amount \in Int /\ withdrawals'[i].amount = withdrawals[i].amount
      BY <1>1, <1>4, <2>1, DbIs DEF DbOK
    <3> QED
      BY <3>1, TotalSame
  <2>4. Total(withdrawals', W) = Total(withdrawals, W) /\ Total(withdrawals', B) = Total(withdrawals, B)
    BY <2>2, <2>3
  <2>5. /\ Written' = Written /\ Batched' = B /\ On("batch")' = On("batch")
        /\ Total(hive', On("batch")') = Total(hive, On("batch"))
        /\ Total(withdrawals', Batched') = Total(withdrawals, Batched)
        /\ Total(ledger', DOMAIN ledger' \cap Id) + Total(withdrawals', DOMAIN withdrawals') = Written
    BY <1>3, <1>8, <2>1, <2>4, SameHive DEF Written, Whole
  <2>6. \A i \in W : withdrawals'[i].status = "COMPLETE" => i \in B
    <3> SUFFICES ASSUME NEW i \in W, withdrawals'[i].status = "COMPLETE" PROVE i \in B
      OBVIOUS
    <3>1. CASE i \in hive[h].ids
      BY <1>1, <1>2, <2>1, <3>1 DEF Batched, DbOK
    <3>2. CASE i \notin hive[h].ids
      BY <1>4, <1>8, <2>1, <3>2 DEF Whole
    <3> QED
      BY <3>1, <3>2
  <2>7. \A g \in On("batch") : g =< h => \A i \in hive[g].ids : withdrawals'[i].status = "COMPLETE"
    <3> SUFFICES ASSUME NEW g \in On("batch"), g =< h, NEW i \in hive[g].ids
                 PROVE  withdrawals'[i].status = "COMPLETE"
      OBVIOUS
    <3>1. i \in W
      <4>1. hive[g].ids \subseteq Id
        BY <1>1, HiveIs DEF On, HiveOp
      <4> QED
        BY <2>1, <2>2, <4>1 DEF Batched
    <3>2. CASE g = h
      BY <1>4, <2>1, <3>1, <3>2
    <3>3. CASE g # h
      <4>1. g =< height
        BY <1>1, <1>2, <3>3, HiveIs
      <4> QED
        BY <1>4, <1>8, <2>1, <3>1, <4>1 DEF Whole
    <3> QED
      BY <3>2, <3>3
  <2> QED
    BY <1>3, <1>8, <2>1, <2>2, <2>5, <2>6, <2>7 DEF Whole
<1> QED
  BY <1>1, <1>5, <1>6, <1>7, <1>8 DEF LedgerInv

\* So does every operation handled.
LEMMA HandleStep == ASSUME LedgerInv, Handle PROVE LedgerInv'
<1>1. PICK h : h = height + 1
  OBVIOUS
<1>2. /\ h =< Len(hive) /\ block.stage # "indexing" /\ height' = h
      /\ UNCHANGED <<hive, lastEnd, block, spoilt>>
  BY <1>1, HiveIs DEF Handle, Idle, LedgerInv
<1>3. CASE Deposit(h)
  BY <1>1, <1>2, <1>3, DepositStep
<1>4. CASE Include(h)
  BY <1>1, <1>2, <1>4, IncludeStep
<1>5. CASE Complete(h)
  BY <1>1, <1>2, <1>5, CompleteStep
<1> QED
  BY <1>1, <1>3, <1>4, <1>5 DEF Handle

-------------------------------------------------------------------------------
(* A block is built, and its indexing starts. *)

\* The balances recorded of an account are integers.
LEMMA SnapshotsAre ==
  ASSUME DbOK, NEW a, NEW h
  PROVE  Snapshots(a, h) \subseteq Int
<1>1. LedgerSum(a, h) \in Int
  BY DbIs DEF LedgerSum, OwnedBy
<1>2. Recorded(a) \subseteq Int
  BY DEF Recorded, DbOK
<1> QED
  BY <1>1, <1>2 DEF Snapshots

\* Building a block keeps the invariant: its events are sound.
LEMMA BuildStep == ASSUME LedgerInv, Build PROVE LedgerInv'
<1>1. HiveOK /\ DbOK /\ BlockOK /\ (~spoilt => Whole)
  BY DEF LedgerInv
<1>2. UNCHANGED <<hive, height, included, ledger, balances, withdrawals, lastEnd, spoilt>> /\ block.stage = "none"
  BY DEF Build, dbVars, NoBlock
<1>3. PICK end, T, run, bal :
        /\ end = height + 1 /\ T = InWindow(end)
        /\ run \in SetToSeqs(T) /\ bal \in [Account -> UNION {Snapshots(a, end) : a \in Account}]
        /\ \A a \in Account : bal[a] \in Snapshots(a, end)
        /\ block' = [stage |-> "built", start |-> lastEnd + 1, end |-> end, from |-> bal,
                     events |-> Events(run, bal), owners |-> {}, next |-> 1]
  BY DEF Build
<1>4. T \in SUBSET Tx /\ T \subseteq DOMAIN included /\ IsFiniteSet(T)
      /\ \A t \in T : included[t] \in lastEnd..end /\ TxAt(t, included[t])
  <2>1. T \in SUBSET DOMAIN included /\ \A t \in T : included[t] \in lastEnd..end
    BY <1>3 DEF InWindow
  <2> QED
    BY <1>1, <2>1, FS_Subset DEF HiveOK
<1>5. bal \in [Account -> Int]
  BY <1>1, <1>3, SnapshotsAre
<1>6. PICK N \in Nat : run \in [1..N -> T]
  BY <1>3, <1>4, FS_CardinalityType DEF SetToSeqs
<1>7. PICK ctx \in Run(T) : Events(run, bal) = ctx.events /\ Sound(ctx, bal)
  BY <1>4, <1>5, <1>6, EventsAre
<1>8. PICK ev : ev = ctx.events
  OBVIOUS
<1>9. ev \in Seq(Event(T)) /\ ev \in Seq(Event(Tx)) /\ EventsOK(ev, bal)
  <2>1. Event(T) \subseteq Event(Tx)
    BY <1>4 DEF Event
  <2>2. ev \in Seq(Event(T))
    BY <1>8 DEF Run
  <2>3. EventsOK(ev, bal)
    BY <1>7, <1>8 DEF Sound, Fair, EventsOK
  <2> QED
    BY <2>1, <2>2, <2>3
<1>10. \A k \in 1..Len(ev) : ev[k].tx \in T
  <2>1. \A k \in 1..Len(ev) : ev[k] \in Event(T)
    BY <1>9
  <2> QED
    BY <2>1 DEF Event
<1>11. /\ block'.stage = "built" /\ block'.start = lastEnd + 1 /\ block'.end = end /\ block'.next = 1
       /\ block'.events = ev /\ block'.from = bal
       /\ block' \in BlockRecord
  <2>1. lastEnd + 1 \in Nat /\ end \in Nat /\ {} \in SUBSET Account
    BY <1>1, <1>3, HiveIs DEF HiveOK
  <2> QED
    BY <1>3, <1>5, <1>7, <1>8, <1>9, <2>1 DEF BlockRecord
<1>12. BlockOK'
  <2>1. \A k \in 1..Len(ev) : \E h \in (lastEnd + 1 - 1)..end : TxAt(ev[k].tx, h)
    BY <1>1, <1>4, <1>10 DEF HiveOK
  <2>2. \A k \in 1..Len(ev) : \E h \in (block'.start - 1)..block'.end : TxAt(ev[k].tx, h)'
    <3> SUFFICES ASSUME NEW k \in 1..Len(ev)
                 PROVE  \E h \in (block'.start - 1)..block'.end : TxAt(ev[k].tx, h)'
      OBVIOUS
    <3>1. PICK h \in (lastEnd + 1 - 1)..end : TxAt(ev[k].tx, h)
      BY <2>1
    <3>2. h \in (block'.start - 1)..block'.end
      <4>1. block'.start = lastEnd + 1 /\ block'.end = end /\ lastEnd \in Nat
        BY <1>1, <1>11 DEF HiveOK
      <4> QED
        BY <3>1, <4>1
    <3>3. TxAt(ev[k].tx, h)'
      BY <1>2, <3>1, SameHive
    <3> QED
      BY <3>2, <3>3
  <2>3. EventsOK(ev, block'.from) /\ \A k \in 1..Len(ev) : ev[k].tx \in DOMAIN included'
    BY <1>2, <1>4, <1>9, <1>10, <1>11
  <2> QED
    BY <1>2, <1>11, <2>2, <2>3 DEF BlockOK, BlockRecord
<1>13. HiveOK' /\ DbOK'
  BY <1>1, <1>2, SameHive DEF HiveOK, DbOK
<1>14. ASSUME Whole PROVE Whole'
  <2>1. Written' = Written
    BY <1>2, <1>11 DEF Written
  <2> QED
    BY <1>2, <1>11, <1>14, <2>1, SameHive DEF Whole
<1> QED
  BY <1>1, <1>2, <1>12, <1>13, <1>14 DEF LedgerInv

\* So does abandoning it.
LEMMA AbandonStep == ASSUME LedgerInv, Abandon PROVE LedgerInv'
<1>1. HiveOK /\ DbOK /\ BlockOK /\ (~spoilt => Whole)
  BY DEF LedgerInv
<1>2. /\ UNCHANGED <<hive, height, included, ledger, balances, withdrawals, lastEnd, spoilt>>
      /\ block.stage = "built" /\ block' = NoBlock
  BY DEF Abandon, dbVars
<1>3. HiveOK' /\ DbOK' /\ BlockOK'
  BY <1>1, <1>2, SameHive DEF HiveOK, DbOK, BlockOK, BlockRecord
<1>4. ASSUME Whole PROVE Whole'
  <2>1. Written' = Written /\ block'.stage # "indexing"
    BY <1>2 DEF Written, NoBlock
  <2> QED
    BY <1>2, <1>4, <2>1, SameHive DEF Whole
<1> QED
  BY <1>1, <1>2, <1>3, <1>4 DEF LedgerInv

\* So does a block that starts to be indexed.
LEMMA StartIndexStep == ASSUME LedgerInv, StartIndex PROVE LedgerInv'
<1>1. HiveOK /\ DbOK /\ BlockOK /\ (~spoilt => Whole)
  BY DEF LedgerInv
<1>2. /\ UNCHANGED <<hive, height, included, ledger, balances, withdrawals>>
      /\ block.stage = "built" /\ block.end > lastEnd /\ lastEnd' = block.end
      /\ block' = [block EXCEPT !.stage = "indexing"]
      /\ spoilt' = (spoilt \/ \E i \in DOMAIN block.events : AgainAtBorder(block.events[i].tx))
  BY DEF StartIndex, dbVars
<1>3. block # NoBlock
  BY <1>2 DEF NoBlock
<1>4. PICK ev, L : ev = block.events /\ L = Len(ev)
  OBVIOUS
<1>5. /\ block \in BlockRecord
      /\ EventsOK(block.events, block.from)
      /\ block.start = lastEnd + 1 /\ block.next = 1
      /\ \A k \in 1..L : /\ \E h \in (block.start - 1)..block.end : TxAt(ev[k].tx, h)
                         /\ ev[k].tx \in DOMAIN included
  BY <1>1, <1>2, <1>3, <1>4 DEF BlockOK, BlockRecord
<1>6. /\ block'.stage = "indexing" /\ block'.start = block.start /\ block'.end = block.end
      /\ block'.from = block.from /\ block'.events = ev /\ block'.owners = block.owners /\ block'.next = 1
      /\ block' \in BlockRecord
  BY <1>2, <1>4, <1>5 DEF BlockRecord
<1>7. L \in Nat /\ DOMAIN ev = 1..L /\ lastEnd \in Nat /\ \A k \in 1..L : ev[k].tx \in Tx
  <2>1. ev \in Seq(Event(Tx)) /\ lastEnd \in Nat
    BY <1>1, <1>4, <1>5 DEF HiveOK, BlockRecord
  <2>2. L \in Nat /\ DOMAIN ev = 1..L /\ \A k \in 1..L : ev[k] \in Event(Tx)
    BY <1>4, <2>1
  <2> QED
    BY <2>1, <2>2 DEF Event
<1>8. HiveOK'
  BY <1>1, <1>2, <1>5, SameHive DEF HiveOK, BlockRecord
<1>9. DbOK'
  <2>1. 1..lastEnd \subseteq 1..lastEnd'
    BY <1>2, <1>5, <1>7 DEF BlockRecord
  <2> QED
    BY <1>1, <1>2, <2>1, SameHive DEF DbOK
<1>10. BlockOK'
  <2>1. EventsOK(ev, block'.from) /\ 1 \in 1..(L + 1)
    BY <1>4, <1>5, <1>6, <1>7
  <2>2. \A k \in 1..L : \E h \in (block'.start - 1)..block'.end : TxAt(ev[k].tx, h)'
    BY <1>2, <1>5, <1>6, SameHive
  <2> QED
    BY <1>2, <1>4, <1>6, <2>1, <2>2 DEF BlockOK, BlockRecord
<1>11. ASSUME ~spoilt', Whole PROVE Whole'
  <2>1. ASSUME NEW k \in 1..L, <<ev[k].tx, k>> \in DOMAIN ledger \cup DOMAIN withdrawals PROVE FALSE
    <3>1. PICK t, id : t \in Tx /\ t = ev[k].tx /\ id = <<t, k>>
      BY <1>7
    <3>2. id \in Id /\ id[1] = t /\ id \in DOMAIN ledger \cup DOMAIN withdrawals
      BY <1>7, <2>1, <3>1 DEF Id
    <3>3. PICK h \in 1..lastEnd : TxAt(t, h)
      BY <1>1, <3>2 DEF DbOK
    <3>4. PICK g \in lastEnd..block.end : TxAt(t, g)
      BY <1>5, <1>7, <3>1
    <3>5. TxAt(t, included[t])
      BY <1>1, <1>5, <3>1 DEF HiveOK
    <3>6. g = h /\ included[t] = g
      BY <1>1, <3>1, <3>3, <3>4, <3>5 DEF HiveOK, TxAt
    <3>7. included[t] = lastEnd
      BY <1>5, <1>7, <3>3, <3>4, <3>6
    <3>8. AgainAtBorder(t)
      BY <3>2, <3>7 DEF AgainAtBorder, ExecutedBefore
    <3> QED
      BY <1>2, <1>4, <1>7, <1>11, <3>1, <3>8
  <2>2. Written' = 0 /\ Written = 0
    <3>1. block'.next - 1 = 0 /\ 1..0 = {}
      BY <1>6
    <3>2. Written' = Total(ev, 1..0)
      BY <1>6, <3>1 DEF Written
    <3> QED
      BY <1>2, <3>1, <3>2, TotalEmpty DEF Written
  <2>3. \A k \in block'.next..Len(block'.events) :
          <<block'.events[k].tx, k>> \notin DOMAIN ledger' \cup DOMAIN withdrawals'
    BY <1>2, <1>4, <1>6, <2>1
  <2> QED
    BY <1>2, <1>11, <2>2, <2>3, SameHive DEF Whole
<1> QED
  BY <1>1, <1>2, <1>8, <1>9, <1>10, <1>11 DEF LedgerInv

-------------------------------------------------------------------------------
(* A block is indexed. *)

\* What is known of the event that is next, ev[n] under its id.
NextEvent(ev, n, id) ==
  /\ ev = block.events /\ n = block.next /\ n \in 1..Len(ev) /\ id = <<ev[n].tx, n>>
  /\ id \in Id /\ \E h \in 1..lastEnd : TxAt(id[1], h)
  /\ ev[n].amount \in Int
  /\ (ev[n].owner # Withdraw => ev[n].owner \in Account)

\* While a block is indexed, its next event has an id of its own.
LEMMA NextIs ==
  ASSUME LedgerInv, block.stage = "indexing", block.next =< Len(block.events)
  PROVE  \E ev, n, id : NextEvent(ev, n, id)
<1>1. PICK ev, n : ev = block.events /\ n = block.next
  OBVIOUS
<1>2. HiveOK /\ block \in BlockRecord /\ EventsOK(ev, block.from) /\ block.end = lastEnd
      /\ n \in 1..(Len(ev) + 1)
      /\ \A k \in 1..Len(ev) : \E h \in (block.start - 1)..block.end : TxAt(ev[k].tx, h)
  BY <1>1 DEF LedgerInv, BlockOK, NoBlock, BlockRecord
<1>3. ev \in Seq(Event(Tx)) /\ lastEnd \in Nat
  BY <1>1, <1>2 DEF BlockRecord, HiveOK
<1>4. n \in 1..Len(ev) /\ ev[n] \in Event(Tx) /\ n \in Nat
  BY <1>1, <1>2, <1>3
<1>5. ev[n].tx \in Tx /\ ev[n].owner \in Account \cup {Withdraw} /\ ev[n].amount \in Int
  BY <1>4 DEF Event
<1>6. PICK id : id = <<ev[n].tx, n>>
  OBVIOUS
<1>7. id \in Id /\ id[1] = ev[n].tx
  BY <1>4, <1>5, <1>6 DEF Id
<1>8. \E h \in 1..lastEnd : TxAt(id[1], h)
  <2>1. PICK h \in (block.start - 1)..block.end : TxAt(ev[n].tx, h)
    BY <1>2, <1>4
  <2>2. h \in 1..Len(hive)
    BY <1>2, <2>1, HiveIs DEF TxAt
  <2>3. h \in 1..lastEnd
    BY <1>2, <1>3, <2>1, <2>2, HiveIs
  <2> QED
    BY <1>7, <2>1, <2>3
<1>10. NextEvent(ev, n, id)
  BY <1>1, <1>4, <1>5, <1>6, <1>7, <1>8 DEF NextEvent
<1> QED
  BY <1>10

\* The block after one event, whoever's.
LEMMA ProcessedBlock ==
  ASSUME LedgerInv, block.stage = "indexing", NEW ev, NEW n, NEW id, NextEvent(ev, n, id),
         NEW os \in SUBSET Account, block' = [block EXCEPT !.next = n + 1, !.owners = os],
         hive' = hive, lastEnd' = lastEnd
  PROVE  /\ BlockOK'
         /\ block'.stage = "indexing" /\ block'.next = n + 1 /\ block'.events = ev
         /\ Written' = ev[n].amount + Written /\ Written \in Int
<1>1. HiveOK /\ DbOK /\ block \in BlockRecord /\ EventsOK(ev, block.from) /\ block.end = lastEnd
      /\ \A k \in 1..Len(ev) : \E h \in (block.start - 1)..block.end : TxAt(ev[k].tx, h)
  BY DEF LedgerInv, BlockOK, NoBlock, BlockRecord, NextEvent
<1>2. ev \in Seq(Event(Tx)) /\ Len(ev) \in Nat /\ ev = block.events /\ n = block.next /\ n \in 1..Len(ev)
  BY <1>1 DEF BlockRecord, NextEvent
<1>3. /\ block'.stage = "indexing" /\ block'.start = block.start /\ block'.end = block.end
      /\ block'.from = block.from /\ block'.events = ev /\ block'.owners = os /\ block'.next = n + 1
      /\ block' \in BlockRecord
  <2>1. n + 1 \in Nat
    BY <1>2
  <2>2. block \in BlockRecord
    BY <1>1 DEF BlockRecord
  <2>3. /\ block'.stage = "indexing" /\ block'.start = block.start /\ block'.end = block.end
        /\ block'.from = block.from /\ block'.events = ev /\ block'.owners = os /\ block'.next = n + 1
    BY <1>2, <2>2
  <2> HIDE DEF BlockRecord
  <2>4. block' \in BlockRecord
    BY <2>1, <2>2 DEF BlockRecord
  <2> QED
    BY <2>3, <2>4
<1>4. BlockOK'
  <2>1. EventsOK(ev, block'.from) /\ n + 1 \in 1..(Len(ev) + 1)
    BY <1>1, <1>2, <1>3
  <2>2. \A k \in 1..Len(ev) : \E h \in (block'.start - 1)..block'.end : TxAt(ev[k].tx, h)'
    BY <1>1, <1>3, SameHive
  <2> QED
    BY <1>1, <1>3, <2>1, <2>2 DEF BlockOK, BlockRecord
<1>5. n - 1 \in Nat /\ 1..n = 1..(n - 1) \cup {n} /\ n \notin 1..(n - 1)
      /\ \A k \in 1..n : ev[k] \in Event(Tx)
  BY <1>2
<1>6. IsFiniteSet(1..(n - 1)) /\ \A k \in 1..(n - 1) \cup {n} : ev[k].amount \in Int
  <2>1. IsFiniteSet(1..(n - 1))
    BY <1>5, FS_Interval, 1 \in Int, n - 1 \in Int
  <2> QED
    BY <1>5, <2>1 DEF Event
<1>7. Total(ev, 1..n) = ev[n].amount + Total(ev, 1..(n - 1)) /\ Total(ev, 1..(n - 1)) \in Int
  BY <1>5, <1>6, TotalAdd, TotalType
<1>8. Written = Total(ev, 1..(n - 1))
  BY <1>2 DEF Written
<1>9. Written' = Total(ev, 1..n)
  <2>1. (n + 1) - 1 = n
    BY <1>2
  <2>2. Written' = Total(ev, 1..((n + 1) - 1))
    BY <1>3 DEF Written
  <2> QED
    BY <2>1, <2>2
<1> QED
  BY <1>3, <1>4, <1>7, <1>8, <1>9

\* Indexing an event of a withdrawal keeps the invariant.
LEMMA ProcessDebt ==
  ASSUME LedgerInv, block.stage = "indexing", NEW ev, NEW n, NEW id, NextEvent(ev, n, id),
         ev[n].owner = Withdraw, block' = [block EXCEPT !.next = n + 1],
         withdrawals' = Upsert(withdrawals, id, [amount |-> ev[n].amount, status |-> "PENDING"]),
         UNCHANGED <<hive, height, included, ledger, balances, lastEnd, spoilt>>
  PROVE  LedgerInv'
<1>1. HiveOK /\ DbOK /\ BlockOK /\ (~spoilt => Whole)
  BY DEF LedgerInv
<1>2. PICK os \in SUBSET Account : os = block.owners
  BY <1>1 DEF BlockOK, NoBlock, BlockRecord
<1>3. block' = [block EXCEPT !.next = n + 1, !.owners = os]
  BY <1>1, <1>2 DEF BlockOK, NoBlock, BlockRecord
<1>4. /\ BlockOK' /\ block'.stage = "indexing" /\ block'.next = n + 1 /\ block'.events = ev
      /\ Written' = ev[n].amount + Written /\ Written \in Int
  BY <1>3, ProcessedBlock
<1>5. PICK e : e = [amount |-> ev[n].amount, status |-> "PENDING"]
  OBVIOUS
<1>6. /\ DOMAIN withdrawals' = DOMAIN withdrawals \cup {id} /\ withdrawals'[id] = e
      /\ \A i \in DOMAIN withdrawals : i # id => withdrawals'[i] = withdrawals[i]
      /\ IsFiniteSet(DOMAIN withdrawals')
  <2>1. Inserted(withdrawals', withdrawals, id, e)
    BY <1>5, Upserted
  <2>2. IsFiniteSet(DOMAIN withdrawals \cup {id})
    BY <1>1, FS_AddElement DEF DbOK
  <2> QED
    BY <2>1, <2>2 DEF Inserted
<1>7. id \in Id /\ ev[n].amount \in Int /\ \E h \in 1..lastEnd : TxAt(id[1], h)
      /\ e.amount = ev[n].amount /\ e.status = "PENDING" /\ e \in [amount : Int, status : {"PENDING", "COMPLETE"}]
  BY <1>5 DEF NextEvent
<1>8. HiveOK'
  BY <1>1, SameHive DEF HiveOK
<1>9. DbOK'
  <2>1. \A i \in DOMAIN withdrawals' : withdrawals'[i] \in [amount : Int, status : {"PENDING", "COMPLETE"}]
    BY <1>1, <1>6, <1>7 DEF DbOK
  <2>2. \A i \in (DOMAIN ledger' \cap Id) \cup DOMAIN withdrawals' : \E h \in 1..lastEnd : TxAt(i[1], h)'
    BY <1>1, <1>6, <1>7, SameHive DEF DbOK
  <2>3. DOMAIN withdrawals' \subseteq Id
    BY <1>1, <1>6, <1>7 DEF DbOK
  <2> QED
    BY <1>1, <1>6, <2>1, <2>2, <2>3, SameHive DEF DbOK
<1>10. ASSUME Whole PROVE Whole'
  <2>1. n \in 1..Len(ev) /\ id = <<ev[n].tx, n>> /\ ev = block.events /\ n = block.next
    BY DEF NextEvent
  <2>2. id \notin DOMAIN withdrawals
    BY <1>10, <2>1 DEF Whole
  <2>3. PICK W, B : W = DOMAIN withdrawals /\ B = Batched
    OBVIOUS
  <2>4. B \in SUBSET W /\ W \in SUBSET W /\ id \notin W /\ DOMAIN withdrawals' = W \cup {id}
    BY <1>6, <1>10, <2>2, <2>3 DEF Whole
  <2>5. ASSUME NEW S \in SUBSET W
        PROVE  /\ Total(withdrawals', S) = Total(withdrawals, S) /\ Total(withdrawals, S) \in Int
               /\ IsFiniteSet(S) /\ \A i \in S : withdrawals'[i].amount \in Int
    <3>1. IsFiniteSet(S)
      BY <1>1, <2>3, DbIs
    <3>2. \A i \in S : withdrawals[i].amount \in Int /\ withdrawals'[i] = withdrawals[i]
      BY <1>1, <1>6, <2>3, <2>4 DEF DbOK
    <3>3. \A i \in S : withdrawals[i].amount \in Int /\ withdrawals'[i].amount = withdrawals[i].amount
      BY <3>2
    <3>4. Total(withdrawals', S) = Total(withdrawals, S) /\ Total(withdrawals, S) \in Int
      BY <3>1, <3>3, TotalSame, TotalType
    <3> QED
      BY <3>1, <3>3, <3>4
  <2>6. Total(withdrawals', W \cup {id}) = ev[n].amount + Total(withdrawals, W) /\ Total(withdrawals, W) \in Int
    <3>1. IsFiniteSet(W) /\ \A i \in W \cup {id} : withdrawals'[i].amount \in Int
      BY <1>6, <1>7, <2>4, <2>5
    <3>2. Total(withdrawals', W \cup {id}) = withdrawals'[id].amount + Total(withdrawals', W)
      BY <2>4, <3>1, TotalAdd
    <3> QED
      BY <1>6, <1>7, <2>4, <2>5, <3>2
  <2>7. Total(ledger', DOMAIN ledger' \cap Id) + Total(withdrawals', DOMAIN withdrawals') = Written'
    <3>1. PICK l : l = Total(ledger, DOMAIN ledger \cap Id)
      OBVIOUS
    <3>2. l \in Int /\ l + Total(withdrawals, W) = Written
      BY <1>1, <1>10, <2>3, <3>1, DbIs DEF Whole
    <3>3. l = Total(ledger', DOMAIN ledger' \cap Id)
      BY <3>1
    <3> QED
      BY <1>4, <1>7, <2>4, <2>6, <3>2, <3>3
  <2>8. Total(hive', On("batch")') = Total(withdrawals', Batched') /\ Batched' = B /\ On("batch")' = On("batch")
    BY <1>10, <2>3, <2>4, <2>5, SameHive DEF Whole
  <2>9. \A k \in (n + 1)..Len(ev) : <<ev[k].tx, k>> \notin DOMAIN ledger \cup DOMAIN withdrawals'
    <3> SUFFICES ASSUME NEW k \in (n + 1)..Len(ev)
                 PROVE  <<ev[k].tx, k>> \notin DOMAIN ledger \cup DOMAIN withdrawals'
      OBVIOUS
    <3>1. k # n /\ k \in n..Len(ev)
      BY <2>1
    <3>2. <<ev[k].tx, k>> \notin DOMAIN ledger \cup DOMAIN withdrawals
      BY <1>10, <2>1, <3>1 DEF Whole
    <3> QED
      BY <1>6, <2>1, <3>1, <3>2
  <2>10. \A i \in DOMAIN withdrawals' : withdrawals'[i].status = "COMPLETE" => i \in B
    BY <1>6, <1>7, <1>10, <2>3 DEF Whole
  <2>11. \A h \in On("batch") : h =< height => \A i \in hive[h].ids : withdrawals'[i].status = "COMPLETE"
    <3> SUFFICES ASSUME NEW h \in On("batch"), h =< height, NEW i \in hive[h].ids
                 PROVE  withdrawals'[i].status = "COMPLETE"
      OBVIOUS
    <3>1. i \in Id
      BY <1>1, HiveIs DEF On, HiveOp
    <3>2. i \in B
      BY <2>3, <3>1 DEF Batched
    <3>3. withdrawals[i].status = "COMPLETE"
      BY <1>10 DEF Whole
    <3> QED
      BY <1>6, <2>3, <2>4, <3>2, <3>3
  <2> QED
    BY <1>4, <2>4, <2>7, <2>8, <2>9, <2>10, <2>11 DEF Whole
<1> QED
  BY <1>1, <1>4, <1>8, <1>9, <1>10 DEF LedgerInv

\* So does indexing an event of an account.
LEMMA ProcessEntry ==
  ASSUME LedgerInv, block.stage = "indexing", NEW ev, NEW n, NEW id, NextEvent(ev, n, id),
         ev[n].owner # Withdraw,
         block' = [block EXCEPT !.next = n + 1, !.owners = block.owners \cup {ev[n].owner}],
         ledger' = Upsert(ledger, id, [owner |-> ev[n].owner, amount |-> ev[n].amount, height |-> block.end]),
         UNCHANGED <<hive, height, included, withdrawals, balances, lastEnd, spoilt>>
  PROVE  LedgerInv'
<1>1. HiveOK /\ DbOK /\ BlockOK /\ (~spoilt => Whole)
  BY DEF LedgerInv
<1>2. PICK os : os = block.owners \cup {ev[n].owner}
  OBVIOUS
<1>3. os \in SUBSET Account /\ block' = [block EXCEPT !.next = n + 1, !.owners = os]
  BY <1>1, <1>2 DEF BlockOK, NoBlock, NextEvent, BlockRecord
<1>4. /\ BlockOK' /\ block'.stage = "indexing" /\ block'.next = n + 1 /\ block'.events = ev
      /\ Written' = ev[n].amount + Written /\ Written \in Int
  BY <1>3, ProcessedBlock
<1>5. PICK e : e = [owner |-> ev[n].owner, amount |-> ev[n].amount, height |-> block.end]
  OBVIOUS
<1>6. /\ DOMAIN ledger' = DOMAIN ledger \cup {id} /\ ledger'[id] = e
      /\ \A i \in DOMAIN ledger : i # id => ledger'[i] = ledger[i]
      /\ IsFiniteSet(DOMAIN ledger')
  <2>1. Inserted(ledger', ledger, id, e)
    BY <1>5, Upserted
  <2>2. IsFiniteSet(DOMAIN ledger \cup {id})
    BY <1>1, FS_AddElement DEF DbOK
  <2> QED
    BY <2>1, <2>2 DEF Inserted
<1>7. id \in Id /\ ev[n].amount \in Int /\ \E h \in 1..lastEnd : TxAt(id[1], h)
      /\ e.amount = ev[n].amount /\ e.owner \in Account
  BY <1>5 DEF NextEvent
<1>8. HiveOK'
  BY <1>1, SameHive DEF HiveOK
<1>9. DbOK'
  <2>1. \A i \in DOMAIN ledger' : ledger'[i].owner \in Account /\ ledger'[i].amount \in Int
    BY <1>1, <1>6, <1>7 DEF DbOK
  <2>2. \A i \in (DOMAIN ledger' \cap Id) \cup DOMAIN withdrawals' : \E h \in 1..lastEnd : TxAt(i[1], h)'
    BY <1>1, <1>6, <1>7, SameHive DEF DbOK
  <2>3. DOMAIN ledger' \subseteq Id \cup ({"hive"} \X Nat)
    BY <1>1, <1>6, <1>7 DEF DbOK
  <2>4. \A i \in DOMAIN ledger' \ Id : i[2] \in On("deposit")' /\ ledger'[i].amount = hive'[i[2]].amount
    BY <1>1, <1>6, <1>7, SameHive DEF DbOK
  <2>5. \A h \in On("deposit")' : h =< height' => <<"hive", h>> \in DOMAIN ledger'
    BY <1>1, <1>6, SameHive DEF DbOK
  <2> QED
    BY <1>1, <1>6, <2>1, <2>2, <2>3, <2>4, <2>5, SameHive DEF DbOK
<1>10. ASSUME Whole PROVE Whole'
  <2>1. n \in 1..Len(ev) /\ id = <<ev[n].tx, n>> /\ ev = block.events /\ n = block.next
    BY DEF NextEvent
  <2>2. id \notin DOMAIN ledger
    BY <1>10, <2>1 DEF Whole
  <2>3. PICK D : D = DOMAIN ledger \cap Id
    OBVIOUS
  <2>4. D \in SUBSET DOMAIN ledger /\ id \notin D /\ DOMAIN ledger' \cap Id = D \cup {id}
    BY <1>6, <1>7, <2>2, <2>3
  <2>5. Total(ledger', D \cup {id}) = ev[n].amount + Total(ledger, D) /\ Total(ledger, D) \in Int
    <3>1. IsFiniteSet(D) /\ Total(ledger, D) \in Int
      BY <1>1, <2>4, DbIs
    <3>2. \A i \in D : ledger[i].amount \in Int /\ ledger'[i] = ledger[i]
      BY <1>1, <1>6, <2>4 DEF DbOK
    <3>3. \A i \in D : ledger[i].amount \in Int /\ ledger'[i].amount = ledger[i].amount
      BY <3>2
    <3>4. Total(ledger', D) = Total(ledger, D)
      BY <3>1, <3>3, TotalSame
    <3>5. \A i \in D \cup {id} : ledger'[i].amount \in Int
      BY <1>6, <1>7, <3>3
    <3>6. Total(ledger', D \cup {id}) = ledger'[id].amount + Total(ledger', D)
      BY <2>4, <3>1, <3>5, TotalAdd
    <3> QED
      BY <1>6, <1>7, <3>1, <3>4, <3>6
  <2>6. Total(ledger', DOMAIN ledger' \cap Id) + Total(withdrawals', DOMAIN withdrawals') = Written'
    <3>1. PICK w : w = Total(withdrawals, DOMAIN withdrawals)
      OBVIOUS
    <3>2. w \in Int /\ Total(ledger, D) + w = Written
      BY <1>1, <1>10, <2>3, <3>1, DbIs DEF Whole
    <3>3. w = Total(withdrawals', DOMAIN withdrawals')
      BY <3>1
    <3>4. (ev[n].amount + Total(ledger, D)) + w = ev[n].amount + Written
      BY <1>7, <2>5, <3>2
    <3>5. Total(ledger', DOMAIN ledger' \cap Id) = ev[n].amount + Total(ledger, D)
      BY <2>4, <2>5
    <3> QED
      BY <1>4, <3>3, <3>4, <3>5
  <2>7. \A k \in (n + 1)..Len(ev) : <<ev[k].tx, k>> \notin DOMAIN ledger' \cup DOMAIN withdrawals
    <3> SUFFICES ASSUME NEW k \in (n + 1)..Len(ev)
                 PROVE  <<ev[k].tx, k>> \notin DOMAIN ledger' \cup DOMAIN withdrawals
      OBVIOUS
    <3>1. k # n /\ k \in n..Len(ev)
      BY <2>1
    <3>2. <<ev[k].tx, k>> \notin DOMAIN ledger \cup DOMAIN withdrawals
      BY <1>10, <2>1, <3>1 DEF Whole
    <3> QED
      BY <1>6, <2>1, <3>1, <3>2
  <2>8. Total(hive', On("batch")') = Total(withdrawals', Batched') /\ Batched' = Batched /\ On("batch")' = On("batch")
    BY <1>10, SameHive DEF Whole
  <2> QED
    BY <1>4, <1>10, <2>6, <2>7, <2>8 DEF Whole
<1> QED
  BY <1>1, <1>4, <1>8, <1>9, <1>10 DEF LedgerInv

\* So does the next event, whichever it is.
LEMMA ProcessStep == ASSUME LedgerInv, ProcessEvent PROVE LedgerInv'
<1>1. /\ block.stage = "indexing" /\ block.next =< Len(block.events)
      /\ UNCHANGED <<hive, height, included, balances, lastEnd, spoilt>>
  BY DEF ProcessEvent
<1>2. PICK ev, n, id : NextEvent(ev, n, id)
  BY <1>1, NextIs
<1>3. ev = block.events /\ n = block.next /\ id = <<ev[n].tx, n>>
  BY <1>2 DEF NextEvent
<1>4. CASE ev[n].owner = Withdraw
  <2>1. /\ withdrawals' = Upsert(withdrawals, id, [amount |-> ev[n].amount, status |-> "PENDING"])
        /\ block' = [block EXCEPT !.next = n + 1] /\ UNCHANGED ledger
    BY <1>3, <1>4 DEF ProcessEvent
  <2> QED
    BY <1>1, <1>2, <1>4, <2>1, ProcessDebt
<1>5. CASE ev[n].owner # Withdraw
  <2>1. /\ ledger' = Upsert(ledger, id, [owner |-> ev[n].owner, amount |-> ev[n].amount, height |-> block.end])
        /\ block' = [block EXCEPT !.next = n + 1, !.owners = block.owners \cup {ev[n].owner}]
        /\ UNCHANGED withdrawals
    BY <1>3, <1>5 DEF ProcessEvent
  <2> QED
    BY <1>1, <1>2, <1>5, <2>1, ProcessEntry
<1> QED
  BY <1>4, <1>5

\* So does recording a balance.
LEMMA RecordStep == ASSUME LedgerInv, RecordBalance PROVE LedgerInv'
<1>1. HiveOK /\ DbOK /\ BlockOK /\ (~spoilt => Whole)
  BY DEF LedgerInv
<1>2. /\ UNCHANGED <<hive, height, included, ledger, withdrawals, lastEnd, spoilt>> /\ block.stage = "indexing"
      /\ \E a \in block.owners, amt \in Int :
           /\ balances' = {r \in balances : r.account # a \/ r.height # block.end}
                          \cup {[account |-> a, height |-> block.end, amount |-> amt]}
           /\ block' = [block EXCEPT !.owners = @ \ {a}]
  BY <1>1, SnapshotsAre DEF RecordBalance, Processed
<1>3. PICK a \in block.owners, amt \in Int :
        /\ balances' = {r \in balances : r.account # a \/ r.height # block.end}
                       \cup {[account |-> a, height |-> block.end, amount |-> amt]}
        /\ block' = [block EXCEPT !.owners = block.owners \ {a}]
  BY <1>2
<1>4. block \in BlockRecord /\ block # NoBlock
  BY <1>1, <1>2 DEF BlockOK, BlockRecord, NoBlock
<1>5. PICK os \in SUBSET Account : os = block.owners \ {a}
  BY <1>4 DEF BlockRecord
<1>6. /\ block' \in BlockRecord /\ block'.stage = "indexing" /\ block'.start = block.start
      /\ block'.end = block.end /\ block'.from = block.from /\ block'.events = block.events
      /\ block'.next = block.next
  <2>1. block' = [block EXCEPT !.owners = os]
    BY <1>3, <1>5
  <2> QED
    BY <1>2, <1>4, <2>1 DEF BlockRecord
<1>7. HiveOK'
  BY <1>1, <1>2, SameHive DEF HiveOK
<1>8. DbOK'
  <2>1. \A r \in balances' : r.amount \in Int
    BY <1>1, <1>3 DEF DbOK
  <2>2. \A r, s \in balances' : r.account = s.account /\ r.height = s.height => r = s
    BY <1>1, <1>3 DEF DbOK
  <2> QED
    BY <1>1, <1>2, <2>1, <2>2, SameHive DEF DbOK
<1>9. BlockOK'
  <2>1. PICK ev : ev = block.events
    OBVIOUS
  <2>2. /\ EventsOK(ev, block.from) /\ block.end = lastEnd /\ block.next \in 1..(Len(ev) + 1)
        /\ \A k \in 1..Len(ev) : \E h \in (block.start - 1)..block.end : TxAt(ev[k].tx, h)
    BY <1>1, <1>2, <1>4, <2>1 DEF BlockOK, BlockRecord
  <2>3. \A k \in 1..Len(ev) : \E h \in (block'.start - 1)..block'.end : TxAt(ev[k].tx, h)'
    BY <1>2, <1>6, <2>2, SameHive
  <2> QED
    BY <1>2, <1>6, <2>1, <2>2, <2>3 DEF BlockOK, BlockRecord
<1>10. ASSUME Whole PROVE Whole'
  <2>1. Written' = Written
    BY <1>2, <1>6 DEF Written
  <2> QED
    BY <1>2, <1>6, <1>10, <2>1, SameHive DEF Whole
<1> QED
  BY <1>1, <1>2, <1>7, <1>8, <1>9, <1>10 DEF LedgerInv

\* So does the end of a block.
LEMMA EndStep == ASSUME LedgerInv, EndIndex PROVE LedgerInv'
<1>1. HiveOK /\ DbOK /\ BlockOK /\ (~spoilt => Whole)
  BY DEF LedgerInv
<1>2. /\ UNCHANGED <<hive, height, ledger, balances, withdrawals, lastEnd, spoilt>>
      /\ block.stage = "indexing" /\ block.next > Len(block.events) /\ block' = NoBlock
      /\ DOMAIN included' \subseteq DOMAIN included
      /\ \A t \in DOMAIN included' : included'[t] = included[t]
  BY DEF EndIndex, Processed
<1>3. block'.stage # "indexing"
  BY <1>2 DEF NoBlock
<1>4. HiveOK'
  <2>1. IsFiniteSet(DOMAIN included')
    BY <1>1, <1>2, FS_Subset DEF HiveOK
  <2>2. \A t \in DOMAIN included' : t \in Tx /\ TxAt(t, included'[t])
    BY <1>1, <1>2 DEF HiveOK
  <2>3. (\A t \in DOMAIN included : t \in Tx /\ TxAt(t, included[t]))'
    BY <1>2, <2>2, SameHive DEF TxAt
  <2> QED
    BY <1>1, <1>2, <2>1, <2>3, SameHive DEF HiveOK
<1>5. DbOK' /\ BlockOK'
  BY <1>1, <1>2, SameHive DEF DbOK, BlockOK, BlockRecord
<1>6. ASSUME Whole PROVE Whole'
  <2>1. Written = 0
    <3>1. block \in BlockRecord /\ EventsOK(block.events, block.from) /\ block.next \in 1..(Len(block.events) + 1)
      BY <1>1, <1>2 DEF BlockOK, BlockRecord, NoBlock
    <3>2. PICK ev, L : ev = block.events /\ L = Len(ev)
      OBVIOUS
    <3>3. L \in Nat /\ block.next - 1 = L
      BY <1>2, <3>1, <3>2 DEF BlockRecord
    <3>4. Written = Total(ev, 1..L)
      BY <1>2, <3>2, <3>3 DEF Written
    <3> QED
      BY <3>1, <3>2, <3>4 DEF EventsOK
  <2>2. Written' = 0
    BY <1>3 DEF Written
  <2> QED
    BY <1>2, <1>3, <1>6, <2>1, <2>2, SameHive DEF Whole
<1> QED
  BY <1>1, <1>2, <1>4, <1>5, <1>6 DEF LedgerInv

\* So does a restart.
LEMMA RestartStep == ASSUME LedgerInv, Restart PROVE LedgerInv'
<1>1. HiveOK /\ DbOK /\ BlockOK /\ (~spoilt => Whole)
  BY DEF LedgerInv
<1>2. /\ UNCHANGED <<hive, included, ledger, balances, withdrawals, lastEnd>>
      /\ height' \in 0..height
      /\ spoilt' = (spoilt \/ block.stage = "indexing")
      /\ block' = IF block.stage = "indexing" THEN NoBlock ELSE block
  BY DEF Restart, dbVars
<1>3. height' \in Int /\ height' =< height /\ height' \in 0..Len(hive)
      /\ \A h \in Int : h =< height' => h =< height
  BY <1>1, <1>2, HiveIs
<1>4. HiveOK'
  BY <1>1, <1>2, <1>3, SameHive DEF HiveOK
<1>5. \A op : \A h \in On(op) : h =< height' => h =< height
  BY <1>1, <1>3, HiveIs
<1>6. DbOK'
  BY <1>1, <1>2, <1>5, SameHive DEF DbOK
<1>7. BlockOK'
  BY <1>1, <1>2, SameHive DEF BlockOK, BlockRecord
<1>8. ASSUME Whole, ~spoilt' PROVE Whole'
  <2>1. block' = block /\ Written' = Written
    BY <1>2, <1>8 DEF Written
  <2> QED
    BY <1>2, <1>5, <1>8, <2>1, SameHive DEF Whole
<1> QED
  BY <1>1, <1>2, <1>4, <1>6, <1>7, <1>8 DEF LedgerInv

\* Every step keeps the invariant.
LEMMA LedgerStep == LedgerInv /\ [Next]_vars => LedgerInv'
<1> SUFFICES ASSUME LedgerInv, [Next]_vars PROVE LedgerInv'
  OBVIOUS
<1>1. CASE UNCHANGED vars
  <2>1. UNCHANGED <<hive, height, included, ledger, balances, withdrawals, lastEnd, block, spoilt>>
    BY <1>1 DEF vars, dbVars
  <2>2. HiveOK' /\ DbOK' /\ BlockOK'
    BY <2>1, SameHive DEF LedgerInv, HiveOK, DbOK, BlockOK, BlockRecord
  <2>3. Whole => Whole'
    BY <2>1, SameHive DEF Whole, Written
  <2> QED
    BY <2>1, <2>2, <2>3 DEF LedgerInv
<1> QED
  BY <1>1, HiveStep, HandleStep, BuildStep, AbandonStep, StartIndexStep, ProcessStep, RecordStep,
     EndStep, RestartStep DEF Next

\* So it always holds.
LEMMA LedgerAlways == Spec => []LedgerInv
  BY LedgerInit, LedgerStep, PTL DEF Spec

-------------------------------------------------------------------------------
(* What follows. *)

Keys(H) == {<<"hive", h>> : h \in H}

\* The ledger's deposits total what was deposited on Hive.
LEMMA DepositsTotal ==
  ASSUME NEW H, IsFiniteSet(H), NEW a, NEW b,
         \A h \in H : a[h].amount \in Int /\ b[<<"hive", h>>].amount = a[h].amount
  PROVE  Total(b, Keys(H)) = Total(a, H)
<1> DEFINE Good(S) == IsFiniteSet(Keys(S)) /\ Total(b, Keys(S)) = Total(a, S)
           Bad == {S \in SUBSET H : ~Good(S)}
<1>1. ASSUME Bad # {} PROVE FALSE
  <2>1. PICK S \in Bad : \A y \in Bad : y \subseteq S => y = S
    <3>1. Bad \subseteq SUBSET H
      OBVIOUS
    <3> HIDE DEF Bad
    <3> QED
      BY <1>1, <3>1, MinimalSubset
  <2>2. S \in SUBSET H /\ ~Good(S)
    BY <2>1
  <2>3. CASE S = {}
    <3>1. Keys(S) = {} /\ IsFiniteSet({})
      BY <2>3, FS_EmptySet DEF Keys
    <3> QED
      BY <2>2, <2>3, <3>1, TotalEmpty
  <2>4. CASE S # {}
    <3>1. PICK e \in S : TRUE
      BY <2>4
    <3>2. PICK R, k : R = S \ {e} /\ k = <<"hive", e>>
      OBVIOUS
    <3>3. R \in SUBSET H /\ R \subseteq S /\ R # S /\ S = R \cup {e} /\ e \notin R
      BY <2>2, <3>1, <3>2
    <3>4. IsFiniteSet(Keys(R)) /\ Total(b, Keys(R)) = Total(a, R)
      BY <2>1, <3>3
    <3> HIDE DEF Bad, Good
    <3>5. Keys(S) = Keys(R) \cup {k} /\ k \notin Keys(R)
      BY <3>2, <3>3 DEF Keys
    <3>6. IsFiniteSet(R) /\ IsFiniteSet(Keys(S))
      BY <3>3, <3>4, <3>5, FS_Subset, FS_AddElement
    <3>7. \A h \in S : a[h].amount \in Int /\ b[<<"hive", h>>].amount = a[h].amount
      BY <2>2
    <3>8. (\A i \in R \cup {e} : a[i].amount \in Int) /\ (\A i \in Keys(R) \cup {k} : b[i].amount \in Int)
          /\ b[k].amount = a[e].amount
      BY <3>2, <3>3, <3>7 DEF Keys
    <3>9. Total(a, R \cup {e}) = a[e].amount + Total(a, R)
      BY <3>3, <3>6, <3>8, TotalAdd
    <3>10. Total(b, Keys(R) \cup {k}) = b[k].amount + Total(b, Keys(R))
      BY <3>4, <3>5, <3>8, TotalAdd
    <3>11. Good(S)
      BY <3>3, <3>4, <3>5, <3>6, <3>8, <3>9, <3>10 DEF Good
    <3> QED
      BY <2>2, <3>11
  <2> QED
    BY <2>3, <2>4
<1> QED
  BY <1>1

\* The invariant gives the types.
LEMMA LedgerTyped == LedgerInv => LedgerTypeOK
<1> SUFFICES ASSUME LedgerInv PROVE LedgerTypeOK
  OBVIOUS
<1>1. HiveOK /\ DbOK
  BY DEF LedgerInv
<1>2. \A t \in DOMAIN included : t \in Tx /\ included[t] \in 1..Len(hive)
  BY <1>1, HiveIs DEF HiveOK, TxAt
<1>3. \A i \in DOMAIN withdrawals : withdrawals[i].amount \in Int
  BY <1>1 DEF DbOK
<1> QED
  BY <1>1, <1>2, <1>3 DEF LedgerTypeOK, HiveOK, DbOK

\* It gives that the ledger adds up.
LEMMA LedgerConserved == LedgerInv => Conserved
<1> SUFFICES ASSUME LedgerInv, block.stage # "indexing", ~spoilt, height = Len(hive)
             PROVE  Total(ledger, DOMAIN ledger) + Total(withdrawals, Pending) = Vault
  BY DEF Conserved
<1>1. HiveOK /\ DbOK /\ Whole
  BY DEF LedgerInv
<1>2. PICK L, D, R, W, B, P, H, C :
        /\ L = DOMAIN ledger /\ D = L \cap Id /\ R = L \ Id
        /\ W = DOMAIN withdrawals /\ B = Batched /\ P = Pending
        /\ H = On("deposit") /\ C = On("batch")
  OBVIOUS
<1>3. IsFiniteSet(H) /\ \A h \in H : h \in Nat /\ h =< height /\ hive[h].amount \in Int
  <2>1. IsFiniteSet(H) /\ \A h \in H : h \in 1..Len(hive) /\ hive[h].op = "deposit" /\ hive[h] \in HiveOp
    BY <1>1, <1>2, HiveIs DEF On
  <2> QED
    BY <1>1, <2>1, HiveIs DEF HiveOp
<1>4. R = Keys(H)
  <2>1. ASSUME NEW i \in R PROVE i \in Keys(H)
    <3>1. i \in {"hive"} \X Nat /\ i[2] \in H
      BY <1>1, <1>2 DEF DbOK
    <3>2. i = <<"hive", i[2]>>
      BY <3>1
    <3> QED
      BY <3>1, <3>2 DEF Keys
  <2>2. ASSUME NEW h \in H PROVE <<"hive", h>> \in R
    BY <1>1, <1>2, <1>3, LedgerAssumption DEF DbOK, Id
  <2> QED
    BY <2>1, <2>2 DEF Keys
<1>5. \A h \in H : ledger[<<"hive", h>>].amount = hive[h].amount
  <2> SUFFICES ASSUME NEW h \in H PROVE ledger[<<"hive", h>>].amount = hive[h].amount
    OBVIOUS
  <2>1. PICK k : k = <<"hive", h>>
    OBVIOUS
  <2>2. k \in R /\ k[2] = h
    BY <1>4, <2>1 DEF Keys
  <2> QED
    BY <1>1, <1>2, <2>1, <2>2 DEF DbOK
<1>6. Total(ledger, R) = Total(hive, H)
  BY <1>3, <1>4, <1>5, DepositsTotal
<1>7. Total(ledger, L) = Total(ledger, D) + Total(ledger, R)
  <2>1. IsFiniteSet(L) /\ (\A i \in L : ledger[i].amount \in Int) /\ D \in SUBSET L /\ L \ D = R
    BY <1>1, <1>2 DEF DbOK
  <2>2. Total(ledger, L) = Total(ledger, D) + Total(ledger, L \ D)
    BY <2>1, TotalUnion
  <2> QED
    BY <2>1, <2>2
<1>8. B \in SUBSET W /\ P = W \ B
  <2>1. B \in SUBSET W /\ \A i \in W : withdrawals[i].status = "COMPLETE" => i \in B
    BY <1>1, <1>2 DEF Whole
  <2>2. \A i \in B : withdrawals[i].status = "COMPLETE"
    <3> SUFFICES ASSUME NEW i \in B PROVE withdrawals[i].status = "COMPLETE"
      OBVIOUS
    <3>1. PICK h \in C : i \in hive[h].ids
      BY <1>2 DEF Batched
    <3>2. h =< height
      BY <1>1, <1>2, HiveIs
    <3> QED
      BY <1>1, <1>2, <3>1, <3>2 DEF Whole
  <2>3. \A i \in W : withdrawals[i].status \in {"PENDING", "COMPLETE"}
    BY <1>1, <1>2 DEF DbOK
  <2> QED
    BY <1>2, <2>1, <2>2, <2>3 DEF Pending
<1>9. Total(withdrawals, W) = Total(withdrawals, B) + Total(withdrawals, P)
  <2>1. IsFiniteSet(W) /\ \A i \in W : withdrawals[i].amount \in Int
    BY <1>1, <1>2 DEF DbOK
  <2> QED
    BY <1>8, <2>1, TotalUnion
<1>10. Total(ledger, D) + Total(withdrawals, W) = 0 /\ Total(hive, C) = Total(withdrawals, B)
  BY <1>1, <1>2 DEF Whole, Written
<1>11. PICK d \in Int, r \in Int, b \in Int, p \in Int :
         d = Total(ledger, D) /\ r = Total(ledger, R) /\ b = Total(withdrawals, B) /\ p = Total(withdrawals, P)
  <2>1. D \in SUBSET DOMAIN ledger /\ R \in SUBSET DOMAIN ledger
        /\ B \in SUBSET DOMAIN withdrawals /\ P \in SUBSET DOMAIN withdrawals
    BY <1>2, <1>8
  <2> QED
    BY <1>1, <2>1, DbIs
<1>12. d + (b + p) = 0 /\ Vault = r - b
  BY <1>2, <1>6, <1>9, <1>10, <1>11 DEF Vault
<1>13. (d + r) + p = r - b
  <2>1. d + (b + p) = 0
    BY <1>12
  <2> QED
    BY <2>1
<1> QED
  BY <1>2, <1>7, <1>11, <1>12, <1>13

\* It gives that what is taken from senders is there.
LEMMA BlockSpends == LedgerInv => SpendsWhatItHas
<1> SUFFICES ASSUME LedgerInv, block.stage = "built", NEW k \in DOMAIN block.events,
                    block.events[k] = Debit(block.events[k].tx)
             PROVE  LET a == block.events[k].owner
                    IN block.from[a] + Total(block.events, {i \in 1..k : block.events[i].owner = a}) >= 0
  BY DEF SpendsWhatItHas
<1>1. block \in BlockRecord /\ EventsOK(block.events, block.from)
  BY DEF LedgerInv, BlockOK, BlockRecord, NoBlock
<1>2. k \in 1..Len(block.events)
  BY <1>1 DEF BlockRecord
<1> QED
  BY <1>1, <1>2 DEF EventsOK, Of

\* A step that does not spoil the tables leaves a paid withdrawal as it is.
LEMMA PaidStep ==
  ASSUME LedgerInv, [Next]_vars, ~spoilt', NEW i \in DOMAIN withdrawals, withdrawals[i].status = "COMPLETE"
  PROVE  withdrawals'[i] = withdrawals[i]
<1>1. CASE Handle
  <2>1. PICK h : Deposit(h) \/ Include(h) \/ Complete(h)
    BY <1>1 DEF Handle
  <2>2. CASE Complete(h)
    <3>1. withdrawals[i] \in [amount : Int, status : {"PENDING", "COMPLETE"}]
      BY DEF LedgerInv, DbOK
    <3>2. withdrawals'[i] = withdrawals[i] \/ withdrawals'[i] = [withdrawals[i] EXCEPT !.status = "COMPLETE"]
      BY <2>2 DEF Complete
    <3> QED
      BY <3>1, <3>2
  <2> QED
    BY <2>1, <2>2 DEF Deposit, Include
<1>2. CASE ProcessEvent
  <2>1. /\ block.stage = "indexing" /\ block.next =< Len(block.events) /\ ~spoilt
    BY <1>2 DEF ProcessEvent
  <2>2. PICK ev, n, id : NextEvent(ev, n, id)
    BY <2>1, NextIs
  <2>3. ev = block.events /\ n = block.next /\ id = <<ev[n].tx, n>> /\ n \in 1..Len(ev)
    BY <2>2 DEF NextEvent
  <2>4. id \notin DOMAIN withdrawals
    BY <2>1, <2>3 DEF LedgerInv, Whole
  <2>5. \/ withdrawals' = Upsert(withdrawals, id, [amount |-> ev[n].amount, status |-> "PENDING"])
        \/ withdrawals' = withdrawals
    BY <1>2, <2>3 DEF ProcessEvent
  <2> QED
    BY <2>4, <2>5 DEF Upsert
<1>3. CASE Hive \/ Build \/ Abandon \/ StartIndex \/ RecordBalance \/ EndIndex \/ Restart \/ UNCHANGED vars
  BY <1>3 DEF Hive, Build, Abandon, StartIndex, RecordBalance, EndIndex, Restart, vars, dbVars
<1> QED
  BY <1>1, <1>2, <1>3 DEF Next

-------------------------------------------------------------------------------
(* The theorems. *)

\* Whatever is transferred, withdrawn, paid out and replayed, what accounts own
\* and are still owed is what the multisig account holds, as long as no restart
\* has cut the indexing of a block short: deposits are upserted under the id of
\* their Hive operation, events once each, and a block's events add up to nothing.
THEOREM LedgerAddsUp == Spec => []LedgerOK
  BY LedgerAlways, LedgerTyped, LedgerConserved, PTL DEF LedgerOK

\* Whatever the sums of the transfers and withdrawals of a block are, executeTx
\* leaves none of their senders below nothing, in any order and from any snapshots.
\* The account credited by one of a negative sum has no such guarantee.
THEOREM BlocksSpendWhatIsThere == Spec => []SpendsWhatItHas
  BY LedgerAlways, BlockSpends, PTL

\* A withdrawal a bridge_ref has completed is not written again.
THEOREM PaidForGood == Spec => PaidStaysPaid
<1>1. LedgerInv /\ [Next]_vars => [~spoilt' => \A i \in DOMAIN withdrawals :
        withdrawals[i].status = "COMPLETE" => withdrawals'[i] = withdrawals[i]]_vars
  BY PaidStep
<1> QED
  BY <1>1, LedgerAlways, PTL DEF Spec, PaidStaysPaid

===============================================================================
