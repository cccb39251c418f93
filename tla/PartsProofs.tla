------------------------------ MODULE PartsProofs ------------------------------
(***************************************************************************)
(* Proofs about the smaller parts of a node, for every value of their      *)
(* constants.                                                              *)
(*                                                                         *)
(* WitnessRegistry: however often account updates are parsed again, also   *)
(* from the middle of one or from many blocks back, the history of an      *)
(* account comes to the same witnesses and keys.                           *)
(*                                                                         *)
(* PeerChannel: whatever overlaps, is lost or comes late, a call gathers   *)
(* the answers given to it, each once.                                     *)
(*                                                                         *)
(* WitnessSchedule: whoever asks, and whatever is in the cache, a height's *)
(* schedule is the one Hive's blocks give, and shares its slots evenly.    *)
(*                                                                         *)
(* TxPool: what the cleaner drops and the filter rejects is used up.       *)
(*                                                                         *)
(* ContractRegistry: handled once or again, in whatever steps, Hive's      *)
(* transactions come to the contracts and versions they say.               *)
(*                                                                         *)
(* FileUpload and IndexReset: an upload that was answered is kept, and     *)
(* what a node has parsed is whole when it runs, wherever it was stopped.  *)
(***************************************************************************)
EXTENDS Parts, Upkeep, SumTheorems, FunctionTheorems

\* A part's step is one of its module's while the part is the chosen one, and none
\* otherwise.
LEMMA PartsStep ==
  ASSUME [PartsNext]_vars
  PROVE  /\ scenario' = scenario
         /\ scenario = "witnesses" => [Witnesses!Next]_(Witnesses!vars)
         /\ scenario # "witnesses" => UNCHANGED Witnesses!vars
         /\ scenario = "contracts" => [Contracts!Next]_(Contracts!vars)
         /\ scenario = "schedule" => [Schedule!Next]_(Schedule!vars)
         /\ scenario = "pool" => [Pool!Next]_(Pool!vars)
         /\ scenario = "channel" => [Channel!Next]_(Channel!vars)
<1> USE DEF ofWitnesses, ofContracts, ofSchedule, ofPool, ofChannel, Witnesses!vars, Contracts!vars,
            Schedule!vars, Pool!vars, Channel!vars
<1>1. CASE UNCHANGED vars
  BY <1>1 DEF vars
<1>2. CASE PartsNext
  BY <1>2 DEF PartsNext
<1> QED
  BY <1>1, <1>2

Newest(S) == Witnesses!Newest(S)
Put(f, h, v) == Witnesses!Put(f, h, v)

-------------------------------------------------------------------------------
(* Histories: values by height. *)

\* The newest of some heights.
LEMMA NewestIs ==
  ASSUME NEW m \in Nat, NEW S, S \subseteq 1..m, S # {}
  PROVE  Newest(S) \in S /\ \A g \in S : g =< Newest(S)
<1> DEFINE D == {x \in Nat : \E i \in S : x = m - i}
<1>1. D \subseteq Nat /\ D # {}
  <2>1. PICK i \in S : i \in 1..m
    OBVIOUS
  <2>2. m - i \in D
    BY <2>1
  <2> QED
    BY <2>2
<1>2. PICK x \in D : \A y \in D : x =< y
  <2> HIDE DEF D
  <2> QED
    BY <1>1, LeastNat
<1>3. PICK i \in S : x = m - i
  BY <1>2
<1>4. \A j \in S : j =< i
  <2> SUFFICES ASSUME NEW j \in S PROVE j =< i
    OBVIOUS
  <2>1. i \in 1..m /\ j \in 1..m
    OBVIOUS
  <2>2. m - j \in D
    BY <2>1
  <2>3. m - i =< m - j
    BY <1>2, <1>3, <2>2
  <2> QED
    BY <2>1, <2>3
<1> QED
  BY <1>3, <1>4 DEF Newest, Witnesses!Newest

\* There is one only.
LEMMA NewestOne ==
  ASSUME NEW m \in Nat, NEW S, S \subseteq 1..m, NEW h \in S, \A g \in S : g =< h
  PROVE  Newest(S) = h
<1>1. Newest(S) \in S /\ \A g \in S : g =< Newest(S)
  BY NewestIs
<1>2. Newest(S) \in 1..m /\ h \in 1..m
  BY <1>1
<1> QED
  BY <1>1, <1>2

\* d is the last height of S up to h.
Last(S, h, d) == d \in S /\ d =< h /\ \A e \in S : e =< h => e =< d

\* What the keys' history f of an account is after its updates R up to m: an
\* entry is that of its own update, and each update finds its keys.
KeysKept(f, R, told, m) ==
  /\ DOMAIN f \subseteq R
  /\ \A h \in DOMAIN f : h =< m /\ f[h] = told[h].keys
  /\ \A u \in R : u =< m => \E d \in DOMAIN f : Last(DOMAIN f, u, d) /\ f[d] = told[u].keys

\* Where the keys of the update at v are put.
KeysFrom(f, told, v) ==
  IF DOMAIN f # {} /\ f[Newest(DOMAIN f)] = told[v].keys THEN Newest(DOMAIN f) ELSE v

\* The heights of the history.
LEMMA KeysIn ==
  ASSUME NEW R, R \subseteq Nat \ {0}, NEW told, NEW m \in Nat, NEW f, KeysKept(f, R, told, m)
  PROVE  DOMAIN f \subseteq 1..m
<1> SUFFICES ASSUME NEW h \in DOMAIN f PROVE h \in 1..m
  OBVIOUS
<1>1. h \in Nat \ {0} /\ h =< m
  BY DEF KeysKept
<1> QED
  BY <1>1

\* An update that is parsed, for the first time or again, keeps the history.
LEMMA KeysPut ==
  ASSUME NEW R, R \subseteq Nat \ {0}, NEW told, NEW m \in Nat, NEW f, KeysKept(f, R, told, m),
         NEW v \in R, v =< m + 1, NEW n \in Nat, m =< n, v =< n, n =< m + 1,
         \A u \in R : u =< n => u =< m \/ u = v,
         NEW g, g = Put(f, KeysFrom(f, told, v), told[v].keys)
  PROVE  KeysKept(g, R, told, n)
<1>0. DOMAIN f \subseteq 1..m /\ v \in Nat
  BY KeysIn
<1>1. CASE DOMAIN f # {} /\ f[Newest(DOMAIN f)] = told[v].keys
  <2>1. PICK k \in DOMAIN f : k = Newest(DOMAIN f) /\ \A e \in DOMAIN f : e =< k
    BY <1>0, <1>1, NewestIs
  <2>2. f[k] = told[v].keys /\ KeysFrom(f, told, v) = k
    BY <1>1, <2>1 DEF KeysFrom
  <2>3. DOMAIN g = DOMAIN f /\ \A h \in DOMAIN f : g[h] = f[h]
    BY <2>1, <2>2 DEF Put, Witnesses!Put
  <2>4. ASSUME NEW u \in R, u =< n
        PROVE  \E d \in DOMAIN g : Last(DOMAIN g, u, d) /\ g[d] = told[u].keys
    <3>1. CASE u =< m
      BY <2>3, <3>1 DEF KeysKept
    <3>2. CASE ~(u =< m)
      <4>1. u = v /\ k =< u
        BY <1>0, <2>1, <2>4, <3>2
      <4> QED
        BY <2>1, <2>2, <2>3, <4>1 DEF Last
    <3> QED
      BY <3>1, <3>2
  <2>5. \A h \in DOMAIN g : h =< n /\ g[h] = told[h].keys
    BY <1>0, <2>3 DEF KeysKept
  <2> QED
    BY <2>3, <2>4, <2>5 DEF KeysKept
<1>2. CASE ~(DOMAIN f # {} /\ f[Newest(DOMAIN f)] = told[v].keys)
  <2>1. KeysFrom(f, told, v) = v
    BY <1>2 DEF KeysFrom
  <2>2. DOMAIN g = DOMAIN f \cup {v} /\ g[v] = told[v].keys /\ \A h \in DOMAIN f : g[h] = told[h].keys
    BY <2>1 DEF Put, Witnesses!Put, KeysKept
  <2>3. ASSUME NEW u \in R, u =< n
        PROVE  \E d \in DOMAIN g : Last(DOMAIN g, u, d) /\ g[d] = told[u].keys
    <3>0. u \in Nat
      OBVIOUS
    <3>1. CASE u < v
      <4>0. u =< m
        BY <1>0, <3>0, <3>1
      <4>1. PICK d \in DOMAIN f : Last(DOMAIN f, u, d) /\ f[d] = told[u].keys
        BY <4>0 DEF KeysKept
      <4>2. g[d] = f[d]
        BY <2>2, <4>1 DEF KeysKept
      <4>3. Last(DOMAIN g, u, d)
        BY <1>0, <2>2, <3>0, <3>1, <4>1 DEF Last
      <4> QED
        BY <2>2, <4>1, <4>2, <4>3
    <3>2. CASE u = v
      <4>1. Last(DOMAIN g, u, v)
        BY <1>0, <2>2, <3>0, <3>2 DEF Last
      <4> QED
        BY <2>2, <3>2, <4>1
    <3>3. CASE u > v
      <4>1. u =< m /\ v =< m
        BY <1>0, <2>3, <3>0, <3>3
      <4>2. PICK d \in DOMAIN f : Last(DOMAIN f, u, d) /\ f[d] = told[u].keys
        BY <4>1 DEF KeysKept
      <4>3. PICK c \in DOMAIN f : Last(DOMAIN f, v, c) /\ f[c] = told[v].keys
        BY <4>1 DEF KeysKept
      <4>4. d \in Nat /\ c \in Nat
        BY <1>0
      <4>5. CASE v =< d
        <5>1. Last(DOMAIN g, u, d)
          BY <2>2, <4>2, <4>5 DEF Last
        <5>2. g[d] = f[d]
          BY <2>2, <4>2 DEF KeysKept
        <5> QED
          BY <2>2, <4>2, <5>1, <5>2
      <4>6. CASE d < v
        <5>1. d = c
          BY <1>0, <3>0, <3>3, <4>2, <4>3, <4>4, <4>6 DEF Last
        <5>2. Last(DOMAIN g, u, v)
          BY <1>0, <2>2, <3>0, <3>3, <4>2, <4>4, <4>6 DEF Last
        <5> QED
          BY <2>2, <4>2, <4>3, <5>1, <5>2
      <4> QED
        BY <1>0, <4>4, <4>5, <4>6
    <3> QED
      BY <1>0, <3>0, <3>1, <3>2, <3>3
  <2>4. \A h \in DOMAIN g : h \in R /\ h =< n /\ g[h] = told[h].keys
    BY <1>0, <2>2 DEF KeysKept
  <2> QED
    BY <2>3, <2>4 DEF KeysKept
<1> QED
  BY <1>1, <1>2

\* What the history answers is what it was told says: the keys of the last update.
LEMMA KeysFound ==
  ASSUME NEW R, R \subseteq Nat \ {0}, NEW told, NEW m \in Nat, NEW f, KeysKept(f, R, told, m),
         NEW b \in Nat, b =< m + 1, NEW B, B = {h \in DOMAIN f : h < b}
  PROVE  /\ B = {} <=> \A u \in R : ~(u < b)
         /\ \A u \in R : u < b /\ (\A w \in R : w < b => w =< u) => f[Newest(B)] = told[u].keys
<1>0. DOMAIN f \subseteq 1..m
  BY KeysIn
<1>1. B \subseteq 1..m
  BY <1>0
<1>2. ASSUME NEW u \in R, u < b PROVE B # {}
  <2>1. u \in Nat /\ u =< m
    BY <1>2
  <2>2. PICK d \in DOMAIN f : d =< u
    BY <2>1 DEF KeysKept, Last
  <2>3. d \in B
    BY <1>0, <1>2, <2>1, <2>2
  <2> QED
    BY <2>3
<1>3. ASSUME NEW u \in R, u < b, \A w \in R : w < b => w =< u PROVE f[Newest(B)] = told[u].keys
  <2>0. u \in Nat /\ u =< m
    BY <1>3
  <2>1. PICK d \in DOMAIN f : Last(DOMAIN f, u, d) /\ f[d] = told[u].keys
    BY <2>0 DEF KeysKept
  <2>2. d \in B
    BY <1>0, <1>3, <2>0, <2>1 DEF Last
  <2>4. ASSUME NEW e \in B PROVE e =< d
    <3>1. e \in R /\ e < b
      BY DEF KeysKept
    <3> QED
      BY <1>3, <2>1, <3>1 DEF Last
  <2>3. Newest(B) = d
    BY <1>1, <2>2, <2>4, NewestOne
  <2> QED
    BY <2>1, <2>3
<1>4. B # {} => \E u \in R : u < b
  BY DEF KeysKept
<1> QED
  BY <1>2, <1>3, <1>4

\* The same of the toggle, where R are the updates that announce a node.  Entries may
\* be at other heights than those of updates, but the newest one has the value of
\* the last announcement before it and of all that follow.
TogglesKept(f, R, told, m) ==
  /\ DOMAIN f \subseteq 1..m
  /\ DOMAIN f = {} => \A s \in R : ~(s =< m)
  /\ \A t \in DOMAIN f : (\A e \in DOMAIN f : e =< t) =>
       /\ \E s \in R : s =< t
       /\ \A s \in R : s =< m /\ (\A r \in R : r =< t => r =< s) => f[t] = told[s].says.enabled

\* Where the toggle announced at v is put: A are the heights of the keys' history.
ToggleFrom(f, A, told, v) ==
  IF DOMAIN f # {} /\ A # {} /\ f[Newest(DOMAIN f)] = told[v].says.enabled
  THEN Newest(A) ELSE v

\* An announcement that is parsed, for the first time or again, keeps the history.
LEMMA TogglePut ==
  ASSUME NEW R, R \subseteq Nat \ {0}, NEW told, NEW m \in Nat, NEW f, TogglesKept(f, R, told, m),
         NEW v \in R, v =< m + 1, NEW n \in Nat, m =< n, v =< n, n =< m + 1,
         \A u \in R : u =< n => u =< m \/ u = v,
         NEW A, A \subseteq 1..m,
         NEW g, g = Put(f, ToggleFrom(f, A, told, v), told[v].says.enabled)
  PROVE  TogglesKept(g, R, told, n)
<1>0. PICK on : on = told[v].says.enabled
  OBVIOUS
<1>1. DOMAIN f \subseteq 1..m /\ v \in Nat \ {0} /\ \A u \in R : u \in Nat
  BY DEF TogglesKept
<1>2. CASE DOMAIN f # {} /\ A # {} /\ f[Newest(DOMAIN f)] = on
  <2>1. PICK p \in DOMAIN f : p = Newest(DOMAIN f) /\ f[p] = on /\ \A e \in DOMAIN f : e =< p
    BY <1>1, <1>2, NewestIs
  <2>2. PICK k \in A : k = Newest(A)
    BY <1>2, NewestIs
  <2>3. DOMAIN g = DOMAIN f \cup {k} /\ g[k] = on /\ \A h \in DOMAIN f : h # k => g[h] = f[h]
    BY <1>0, <1>2, <2>2 DEF ToggleFrom, Put, Witnesses!Put
  <2>4. k \in 1..m /\ p \in 1..m
    BY <1>1
  <2>5. \E s \in R : s =< p
    BY <2>1 DEF TogglesKept
  <2>6. ASSUME NEW s \in R, s =< n, \A r \in R : r =< p => r =< s
        PROVE  on = told[s].says.enabled
    <3>1. CASE s =< m
      BY <2>1, <2>6, <3>1 DEF TogglesKept
    <3>2. CASE ~(s =< m)
      BY <1>0, <2>6, <3>2
    <3> QED
      BY <3>1, <3>2
  <2>7. ASSUME NEW t \in DOMAIN g, \A e \in DOMAIN g : e =< t
        PROVE  g[t] = on /\ p =< t /\ t \in Nat
    BY <1>1, <2>1, <2>3, <2>4, <2>7
  <2>8. ASSUME NEW t \in DOMAIN g, \A e \in DOMAIN g : e =< t
        PROVE  /\ \E s \in R : s =< t
               /\ \A s \in R : s =< n /\ (\A r \in R : r =< t => r =< s) =>
                    g[t] = told[s].says.enabled
    <3>1. g[t] = on /\ p =< t /\ t \in Nat
      BY <2>7, <2>8
    <3>2. \E s \in R : s =< t
      BY <1>1, <2>4, <2>5, <3>1
    <3>3. ASSUME NEW s \in R, s =< n, \A r \in R : r =< t => r =< s
          PROVE  g[t] = told[s].says.enabled
      <4>1. \A r \in R : r =< p => r =< s
        BY <1>1, <2>4, <3>1, <3>3
      <4> QED
        BY <2>6, <3>1, <3>3, <4>1
    <3> QED
      BY <3>2, <3>3
  <2>9. DOMAIN g \subseteq 1..n /\ DOMAIN g # {}
    BY <1>1, <2>3, <2>4
  <2> QED
    BY <2>8, <2>9 DEF TogglesKept
<1>3. CASE ~(DOMAIN f # {} /\ A # {} /\ f[Newest(DOMAIN f)] = on)
  <2>1. DOMAIN g = DOMAIN f \cup {v} /\ g[v] = on /\ \A h \in DOMAIN f : h # v => g[h] = f[h]
    BY <1>0, <1>3 DEF ToggleFrom, Put, Witnesses!Put
  <2>2. DOMAIN g \subseteq 1..n /\ DOMAIN g # {}
    BY <1>1, <2>1
  <2>3. ASSUME NEW t \in DOMAIN g, \A e \in DOMAIN g : e =< t
        PROVE  /\ \E s \in R : s =< t
               /\ \A s \in R : s =< n /\ (\A r \in R : r =< t => r =< s) =>
                    g[t] = told[s].says.enabled
    <3>1. t \in Nat /\ v =< t
      BY <2>1, <2>2, <2>3
    <3>2. ASSUME NEW s \in R, s =< n, \A r \in R : r =< t => r =< s
          PROVE  g[t] = told[s].says.enabled
      <4>1. s \in Nat /\ v =< s
        BY <3>1, <3>2
      <4>2. CASE t # v
        <5>1. t \in DOMAIN f /\ g[t] = f[t] /\ \A e \in DOMAIN f : e =< t
          BY <2>1, <2>3, <4>2
        <5>2. v < t /\ t =< m
          BY <1>1, <3>1, <4>2, <5>1
        <5>3. s =< m
          <6>1. s =< m \/ s = v
            BY <3>2
          <6> QED
            BY <1>1, <3>1, <4>1, <5>2, <6>1
        <5> QED
          BY <3>2, <5>1, <5>3 DEF TogglesKept
      <4>3. CASE t = v /\ ~(s =< m)
        BY <1>0, <2>1, <3>2, <4>3
      <4>4. CASE t = v /\ s =< m
        <5>1. DOMAIN f # {}
          BY <4>4 DEF TogglesKept
        <5>2. PICK p \in DOMAIN f : \A e \in DOMAIN f : e =< p
          BY <1>1, <5>1, NewestIs
        <5>3. p \in Nat /\ p =< v /\ v =< m
          BY <1>1, <2>1, <2>3, <4>1, <4>4, <5>2
        <5>4. \A r \in R : r =< p => r =< v /\ r =< s
          BY <1>1, <4>1, <5>3
        <5>5. f[p] = on /\ f[p] = told[s].says.enabled
          BY <1>0, <4>4, <5>2, <5>3, <5>4 DEF TogglesKept
        <5> QED
          BY <2>1, <4>4, <5>5
      <4> QED
        BY <4>2, <4>3, <4>4
    <3> QED
      BY <3>1, <3>2
  <2> QED
    BY <2>2, <2>3 DEF TogglesKept
<1> QED
  BY <1>2, <1>3

\* Announcements on later heights change nothing.
LEMMA TogglesSame ==
  ASSUME NEW R, R \subseteq Nat, NEW told, NEW n \in Nat, NEW f, TogglesKept(f, R, told, n),
         NEW S, R \subseteq S, NEW later \in Nat, n < later, \A h \in S : h \in R \/ h = later,
         NEW longer, \A h \in R : longer[h] = told[h]
  PROVE  TogglesKept(f, S, longer, n)
<1>1. DOMAIN f \subseteq 1..n /\ \A s \in S : s =< n => s \in R
  BY DEF TogglesKept
<1>2. DOMAIN f = {} => \A s \in S : ~(s =< n)
  BY <1>1 DEF TogglesKept
<1>3. ASSUME NEW t \in DOMAIN f, \A e \in DOMAIN f : e =< t
      PROVE  \E s \in S : s =< t
  BY <1>3 DEF TogglesKept
<1>4. ASSUME NEW t \in DOMAIN f, \A e \in DOMAIN f : e =< t,
             NEW s \in S, s =< n, \A r \in S : r =< t => r =< s
      PROVE  f[t] = longer[s].says.enabled
  <2>1. s \in R /\ longer[s] = told[s] /\ \A r \in R : r =< t => r =< s
    BY <1>1, <1>4
  <2> QED
    BY <1>4, <2>1 DEF TogglesKept
<1> QED
  BY <1>1, <1>2, <1>3, <1>4 DEF TogglesKept

\* Nor does a height without an announcement.
LEMMA TogglesLonger ==
  ASSUME NEW R, NEW told, NEW n \in Nat, NEW f, TogglesKept(f, R, told, n),
         NEW k \in Nat, n =< k, \A s \in R : s =< k => s =< n
  PROVE  TogglesKept(f, R, told, k)
<1>1. DOMAIN f \subseteq 1..k
  BY DEF TogglesKept
<1> QED
  BY <1>1 DEF TogglesKept

\* Where nothing is recorded after b, the newest toggle is that of the last
\* announcement.
LEMMA ToggleFound ==
  ASSUME NEW R, R \subseteq Nat \ {0}, NEW told, NEW m \in Nat, NEW f, TogglesKept(f, R, told, m),
         NEW b \in Nat, b =< m, DOMAIN f \subseteq 1..b
  PROVE  /\ DOMAIN f = {} <=> \A s \in R : ~(s =< b)
         /\ \A s \in R : s =< b /\ (\A r \in R : r =< b => r =< s) =>
              f[Newest(DOMAIN f)] = told[s].says.enabled
<1>1. CASE DOMAIN f = {}
  <2>1. \A s \in R : ~(s =< m)
    BY <1>1 DEF TogglesKept
  <2>2. \A s \in R : s \in Nat
    OBVIOUS
  <2>3. \A s \in R : ~(s =< b)
    BY <2>1, <2>2
  <2> QED
    BY <1>1, <2>3
<1>2. CASE DOMAIN f # {}
  <2>1. PICK t \in DOMAIN f : t = Newest(DOMAIN f) /\ \A e \in DOMAIN f : e =< t
    BY <1>2, NewestIs
  <2>2. t \in Nat /\ t =< b
    OBVIOUS
  <2>3. PICK s \in R : s =< t
    BY <2>1 DEF TogglesKept
  <2>4. s \in Nat /\ s =< b
    BY <2>2, <2>3
  <2>5. ASSUME NEW r \in R, r =< b, \A q \in R : q =< b => q =< r
        PROVE  f[t] = told[r].says.enabled
    <3>1. r \in Nat /\ r =< m /\ \A q \in R : q =< t => q =< r
      BY <2>2, <2>5
    <3> QED
      BY <2>1, <3>1 DEF TogglesKept
  <2> QED
    BY <1>2, <2>1, <2>4, <2>5
<1> QED
  BY <1>1, <1>2

-------------------------------------------------------------------------------
(* WitnessRegistry.  Each history is complete up to a height of its own,   *)
(* which a restart does not take back.                                     *)

Height == parsed + 1

\* The updates of an account that can be read, and those that announce a node.
Readable(a) ==
  {h \in 1..Len(hive) : hive[h].account = a /\ hive[h].says # Witnesses!Broken}
Announced(a) == {h \in Readable(a) : hive[h].says.node = "node"}

RegistryOK ==
  /\ hive \in Seq(Witnesses!Update) /\ parsed \in 0..Len(hive)
  /\ pc \in {"toggle", "signed", "witness", "auth"}
  /\ pc # "toggle" => parsed < Len(hive) /\ hive[Height].says.node = "node"
  /\ toggles = [a \in Account |-> toggles[a]] /\ auths = [a \in Account |-> auths[a]]
  /\ \A a \in Account : \A h \in DOMAIN toggles[a] : toggles[a][h] \in BOOLEAN
  /\ signed = [a \in Account |-> signed[a]] /\ nets = [a \in DOMAIN nets |-> nets[a]]
  /\ DOMAIN nets \subseteq Account
  /\ restarts \in 0..MaxRestarts

\* The keys are complete up to m, the toggles up to n.
HistoryOK(m, n) ==
  /\ m \in Nat /\ n \in Nat /\ parsed =< m /\ m =< n /\ n =< Len(hive)
  /\ pc # "toggle" => Height =< n
  /\ \A a \in Account :
       /\ KeysKept(auths[a], Readable(a), hive, m)
       /\ TogglesKept(toggles[a], Announced(a), hive, n)

\* Every announcement parsed has signed; where no later one has, what is known of
\* the account's network is what the last one says.
SignedOK ==
  /\ \A a \in Account :
       /\ signed[a] \subseteq Announced(a)
       /\ \A s \in Announced(a) : s =< parsed => s \in signed[a]
       /\ \A s \in Announced(a) :
            s =< parsed /\ (\A r \in signed[a] : r =< s) =>
              a \in DOMAIN nets /\ nets[a] = hive[s].says.here
  /\ pc \in {"witness", "auth"} => Height \in signed[hive[Height].account]
  /\ pc = "auth" => LET a == hive[Height].account
                    IN a \in DOMAIN nets /\ nets[a] = hive[Height].says.here

RegistryInv == RegistryOK /\ SignedOK /\ \E m, n \in Nat : HistoryOK(m, n)

\* What can be said of an update of a typed history.
LEMMA UpdateIs ==
  ASSUME RegistryOK, NEW h \in 1..Len(hive)
  PROVE  /\ hive[h].account \in Account
         /\ hive[h].says.node \in {"none", "broken", "node"}
         /\ hive[h].says = Witnesses!Broken <=> hive[h].says.node = "broken"
         /\ hive[h].says.node = "node" => hive[h].says.enabled \in BOOLEAN
         /\ hive[h].keys \in Keys
<1>1. hive[h] \in Witnesses!Update
  BY DEF RegistryOK
<1> QED
  BY <1>1 DEF Witnesses!Update, Witnesses!Announcement, Witnesses!Nothing, Witnesses!Broken

\* At the start there is no history.
LEMMA RegistryInit ==
  ASSUME Witnesses!RegistryAssumption, Witnesses!Init PROVE RegistryInv
<1>1. Len(hive) = 0 /\ hive \in Seq(Witnesses!Update)
  BY DEF Witnesses!Init
<1>2. \A a : Readable(a) = {} /\ Announced(a) = {}
  BY <1>1 DEF Readable, Announced
<1>3. RegistryOK
  BY <1>1 DEF RegistryOK, Witnesses!Init, Witnesses!RegistryAssumption
<1>4. SignedOK
  BY <1>2 DEF SignedOK, Witnesses!Init
<1>5. HistoryOK(0, 0)
  BY <1>1, <1>2 DEF HistoryOK, KeysKept, TogglesKept, Witnesses!Init
<1> QED
  BY <1>3, <1>4, <1>5 DEF RegistryInv

\* A new update on Hive changes no history.
LEMMA RegistryHive ==
  ASSUME RegistryInv, Witnesses!HiveBlock PROVE RegistryInv'
<1>1. PICK m, n \in Nat : HistoryOK(m, n)
  BY DEF RegistryInv
<1>2. PICK added \in Witnesses!Update : hive' = Append(hive, added)
  BY DEF Witnesses!HiveBlock
<1>3. /\ hive' \in Seq(Witnesses!Update) /\ Len(hive) \in Nat /\ Len(hive') = Len(hive) + 1
      /\ \A h \in 1..Len(hive) : hive'[h] = hive[h]
  BY <1>2 DEF RegistryInv, RegistryOK
<1>4. UNCHANGED <<parsed, pc, toggles, signed, nets, auths, restarts>>
  BY DEF Witnesses!HiveBlock
<1>5. parsed \in Nat /\ parsed =< Len(hive) /\ (pc # "toggle" => parsed + 1 \in 1..Len(hive))
  BY <1>3 DEF RegistryInv, RegistryOK, Height
<1>6. ASSUME NEW a
      PROVE  /\ Readable(a) \subseteq Nat \ {0} /\ Announced(a) \subseteq Readable(a)
             /\ \A h \in Readable(a)' : h \in Readable(a) \/ h = Len(hive) + 1
             /\ \A h \in Announced(a)' : h \in Announced(a) \/ h = Len(hive) + 1
             /\ Readable(a) \subseteq Readable(a)' /\ Announced(a) \subseteq Announced(a)'
             /\ Readable(a) \subseteq 1..Len(hive)
  BY <1>3 DEF Readable, Announced
<1>7. RegistryOK'
  BY <1>3, <1>4, <1>5 DEF RegistryInv, RegistryOK, Height
<1>8. SignedOK'
  BY <1>3, <1>4, <1>5, <1>6 DEF RegistryInv, SignedOK, Height
<1>9. ASSUME NEW a \in Account
      PROVE  KeysKept(auths[a], Readable(a)', hive', m) /\ TogglesKept(toggles[a], Announced(a)', hive', n)
  <2>1. m < Len(hive) + 1 /\ n < Len(hive) + 1
    BY <1>1, <1>3 DEF HistoryOK
  <2>2. KeysKept(auths[a], Readable(a)', hive', m)
    <3>1. KeysKept(auths[a], Readable(a), hive, m)
      BY <1>1 DEF HistoryOK
    <3>2. \A h \in Readable(a) : hive'[h] = hive[h]
      BY <1>3, <1>6
    <3>3. \A u \in Readable(a)' : u =< m => u \in Readable(a)
      BY <1>3, <1>6, <2>1
    <3>4. DOMAIN auths[a] \subseteq Readable(a)' /\ \A h \in DOMAIN auths[a] : h =< m /\ auths[a][h] = hive'[h].keys
      BY <1>6, <3>1, <3>2 DEF KeysKept
    <3>5. \A u \in Readable(a)' : u =< m =>
            \E d \in DOMAIN auths[a] : Last(DOMAIN auths[a], u, d) /\ auths[a][d] = hive'[u].keys
      BY <3>1, <3>2, <3>3 DEF KeysKept
    <3> QED
      BY <3>4, <3>5 DEF KeysKept
  <2>3. PICK R, S : R = Announced(a) /\ S = Announced(a)'
    OBVIOUS
  <2>4. /\ R \subseteq Nat /\ R \subseteq S /\ \A h \in S : h \in R \/ h = Len(hive) + 1
        /\ \A h \in R : hive'[h] = hive[h]
    BY <1>3, <1>6, <2>3
  <2>5. TogglesKept(toggles[a], R, hive, n)
    BY <1>1, <2>3 DEF HistoryOK
  <2>6. TogglesKept(toggles[a], S, hive', n)
    <3>1. PICK later \in Nat : later = Len(hive) + 1
      BY <1>3
    <3> QED
      BY <2>1, <2>4, <2>5, <3>1, TogglesSame
  <2> QED
    BY <2>2, <2>3, <2>6
<1>10. HistoryOK(m, n)'
  BY <1>1, <1>3, <1>4, <1>9 DEF HistoryOK, Height
<1> QED
  BY <1>1, <1>7, <1>8, <1>10 DEF RegistryInv

\* What an account has announced is what has been read of it.
LEMMA HeightsAre ==
  ASSUME RegistryOK
  PROVE  /\ Len(hive) \in Nat /\ parsed \in Nat /\ Height \in Nat \ {0} /\ parsed =< Len(hive)
         /\ (parsed < Len(hive) => Height \in 1..Len(hive))
         /\ \A a : /\ Readable(a) \subseteq 1..Len(hive) /\ Announced(a) \subseteq Readable(a)
                   /\ Readable(a) \subseteq Nat \ {0} /\ Announced(a) \subseteq Nat \ {0}
BY DEF RegistryOK, Height, Readable, Announced

\* The first write of an announcement puts the toggle into the history.
LEMMA RegistryToggle ==
  ASSUME RegistryInv, Witnesses!WriteToggle PROVE RegistryInv'
<1>0. RegistryOK /\ SignedOK
  BY DEF RegistryInv
<1>1. PICK m, n \in Nat : HistoryOK(m, n)
  BY DEF RegistryInv
<1>2. PICK a, h : h = Height /\ a = hive[h].account
  OBVIOUS
<1>3. /\ h \in 1..Len(hive) /\ pc = "toggle" /\ pc' = "signed" /\ hive[h].says.node = "node"
      /\ toggles' = [toggles EXCEPT ![a] =
           Put(@, ToggleFrom(toggles[a], DOMAIN auths[a], hive, h), hive[h].says.enabled)]
      /\ UNCHANGED <<hive, parsed, signed, nets, auths, restarts>>
  BY <1>0, <1>2, HeightsAre DEF Witnesses!WriteToggle, Witnesses!At, Witnesses!Says, Witnesses!Acc,
     Witnesses!Height, Witnesses!ToggleFrom, ToggleFrom, Put, Newest, Height
<1>4. a \in Account /\ hive[h].says.enabled \in BOOLEAN /\ h \in Announced(a)
  BY <1>0, <1>2, <1>3, UpdateIs DEF Announced, Readable
<1>5. PICK k \in Nat : k = IF h =< n THEN n ELSE h
  BY <1>3
<1>6. n =< k /\ h =< k /\ k =< n + 1 /\ k =< Len(hive) /\ h =< n + 1
  BY <1>0, <1>1, <1>2, <1>3, <1>5, HeightsAre DEF HistoryOK, Height
<1>7. \A b \in Account : \A u \in Announced(b) : u =< k => u =< n \/ u = h
  <2> SUFFICES ASSUME NEW b \in Account, NEW u \in Announced(b), u =< k PROVE u =< n \/ u = h
    OBVIOUS
  <2>1. u \in Nat /\ h \in Nat
    BY <1>0, <1>3, HeightsAre
  <2> QED
    BY <1>5, <1>6, <2>1
<1>8. PICK g : g = toggles'[a]
  OBVIOUS
<1>9. /\ g = Put(toggles[a], ToggleFrom(toggles[a], DOMAIN auths[a], hive, h), hive[h].says.enabled)
      /\ toggles' = [b \in Account |-> toggles'[b]]
      /\ \A b \in Account : b # a => toggles'[b] = toggles[b]
  BY <1>0, <1>3, <1>4, <1>8 DEF RegistryOK
<1>10. TogglesKept(g, Announced(a), hive, k)
  <2>1. TogglesKept(toggles[a], Announced(a), hive, n) /\ Announced(a) \subseteq Nat \ {0}
    BY <1>0, <1>1, <1>4, HeightsAre DEF HistoryOK
  <2>2. DOMAIN auths[a] \subseteq 1..n
    <3>1. KeysKept(auths[a], Readable(a), hive, m) /\ Readable(a) \subseteq Nat \ {0} /\ m =< n
      BY <1>0, <1>1, <1>4, HeightsAre DEF HistoryOK
    <3>2. DOMAIN auths[a] \subseteq 1..m
      BY <3>1, KeysIn
    <3> QED
      BY <3>1, <3>2
  <2>3. \A u \in Announced(a) : u =< k => u =< n \/ u = h
    BY <1>4, <1>7
  <2> QED
    BY <1>4, <1>6, <1>9, <2>1, <2>2, <2>3, TogglePut
<1>11. ASSUME NEW b \in Account, b # a
       PROVE  TogglesKept(toggles[b], Announced(b), hive, k)
  <2>1. h \notin Announced(b)
    BY <1>2, <1>11 DEF Announced, Readable
  <2>2. \A u \in Announced(b) : u =< k => u =< n
    BY <1>7, <2>1
  <2>3. TogglesKept(toggles[b], Announced(b), hive, n)
    BY <1>1 DEF HistoryOK
  <2> QED
    BY <1>6, <2>2, <2>3, TogglesLonger
<1>12. RegistryOK'
  <2>1. \A i \in DOMAIN g : g[i] \in BOOLEAN
    <3>1. \A i \in DOMAIN toggles[a] : toggles[a][i] \in BOOLEAN
      BY <1>0, <1>4 DEF RegistryOK
    <3> QED
      BY <1>4, <1>9, <3>1 DEF Put, Witnesses!Put
  <2>2. \A b \in Account : \A i \in DOMAIN toggles'[b] : toggles'[b][i] \in BOOLEAN
    BY <1>0, <1>8, <1>9, <2>1 DEF RegistryOK
  <2>3. parsed < Len(hive)
    BY <1>0, <1>2, <1>3, HeightsAre DEF Height
  <2>4. /\ pc' = "signed" /\ hive[Height].says.node = "node"
        /\ UNCHANGED <<hive, parsed, signed, nets, auths, restarts>>
    BY <1>2, <1>3
  <2> QED
    BY <1>0, <1>9, <2>2, <2>3, <2>4 DEF RegistryOK, Height
<1>13. SignedOK'
  BY <1>0, <1>3 DEF SignedOK, Announced, Readable, Height
<1>14. HistoryOK(m, k)'
  <2>1. \A b \in Account : TogglesKept(toggles'[b], Announced(b), hive, k)
    BY <1>8, <1>9, <1>10, <1>11
  <2>2. \A b : Readable(b)' = Readable(b) /\ Announced(b)' = Announced(b)
    BY <1>3 DEF Announced, Readable
  <2> QED
    BY <1>1, <1>2, <1>3, <1>6, <2>1, <2>2 DEF HistoryOK, Height
<1> QED
  BY <1>1, <1>5, <1>12, <1>13, <1>14 DEF RegistryInv

\* The second write adds the height.
LEMMA RegistrySigned ==
  ASSUME RegistryInv, Witnesses!WriteSigned PROVE RegistryInv'
<1>0. RegistryOK /\ SignedOK
  BY DEF RegistryInv
<1>1. PICK m, n \in Nat : HistoryOK(m, n)
  BY DEF RegistryInv
<1>2. PICK a, h : h = Height /\ a = hive[h].account
  OBVIOUS
<1>3. /\ pc = "signed" /\ pc' = "witness" /\ parsed < Len(hive)
      /\ signed' = [signed EXCEPT ![a] = @ \cup {h}]
      /\ UNCHANGED <<hive, parsed, toggles, nets, auths, restarts>>
  BY <1>2 DEF Witnesses!WriteSigned, Witnesses!At, Witnesses!Acc, Witnesses!Height, Height
<1>4. h \in 1..Len(hive) /\ hive[h].says.node = "node" /\ parsed < h
  BY <1>0, <1>2, <1>3, HeightsAre DEF RegistryOK, Height
<1>5. a \in Account /\ h \in Announced(a)
  BY <1>0, <1>2, <1>4, UpdateIs DEF Announced, Readable
<1>6. \A b : Readable(b)' = Readable(b) /\ Announced(b)' = Announced(b)
  BY <1>3 DEF Announced, Readable
<1>7. /\ signed' = [b \in Account |-> signed'[b]] /\ signed'[a] = signed[a] \cup {h}
      /\ \A b \in Account : b # a => signed'[b] = signed[b]
  BY <1>0, <1>3, <1>5 DEF RegistryOK
<1>8. RegistryOK'
  BY <1>0, <1>2, <1>3, <1>4, <1>7 DEF RegistryOK, Height
<1>9. HistoryOK(m, n)'
  BY <1>1, <1>3, <1>6 DEF HistoryOK, Height
<1>10. SignedOK'
  <2>1. ASSUME NEW b \in Account
        PROVE  /\ signed'[b] \subseteq Announced(b)
               /\ \A s \in Announced(b) : s =< parsed => s \in signed'[b]
               /\ \A s \in Announced(b) : s =< parsed /\ (\A r \in signed'[b] : r =< s) =>
                    b \in DOMAIN nets /\ nets[b] = hive[s].says.here
    <3>1. CASE b = a
      <4>1. \A s \in Announced(b) : s =< parsed => ~(h =< s)
        BY <1>0, <1>4, HeightsAre
      <4> QED
        BY <1>0, <1>5, <1>7, <3>1, <4>1 DEF SignedOK
    <3>2. CASE b # a
      BY <1>0, <1>7, <3>2 DEF SignedOK
    <3> QED
      BY <3>1, <3>2
  <2> QED
    BY <1>2, <1>3, <1>6, <1>7, <2>1 DEF SignedOK, Height
<1> QED
  BY <1>1, <1>8, <1>9, <1>10 DEF RegistryInv

\* The third says whether the account is on this network.
LEMMA RegistryWitness ==
  ASSUME RegistryInv, Witnesses!WriteWitness PROVE RegistryInv'
<1>0. RegistryOK /\ SignedOK
  BY DEF RegistryInv
<1>1. PICK m, n \in Nat : HistoryOK(m, n)
  BY DEF RegistryInv
<1>2. PICK a, h : h = Height /\ a = hive[h].account
  OBVIOUS
<1>3. /\ pc = "witness" /\ pc' = "auth" /\ parsed < Len(hive)
      /\ nets' = [b \in DOMAIN nets \cup {a} |-> IF b = a THEN hive[h].says.here ELSE nets[b]]
      /\ UNCHANGED <<hive, parsed, toggles, signed, auths, restarts>>
  BY <1>2 DEF Witnesses!WriteWitness, Witnesses!At, Witnesses!Acc, Witnesses!Says, Witnesses!Height, Height
<1>4. h \in 1..Len(hive) /\ hive[h].says.node = "node" /\ parsed < h
  BY <1>0, <1>2, <1>3, HeightsAre DEF RegistryOK, Height
<1>5. a \in Account /\ h \in signed[a]
  BY <1>0, <1>2, <1>3, <1>4, UpdateIs DEF SignedOK
<1>6. \A b : Readable(b)' = Readable(b) /\ Announced(b)' = Announced(b)
  BY <1>3 DEF Announced, Readable
<1>7. /\ nets' = [b \in DOMAIN nets' |-> nets'[b]] /\ DOMAIN nets' = DOMAIN nets \cup {a}
      /\ nets'[a] = hive[h].says.here
      /\ \A b \in DOMAIN nets : b # a => nets'[b] = nets[b]
  BY <1>3
<1>8. RegistryOK'
  BY <1>0, <1>2, <1>3, <1>4, <1>5, <1>7 DEF RegistryOK, Height
<1>9. HistoryOK(m, n)'
  BY <1>1, <1>3, <1>6 DEF HistoryOK, Height
<1>10. SignedOK'
  <2>1. ASSUME NEW b \in Account, NEW s \in Announced(b), s =< parsed, \A r \in signed[b] : r =< s
        PROVE  b \in DOMAIN nets' /\ nets'[b] = hive[s].says.here
    <3>1. b # a
      <4>1. b = a => h =< s
        BY <1>5, <2>1
      <4>2. ~(h =< s)
        BY <1>0, <1>4, <2>1, HeightsAre
      <4> QED
        BY <4>1, <4>2
    <3>2. b \in DOMAIN nets /\ nets[b] = hive[s].says.here
      BY <1>0, <2>1 DEF SignedOK
    <3> QED
      BY <1>7, <3>1, <3>2
  <2> QED
    BY <1>0, <1>2, <1>3, <1>5, <1>6, <1>7, <2>1 DEF SignedOK, Height
<1> QED
  BY <1>1, <1>8, <1>9, <1>10 DEF RegistryInv

\* The last one puts the keys into the history, and the update is parsed; for an
\* update that announces no node it is the only one.
LEMMA RegistryAuth ==
  ASSUME RegistryInv, Witnesses!WriteAuth PROVE RegistryInv'
<1>0. RegistryOK /\ SignedOK
  BY DEF RegistryInv
<1>1. PICK m, n \in Nat : HistoryOK(m, n)
  BY DEF RegistryInv
<1>2. PICK a, h : h = Height /\ a = hive[h].account
  OBVIOUS
<1>3. /\ pc = "auth" \/ (pc = "toggle" /\ hive[h].says.node = "none")
      /\ pc' = "toggle" /\ parsed < Len(hive) /\ parsed' = h
      /\ auths' = [auths EXCEPT ![a] = Put(@, KeysFrom(auths[a], hive, h), hive[h].keys)]
      /\ UNCHANGED <<hive, toggles, signed, nets, restarts>>
  BY <1>2 DEF Witnesses!WriteAuth, Witnesses!At, Witnesses!Says, Witnesses!Acc, Witnesses!Height,
     Witnesses!AuthFrom, KeysFrom, Put, Newest, Height
<1>4. h \in 1..Len(hive) /\ h = parsed + 1 /\ parsed \in Nat /\ Len(hive) \in Nat
      /\ (hive[h].says.node = "node" <=> pc = "auth")
      /\ (hive[h].says.node = "node" \/ hive[h].says.node = "none")
  BY <1>0, <1>2, <1>3, HeightsAre DEF RegistryOK, Height
<1>5. a \in Account /\ h \in Readable(a) /\ (pc = "auth" <=> h \in Announced(a))
  BY <1>0, <1>2, <1>4, UpdateIs DEF Announced, Readable
<1>6. \A b : Readable(b)' = Readable(b) /\ Announced(b)' = Announced(b)
  BY <1>3 DEF Announced, Readable
<1>7. \A b \in Account : b # a => h \notin Readable(b) /\ h \notin Announced(b)
  BY <1>2 DEF Announced, Readable
<1>8. PICK j, k \in Nat : j = (IF h =< m THEN m ELSE h) /\ k = (IF h =< n THEN n ELSE h)
  BY <1>4
<1>9. /\ m =< j /\ h =< j /\ j =< m + 1 /\ n =< k /\ h =< k /\ k =< n + 1
      /\ j =< k /\ k =< Len(hive) /\ h =< m + 1
      /\ \A u \in Nat : /\ u =< j => u =< m \/ u = h
                        /\ u =< k => u =< n \/ u = h
  BY <1>1, <1>4, <1>8 DEF HistoryOK
<1>10. /\ auths' = [b \in Account |-> auths'[b]]
       /\ auths'[a] = Put(auths[a], KeysFrom(auths[a], hive, h), hive[h].keys)
       /\ \A b \in Account : b # a => auths'[b] = auths[b]
  BY <1>0, <1>3, <1>5 DEF RegistryOK
<1>11. ASSUME NEW b \in Account PROVE KeysKept(auths'[b], Readable(b), hive, j)
  <2>1. KeysKept(auths[b], Readable(b), hive, m) /\ Readable(b) \subseteq Nat \ {0}
    BY <1>0, <1>1, HeightsAre DEF HistoryOK
  <2>2. \A u \in Readable(b) : u =< j => u =< m \/ u = h
    BY <1>9, <2>1
  <2>3. CASE b = a
    BY <1>5, <1>9, <1>10, <2>1, <2>2, <2>3, KeysPut
  <2>4. CASE b # a
    <3>1. \A u \in Readable(b) : u =< j => u =< m
      BY <1>7, <2>2, <2>4
    <3>2. \A d \in DOMAIN auths[b] : d =< j
      <4> SUFFICES ASSUME NEW d \in DOMAIN auths[b] PROVE d =< j
        OBVIOUS
      <4>1. d \in Nat /\ d =< m
        BY <2>1 DEF KeysKept
      <4> QED
        BY <1>9, <4>1
    <3> QED
      BY <1>10, <2>1, <2>4, <3>1, <3>2 DEF KeysKept
  <2> QED
    BY <2>3, <2>4
<1>12. ASSUME NEW b \in Account PROVE TogglesKept(toggles[b], Announced(b), hive, k)
  <2>1. TogglesKept(toggles[b], Announced(b), hive, n) /\ Announced(b) \subseteq Nat
    BY <1>0, <1>1, HeightsAre DEF HistoryOK
  <2>2. \A u \in Announced(b) : u =< k => u =< n
    <3>1. \A u \in Announced(b) : u =< k => u =< n \/ u = h
      BY <1>9, <2>1
    <3>2. pc = "auth" => h =< n
      BY <1>1, <1>2 DEF HistoryOK
    <3> QED
      BY <1>5, <1>7, <3>1, <3>2
  <2> QED
    BY <1>9, <2>1, <2>2, TogglesLonger
<1>13. RegistryOK'
  BY <1>0, <1>3, <1>4, <1>10 DEF RegistryOK, Height
<1>14. HistoryOK(j, k)'
  BY <1>3, <1>6, <1>8, <1>9, <1>11, <1>12 DEF HistoryOK
<1>15. SignedOK'
  <2>1. ASSUME NEW b \in Account, NEW s \in Announced(b), s =< h
        PROVE  s =< parsed \/ (s = h /\ b = a /\ pc = "auth")
    <3>1. s \in Nat
      BY <1>0, HeightsAre
    <3> QED
      BY <1>4, <1>5, <1>7, <2>1, <3>1
  <2>2. pc = "auth" => h \in signed[a] /\ a \in DOMAIN nets /\ nets[a] = hive[h].says.here
    BY <1>0, <1>2 DEF SignedOK
  <2>3. ASSUME NEW b \in Account
        PROVE  /\ \A s \in Announced(b) : s =< h => s \in signed[b]
               /\ \A s \in Announced(b) : s =< h /\ (\A r \in signed[b] : r =< s) =>
                    b \in DOMAIN nets /\ nets[b] = hive[s].says.here
    BY <1>0, <2>1, <2>2 DEF SignedOK
  <2> QED
    BY <1>0, <1>3, <1>6, <2>3 DEF SignedOK
<1> QED
  BY <1>8, <1>13, <1>14, <1>15 DEF RegistryInv

\* An update that cannot be read is parsed without a write.
LEMMA RegistrySkip ==
  ASSUME RegistryInv, Witnesses!SkipBroken PROVE RegistryInv'
<1>0. RegistryOK /\ SignedOK
  BY DEF RegistryInv
<1>1. PICK m, n \in Nat : HistoryOK(m, n)
  BY DEF RegistryInv
<1>2. PICK h : h = Height
  OBVIOUS
<1>3. /\ pc = "toggle" /\ hive[h].says.node = "broken" /\ parsed < Len(hive) /\ parsed' = h
      /\ UNCHANGED <<hive, pc, toggles, signed, nets, auths, restarts>>
  BY <1>2 DEF Witnesses!SkipBroken, Witnesses!At, Witnesses!Says, Witnesses!Height, Height
<1>4. h \in 1..Len(hive) /\ h = parsed + 1 /\ parsed \in Nat /\ Len(hive) \in Nat
  BY <1>0, <1>2, <1>3, HeightsAre DEF Height
<1>5. \A b : /\ h \notin Readable(b) /\ h \notin Announced(b)
             /\ Readable(b)' = Readable(b) /\ Announced(b)' = Announced(b)
  BY <1>0, <1>3, <1>4, UpdateIs DEF Announced, Readable
<1>6. PICK j, k \in Nat : j = (IF h =< m THEN m ELSE h) /\ k = (IF h =< n THEN n ELSE h)
  BY <1>4
<1>7. /\ m =< j /\ h =< j /\ n =< k /\ h =< k /\ j =< k /\ k =< Len(hive)
      /\ \A u \in Nat : /\ u =< j => u =< m \/ u = h
                        /\ u =< k => u =< n \/ u = h
  BY <1>1, <1>4, <1>6 DEF HistoryOK
<1>8. ASSUME NEW b \in Account
      PROVE  KeysKept(auths[b], Readable(b), hive, j) /\ TogglesKept(toggles[b], Announced(b), hive, k)
  <2>1. /\ KeysKept(auths[b], Readable(b), hive, m) /\ Readable(b) \subseteq Nat \ {0}
        /\ TogglesKept(toggles[b], Announced(b), hive, n) /\ Announced(b) \subseteq Nat
    BY <1>0, <1>1, HeightsAre DEF HistoryOK
  <2>2. (\A u \in Readable(b) : u =< j => u =< m) /\ \A u \in Announced(b) : u =< k => u =< n
    BY <1>5, <1>7, <2>1
  <2>3. \A d \in DOMAIN auths[b] : d =< j
    <3> SUFFICES ASSUME NEW d \in DOMAIN auths[b] PROVE d =< j
      OBVIOUS
    <3>1. d \in Nat /\ d =< m
      BY <2>1 DEF KeysKept
    <3> QED
      BY <1>7, <3>1
  <2>4. KeysKept(auths[b], Readable(b), hive, j)
    BY <2>1, <2>2, <2>3 DEF KeysKept
  <2> QED
    BY <1>7, <2>1, <2>2, <2>4, TogglesLonger
<1>9. RegistryOK'
  BY <1>0, <1>3, <1>4 DEF RegistryOK
<1>10. HistoryOK(j, k)'
  BY <1>3, <1>5, <1>6, <1>7, <1>8 DEF HistoryOK
<1>11. SignedOK'
  <2>1. \A b \in Account : \A s \in Announced(b) : s =< h => s =< parsed
    <3> SUFFICES ASSUME NEW b \in Account, NEW s \in Announced(b), s =< h PROVE s =< parsed
      OBVIOUS
    <3>1. s \in Nat /\ s # h
      BY <1>0, <1>5, HeightsAre
    <3> QED
      BY <1>4, <3>1
  <2> QED
    BY <1>0, <1>3, <1>5, <2>1 DEF SignedOK
<1> QED
  BY <1>6, <1>9, <1>10, <1>11 DEF RegistryInv

\* A restart goes back any number of blocks; the histories stay as far as they got.
LEMMA RegistryRestart ==
  ASSUME Witnesses!RegistryAssumption, RegistryInv, Witnesses!Restart PROVE RegistryInv'
<1>0. RegistryOK /\ SignedOK
  BY DEF RegistryInv
<1>1. PICK m, n \in Nat : HistoryOK(m, n)
  BY DEF RegistryInv
<1>2. /\ pc' = "toggle" /\ parsed' \in 0..parsed /\ parsed \in Nat /\ Len(hive) \in Nat
      /\ parsed =< Len(hive) /\ restarts < MaxRestarts /\ restarts' = restarts + 1
      /\ UNCHANGED <<hive, toggles, signed, nets, auths>>
  BY <1>0, HeightsAre DEF Witnesses!Restart
<1>3. \A b : Readable(b)' = Readable(b) /\ Announced(b)' = Announced(b)
  BY <1>2 DEF Announced, Readable
<1>4. RegistryOK'
  <2>1. restarts' \in 0..MaxRestarts
    BY <1>0, <1>2 DEF RegistryOK, Witnesses!RegistryAssumption
  <2> QED
    BY <1>0, <1>2, <2>1 DEF RegistryOK
<1>5. HistoryOK(m, n)'
  BY <1>1, <1>2, <1>3 DEF HistoryOK
<1>6. SignedOK'
  <2>1. \A b \in Account : \A s \in Announced(b) : s =< parsed' => s =< parsed
    <3> SUFFICES ASSUME NEW b \in Account, NEW s \in Announced(b), s =< parsed' PROVE s =< parsed
      OBVIOUS
    <3>1. s \in Nat
      BY <1>0, HeightsAre
    <3> QED
      BY <1>2, <3>1
  <2> QED
    BY <1>0, <1>2, <1>3, <2>1 DEF SignedOK
<1> QED
  BY <1>1, <1>4, <1>5, <1>6 DEF RegistryInv

\* Every step keeps the invariant.
LEMMA RegistryStep ==
  ASSUME Witnesses!RegistryAssumption, RegistryInv, [Witnesses!Next]_(Witnesses!vars)
  PROVE  RegistryInv'
<1>1. CASE Witnesses!Next
  BY <1>1, RegistryHive, RegistryToggle, RegistrySigned, RegistryWitness, RegistryAuth,
     RegistrySkip, RegistryRestart DEF Witnesses!Next
<1>2. CASE UNCHANGED Witnesses!vars
  <2>1. UNCHANGED <<hive, parsed, pc, toggles, signed, nets, auths, restarts>>
    BY <1>2 DEF Witnesses!vars
  <2>2. PICK m, n \in Nat : HistoryOK(m, n)
    BY DEF RegistryInv
  <2>3. \A a : Readable(a)' = Readable(a) /\ Announced(a)' = Announced(a)
    BY <2>1 DEF Readable, Announced
  <2>4. RegistryOK'
    BY <2>1 DEF RegistryInv, RegistryOK, Height
  <2>5. SignedOK'
    BY <2>1, <2>3 DEF RegistryInv, SignedOK, Height
  <2>6. HistoryOK(m, n)'
    BY <2>1, <2>2, <2>3 DEF HistoryOK, Height
  <2> QED
    BY <2>2, <2>4, <2>5, <2>6 DEF RegistryInv
<1> QED
  BY <1>1, <1>2

\* So it always holds.
LEMMA RegistryAlways == PartsSpec => [](scenario = "witnesses" => RegistryInv)
<1>1. PartsInit => (scenario = "witnesses" => RegistryInv)
  BY RegistryInit, PartsAssumption DEF PartsInit
<1>2. (scenario = "witnesses" => RegistryInv) /\ [PartsNext]_vars => (scenario = "witnesses" => RegistryInv)'
  BY RegistryStep, PartsStep, PartsAssumption
<1> QED
  BY <1>1, <1>2, PTL DEF PartsSpec

\* The keys of an account at a block up to the next are those of its last update
\* before it.
LEMMA KeysAre ==
  ASSUME RegistryInv, NEW a \in Account, NEW b \in Nat, b =< Height
  PROVE  /\ {d \in DOMAIN auths[a] : d < b} = {} <=> \A u \in Readable(a) : ~(u < b)
         /\ \A u \in Readable(a) : u < b /\ (\A w \in Readable(a) : w < b => w =< u) =>
              Witnesses!KeysAt(a, b) = hive[u].keys
         /\ (\A u \in Readable(a) : ~(u < b)) => Witnesses!KeysAt(a, b) = NoKeys
<1>1. PICK m, n \in Nat : HistoryOK(m, n)
  BY DEF RegistryInv
<1>2. KeysKept(auths[a], Readable(a), hive, m) /\ Readable(a) \subseteq Nat \ {0} /\ b =< m + 1
  BY <1>1, HeightsAre DEF HistoryOK, RegistryInv, Height
<1>3. PICK B : B = {d \in DOMAIN auths[a] : d < b}
  OBVIOUS
<1>4. /\ B = {} <=> \A u \in Readable(a) : ~(u < b)
      /\ \A u \in Readable(a) : u < b /\ (\A w \in Readable(a) : w < b => w =< u) =>
           auths[a][Newest(B)] = hive[u].keys
  BY <1>2, <1>3, KeysFound
<1>5. Witnesses!KeysAt(a, b) = IF B = {} THEN NoKeys ELSE auths[a][Newest(B)]
  BY <1>3 DEF Witnesses!KeysAt, Witnesses!Before, Newest
<1> QED
  BY <1>3, <1>4, <1>5

\* Where nothing is recorded after the last parsed block, witnesses and keys are what
\* the last updates say.
LEMMA LastCounts == RegistryInv => Witnesses!LatestAnnouncementCounts
<1> SUFFICES ASSUME RegistryInv, pc = "toggle",
             \A a \in Account : DOMAIN toggles[a] \cup DOMAIN auths[a] \cup signed[a] \subseteq 1..parsed
      PROVE  LET updates(a) == {h \in 1..parsed : hive[h].account = a /\ hive[h].says # Witnesses!Broken}
                 says(a) == {h \in updates(a) : hive[h].says.node = "node"}
                 witness(a) == /\ says(a) # {} /\ Witnesses!Height - Newest(says(a)) =< MaxAge
                               /\ hive[Newest(says(a))].says.enabled /\ hive[Newest(says(a))].says.here
             IN /\ Witnesses!WitnessesAt(Witnesses!Height) = {a \in Account : witness(a)}
                /\ \A a \in Account : updates(a) # {} =>
                     Witnesses!KeysAt(a, Witnesses!Height) = hive[Newest(updates(a))].keys
  BY DEF Witnesses!LatestAnnouncementCounts, Newest
<1> DEFINE updates(a) == {h \in 1..parsed : hive[h].account = a /\ hive[h].says # Witnesses!Broken}
           says(a) == {h \in updates(a) : hive[h].says.node = "node"}
<1>1. PICK h : h = Witnesses!Height
  OBVIOUS
<1>2. h = Height /\ h = parsed + 1 /\ parsed \in Nat /\ parsed =< Len(hive) /\ Len(hive) \in Nat
  BY <1>1, HeightsAre DEF RegistryInv, Height, Witnesses!Height
<1>3. ASSUME NEW a
      PROVE  /\ updates(a) = {u \in Readable(a) : u =< parsed} /\ updates(a) \subseteq 1..parsed
             /\ says(a) = {u \in Announced(a) : u =< parsed} /\ says(a) \subseteq updates(a)
  BY <1>2 DEF Readable, Announced
<1> HIDE DEF updates, says
<1>4. ASSUME NEW a \in Account, updates(a) # {}
      PROVE  Witnesses!KeysAt(a, h) = hive[Newest(updates(a))].keys
  <2>1. PICK u \in updates(a) : u = Newest(updates(a)) /\ \A w \in updates(a) : w =< u
    BY <1>2, <1>3, <1>4, NewestIs
  <2>2. u \in Readable(a) /\ u < h
    BY <1>2, <1>3
  <2>3. \A w \in Readable(a) : w < h => w =< u
    <3> SUFFICES ASSUME NEW w \in Readable(a), w < h PROVE w =< u
      OBVIOUS
    <3>1. w \in Nat
      BY HeightsAre DEF RegistryInv
    <3>2. w \in updates(a)
      BY <1>2, <1>3, <3>1
    <3> QED
      BY <2>1, <3>2
  <2> QED
    BY <1>2, <2>1, <2>2, <2>3, KeysAre
<1>5. ASSUME NEW a \in Account
      PROVE  /\ {d \in signed[a] : d < h} = says(a)
             /\ says(a) # {} =>
                  /\ Witnesses!EnabledAt(a, h) = hive[Newest(says(a))].says.enabled
                  /\ a \in DOMAIN nets /\ nets[a] = hive[Newest(says(a))].says.here
                  /\ {d \in DOMAIN auths[a] : d < h} # {}
  <2>1. signed[a] = says(a) /\ {d \in signed[a] : d < h} = signed[a]
    <3>1. \A s \in signed[a] : s \in Announced(a) /\ s \in 1..parsed
      BY DEF RegistryInv, SignedOK
    <3>2. \A s \in Announced(a) : s =< parsed => s \in signed[a]
      BY DEF RegistryInv, SignedOK
    <3>3. \A s : s \in signed[a] <=> s \in Announced(a) /\ s =< parsed
      BY <3>1, <3>2
    <3>4. signed[a] = says(a)
      BY <1>3, <3>3
    <3>5. \A s \in signed[a] : s < h
      BY <1>2, <3>1
    <3> QED
      BY <3>4, <3>5
  <2>2. ASSUME says(a) # {}
        PROVE  /\ Witnesses!EnabledAt(a, h) = hive[Newest(says(a))].says.enabled
               /\ a \in DOMAIN nets /\ nets[a] = hive[Newest(says(a))].says.here
               /\ {d \in DOMAIN auths[a] : d < h} # {}
    <3>1. says(a) \subseteq 1..parsed
      BY <1>3
    <3>2. PICK s \in says(a) : s = Newest(says(a)) /\ \A r \in says(a) : r =< s
      BY <1>2, <2>2, <3>1, NewestIs
    <3>3. s \in Announced(a) /\ s =< parsed /\ s \in Nat /\ s \in Readable(a)
      BY <1>3, <3>1 DEF Announced
    <3>4. a \in DOMAIN nets /\ nets[a] = hive[s].says.here
      BY <2>1, <3>2, <3>3 DEF RegistryInv, SignedOK
    <3>5. {d \in DOMAIN auths[a] : d < h} # {}
      <4>1. s < h /\ h \in Nat /\ h =< Height
        BY <1>2, <3>3
      <4>2. {d \in DOMAIN auths[a] : d < h} = {} <=> \A u \in Readable(a) : ~(u < h)
        BY <4>1, KeysAre
      <4> QED
        BY <3>3, <4>1, <4>2
    <3>6. Witnesses!EnabledAt(a, h) = hive[s].says.enabled
      <4>1. PICK m, n \in Nat : HistoryOK(m, n)
        BY DEF RegistryInv
      <4>2. TogglesKept(toggles[a], Announced(a), hive, n) /\ parsed =< n
            /\ Announced(a) \subseteq Nat \ {0} /\ DOMAIN toggles[a] \subseteq 1..parsed
        BY <1>2, <4>1, HeightsAre DEF HistoryOK, RegistryInv
      <4>3. \A r \in Announced(a) : r =< parsed => r =< s
        BY <1>3, <3>2
      <4>4. DOMAIN toggles[a] # {} /\ toggles[a][Newest(DOMAIN toggles[a])] = hive[s].says.enabled
        <5> DEFINE f == toggles[a]
        <5> DEFINE R == Announced(a)
        <5>1. R \subseteq Nat \ {0} /\ n \in Nat /\ parsed \in Nat /\ parsed =< n
              /\ TogglesKept(f, R, hive, n) /\ DOMAIN f \subseteq 1..parsed
              /\ s \in R /\ s =< parsed /\ \A r \in R : r =< parsed => r =< s
          BY <1>2, <3>3, <4>2, <4>3
        <5> HIDE DEF f, R
        <5>2. /\ DOMAIN f = {} <=> \A r \in R : ~(r =< parsed)
              /\ \A r \in R : r =< parsed /\ (\A q \in R : q =< parsed => q =< r) =>
                   f[Newest(DOMAIN f)] = hive[r].says.enabled
          BY <5>1, ToggleFound
        <5>3. DOMAIN f # {} /\ f[Newest(DOMAIN f)] = hive[s].says.enabled
          BY <5>1, <5>2
        <5> QED
          BY <5>3 DEF f
      <4>5. Witnesses!UpTo(toggles[a], h) = DOMAIN toggles[a]
        BY <1>2, <4>2 DEF Witnesses!UpTo
      <4>6. hive[s].says.enabled \in BOOLEAN
        <5>1. s \in 1..Len(hive) /\ hive[s].says.node = "node"
          BY <1>2, <3>1, <3>3 DEF Announced
        <5> QED
          BY <5>1, UpdateIs DEF RegistryInv
      <4> QED
        BY <4>4, <4>5, <4>6 DEF Witnesses!EnabledAt, Newest
    <3> QED
      BY <3>2, <3>4, <3>5, <3>6
  <2> QED
    BY <2>1, <2>2
<1>6. ASSUME NEW a \in Account
      PROVE  a \in Witnesses!WitnessesAt(h) <=>
               /\ says(a) # {} /\ h - Newest(says(a)) =< MaxAge
               /\ hive[Newest(says(a))].says.enabled /\ hive[Newest(says(a))].says.here
  BY <1>5 DEF Witnesses!WitnessesAt, Witnesses!FreshAt, Witnesses!Before, Newest
<1>7. Witnesses!WitnessesAt(h) \subseteq Account
  BY DEF Witnesses!WitnessesAt, RegistryInv, RegistryOK
<1>8. Witnesses!WitnessesAt(h) =
        {a \in Account : /\ says(a) # {} /\ h - Newest(says(a)) =< MaxAge
                         /\ hive[Newest(says(a))].says.enabled /\ hive[Newest(says(a))].says.here}
  BY <1>6, <1>7
<1> QED
  BY <1>1, <1>4, <1>8 DEF updates, says

\* The histories are of what Hive told, and of values it can have.
LEMMA RegistryTyped == RegistryInv => Witnesses!RegistryTypeOK
<1> SUFFICES ASSUME RegistryInv PROVE Witnesses!RegistryTypeOK
  OBVIOUS
<1>1. PICK m, n \in Nat : HistoryOK(m, n)
  BY DEF RegistryInv
<1>2. ASSUME NEW a \in Account
      PROVE  /\ DOMAIN toggles[a] \cup DOMAIN auths[a] \cup signed[a] \subseteq 1..Len(hive)
             /\ \A h \in DOMAIN toggles[a] : toggles[a][h] \in BOOLEAN
             /\ \A h \in DOMAIN auths[a] : auths[a][h] \in Keys
  <2>1. KeysKept(auths[a], Readable(a), hive, m) /\ TogglesKept(toggles[a], Announced(a), hive, n)
        /\ n =< Len(hive) /\ Readable(a) \subseteq 1..Len(hive) /\ Announced(a) \subseteq Readable(a)
        /\ Len(hive) \in Nat
    BY <1>1, HeightsAre DEF RegistryInv, HistoryOK
  <2>2. DOMAIN auths[a] \subseteq 1..Len(hive) /\ \A h \in DOMAIN auths[a] : auths[a][h] = hive[h].keys
    BY <2>1 DEF KeysKept
  <2>3. \A h \in DOMAIN auths[a] : auths[a][h] \in Keys
    BY <2>2, UpdateIs DEF RegistryInv
  <2>4. DOMAIN toggles[a] \subseteq 1..Len(hive)
    BY <2>1 DEF TogglesKept
  <2>5. signed[a] \subseteq 1..Len(hive)
    BY <2>1 DEF RegistryInv, SignedOK
  <2> QED
    BY <2>2, <2>3, <2>4, <2>5 DEF RegistryInv, RegistryOK
<1> QED
  BY <1>2 DEF RegistryInv, RegistryOK, Witnesses!RegistryTypeOK

\* However often updates are parsed again, in part or from many blocks back: once
\* nothing is recorded of a block still to be parsed, getWitnessesAtBlock returns
\* the accounts whose last announcement says so, with the keys of their last update.
THEOREM RegistryFollows == PartsSpec => []WitnessesFollowHive
<1>1. (scenario = "witnesses" => RegistryInv) => WitnessesFollowHive
  BY RegistryTyped, LastCounts DEF WitnessesFollowHive
<1> QED
  BY <1>1, RegistryAlways, PTL

-------------------------------------------------------------------------------
(* Answers about the past.                                                 *)

\* A write leaves the keys of the blocks that have been parsed.
LEMMA KeysStay ==
  ASSUME RegistryInv, [Witnesses!Next]_(Witnesses!vars), NEW a \in Account, NEW blk \in 1..parsed
  PROVE  Witnesses!KeysAt(a, blk)' = Witnesses!KeysAt(a, blk)
<1>0. RegistryOK
  BY DEF RegistryInv
<1>1. CASE auths' = auths
  BY <1>1 DEF Witnesses!KeysAt, Witnesses!Before
<1>2. CASE Witnesses!WriteAuth
  <2>1. PICK m, n \in Nat : HistoryOK(m, n)
    BY DEF RegistryInv
  <2>2. PICK h, c : h = Height /\ c = hive[h].account
    OBVIOUS
  <2>3. auths' = [auths EXCEPT ![c] = Put(@, KeysFrom(auths[c], hive, h), hive[h].keys)]
    BY <1>2, <2>2 DEF Witnesses!WriteAuth, Witnesses!Acc, Witnesses!Height,
       Witnesses!AuthFrom, KeysFrom, Put, Newest, Height
  <2>4. CASE a # c
    <3>1. auths'[a] = auths[a]
      BY <1>0, <2>3, <2>4 DEF RegistryOK
    <3> QED
      BY <3>1 DEF Witnesses!KeysAt, Witnesses!Before
  <2>5. CASE a = c
    <3>1. PICK f, g, v : f = auths[a] /\ g = auths'[a] /\ v = hive[h].keys
      OBVIOUS
    <3>2. g = Put(f, KeysFrom(f, hive, h), v)
      BY <1>0, <2>3, <2>5, <3>1 DEF RegistryOK
    <3>3. KeysKept(f, Readable(a), hive, m) /\ Readable(a) \subseteq Nat \ {0}
      BY <1>0, <2>1, <3>1, HeightsAre DEF HistoryOK
    <3>4. DOMAIN f \subseteq 1..m
      BY <3>3, KeysIn
    <3>5. PICK B : B = {d \in DOMAIN f : d < blk}
      OBVIOUS
    <3>6. B = {d \in DOMAIN g : d < blk} /\ (B # {} => g[Newest(B)] = f[Newest(B)])
      <4>1. CASE DOMAIN f # {} /\ f[Newest(DOMAIN f)] = v
        <5>1. Newest(DOMAIN f) \in DOMAIN f
          BY <3>4, <4>1, NewestIs
        <5>2. DOMAIN g = DOMAIN f /\ \A d \in DOMAIN f : g[d] = f[d]
          BY <3>1, <3>2, <4>1, <5>1 DEF KeysFrom, Put, Witnesses!Put
        <5>3. B # {} => Newest(B) \in B
          BY <3>4, <3>5, NewestIs
        <5> QED
          BY <3>5, <5>2, <5>3
      <4>2. CASE ~(DOMAIN f # {} /\ f[Newest(DOMAIN f)] = v)
        <5>1. g = Put(f, h, v)
          BY <3>1, <3>2, <4>2 DEF KeysFrom
        <5>2. h \in Nat /\ blk \in Nat /\ blk =< h
          BY <1>0, <2>2, HeightsAre DEF Height
        <5>3. DOMAIN g = DOMAIN f \cup {h} /\ \A d \in DOMAIN f : d # h => g[d] = f[d]
          BY <5>1 DEF Put, Witnesses!Put
        <5>4. B = {d \in DOMAIN g : d < blk}
          BY <3>5, <5>2, <5>3
        <5>5. ASSUME B # {} PROVE g[Newest(B)] = f[Newest(B)]
          <6>1. PICK d \in B : d = Newest(B)
            BY <3>4, <3>5, <5>5, NewestIs
          <6>2. d \in DOMAIN f /\ d # h
            BY <3>5, <5>2
          <6> QED
            BY <5>3, <6>1, <6>2
        <5> QED
          BY <5>4, <5>5
      <4> QED
        BY <4>1, <4>2
    <3> QED
      BY <3>1, <3>5, <3>6 DEF Witnesses!KeysAt, Witnesses!Before, Newest
  <2> QED
    BY <2>4, <2>5
<1>3. Witnesses!WriteAuth \/ auths' = auths
  BY DEF Witnesses!Next, Witnesses!vars, Witnesses!HiveBlock, Witnesses!WriteToggle, Witnesses!WriteSigned,
     Witnesses!WriteWitness, Witnesses!SkipBroken, Witnesses!Restart
<1> QED
  BY <1>1, <1>2, <1>3

\* A toggle that is recorded leaves the blocks since the newest record.
LEMMA ToggleStays ==
  ASSUME RegistryInv, [Witnesses!Next]_(Witnesses!vars), NEW a \in Account, NEW blk \in 1..parsed,
         DOMAIN toggles[a] # {}, blk >= Newest(DOMAIN toggles[a])
  PROVE  Witnesses!EnabledAt(a, blk)' = Witnesses!EnabledAt(a, blk)
<1>0. RegistryOK
  BY DEF RegistryInv
<1>1. CASE toggles' = toggles
  BY <1>1 DEF Witnesses!EnabledAt, Witnesses!UpTo
<1>2. CASE Witnesses!WriteToggle
  <2>1. PICK m, n \in Nat : HistoryOK(m, n)
    BY DEF RegistryInv
  <2>2. PICK h, c : h = Height /\ c = hive[h].account
    OBVIOUS
  <2>3. toggles' = [toggles EXCEPT ![c] =
          Put(@, ToggleFrom(toggles[c], DOMAIN auths[c], hive, h), hive[h].says.enabled)]
    BY <1>2, <2>2 DEF Witnesses!WriteToggle, Witnesses!Says, Witnesses!Acc,
       Witnesses!Height, Witnesses!ToggleFrom, ToggleFrom, Put, Newest, Height
  <2>4. CASE a # c
    <3>1. toggles'[a] = toggles[a]
      BY <1>0, <2>3, <2>4 DEF RegistryOK
    <3> QED
      BY <3>1 DEF Witnesses!EnabledAt, Witnesses!UpTo
  <2>5. CASE a = c
    <3>1. PICK f, g, v, k : /\ f = toggles[a] /\ g = toggles'[a] /\ v = hive[h].says.enabled
                            /\ k = ToggleFrom(f, DOMAIN auths[a], hive, h)
      OBVIOUS
    <3>2. g = Put(f, k, v)
      BY <1>0, <2>3, <2>5, <3>1 DEF RegistryOK
    <3>3. /\ TogglesKept(f, Announced(a), hive, n) /\ KeysKept(auths[a], Readable(a), hive, m)
          /\ Readable(a) \subseteq Nat \ {0} /\ h \in Nat /\ blk \in Nat /\ blk < h
      BY <1>0, <2>1, <2>2, <3>1, HeightsAre DEF HistoryOK, Height
    <3>4. DOMAIN f \subseteq 1..n /\ DOMAIN auths[a] \subseteq 1..m
      BY <3>3, KeysIn DEF TogglesKept
    <3>5. PICK t \in DOMAIN f : t = Newest(DOMAIN f) /\ \A e \in DOMAIN f : e =< t
      BY <3>1, <3>4, NewestIs
    <3>6. t \in Nat /\ t =< blk /\ Witnesses!UpTo(f, blk) = DOMAIN f
      BY <3>1, <3>3, <3>4, <3>5 DEF Witnesses!UpTo
    <3>7. DOMAIN g = DOMAIN f \cup {k} /\ g[k] = v /\ \A d \in DOMAIN f : d # k => g[d] = f[d]
      BY <3>2 DEF Put, Witnesses!Put
    <3>8. k \in Nat \ {0} /\ (k =< blk => f[t] = v)
      <4>1. CASE DOMAIN f # {} /\ DOMAIN auths[a] # {} /\ f[Newest(DOMAIN f)] = v
        <5>1. k = Newest(DOMAIN auths[a])
          BY <3>1, <4>1 DEF ToggleFrom
        <5>2. k \in 1..m
          BY <3>4, <4>1, <5>1, NewestIs
        <5> QED
          BY <3>5, <4>1, <5>2
      <4>2. CASE ~(DOMAIN f # {} /\ DOMAIN auths[a] # {} /\ f[Newest(DOMAIN f)] = v)
        <5>1. k = h
          BY <3>1, <4>2 DEF ToggleFrom
        <5> QED
          BY <3>3, <5>1
      <4> QED
        BY <4>1, <4>2
    <3>9. PICK U : U = Witnesses!UpTo(g, blk)
      OBVIOUS
    <3>10. U \subseteq 1..blk /\ t \in U /\ \A d \in U : d \in DOMAIN f \/ d = k
      BY <3>3, <3>4, <3>6, <3>7, <3>8, <3>9 DEF Witnesses!UpTo
    <3>11. PICK x \in U : x = Newest(U) /\ \A e \in U : e =< x
      BY <3>3, <3>10, NewestIs
    <3>12. g[x] = f[t]
      <4>1. x \in Nat /\ x =< blk /\ t =< x
        <5>1. x \in 1..blk /\ t =< x
          BY <3>10, <3>11
        <5> QED
          BY <3>3, <5>1
      <4>2. CASE x = k
        BY <3>7, <3>8, <4>1, <4>2
      <4>3. CASE x # k
        <5>1. x \in DOMAIN f
          BY <3>10, <4>3
        <5>2. x = t
          BY <3>5, <3>6, <4>1, <5>1
        <5> QED
          BY <3>7, <4>3, <5>1, <5>2
      <4> QED
        BY <4>2, <4>3
    <3>13. Witnesses!EnabledAt(a, blk) = f[t]
      <4>1. f[t] \in BOOLEAN
        BY <1>0, <3>1, <3>5 DEF RegistryOK
      <4> QED
        BY <3>1, <3>5, <3>6, <4>1 DEF Witnesses!EnabledAt, Newest
    <3>14. Witnesses!EnabledAt(a, blk)' = (U # {} /\ g[Newest(U)])
      BY <3>1, <3>9 DEF Witnesses!EnabledAt, Witnesses!UpTo, Newest
    <3>15. f[t] \in BOOLEAN
      BY <1>0, <3>1, <3>5 DEF RegistryOK
    <3>16. (U # {} /\ g[Newest(U)]) = f[t]
      BY <3>11, <3>12, <3>15
    <3> QED
      BY <3>13, <3>14, <3>16
  <2> QED
    BY <2>4, <2>5
<1>3. Witnesses!WriteToggle \/ toggles' = toggles
  BY DEF Witnesses!Next, Witnesses!vars, Witnesses!HiveBlock, Witnesses!WriteSigned,
     Witnesses!WriteWitness, Witnesses!WriteAuth, Witnesses!SkipBroken, Witnesses!Restart
<1> QED
  BY <1>1, <1>2, <1>3

\* No write, of an update parsed for the first time or again, changes which keys a
\* signature of a parsed block is checked against, nor whether an account took part
\* since its toggle was last changed.
THEOREM RegistryPast == PartsSpec => PastStays
<1>1. (scenario = "witnesses" => RegistryInv) /\ [PartsNext]_vars =>
        [\A a \in Account : \A blk \in 1..parsed :
           Witnesses!KeysAt(a, blk)' = Witnesses!KeysAt(a, blk)]_(Witnesses!vars)
  BY KeysStay, PartsStep
<1>2. (scenario = "witnesses" => RegistryInv) /\ [PartsNext]_vars =>
        [\A a \in Account : \A blk \in 1..parsed :
           DOMAIN toggles[a] # {} /\ blk >= Newest(DOMAIN toggles[a])
             => Witnesses!EnabledAt(a, blk)' = Witnesses!EnabledAt(a, blk)]_(Witnesses!vars)
  BY ToggleStays, PartsStep
<1> QED
  BY <1>1, <1>2, RegistryAlways, PTL
     DEF PastStays, Witnesses!KeysOfPastStay, Witnesses!ToggleStaysSinceChange, PartsSpec, Newest

-------------------------------------------------------------------------------
(* PeerChannel.  What a call has gathered was published by a handler that  *)
(* ran for it, and is not on its way any more.                             *)

Elements(s) == Channel!Elements(s)

\* What a sequence has after one more.
LEMMA ElementsAppended ==
  ASSUME NEW S, NEW s \in Seq(S), NEW e
  PROVE  Elements(Append(s, e)) = Elements(s) \cup {e}
<1>1. PICK t : t = Append(s, e)
  OBVIOUS
<1>2. /\ Len(s) \in Nat /\ DOMAIN s = 1..Len(s) /\ DOMAIN t = 1..(Len(s) + 1)
      /\ t[Len(s) + 1] = e /\ \A i \in 1..Len(s) : t[i] = s[i]
  BY <1>1
<1>3. ASSUME NEW x PROVE (\E i \in DOMAIN t : x = t[i]) <=> (\E i \in DOMAIN s : x = s[i]) \/ x = e
  <2>1. \A i \in DOMAIN t : i \in DOMAIN s \/ i = Len(s) + 1
    BY <1>2
  <2>2. Len(s) + 1 \in DOMAIN t /\ \A i \in DOMAIN s : i \in DOMAIN t /\ t[i] = s[i]
    BY <1>2
  <2> QED
    BY <1>2, <2>1, <2>2
<1> QED
  BY <1>1, <1>3 DEF Elements, Channel!Elements

\* A sequence of different values has as many as it is long.
LEMMA AllDifferent ==
  ASSUME NEW S, NEW s \in Seq(S), \A i, j \in DOMAIN s : s[i] = s[j] => i = j
  PROVE  Len(s) = Cardinality(Elements(s))
<1>1. Len(s) \in Nat /\ DOMAIN s = 1..Len(s) /\ s = [i \in 1..Len(s) |-> s[i]]
  OBVIOUS
<1>2. s \in [1..Len(s) -> Elements(s)] /\ \A x \in Elements(s) : \E i \in 1..Len(s) : s[i] = x
  BY <1>1 DEF Elements, Channel!Elements
<1>3. s \in Bijection(1..Len(s), Elements(s))
  <2>1. \A i, j \in 1..Len(s) : s[i] = s[j] => i = j
    BY <1>1
  <2>2. s \in Injection(1..Len(s), Elements(s))
    BY <1>2, <2>1 DEF Injection, IsInjective
  <2>3. s \in Surjection(1..Len(s), Elements(s))
    BY <1>2 DEF Surjection
  <2> QED
    BY <2>2, <2>3 DEF Bijection
<1>4. ExistsBijection(1..Len(s), Elements(s))
  BY <1>3 DEF ExistsBijection
<1> QED
  BY <1>1, <1>4, FS_CountingElements

ChannelOK ==
  /\ MaxItems \in Nat
  /\ state \in [Call -> {"none", "open", "closed"}]
  /\ result \in [Call -> Seq(Channel!Answers)]
  /\ handler \in [Node -> [Call -> {"none", "run", "thrown", "ended", "over"}]]
  /\ pushed \in [Node -> [Call -> 0..MaxItems]] /\ sent \in [Node -> [Call -> 0..MaxItems]]

\* A handler starts with the message that opens the call, at the caller's node only if
\* told to; its answers are published after they were given.
AnswersOK ==
  \A n \in Node, c \in Call :
    /\ sent[n][c] =< pushed[n][c]
    /\ pushed[n][c] > 0 => handler[n][c] # "none"
    /\ handler[n][c] # "none" => state[c] # "none"
    /\ handler[n][c] # "none" /\ ~Loopback => n # CallerOf[c]

\* An answer on its way was published to who called, who has not had it.
NetOK ==
  \A m \in net :
    /\ m.call \in Call /\ m.to \in Node /\ m.from \in Node /\ m.kind \in {"init", "item", "end"}
    /\ m = Channel!Msg(m.to, m.call, m.from, m.kind, m.nr)
    /\ m.kind = "init" => m.from = CallerOf[m.call] /\ state[m.call] # "none"
    /\ m.kind = "item" =>
         /\ m.to = CallerOf[m.call] /\ m.nr \in 1..sent[m.from][m.call]
         /\ <<m.from, m.nr>> \notin Elements(result[m.call])

\* What was gathered was published, and is not there twice.
ResultOK ==
  \A c \in Call :
    /\ \A a \in Elements(result[c]) : a \in Channel!Answers /\ a[2] =< sent[a[1]][c]
    /\ \A i, j \in DOMAIN result[c] : result[c][i] = result[c][j] => i = j

ChannelInv == ChannelOK /\ AnswersOK /\ NetOK /\ ResultOK

\* Before the first call.
LEMMA ChannelInit ==
  ASSUME Channel!ChannelAssumption, Channel!Init PROVE ChannelInv
<1>1. \A c \in Call : result[c] = <<>> /\ DOMAIN result[c] = {} /\ Elements(result[c]) = {}
  BY DEF Channel!Init, Elements, Channel!Elements
<1>2. ChannelOK
  BY DEF ChannelOK, Channel!Init, Channel!ChannelAssumption
<1>3. AnswersOK
  BY DEF AnswersOK, Channel!Init
<1>4. NetOK /\ ResultOK
  BY <1>1 DEF NetOK, ResultOK, Channel!Init
<1> QED
  BY <1>2, <1>3, <1>4 DEF ChannelInv

\* A call opens with a message to every node.
LEMMA ChannelMakes ==
  ASSUME Channel!ChannelAssumption, ChannelInv, NEW c \in Call, Channel!Makes(c) PROVE ChannelInv'
<1>1. /\ state' = [state EXCEPT ![c] = "open"]
      /\ net' = net \cup {Channel!Msg(n, c, CallerOf[c], "init", 0) : n \in Node}
      /\ UNCHANGED <<result, handler, pushed, sent, lost>>
  BY DEF Channel!Makes
<1>2. ChannelOK'
  BY <1>1 DEF ChannelInv, ChannelOK
<1>3. \A d \in Call : state[d] # "none" => state'[d] # "none"
  BY <1>1 DEF ChannelInv, ChannelOK
<1>4. AnswersOK'
  BY <1>1, <1>3 DEF ChannelInv, AnswersOK
<1>5. NetOK'
  <2>1. ASSUME NEW n \in Node, NEW m, m = Channel!Msg(n, c, CallerOf[c], "init", 0)
        PROVE  /\ m.call = c /\ m.to = n /\ m.from = CallerOf[c] /\ m.kind = "init"
               /\ m = Channel!Msg(m.to, m.call, m.from, m.kind, m.nr)
    BY <2>1 DEF Channel!Msg
  <2>2. CallerOf[c] \in Node /\ state'[c] = "open"
    BY <1>1 DEF ChannelInv, ChannelOK, Channel!ChannelAssumption
  <2>3. ASSUME NEW m \in net'
        PROVE  \/ m \in net
               \/ /\ m.call = c /\ m.to \in Node /\ m.from = CallerOf[c] /\ m.kind = "init"
                  /\ m = Channel!Msg(m.to, m.call, m.from, m.kind, m.nr)
    BY <1>1, <2>1
  <2> QED
    BY <1>1, <1>3, <2>2, <2>3 DEF ChannelInv, NetOK
<1>6. ResultOK'
  BY <1>1 DEF ChannelInv, ResultOK
<1> QED
  BY <1>2, <1>4, <1>5, <1>6 DEF ChannelInv

\* A timer closes a call.
LEMMA ChannelTimer ==
  ASSUME ChannelInv, NEW c \in Call, Channel!Timer(c) PROVE ChannelInv'
<1>1. /\ state' = [state EXCEPT ![c] = "closed"]
      /\ UNCHANGED <<net, result, handler, pushed, sent, lost>>
  BY DEF Channel!Timer
<1>2. ChannelOK' /\ \A d \in Call : state[d] # "none" => state'[d] # "none"
  BY <1>1 DEF ChannelInv, ChannelOK
<1> QED
  BY <1>1, <1>2 DEF ChannelInv, AnswersOK, NetOK, ResultOK

\* A message that is heard or lost is gone; an answer that the call takes is put
\* behind those it has.
LEMMA ChannelHears ==
  ASSUME ChannelInv, NEW m \in net, Channel!Hears(m) PROVE ChannelInv'
<1>0. ChannelOK /\ AnswersOK /\ NetOK /\ ResultOK
  BY DEF ChannelInv
<1>1. /\ m.kind # "init" /\ net' = net \ {m}
      /\ result' = [c \in Call |-> Channel!Taken(m, c)]
      /\ state' = [c \in Call |-> IF Channel!Closes(m, c) THEN "closed" ELSE state[c]]
      /\ UNCHANGED <<handler, pushed, sent, lost>>
  BY DEF Channel!Hears
<1>2. state' \in [Call -> {"none", "open", "closed"}]
      /\ \A d \in Call : state[d] # "none" => state'[d] # "none"
  BY <1>0, <1>1 DEF ChannelOK
<1>3. ASSUME NEW c \in Call
      PROVE  \/ result'[c] = result[c]
             \/ /\ m.kind = "item" /\ m.call = c /\ m.from \in Node /\ m.nr \in 1..sent[m.from][c]
                /\ m.nr \in 1..MaxItems /\ <<m.from, m.nr>> \notin Elements(result[c])
                /\ result'[c] = Append(result[c], <<m.from, m.nr>>)
  <2>1. CASE Channel!For(m, c) /\ m.kind = "item" /\ state[c] = "open"
    <3>1. m.call = c /\ result'[c] = Append(result[c], <<m.from, m.nr>>)
      BY <1>1, <2>1 DEF Channel!Taken, Channel!For
    <3>2. m.from \in Node /\ m.nr \in 1..sent[m.from][c] /\ <<m.from, m.nr>> \notin Elements(result[c])
      BY <1>0, <2>1, <3>1 DEF NetOK
    <3>3. sent[m.from][c] \in 0..MaxItems /\ MaxItems \in Nat
      BY <1>0, <3>2 DEF ChannelOK
    <3> QED
      BY <2>1, <3>1, <3>2, <3>3
  <2>2. CASE ~(Channel!For(m, c) /\ m.kind = "item" /\ state[c] = "open")
    BY <1>1, <2>2 DEF Channel!Taken
  <2> QED
    BY <2>1, <2>2
<1>4. ASSUME NEW c \in Call
      PROVE  /\ result'[c] \in Seq(Channel!Answers)
             /\ \A a \in Elements(result'[c]) :
                  a \in Elements(result[c]) \/ (m.kind = "item" /\ m.call = c /\ a = <<m.from, m.nr>>)
             /\ \A a \in Elements(result'[c]) : a \in Channel!Answers /\ a[2] =< sent[a[1]][c]
             /\ \A i, j \in DOMAIN result'[c] : result'[c][i] = result'[c][j] => i = j
  <2>0. result[c] \in Seq(Channel!Answers)
    BY <1>0 DEF ChannelOK
  <2>1. CASE result'[c] = result[c]
    BY <1>0, <2>0, <2>1 DEF ResultOK
  <2>2. CASE result'[c] # result[c]
    <3>1. PICK s, t, e : s = result[c] /\ t = result'[c] /\ e = <<m.from, m.nr>>
      OBVIOUS
    <3>2. /\ t = Append(s, e) /\ e \in Channel!Answers /\ e \notin Elements(s) /\ s \in Seq(Channel!Answers)
          /\ e[2] =< sent[e[1]][c] /\ m.kind = "item" /\ m.call = c
      <4>1. /\ m.from \in Node /\ m.nr \in 1..sent[m.from][c] /\ m.nr \in 1..MaxItems
            /\ sent[m.from][c] \in 0..MaxItems /\ MaxItems \in Nat
        BY <1>0, <1>3, <2>2 DEF ChannelOK
      <4>2. e \in Channel!Answers /\ e[1] = m.from /\ e[2] = m.nr
        BY <3>1, <4>1 DEF Channel!Answers
      <4>3. e[2] =< sent[e[1]][c]
        BY <4>1, <4>2
      <4> QED
        BY <1>3, <2>0, <2>2, <3>1, <4>2, <4>3
    <3>3. t \in Seq(Channel!Answers) /\ Elements(t) = Elements(s) \cup {e}
      BY <3>2, ElementsAppended
    <3>4. \A i, j \in DOMAIN t : t[i] = t[j] => i = j
      <4>1. /\ Len(s) \in Nat /\ DOMAIN s = 1..Len(s) /\ DOMAIN t = 1..(Len(s) + 1)
            /\ t[Len(s) + 1] = e /\ \A i \in 1..Len(s) : t[i] = s[i]
        BY <3>2
      <4>2. \A i \in DOMAIN s : s[i] # e
        BY <3>2 DEF Elements, Channel!Elements
      <4>3. \A i, j \in DOMAIN s : s[i] = s[j] => i = j
        BY <1>0, <3>1 DEF ResultOK
      <4>4. \A i \in DOMAIN t : (i \in DOMAIN s /\ t[i] = s[i]) \/ (i = Len(s) + 1 /\ t[i] = e)
        BY <4>1
      <4> QED
        BY <4>2, <4>3, <4>4
    <3>5. \A a \in Elements(t) : a \in Channel!Answers /\ a[2] =< sent[a[1]][c]
      BY <1>0, <3>1, <3>2, <3>3 DEF ResultOK
    <3> QED
      BY <3>1, <3>2, <3>3, <3>4, <3>5
  <2> QED
    BY <2>1, <2>2
<1>5. ChannelOK'
  BY <1>0, <1>1, <1>2, <1>4 DEF ChannelOK
<1>6. AnswersOK'
  BY <1>0, <1>1, <1>2 DEF AnswersOK
<1>7. ResultOK'
  BY <1>1, <1>4 DEF ResultOK
<1>8. NetOK'
  <2>1. ASSUME NEW o \in net, o # m, o.kind = "item"
        PROVE  <<o.from, o.nr>> \notin Elements(result'[o.call])
    <3>1. o.call \in Call /\ <<o.from, o.nr>> \notin Elements(result[o.call])
          /\ o.to = CallerOf[o.call]
      BY <1>0, <2>1 DEF NetOK
    <3>2. ~(m.kind = "item" /\ m.call = o.call /\ m.from = o.from /\ m.nr = o.nr)
      BY <1>0, <2>1, <3>1 DEF NetOK
    <3>3. <<o.from, o.nr>> = <<m.from, m.nr>> => o.from = m.from /\ o.nr = m.nr
      OBVIOUS
    <3> QED
      BY <1>4, <3>1, <3>2, <3>3
  <2> QED
    BY <1>0, <1>1, <1>2, <2>1 DEF NetOK
<1> QED
  BY <1>5, <1>6, <1>7, <1>8 DEF ChannelInv

\* A node takes a call.
LEMMA ChannelBegins ==
  ASSUME ChannelInv, NEW m \in net, Channel!Begins(m) PROVE ChannelInv'
<1>0. ChannelOK /\ AnswersOK /\ NetOK /\ ResultOK
  BY DEF ChannelInv
<1>1. /\ m.kind = "init" /\ net' = net \ {m}
      /\ handler' = IF m.from = m.to /\ ~Loopback THEN handler
                    ELSE [handler EXCEPT ![m.to][m.call] = "run"]
      /\ UNCHANGED <<state, result, pushed, sent, lost>>
  BY DEF Channel!Begins
<1>2. m.call \in Call /\ m.to \in Node /\ m.from = CallerOf[m.call] /\ state[m.call] # "none"
  BY <1>0, <1>1 DEF NetOK
<1>3. handler' \in [Node -> [Call -> {"none", "run", "thrown", "ended", "over"}]]
  BY <1>0, <1>1, <1>2 DEF ChannelOK
<1>4. \A n \in Node, c \in Call :
        \/ handler'[n][c] = handler[n][c]
        \/ n = m.to /\ c = m.call /\ handler'[n][c] = "run" /\ ~(m.from = m.to /\ ~Loopback)
  BY <1>0, <1>1, <1>2 DEF ChannelOK
<1>5. ChannelOK'
  BY <1>0, <1>1, <1>3 DEF ChannelOK
<1>6. AnswersOK'
  BY <1>0, <1>1, <1>2, <1>4 DEF AnswersOK
<1> QED
  BY <1>0, <1>1, <1>5, <1>6 DEF ChannelInv, NetOK, ResultOK

\* Its handler gives an answer.
LEMMA ChannelPushes ==
  ASSUME ChannelInv, NEW n \in Node, NEW c \in Call, Channel!Pushes(n, c) PROVE ChannelInv'
<1>0. ChannelOK /\ AnswersOK /\ NetOK /\ ResultOK
  BY DEF ChannelInv
<1>1. /\ handler[n][c] = "run" /\ pushed[n][c] < MaxItems
      /\ pushed' = [pushed EXCEPT ![n][c] = @ + 1]
      /\ UNCHANGED <<net, state, result, handler, sent, lost>>
  BY DEF Channel!Pushes
<1>2. /\ \A o \in Node, d \in Call : /\ pushed[o][d] \in 0..MaxItems /\ sent[o][d] \in 0..MaxItems
                                     /\ sent[o][d] =< pushed[o][d]
      /\ pushed \in [Node -> [Call -> 0..MaxItems]] /\ MaxItems \in Nat
  BY <1>0 DEF ChannelOK, AnswersOK
<1>3. pushed[n][c] + 1 \in 0..MaxItems
  BY <1>1, <1>2
<1>4. /\ pushed' \in [Node -> [Call -> 0..MaxItems]]
      /\ \A o \in Node, d \in Call :
           pushed'[o][d] = IF o = n /\ d = c THEN pushed[n][c] + 1 ELSE pushed[o][d]
  BY <1>1, <1>2, <1>3
<1>5. ChannelOK'
  BY <1>0, <1>1, <1>4 DEF ChannelOK
<1>6. AnswersOK'
  BY <1>0, <1>1, <1>2, <1>4 DEF AnswersOK
<1> QED
  BY <1>0, <1>1, <1>5, <1>6 DEF ChannelInv, NetOK, ResultOK

\* The handler returns or throws.
LEMMA ChannelLeaves ==
  ASSUME ChannelInv, NEW n \in Node, NEW c \in Call, Channel!Leaves(n, c) PROVE ChannelInv'
<1>0. ChannelOK /\ AnswersOK /\ NetOK /\ ResultOK
  BY DEF ChannelInv
<1>1. PICK how \in {"ended", "thrown"} : handler' = [handler EXCEPT ![n][c] = how]
  BY DEF Channel!Leaves
<1>2. handler[n][c] = "run" /\ UNCHANGED <<net, state, result, pushed, sent, lost>>
  BY DEF Channel!Leaves
<1>3. /\ handler' \in [Node -> [Call -> {"none", "run", "thrown", "ended", "over"}]]
      /\ \A o \in Node, d \in Call : handler'[o][d] = IF o = n /\ d = c THEN how ELSE handler[o][d]
  BY <1>0, <1>1 DEF ChannelOK
<1>4. ChannelOK'
  BY <1>0, <1>2, <1>3 DEF ChannelOK
<1>5. AnswersOK'
  BY <1>0, <1>2, <1>3 DEF AnswersOK
<1> QED
  BY <1>0, <1>2, <1>4, <1>5 DEF ChannelInv, NetOK, ResultOK

\* An answer is published: one that nobody has had.
LEMMA ChannelPublishes ==
  ASSUME Channel!ChannelAssumption, ChannelInv, NEW n \in Node, NEW c \in Call, Channel!Publishes(n, c)
  PROVE  ChannelInv'
<1>0. ChannelOK /\ AnswersOK /\ NetOK /\ ResultOK
  BY DEF ChannelInv
<1>1. /\ sent[n][c] < pushed[n][c] /\ sent' = [sent EXCEPT ![n][c] = @ + 1]
      /\ net' = net \cup {Channel!Msg(CallerOf[c], c, n, "item", sent[n][c] + 1)}
      /\ UNCHANGED <<state, result, handler, pushed, lost>>
  BY DEF Channel!Publishes
<1>2. /\ \A o \in Node, d \in Call : /\ pushed[o][d] \in 0..MaxItems /\ sent[o][d] \in 0..MaxItems
                                     /\ sent[o][d] =< pushed[o][d]
      /\ sent \in [Node -> [Call -> 0..MaxItems]] /\ MaxItems \in Nat
  BY <1>0 DEF ChannelOK, AnswersOK
<1>3. sent[n][c] + 1 \in 0..MaxItems
  BY <1>1, <1>2
<1>4. /\ sent' \in [Node -> [Call -> 0..MaxItems]]
      /\ \A o \in Node, d \in Call :
           sent'[o][d] = IF o = n /\ d = c THEN sent[n][c] + 1 ELSE sent[o][d]
  BY <1>1, <1>2, <1>3
<1>5. \A o \in Node, d \in Call : sent'[o][d] \in 0..MaxItems /\ sent[o][d] =< sent'[o][d]
  BY <1>2, <1>3, <1>4
<1>6. ChannelOK'
  BY <1>0, <1>1, <1>4 DEF ChannelOK
<1>7. AnswersOK'
  BY <1>0, <1>1, <1>2, <1>4 DEF AnswersOK
<1>8. ResultOK'
  <2> SUFFICES ASSUME NEW d \in Call, NEW a \in Elements(result[d])
               PROVE  a \in Channel!Answers /\ a[2] =< sent'[a[1]][d]
    BY <1>0, <1>1 DEF ResultOK
  <2>1. a \in Channel!Answers /\ a[2] =< sent[a[1]][d]
    BY <1>0 DEF ResultOK
  <2>2. a[1] \in Node /\ a[2] \in 1..MaxItems
    BY <2>1 DEF Channel!Answers
  <2> QED
    BY <1>2, <1>5, <2>1, <2>2
<1>9. NetOK'
  <2>1. PICK p : p = Channel!Msg(CallerOf[c], c, n, "item", sent[n][c] + 1)
    OBVIOUS
  <2>2. /\ p.call = c /\ p.to = CallerOf[c] /\ p.from = n /\ p.kind = "item" /\ p.nr = sent[n][c] + 1
        /\ p = Channel!Msg(p.to, p.call, p.from, p.kind, p.nr)
    BY <2>1 DEF Channel!Msg
  <2>3. <<p.from, p.nr>> \notin Elements(result[c])
    <3> SUFFICES ASSUME <<p.from, p.nr>> \in Elements(result[c]) PROVE FALSE
      OBVIOUS
    <3>1. PICK a : a = <<p.from, p.nr>> /\ a[1] = n /\ a[2] = sent[n][c] + 1
      BY <2>2
    <3>2. a[2] =< sent[a[1]][c]
      BY <1>0, <3>1 DEF ResultOK
    <3> QED
      BY <1>2, <3>1, <3>2
  <2>4. p.nr \in 1..sent'[p.from][p.call]
    BY <1>2, <1>4, <2>2
  <2>5. CallerOf[c] \in Node
    BY DEF Channel!ChannelAssumption
  <2>6. ASSUME NEW m \in net, m.kind = "item" PROVE m.nr \in 1..sent'[m.from][m.call]
    <3>1. m.nr \in 1..sent[m.from][m.call] /\ m.from \in Node /\ m.call \in Call
      BY <1>0, <2>6 DEF NetOK
    <3> QED
      BY <1>2, <1>5, <3>1
  <2>7. \A m \in net' : m \in net \/ m = p
    BY <1>1, <2>1
  <2> QED
    BY <1>0, <1>1, <2>2, <2>3, <2>4, <2>5, <2>6, <2>7 DEF NetOK
<1> QED
  BY <1>6, <1>7, <1>8, <1>9 DEF ChannelInv

\* The end is published when there were answers.
LEMMA ChannelEnds ==
  ASSUME Channel!ChannelAssumption, ChannelInv, NEW n \in Node, NEW c \in Call, Channel!Ends(n, c)
  PROVE  ChannelInv'
<1>0. ChannelOK /\ AnswersOK /\ NetOK /\ ResultOK
  BY DEF ChannelInv
<1>1. /\ handler[n][c] = "ended" /\ handler' = [handler EXCEPT ![n][c] = "over"]
      /\ \A m \in net' : m \in net \/ m = Channel!Msg(CallerOf[c], c, n, "end", 0)
      /\ UNCHANGED <<state, result, pushed, sent, lost>>
  BY DEF Channel!Ends
<1>2. /\ handler' \in [Node -> [Call -> {"none", "run", "thrown", "ended", "over"}]]
      /\ \A o \in Node, d \in Call : handler'[o][d] = IF o = n /\ d = c THEN "over" ELSE handler[o][d]
  BY <1>0, <1>1 DEF ChannelOK
<1>3. ChannelOK'
  BY <1>0, <1>1, <1>2 DEF ChannelOK
<1>4. AnswersOK'
  BY <1>0, <1>1, <1>2 DEF AnswersOK
<1>5. NetOK'
  <2>1. PICK p : p = Channel!Msg(CallerOf[c], c, n, "end", 0)
    OBVIOUS
  <2>2. /\ p.call = c /\ p.to = CallerOf[c] /\ p.from = n /\ p.kind = "end"
        /\ p = Channel!Msg(p.to, p.call, p.from, p.kind, p.nr)
    BY <2>1 DEF Channel!Msg
  <2>3. CallerOf[c] \in Node
    BY DEF Channel!ChannelAssumption
  <2> QED
    BY <1>0, <1>1, <2>1, <2>2, <2>3 DEF NetOK
<1> QED
  BY <1>0, <1>1, <1>3, <1>4, <1>5 DEF ChannelInv, ResultOK

\* Every step keeps the invariant.
LEMMA ChannelStep ==
  ASSUME Channel!ChannelAssumption, ChannelInv, [Channel!Next]_(Channel!vars)
  PROVE  ChannelInv'
<1>1. CASE Channel!Next
  <2>1. ASSUME NEW m \in net, Channel!Loses(m) PROVE ChannelInv'
    BY <2>1 DEF Channel!Loses, ChannelInv, ChannelOK, AnswersOK, NetOK, ResultOK
  <2> QED
    BY <1>1, <2>1, ChannelMakes, ChannelTimer, ChannelHears, ChannelBegins, ChannelPushes,
       ChannelLeaves, ChannelPublishes, ChannelEnds DEF Channel!Next
<1>2. CASE UNCHANGED Channel!vars
  BY <1>2 DEF Channel!vars, ChannelInv, ChannelOK, AnswersOK, NetOK, ResultOK
<1> QED
  BY <1>1, <1>2

\* So it always holds.
LEMMA ChannelAlways == PartsSpec => [](scenario = "channel" => ChannelInv)
<1>1. PartsInit => (scenario = "channel" => ChannelInv)
  BY ChannelInit, PartsAssumption DEF PartsInit
<1>2. (scenario = "channel" => ChannelInv) /\ [PartsNext]_vars => (scenario = "channel" => ChannelInv)'
  BY ChannelStep, PartsStep, PartsAssumption
<1> QED
  BY <1>1, <1>2, PTL DEF PartsSpec

\* What it says of what calls have gathered.
LEMMA ChannelGathered ==
  ChannelInv => Channel!ChannelTypeOK /\ Channel!OwnAnswers /\ Channel!NoneTwice
<1> SUFFICES ASSUME ChannelInv PROVE Channel!ChannelTypeOK /\ Channel!OwnAnswers /\ Channel!NoneTwice
  OBVIOUS
<1>0. ChannelOK /\ AnswersOK /\ NetOK /\ ResultOK
  BY DEF ChannelInv
<1>1. Channel!ChannelTypeOK
  <2>1. \A c \in Call : \A i \in DOMAIN result[c] : result[c][i] \in Channel!Answers
    BY <1>0 DEF ChannelOK
  <2>2. \A n \in Node, c \in Call : pushed[n][c] =< MaxItems
    BY <1>0 DEF ChannelOK
  <2> QED
    BY <1>0, <2>1, <2>2 DEF ChannelOK, AnswersOK, Channel!ChannelTypeOK
<1>2. Channel!NoneTwice
  <2> SUFFICES ASSUME NEW c \in Call PROVE Len(result[c]) = Cardinality(Elements(result[c]))
    BY DEF Channel!NoneTwice, Elements, Cardinality, Channel!Cardinality
  <2>1. PICK s : s = result[c]
    OBVIOUS
  <2>2. s \in Seq(Channel!Answers) /\ \A i, j \in DOMAIN s : s[i] = s[j] => i = j
    BY <1>0, <2>1 DEF ChannelOK, ResultOK
  <2> QED
    BY <2>1, <2>2, AllDifferent
<1>3. Channel!OwnAnswers
  <2> SUFFICES ASSUME ~Loopback, NEW c \in Call, NEW a \in Elements(result[c]), a[1] = CallerOf[c]
               PROVE  FALSE
    BY DEF Channel!OwnAnswers, Elements
  <2>1. a[1] \in Node /\ a[2] \in 1..MaxItems /\ a[2] =< sent[a[1]][c]
    BY <1>0 DEF ResultOK, Channel!Answers
  <2>2. /\ sent[a[1]][c] =< pushed[a[1]][c] /\ ~(pushed[a[1]][c] > 0)
        /\ sent[a[1]][c] \in 0..MaxItems /\ pushed[a[1]][c] \in 0..MaxItems
    BY <1>0, <2>1 DEF AnswersOK, ChannelOK
  <2> QED
    BY <1>0, <2>1, <2>2 DEF ChannelOK
<1> QED
  BY <1>1, <1>2, <1>3

\* A step as Gathering sees it, from what is offered and gathered before it (off and
\* got) to what is after it.
Seen(off, offNext, got, gotNext) ==
  \/ state' = state /\ offNext = off /\ gotNext = got
  \/ \E c \in Call :
       \/ /\ state[c] = "none" /\ state' = [state EXCEPT ![c] = "open"]
          /\ offNext = off /\ gotNext = got
       \/ /\ state[c] = "open" /\ state' = [state EXCEPT ![c] = "closed"]
          /\ offNext = off /\ gotNext = got
       \/ \E a \in Channel!Answers :
            \/ /\ state[c] # "none" /\ a \notin off[c] /\ offNext = [off EXCEPT ![c] = @ \cup {a}]
               /\ state' = state /\ gotNext = got
            \/ /\ state[c] = "open" /\ a \in off[c] \ got[c] /\ gotNext = [got EXCEPT ![c] = @ \cup {a}]
               /\ state' = state /\ offNext = off

\* A step of the channel is one of Gathering, or changes nothing that it sees.
LEMMA ChannelGathers ==
  ASSUME Channel!ChannelAssumption, ChannelInv, [Channel!Next]_(Channel!vars)
  PROVE  Channel!GatherStep
<1>0. ChannelOK /\ AnswersOK /\ NetOK /\ ResultOK
  BY DEF ChannelInv
<1>1. PICK off, offNext, got, gotNext :
        off = Channel!Offered /\ offNext = Channel!Offered' /\ got = Channel!Gathered /\ gotNext = Channel!Gathered'
  OBVIOUS
<1>2. /\ off = [c \in Call |-> {a \in Channel!Answers : a[2] =< pushed[a[1]][c]}]
      /\ offNext = [c \in Call |-> {a \in Channel!Answers : a[2] =< pushed'[a[1]][c]}]
      /\ got = [c \in Call |-> Elements(result[c])] /\ gotNext = [c \in Call |-> Elements(result'[c])]
  BY <1>1 DEF Channel!Offered, Channel!Gathered, Elements
<1> SUFFICES Seen(off, offNext, got, gotNext)
  BY <1>1 DEF Channel!GatherStep, Channel!Gather!Next, Channel!Gather!Open, Channel!Gather!Close,
     Channel!Gather!Offer, Channel!Gather!Take, Seen
<1>3. (UNCHANGED pushed => offNext = off) /\ (UNCHANGED result => gotNext = got)
  BY <1>2
<1>4. ASSUME NEW c \in Call, Channel!Makes(c) \/ Channel!Timer(c)
      PROVE  Seen(off, offNext, got, gotNext)
  BY <1>3, <1>4 DEF Channel!Makes, Channel!Timer, Seen
<1>5. ASSUME NEW m \in net, Channel!Hears(m) PROVE Seen(off, offNext, got, gotNext)
  <2>1. /\ result' = [c \in Call |-> Channel!Taken(m, c)] /\ m.call \in Call
        /\ state' = [c \in Call |-> IF Channel!Closes(m, c) THEN "closed" ELSE state[c]]
        /\ UNCHANGED <<handler, pushed, sent, lost>>
    BY <1>0, <1>5 DEF Channel!Hears, NetOK
  <2>2. PICK c \in Call : c = m.call
    BY <2>1
  <2>3. state = [d \in Call |-> state[d]] /\ result = [d \in Call |-> result[d]]
    BY <1>0 DEF ChannelOK
  <2>4. CASE Channel!For(m, c) /\ m.kind = "item" /\ state[c] = "open"
    <3>1. state' = state /\ offNext = off
      BY <1>3, <2>1, <2>3, <2>4 DEF Channel!Closes
    <3>2. PICK a : a = <<m.from, m.nr>>
      OBVIOUS
    <3>3. result' = [result EXCEPT ![c] = Append(@, a)]
      BY <2>1, <2>2, <2>3, <2>4, <3>2 DEF Channel!Taken, Channel!For
    <3>4. Elements(result'[c]) = Elements(result[c]) \cup {a}
      <4>1. PICK s : s = result[c] /\ s \in Seq(Channel!Answers)
        BY <1>0 DEF ChannelOK
      <4> QED
        BY <2>3, <3>3, <4>1, ElementsAppended
    <3>5. gotNext = [got EXCEPT ![c] = @ \cup {a}]
      BY <1>2, <2>3, <3>3, <3>4
    <3>6. a \in Channel!Answers /\ a \in off[c] /\ a \notin got[c]
      <4>1. /\ m.from \in Node /\ m.nr \in 1..sent[m.from][c] /\ a \notin Elements(result[c])
            /\ sent[m.from][c] =< pushed[m.from][c] /\ MaxItems \in Nat
            /\ sent[m.from][c] \in 0..MaxItems /\ pushed[m.from][c] \in 0..MaxItems
        BY <1>0, <2>2, <2>4, <3>2 DEF NetOK, AnswersOK, ChannelOK
      <4>2. a[1] = m.from /\ a[2] = m.nr /\ a \in Channel!Answers
        BY <3>2, <4>1 DEF Channel!Answers
      <4>3. a[2] =< pushed[a[1]][c]
        BY <4>1, <4>2
      <4> QED
        BY <1>2, <4>1, <4>2, <4>3
    <3> QED
      BY <2>4, <3>1, <3>5, <3>6 DEF Seen
  <2>5. CASE ~(Channel!For(m, c) /\ m.kind = "item" /\ state[c] = "open")
    <3>1. \A d \in Call : Channel!Taken(m, d) = result[d]
      BY <2>2, <2>5 DEF Channel!Taken, Channel!For
    <3>2. result' = result
      BY <2>1, <2>3, <3>1
    <3>3. offNext = off /\ gotNext = got
      BY <1>3, <2>1, <3>2
    <3>4. CASE Channel!Closes(m, c)
      <4>1. state[c] = "open" /\ state' = [state EXCEPT ![c] = "closed"]
        BY <2>1, <2>2, <2>3, <3>4 DEF Channel!Closes, Channel!For
      <4> QED
        BY <3>3, <4>1 DEF Seen
    <3>5. CASE ~Channel!Closes(m, c)
      <4>1. state' = state
        BY <2>1, <2>2, <2>3, <3>5 DEF Channel!Closes, Channel!For
      <4> QED
        BY <3>3, <4>1 DEF Seen
    <3> QED
      BY <3>4, <3>5
  <2> QED
    BY <2>4, <2>5
<1>6. ASSUME NEW n \in Node, NEW c \in Call, Channel!Pushes(n, c)
      PROVE  Seen(off, offNext, got, gotNext)
  <2>1. /\ handler[n][c] = "run" /\ pushed[n][c] < MaxItems /\ MaxItems \in Nat
        /\ pushed' = [pushed EXCEPT ![n][c] = @ + 1] /\ pushed[n][c] \in 0..MaxItems
        /\ UNCHANGED <<net, state, result, handler, sent, lost>>
    BY <1>0, <1>6 DEF Channel!Pushes, ChannelOK
  <2>2. PICK a : a = <<n, pushed[n][c] + 1>>
    OBVIOUS
  <2>3. a \in Channel!Answers /\ a[1] = n /\ a[2] = pushed[n][c] + 1
    BY <2>1, <2>2 DEF Channel!Answers
  <2>4. a \notin off[c] /\ state[c] # "none"
    <3>1. ~(a[2] =< pushed[a[1]][c])
      BY <2>1, <2>3
    <3>2. state[c] # "none"
      BY <1>0, <2>1 DEF AnswersOK
    <3> QED
      BY <1>2, <3>1, <3>2
  <2>5. ASSUME NEW d \in Call, NEW b \in Channel!Answers
        PROVE  b[2] =< pushed'[b[1]][d] <=> b[2] =< pushed[b[1]][d] \/ (d = c /\ b = a)
    <3>1. b[1] \in Node /\ b[2] \in Nat /\ b = <<b[1], b[2]>>
      BY DEF Channel!Answers
    <3>2. pushed[b[1]][d] \in Nat
      BY <1>0, <3>1 DEF ChannelOK
    <3>3. CASE b[1] = n /\ d = c
      <4>1. pushed'[b[1]][d] = pushed[n][c] + 1
        BY <1>0, <2>1, <3>3 DEF ChannelOK
      <4>2. b = a <=> b[2] = pushed[n][c] + 1
        BY <2>2, <2>3, <3>1, <3>3
      <4> QED
        BY <3>1, <3>2, <3>3, <4>1, <4>2
    <3>4. CASE ~(b[1] = n /\ d = c)
      <4>1. pushed'[b[1]][d] = pushed[b[1]][d]
        BY <1>0, <2>1, <3>1, <3>4 DEF ChannelOK
      <4>2. ~(d = c /\ b = a)
        BY <2>3, <3>4
      <4> QED
        BY <4>1, <4>2
    <3> QED
      BY <3>3, <3>4
  <2>6. offNext = [off EXCEPT ![c] = @ \cup {a}]
    <3>1. \A d \in Call : offNext[d] = IF d = c THEN off[c] \cup {a} ELSE off[d]
      BY <1>2, <2>3, <2>5
    <3> QED
      BY <1>2, <3>1
  <2> QED
    BY <1>3, <2>1, <2>3, <2>4, <2>6 DEF Seen
<1>7. ASSUME state' = state, UNCHANGED <<result, pushed>> PROVE Seen(off, offNext, got, gotNext)
  BY <1>3, <1>7 DEF Seen
<1>8. CASE UNCHANGED Channel!vars
  BY <1>7, <1>8 DEF Channel!vars
<1>9. CASE Channel!Next
  <2>1. ASSUME NEW m \in net, Channel!Begins(m) \/ Channel!Loses(m)
        PROVE  Seen(off, offNext, got, gotNext)
    BY <1>7, <2>1 DEF Channel!Begins, Channel!Loses
  <2>2. ASSUME NEW n \in Node, NEW c \in Call,
               Channel!Leaves(n, c) \/ Channel!Publishes(n, c) \/ Channel!Ends(n, c)
        PROVE  Seen(off, offNext, got, gotNext)
    BY <1>7, <2>2 DEF Channel!Leaves, Channel!Publishes, Channel!Ends
  <2> QED
    BY <1>4, <1>5, <1>6, <1>9, <2>1, <2>2 DEF Channel!Next
<1> QED
  BY <1>8, <1>9

\* However calls overlap, whatever is lost, late or comes after the end: a call has
\* the answers that handlers gave to it, each once, none of the caller's own handler
\* unless asked for, and stays as it is once closed; PeerChannel implements Gathering.
THEOREM CallsGatherTheirOwn ==
  PartsSpec => GathersItsOwn
<1>1. PartsInit => (scenario = "channel" => Channel!Gather!Init)
  <2> SUFFICES ASSUME Channel!Init PROVE Channel!Gather!Init
    BY DEF PartsInit
  <2>1. ASSUME NEW c \in Call
        PROVE  /\ {a \in Channel!Answers : a[2] =< pushed[a[1]][c]} = {}
               /\ Channel!Elements(result[c]) = {}
    <3>1. \A a \in Channel!Answers : a[1] \in Node /\ a[2] > 0 /\ a[2] \in Nat
      BY DEF Channel!Answers
    <3>2. \A n \in Node : pushed[n][c] = 0
      BY DEF Channel!Init
    <3>3. result[c] = <<>>
      BY DEF Channel!Init
    <3> QED
      BY <3>1, <3>2, <3>3 DEF Channel!Elements
  <2>2. Channel!Offered = [c \in Call |-> {}] /\ Channel!Gathered = [c \in Call |-> {}]
    BY <2>1 DEF Channel!Offered, Channel!Gathered
  <2> QED
    BY <2>2 DEF Channel!Gather!Init, Channel!Init
<1>2. ASSUME ChannelInv, [Channel!Next]_(Channel!vars) PROVE Channel!GatherStep
  BY <1>2, ChannelGathers, PartsAssumption
<1>3. (scenario = "channel" => ChannelInv) =>
        (scenario = "channel" => Channel!ChannelTypeOK /\ Channel!OwnAnswers /\ Channel!NoneTwice)
  BY ChannelGathered
<1>4. (scenario = "channel" => ChannelInv) /\ [PartsNext]_vars =>
        [scenario = "channel" => Channel!GatherStep]_vars
  BY <1>2, PartsStep
<1> QED
  BY <1>1, <1>3, <1>4, ChannelAlways, PTL DEF GathersItsOwn, PartsSpec

-------------------------------------------------------------------------------
(* WitnessSchedule.  A height is asked for when everything below it has    *)
(* been indexed, so whoever asks sees the elections that Hive has.         *)

\* The schedule of a round with the members of an election.
ScheduleOf(i, round) == Schedule!Scheduled(Elections[i].members, seed[round], round)

\* The elections that count for a height, and the last of them.
Elected(h) == Schedule!Before(DOMAIN Elections, h)

ScheduleOK ==
  /\ seed \in [Schedule!Rounds -> Schedule!Draws]
  /\ indexed \subseteq DOMAIN Elections /\ block \in (Start - 1)..Top /\ parsing \in BOOLEAN
  /\ parsing => block < Top
  /\ call = [c \in Schedule!Caller |-> call[c]] /\ answer = [c \in Schedule!Caller |-> answer[c]]

\* What is parsed is indexed.
IndexedOK == \A i \in DOMAIN Elections : Elections[i].at =< block => i \in indexed

\* A call that waits has the epoch of its height, which is not above the next block.
CallsOK ==
  \A c \in Schedule!Caller :
    call[c] # <<>> =>
      /\ call[c].at \in Start..Top /\ call[c].at =< block + 1 /\ Elected(call[c].at) # {}
      /\ call[c].epoch = Elections[Newest(Elected(call[c].at))].epoch

\* The cache has a schedule of its epoch and round.
CacheOK ==
  cache # <<>> =>
    /\ cache.round \in Schedule!Rounds
    /\ \E i \in indexed : /\ cache.epoch = Elections[i].epoch
                          /\ cache.schedule = ScheduleOf(i, cache.round)

AnswersAre ==
  \A c \in Schedule!Caller :
    answer[c] # <<>> =>
      /\ answer[c].at \in Start..Top /\ Elected(answer[c].at) # {}
      /\ answer[c].schedule =
           ScheduleOf(Newest(Elected(answer[c].at)), Schedule!PastRound(answer[c].at))

ScheduleInv == ScheduleOK /\ IndexedOK /\ CallsOK /\ CacheOK /\ AnswersAre

\* A round's schedule has a slot for each of its places.
LEMMA ScheduleLength ==
  ASSUME Schedule!ScheduleAssumption, NEW members, NEW draws, NEW round
  PROVE  Len(Schedule!Scheduled(members, draws, round)) = TotalRounds
<1>1. PICK s, z, t : /\ s = Schedule!Shares(members) /\ z = Schedule!Shuffled(s, draws)
                     /\ t = Schedule!Numbered(z, round)
  OBVIOUS
<1>2. DOMAIN s = 1..TotalRounds
  BY <1>1 DEF Schedule!Shares
<1>3. DOMAIN z = 1..TotalRounds
  BY <1>1, <1>2 DEF Schedule!Shuffled
<1>4. DOMAIN t = 1..TotalRounds /\ t = [i \in DOMAIN t |-> t[i]] /\ TotalRounds \in Nat
  BY <1>1, <1>3 DEF Schedule!Numbered, Schedule!ScheduleAssumption
<1>5. PICK S : S = {t[i] : i \in DOMAIN t}
  OBVIOUS
<1>6. t \in Seq(S) /\ Len(t) = TotalRounds
  BY <1>4, <1>5
<1> QED
  BY <1>1, <1>6 DEF Schedule!Scheduled

\* For a height up to the next block, what is indexed is what Hive has.
LEMMA ElectionIs ==
  ASSUME Schedule!ScheduleAssumption, ScheduleOK, IndexedOK, NEW h \in Int, h =< block + 1
  PROVE  /\ Schedule!Before(indexed, h) = Elected(h) /\ Elected(h) \subseteq DOMAIN Elections
         /\ Schedule!ValidElection(indexed, h) = Elections[Newest(Elected(h))]
         /\ Schedule!ValidElection(DOMAIN Elections, h) = Elections[Newest(Elected(h))]
         /\ Elected(h) # {} => Newest(Elected(h)) \in Elected(h) /\ Newest(Elected(h)) \in indexed
<1>1. \A i \in DOMAIN Elections : Elections[i].at < h => i \in indexed
  <2> SUFFICES ASSUME NEW i \in DOMAIN Elections, Elections[i].at < h PROVE i \in indexed
    OBVIOUS
  <2>1. Elections[i].at \in Nat /\ block \in Int
    BY DEF ScheduleOK, Schedule!ScheduleAssumption
  <2> QED
    BY <2>1 DEF IndexedOK
<1>2. Schedule!Before(indexed, h) = Elected(h) /\ Elected(h) \subseteq DOMAIN Elections
  BY <1>1 DEF ScheduleOK, Elected, Schedule!Before
<1>3. /\ Schedule!ValidElection(indexed, h) = Elections[Newest(Elected(h))]
      /\ Schedule!ValidElection(DOMAIN Elections, h) = Elections[Newest(Elected(h))]
  BY <1>2 DEF Schedule!ValidElection, Elected, Newest, Witnesses!Newest
<1>4. ASSUME Elected(h) # {} PROVE Newest(Elected(h)) \in Elected(h)
  <2>1. Elected(h) \subseteq 1..Len(Elections) /\ Len(Elections) \in Nat
    BY <1>2 DEF Schedule!ScheduleAssumption
  <2> QED
    BY <1>4, <2>1, NewestIs
<1>5. Elected(h) \subseteq indexed
  BY <1>2 DEF Schedule!Before
<1> QED
  BY <1>2, <1>3, <1>4, <1>5

\* The elections of an epoch are one.
LEMMA EpochsDiffer ==
  ASSUME Schedule!ScheduleAssumption, NEW i \in DOMAIN Elections, NEW j \in DOMAIN Elections,
         Elections[i].epoch = Elections[j].epoch
  PROVE  i = j
<1>1. i \in Nat /\ j \in Nat /\ Elections[i].epoch \in Nat /\ Elections[j].epoch \in Nat
  BY DEF Schedule!ScheduleAssumption
<1>2. ~(i < j) /\ ~(j < i)
  BY <1>1 DEF Schedule!ScheduleAssumption
<1> QED
  BY <1>1, <1>2

\* Before anything is asked for.
LEMMA ScheduleInit ==
  ASSUME Schedule!ScheduleAssumption, Schedule!Init PROVE ScheduleInv
<1>1. ScheduleOK
  <2>1. block = Start - 1 /\ parsing = FALSE /\ Start - 1 \in (Start - 1)..Top
    BY DEF Schedule!Init, Schedule!ScheduleAssumption
  <2>2. /\ call = [c \in Schedule!Caller |-> call[c]] /\ answer = [c \in Schedule!Caller |-> answer[c]]
        /\ indexed \subseteq DOMAIN Elections /\ seed \in [Schedule!Rounds -> Schedule!Draws]
    BY DEF Schedule!Init
  <2> QED
    BY <2>1, <2>2 DEF ScheduleOK
<1>2. IndexedOK
  BY DEF IndexedOK, Schedule!Init, Schedule!ScheduleAssumption
<1>3. CallsOK /\ CacheOK /\ AnswersAre
  BY DEF CallsOK, CacheOK, AnswersAre, Schedule!Init
<1> QED
  BY <1>1, <1>2, <1>3 DEF ScheduleInv

\* The parser's steps: a block begins, its election is indexed, it ends.
LEMMA ScheduleParses ==
  ASSUME Schedule!ScheduleAssumption, ScheduleInv,
         Schedule!BeginBlock \/ Schedule!Index \/ Schedule!EndBlock
  PROVE  ScheduleInv'
<1>0. ScheduleOK /\ IndexedOK /\ CallsOK /\ CacheOK /\ AnswersAre
  BY DEF ScheduleInv
<1>1. UNCHANGED <<seed, cache, call, answer>>
  BY DEF Schedule!BeginBlock, Schedule!Index, Schedule!EndBlock
<1>2. /\ indexed \subseteq indexed' /\ indexed' \subseteq DOMAIN Elections
      /\ block \in Int /\ block' \in Int /\ block =< block' /\ Start \in Nat /\ Top \in Nat
      /\ block' \in (Start - 1)..Top /\ parsing' \in BOOLEAN /\ (parsing' => block' < Top)
  <2>1. /\ indexed \subseteq DOMAIN Elections /\ block \in (Start - 1)..Top /\ parsing \in BOOLEAN
        /\ (parsing => block < Top) /\ Start \in Nat /\ Top \in Nat
    BY <1>0 DEF ScheduleOK, Schedule!ScheduleAssumption
  <2>2. CASE Schedule!BeginBlock
    BY <2>1, <2>2 DEF Schedule!BeginBlock
  <2>3. CASE Schedule!Index
    BY <2>1, <2>3 DEF Schedule!Index
  <2>4. CASE Schedule!EndBlock
    <3>1. block' = block + 1 /\ parsing' = FALSE /\ block < Top /\ indexed' = indexed
      BY <2>1, <2>4 DEF Schedule!EndBlock
    <3>2. /\ indexed \subseteq indexed' /\ indexed' \subseteq DOMAIN Elections /\ Start \in Nat /\ Top \in Nat
          /\ block \in Int /\ block' \in Int /\ block =< block' /\ block' \in (Start - 1)..Top
      <4>1. block + 1 \in (Start - 1)..Top /\ block \in Int
        BY <2>1, <3>1
      <4> QED
        BY <2>1, <3>1, <4>1
    <3>3. parsing' \in BOOLEAN /\ ~parsing'
      BY <3>1
    <3> QED
      BY <3>2, <3>3
  <2> QED
    BY <2>2, <2>3, <2>4
<1>3. ScheduleOK'
  BY <1>0, <1>1, <1>2 DEF ScheduleOK
<1>4. IndexedOK'
  <2>1. CASE block' = block
    BY <1>0, <1>2, <2>1 DEF IndexedOK
  <2>2. CASE block' # block
    <3>1. block' = block + 1 /\ \A i \in DOMAIN Elections : Elections[i].at = block + 1 => i \in indexed'
      BY <2>2 DEF Schedule!BeginBlock, Schedule!Index, Schedule!EndBlock
    <3> SUFFICES ASSUME NEW i \in DOMAIN Elections, Elections[i].at =< block' PROVE i \in indexed'
      BY DEF IndexedOK
    <3>2. Elections[i].at \in Nat
      BY DEF Schedule!ScheduleAssumption
    <3> QED
      BY <1>0, <1>2, <3>1, <3>2 DEF IndexedOK
  <2> QED
    BY <2>1, <2>2
<1>5. CallsOK'
  <2> SUFFICES ASSUME NEW c \in Schedule!Caller, call[c] # <<>>
               PROVE  /\ call[c].at \in Start..Top /\ call[c].at =< block' + 1 /\ Elected(call[c].at) # {}
                      /\ call[c].epoch = Elections[Newest(Elected(call[c].at))].epoch
    BY <1>1 DEF CallsOK
  <2>1. /\ call[c].at \in Start..Top /\ call[c].at =< block + 1 /\ Elected(call[c].at) # {}
        /\ call[c].epoch = Elections[Newest(Elected(call[c].at))].epoch
    BY <1>0 DEF CallsOK
  <2> QED
    BY <1>2, <2>1
<1>6. CacheOK' /\ AnswersAre'
  BY <1>0, <1>1, <1>2 DEF CacheOK, AnswersAre, ScheduleOf
<1> QED
  BY <1>3, <1>4, <1>5, <1>6 DEF ScheduleInv

\* A call is answered from the cache or waits.
LEMMA ScheduleAsk ==
  ASSUME Schedule!ScheduleAssumption, ScheduleInv, NEW c \in Schedule!Caller, NEW h \in Start..Top,
         Schedule!Ask(c, h)
  PROVE  ScheduleInv'
<1>0. ScheduleOK /\ IndexedOK /\ CallsOK /\ CacheOK /\ AnswersAre
  BY DEF ScheduleInv
<1>1. UNCHANGED <<seed, indexed, block, parsing, cache, crashes>>
  BY DEF Schedule!Ask
<1>2. h \in Int /\ h =< block + 1 /\ Schedule!Before(indexed, h) # {}
  BY <1>0 DEF Schedule!Ask, Schedule!MayAsk, ScheduleOK, Schedule!ScheduleAssumption
<1>3. PICK k \in indexed :
        /\ k = Newest(Elected(h)) /\ k \in DOMAIN Elections /\ Elected(h) # {}
        /\ Schedule!ValidElection(indexed, h) = Elections[k]
  BY <1>0, <1>2, ElectionIs
<1>4. IndexedOK' /\ CacheOK'
  BY <1>0, <1>1 DEF IndexedOK, CacheOK, ScheduleOf
<1>5. CASE Schedule!Hits(h, Elections[k].epoch)
  <2>1. answer' = [answer EXCEPT ![c] = [at |-> h, schedule |-> cache.schedule]] /\ call' = call
    BY <1>3, <1>5 DEF Schedule!Ask
  <2>2. cache.schedule = ScheduleOf(k, Schedule!PastRound(h))
    <3>1. PICK i \in indexed : cache.epoch = Elections[i].epoch /\ cache.schedule = ScheduleOf(i, cache.round)
      BY <1>0, <1>5 DEF CacheOK, Schedule!Hits
    <3>2. cache.round = Schedule!PastRound(h) /\ cache.epoch = Elections[k].epoch
      BY <1>5 DEF Schedule!Hits
    <3>3. i = k
      BY <1>0, <1>3, <3>1, <3>2, EpochsDiffer DEF ScheduleOK
    <3> QED
      BY <3>1, <3>2, <3>3
  <2>3. /\ answer' = [d \in Schedule!Caller |-> answer'[d]]
        /\ answer'[c].at = h /\ answer'[c].schedule = cache.schedule
        /\ \A d \in Schedule!Caller : d # c => answer'[d] = answer[d]
    BY <1>0, <2>1 DEF ScheduleOK
  <2>4. AnswersAre'
    <3> SUFFICES ASSUME NEW d \in Schedule!Caller, answer'[d] # <<>>
                 PROVE  /\ answer'[d].at \in Start..Top /\ Elected(answer'[d].at) # {}
                        /\ answer'[d].schedule =
                             ScheduleOf(Newest(Elected(answer'[d].at)), Schedule!PastRound(answer'[d].at))
      BY <1>1 DEF AnswersAre, ScheduleOf
    <3>1. CASE d = c
      BY <1>3, <2>2, <2>3, <3>1
    <3>2. CASE d # c
      BY <1>0, <2>3, <3>2 DEF AnswersAre
    <3> QED
      BY <3>1, <3>2
  <2> QED
    BY <1>0, <1>1, <1>4, <2>1, <2>3, <2>4 DEF ScheduleInv, ScheduleOK, CallsOK
<1>6. CASE ~Schedule!Hits(h, Elections[k].epoch)
  <2>1. call' = [call EXCEPT ![c] = [at |-> h, epoch |-> Elections[k].epoch]] /\ answer' = answer
    BY <1>3, <1>6 DEF Schedule!Ask
  <2>2. /\ call' = [d \in Schedule!Caller |-> call'[d]]
        /\ call'[c].at = h /\ call'[c].epoch = Elections[k].epoch
        /\ \A d \in Schedule!Caller : d # c => call'[d] = call[d]
    BY <1>0, <2>1 DEF ScheduleOK
  <2>3. CallsOK'
    <3> SUFFICES ASSUME NEW d \in Schedule!Caller, call'[d] # <<>>
                 PROVE  /\ call'[d].at \in Start..Top /\ call'[d].at =< block + 1 /\ Elected(call'[d].at) # {}
                        /\ call'[d].epoch = Elections[Newest(Elected(call'[d].at))].epoch
      BY <1>1 DEF CallsOK
    <3>1. CASE d = c
      BY <1>2, <1>3, <2>2, <3>1
    <3>2. CASE d # c
      BY <1>0, <2>2, <3>2 DEF CallsOK
    <3> QED
      BY <3>1, <3>2
  <2> QED
    BY <1>0, <1>1, <1>4, <2>1, <2>2, <2>3 DEF ScheduleInv, ScheduleOK, AnswersAre, ScheduleOf
<1> QED
  BY <1>5, <1>6

\* A call that has waited computes the schedule and keeps it in the cache.
LEMMA ScheduleCompute ==
  ASSUME Schedule!ScheduleAssumption, ScheduleInv, NEW c \in Schedule!Caller, Schedule!Compute(c)
  PROVE  ScheduleInv'
<1>0. ScheduleOK /\ IndexedOK /\ CallsOK /\ CacheOK /\ AnswersAre
  BY DEF ScheduleInv
<1>1. UNCHANGED <<seed, indexed, block, parsing, crashes>> /\ call[c] # <<>>
      /\ call' = [call EXCEPT ![c] = <<>>]
  BY DEF Schedule!Compute
<1>2. PICK h, round : h = call[c].at /\ round = Schedule!PastRound(h)
  OBVIOUS
<1>3. /\ h \in Start..Top /\ h \in Int /\ h =< block + 1 /\ Elected(h) # {}
      /\ call[c].epoch = Elections[Newest(Elected(h))].epoch /\ round \in Schedule!Rounds
  BY <1>0, <1>1, <1>2 DEF CallsOK, Schedule!Rounds
<1>4. PICK k \in indexed :
        k = Newest(Elected(h)) /\ Schedule!ValidElection(indexed, h) = Elections[k]
  BY <1>0, <1>3, ElectionIs
<1>5. /\ cache' = [round |-> round, epoch |-> call[c].epoch, schedule |-> ScheduleOf(k, round)]
      /\ answer' = [answer EXCEPT ![c] = [at |-> h, schedule |-> ScheduleOf(k, round)]]
  BY <1>2, <1>4 DEF Schedule!Compute, ScheduleOf
<1>6. CacheOK'
  <2>1. /\ cache'.round = round /\ cache'.epoch = Elections[k].epoch
        /\ cache'.schedule = ScheduleOf(k, round)
    BY <1>3, <1>4, <1>5
  <2> QED
    BY <1>1, <1>3, <2>1 DEF CacheOK, ScheduleOf
<1>7. /\ answer' = [d \in Schedule!Caller |-> answer'[d]]
      /\ answer'[c].at = h /\ answer'[c].schedule = ScheduleOf(k, round)
      /\ \A d \in Schedule!Caller : d # c => answer'[d] = answer[d]
  BY <1>0, <1>5 DEF ScheduleOK
<1>8. AnswersAre'
  <2> SUFFICES ASSUME NEW d \in Schedule!Caller, answer'[d] # <<>>
               PROVE  /\ answer'[d].at \in Start..Top /\ Elected(answer'[d].at) # {}
                      /\ answer'[d].schedule =
                           ScheduleOf(Newest(Elected(answer'[d].at)), Schedule!PastRound(answer'[d].at))
    BY <1>1 DEF AnswersAre, ScheduleOf
  <2>1. CASE d = c
    BY <1>2, <1>3, <1>4, <1>7, <2>1
  <2>2. CASE d # c
    BY <1>0, <1>7, <2>2 DEF AnswersAre
  <2> QED
    BY <2>1, <2>2
<1>9. CallsOK' /\ call' = [d \in Schedule!Caller |-> call'[d]]
  <2>1. /\ call' = [d \in Schedule!Caller |-> call'[d]] /\ call'[c] = <<>>
        /\ \A d \in Schedule!Caller : d # c => call'[d] = call[d]
    BY <1>0, <1>1 DEF ScheduleOK
  <2> QED
    BY <1>0, <1>1, <2>1 DEF CallsOK
<1> QED
  BY <1>0, <1>1, <1>6, <1>7, <1>8, <1>9 DEF ScheduleInv, ScheduleOK, IndexedOK

\* A crash forgets the cache and who waits.
LEMMA ScheduleCrash ==
  ASSUME Schedule!ScheduleAssumption, ScheduleInv, Schedule!Crash PROVE ScheduleInv'
<1>0. ScheduleOK /\ IndexedOK
  BY DEF ScheduleInv
<1>1. /\ block' \in (Start - 1)..block /\ parsing' = FALSE /\ cache' = <<>> /\ UNCHANGED <<seed, indexed>>
      /\ call' = [c \in Schedule!Caller |-> <<>>] /\ answer' = [c \in Schedule!Caller |-> <<>>]
  BY DEF Schedule!Crash
<1>2. block' \in (Start - 1)..Top /\ block' =< block /\ block \in Int /\ block' \in Int
  BY <1>0, <1>1 DEF ScheduleOK, Schedule!ScheduleAssumption
<1>3. ScheduleOK'
  BY <1>0, <1>1, <1>2 DEF ScheduleOK
<1>4. IndexedOK'
  <2> SUFFICES ASSUME NEW i \in DOMAIN Elections, Elections[i].at =< block' PROVE i \in indexed
    BY <1>1 DEF IndexedOK
  <2>1. Elections[i].at \in Nat
    BY DEF Schedule!ScheduleAssumption
  <2> QED
    BY <1>0, <1>2, <2>1 DEF IndexedOK
<1>5. CallsOK' /\ CacheOK' /\ AnswersAre'
  BY <1>1 DEF CallsOK, CacheOK, AnswersAre
<1> QED
  BY <1>3, <1>4, <1>5 DEF ScheduleInv

\* Every step keeps the invariant.
LEMMA ScheduleStep ==
  ASSUME Schedule!ScheduleAssumption, ScheduleInv, [Schedule!Next]_(Schedule!vars)
  PROVE  ScheduleInv'
<1>1. CASE Schedule!Next
  BY <1>1, ScheduleParses, ScheduleAsk, ScheduleCompute, ScheduleCrash DEF Schedule!Next
<1>2. CASE UNCHANGED Schedule!vars
  BY <1>2 DEF Schedule!vars, ScheduleInv, ScheduleOK, IndexedOK, CallsOK, CacheOK, AnswersAre, ScheduleOf
<1> QED
  BY <1>1, <1>2

\* So the invariant holds always.
LEMMA ScheduleAlways == PartsSpec => [](scenario = "schedule" => ScheduleInv)
<1>1. PartsInit => (scenario = "schedule" => ScheduleInv)
  BY ScheduleInit, PartsAssumption DEF PartsInit
<1>2. (scenario = "schedule" => ScheduleInv) /\ [PartsNext]_vars => (scenario = "schedule" => ScheduleInv)'
  BY ScheduleStep, PartsStep, PartsAssumption
<1> QED
  BY <1>1, <1>2, PTL DEF PartsSpec


\* Whatever is in the cache, whichever caller has put it there while elections were
\* indexed, and however often the node was restarted: what getBlockSchedule answers
\* for a height is the schedule of the last election before it on Hive.
THEOREM SchedulesAreOfHive ==
  PartsSpec => []HiveDecides
<1>1. (scenario = "schedule" => ScheduleInv) => HiveDecides
  <2> SUFFICES ASSUME ScheduleInv PROVE Schedule!ScheduleTypeOK /\ Schedule!HiveDecides
    BY DEF HiveDecides
  <2>0. ScheduleOK /\ IndexedOK /\ CallsOK /\ CacheOK /\ AnswersAre
    BY DEF ScheduleInv
  <2>1. ASSUME NEW a \in Schedule!Answers
        PROVE  /\ a.at \in Start..Top /\ Len(a.schedule) = TotalRounds
               /\ a.schedule =
                    Schedule!Scheduled(Schedule!ValidElection(DOMAIN Elections, a.at).members,
                                       seed[Schedule!PastRound(a.at)], Schedule!PastRound(a.at))
    <3>1. PICK c \in Schedule!Caller : a = answer[c] /\ answer[c] # <<>>
      BY DEF Schedule!Answers
    <3>2. /\ a.at \in Start..Top
          /\ a.schedule = ScheduleOf(Newest(Elected(a.at)), Schedule!PastRound(a.at))
      BY <2>0, <3>1 DEF AnswersAre
    <3>3. Schedule!ValidElection(DOMAIN Elections, a.at) = Elections[Newest(Elected(a.at))]
      BY DEF Schedule!ValidElection, Elected, Newest, Witnesses!Newest
    <3>4. Len(a.schedule) = TotalRounds
      BY <3>2, ScheduleLength, PartsAssumption DEF ScheduleOf
    <3> QED
      BY <3>2, <3>3, <3>4 DEF ScheduleOf
  <2>2. Schedule!ScheduleTypeOK
    BY <2>0, <2>1 DEF Schedule!ScheduleTypeOK, ScheduleOK, CacheOK
  <2> QED
    BY <2>1, <2>2 DEF Schedule!HiveDecides
<1> QED
  BY <1>1, ScheduleAlways, PTL

-------------------------------------------------------------------------------
(* What a schedule is made of. *)

\* A sequence without one of its elements.
LEMMA Removed ==
  ASSUME NEW T, NEW s \in Seq(T), NEW k \in 1..Len(s)
  PROVE  /\ Schedule!RemoveAt(s, k) \in Seq(T) /\ Len(Schedule!RemoveAt(s, k)) = Len(s) - 1
         /\ \A i \in 1..(Len(s) - 1) :
              Schedule!RemoveAt(s, k)[i] = IF i < k THEN s[i] ELSE s[i + 1]
<1> DEFINE a == SubSeq(s, 1, k - 1)
           b == SubSeq(s, k + 1, Len(s))
<1>1. a \in Seq(T) /\ Len(a) = k - 1 /\ \A i \in 1..(k - 1) : a[i] = s[i]
  OBVIOUS
<1>2. b \in Seq(T) /\ Len(b) = Len(s) - k /\ \A i \in 1..(Len(s) - k) : b[i] = s[k + i]
  OBVIOUS
<1> HIDE DEF a, b
<1>3. a \o b \in Seq(T) /\ Len(a \o b) = Len(s) - 1
  BY <1>1, <1>2
<1>4. ASSUME NEW i \in 1..(Len(s) - 1) PROVE (a \o b)[i] = IF i < k THEN s[i] ELSE s[i + 1]
  <2>1. CASE i < k
    <3>1. i \in 1..(k - 1) /\ (a \o b)[i] = a[i]
      BY <1>1, <1>2, <2>1
    <3> QED
      BY <1>1, <2>1, <3>1
  <2>2. CASE i >= k
    <3>1. i - (k - 1) \in 1..(Len(s) - k) /\ k + (i - (k - 1)) = i + 1
      BY <2>2
    <3>2. (a \o b)[i] = b[i - (k - 1)]
      BY <1>1, <1>2, <2>2
    <3>3. b[i - (k - 1)] = s[i + 1]
      BY <1>2, <3>1
    <3> QED
      BY <2>2, <3>2, <3>3
  <2>3. i \in Int /\ k \in Int
    OBVIOUS
  <2>4. i < k \/ i >= k
    BY <2>3
  <2> QED
    BY <2>1, <2>2, <2>4
<1> QED
  BY <1>3, <1>4 DEF Schedule!RemoveAt, a, b

\* The place among the keys left that the i-th draw hits, and the key there.
Drawn(draws, left, i) == (draws[i] % Len(left)) + 1
KeyDrawn(draws, left, i) == left[Drawn(draws, left, i)]

\* What shuffle does with its keys.
Draining(N, draws, left) ==
  /\ left[0] = [k \in 1..N |-> k]
  /\ \A i \in 1..N : left[i - 1] # <<>> =>
       left[i] = Schedule!RemoveAt(left[i - 1], Drawn(draws, left[i - 1], i))

LeftBy(N, draws, left, i) ==
  /\ left[i] \in Seq(1..N) /\ Len(left[i]) = N - i
  /\ \A k, l \in 1..(N - i) : left[i][k] = left[i][l] => k = l
  /\ \A j \in 1..i : \A k \in 1..(N - i) : left[i][k] # KeyDrawn(draws, left[j - 1], j)

\* The keys left by the first draws: as many as there are draws left, each once,
\* and none of those drawn.
LEMMA KeysLeft ==
  ASSUME NEW N \in Nat, NEW draws \in [1..N -> Nat], NEW left, Draining(N, draws, left)
  PROVE  \A i \in 0..N : LeftBy(N, draws, left, i)
<1> DEFINE Good(i) == LeftBy(N, draws, left, i)
           Bad == {i \in 0..N : ~Good(i)}
<1>1. ASSUME Bad # {} PROVE FALSE
  <2>1. PICK i \in Bad : \A k \in Bad : i =< k
    <3>1. Bad \subseteq Nat
      OBVIOUS
    <3> HIDE DEF Bad
    <3> QED
      BY <1>1, <3>1, LeastNat
  <2>2. Good(0)
    <3>1. left[0] = [k \in 1..N |-> k]
      BY DEF Draining
    <3>2. left[0] \in Seq(1..N) /\ Len(left[0]) = N /\ \A k \in 1..N : left[0][k] = k
      BY <3>1
    <3>3. N - 0 = N /\ 1..0 = {}
      OBVIOUS
    <3> QED
      BY ONLY <3>2, <3>3 DEF LeftBy
  <2>3. i \in 1..N /\ i - 1 \in 0..N /\ N - (i - 1) = N - i + 1 /\ i =< N
    BY <2>1, <2>2
  <2>4. Good(i - 1)
    <3>1. i - 1 \notin Bad
      <4> HIDE DEF Bad
      <4> QED
        BY <2>1, <2>3
    <3> HIDE DEF Good
    <3> QED
      BY <2>3, <3>1
  <2> DEFINE s == left[i - 1]
             q == Drawn(draws, s, i)
  <2>5. s \in Seq(1..N) /\ Len(s) = N - i + 1 /\ s # <<>>
    BY <2>3, <2>4 DEF LeftBy
  <2>6. q \in 1..Len(s)
    <3>1. PICK L, d : L = Len(s) /\ d = draws[i]
      OBVIOUS
    <3>2. L \in Nat \ {0} /\ d \in Nat
      BY <2>3, <2>5, <3>1
    <3>3. (d % L) + 1 \in 1..L
      BY <3>2
    <3> QED
      BY <3>1, <3>3 DEF Drawn
  <2>7. left[i] = Schedule!RemoveAt(s, q)
    BY <2>3, <2>5 DEF Draining
  <2> HIDE DEF q, Good
  <2>8. /\ left[i] \in Seq(1..N) /\ Len(left[i]) = N - i
        /\ \A k \in 1..(N - i) : left[i][k] = IF k < q THEN s[k] ELSE s[k + 1]
    <3>1. /\ Schedule!RemoveAt(s, q) \in Seq(1..N) /\ Len(Schedule!RemoveAt(s, q)) = Len(s) - 1
          /\ \A k \in 1..(Len(s) - 1) :
               Schedule!RemoveAt(s, q)[k] = IF k < q THEN s[k] ELSE s[k + 1]
      <4> HIDE DEF s
      <4> QED
        BY <2>5, <2>6, Removed
    <3>2. Len(s) - 1 = N - i
      BY <2>3, <2>5
    <3> QED
      BY <2>7, <3>1, <3>2
  <2>9. \A k, l \in 1..(N - i + 1) : s[k] = s[l] => k = l
    BY <2>3, <2>4 DEF Good, LeftBy
  <2>10. ASSUME NEW k \in 1..(N - i)
         PROVE  \E m \in 1..(N - i + 1) :
                  m # q /\ left[i][k] = s[m] /\ m = (IF k < q THEN k ELSE k + 1)
    <3>1. q \in Int /\ k \in Int /\ N - i \in Int /\ k >= 1 /\ k =< N - i
      BY <2>3, <2>5, <2>6
    <3>2. CASE k < q
      <4>1. k \in 1..(N - i + 1) /\ k # q /\ left[i][k] = s[k]
        BY <2>8, <3>1, <3>2
      <4> QED
        BY <3>2, <4>1
    <3>3. CASE ~(k < q)
      <4>1. k + 1 \in 1..(N - i + 1) /\ k + 1 # q /\ left[i][k] = s[k + 1]
        BY <2>8, <3>1, <3>3
      <4> QED
        BY <3>3, <4>1
    <3> QED
      BY <3>2, <3>3
  <2>11. \A k, l \in 1..(N - i) : left[i][k] = left[i][l] => k = l
    <3> SUFFICES ASSUME NEW k \in 1..(N - i), NEW l \in 1..(N - i), left[i][k] = left[i][l]
                 PROVE  k = l
      OBVIOUS
    <3>1. PICK m \in 1..(N - i + 1) : left[i][k] = s[m] /\ m = (IF k < q THEN k ELSE k + 1)
      BY <2>10
    <3>2. PICK o \in 1..(N - i + 1) : left[i][l] = s[o] /\ o = (IF l < q THEN l ELSE l + 1)
      BY <2>10
    <3>3. m = o
      BY <2>9, <3>1, <3>2
    <3>4. q \in Int
      BY <2>5, <2>6
    <3> QED
      BY ONLY <2>3, <3>1, <3>2, <3>3, <3>4, k \in Int, l \in Int
  <2>12. ASSUME NEW j \in 1..i, NEW k \in 1..(N - i)
         PROVE  left[i][k] # KeyDrawn(draws, left[j - 1], j)
    <3>1. PICK m \in 1..(N - i + 1) : m # q /\ left[i][k] = s[m]
      BY <2>10
    <3>2. CASE j = i
      <4>1. KeyDrawn(draws, left[j - 1], j) = s[q]
        BY <3>2 DEF KeyDrawn, q
      <4> QED
        BY <2>5, <2>6, <2>9, <3>1, <4>1
    <3>3. CASE j # i
      <4>1. j \in 1..(i - 1) /\ m \in 1..(N - (i - 1))
        BY <2>3, <3>1, <3>3
      <4>2. \A o \in 1..(i - 1) : \A l \in 1..(N - (i - 1)) :
              s[l] # KeyDrawn(draws, left[o - 1], o)
        BY <2>4 DEF Good, LeftBy
      <4> QED
        BY <3>1, <4>1, <4>2
    <3> QED
      BY <3>2, <3>3
  <2>13. Good(i)
    BY <2>8, <2>11, <2>12 DEF Good, LeftBy
  <2> QED
    BY <2>1, <2>13
<1> HIDE DEF Good
<1>2. \A i \in 0..N : Good(i)
  BY <1>1
<1> QED
  BY <1>2 DEF Good

\* The keys exist: shuffle is defined.
LEMMA KeysExist ==
  ASSUME NEW N \in Nat, NEW draws \in [1..N -> Nat]
  PROVE  \E keys : keys = [i \in 0..N |->
           IF i = 0 THEN [k \in 1..N |-> k]
           ELSE Schedule!RemoveAt(keys[i - 1], (draws[i] % Len(keys[i - 1])) + 1)]
<1> DEFINE S == Seq(1..N)
           id == [k \in 1..N |-> k]
           pull == [p \in S \X (1..N) |->
                      IF p[1] = <<>> THEN <<>>
                      ELSE Schedule!RemoveAt(p[1], Drawn(draws, p[1], p[2]))]
<1>1. pull \in [S \X (1..N) -> S]
  <2>1. ASSUME NEW x \in S, NEW i \in 1..N, x # <<>>
        PROVE  Schedule!RemoveAt(x, Drawn(draws, x, i)) \in S
    <3>1. PICK L, d : L = Len(x) /\ d = draws[i]
      OBVIOUS
    <3>2. L \in Nat \ {0} /\ d \in Nat
      BY <2>1, <3>1
    <3>3. Drawn(draws, x, i) \in 1..Len(x)
      BY <3>1, <3>2 DEF Drawn
    <3> QED
      BY <3>3, Removed
  <2>2. ASSUME NEW p \in S \X (1..N) PROVE p[1] \in S /\ p[2] \in 1..N
    OBVIOUS
  <2>3. <<>> \in S
    OBVIOUS
  <2> HIDE DEF S
  <2> QED
    BY <2>1, <2>2, <2>3
<1>2. \A x \in S, i \in 1..N :
        x # <<>> => pull[<<x, i>>] = Schedule!RemoveAt(x, Drawn(draws, x, i))
  OBVIOUS
<1>3. id \in S
  OBVIOUS
<1> HIDE DEF pull, id, S
<1>4. PICK f : Steps(f, S, N, id, pull)
  BY <1>1, <1>3, StepsExist
<1>5. f = [i \in 0..N |-> f[i]] /\ f[0] = [k \in 1..N |-> k]
  BY <1>4 DEF Steps, id
<1>6. ASSUME NEW i \in 1..N, f[i - 1] # <<>>
      PROVE  f[i] = Schedule!RemoveAt(f[i - 1], Drawn(draws, f[i - 1], i))
  <2>1. f[i - 1] \in S /\ f[i] = pull[<<f[i - 1], i>>]
    BY <1>4 DEF Steps
  <2> QED
    BY <1>2, <1>6, <2>1
<1>7. \A i \in 0..N : f[i] \in Seq(1..N) /\ Len(f[i]) = N - i
  <2>1. Draining(N, draws, f)
    BY <1>5, <1>6 DEF Draining
  <2>2. \A i \in 0..N : LeftBy(N, draws, f, i)
    BY <2>1, KeysLeft
  <2> QED
    BY <2>2 DEF LeftBy
<1>8. ASSUME NEW i \in 0..N
      PROVE  f[i] = IF i = 0 THEN [k \in 1..N |-> k]
                    ELSE Schedule!RemoveAt(f[i - 1], (draws[i] % Len(f[i - 1])) + 1)
  <2>1. CASE i = 0
    BY <1>5, <2>1
  <2>2. CASE i # 0
    <3>1. i \in 1..N /\ i - 1 \in 0..N
      BY <2>2
    <3>2. Len(f[i - 1]) = N - (i - 1)
      BY <1>7, <3>1
    <3>3. f[i - 1] # <<>>
      <4> SUFFICES ASSUME f[i - 1] = <<>> PROVE FALSE
        OBVIOUS
      <4>1. Len(f[i - 1]) = 0
        OBVIOUS
      <4> QED
        BY ONLY <3>1, <3>2, <4>1, N \in Nat, i \in 0..N
    <3> QED
      BY <1>6, <2>2, <3>1, <3>3 DEF Drawn
  <2> QED
    BY <2>1, <2>2
<1> DEFINE Key(i) == IF i = 0 THEN [k \in 1..N |-> k]
                     ELSE Schedule!RemoveAt(f[i - 1], (draws[i] % Len(f[i - 1])) + 1)
<1>9. \A i \in 0..N : f[i] = Key(i)
  BY <1>8
<1>10. f = [i \in 0..N |-> Key(i)]
  <2> HIDE DEF Key
  <2> QED
    BY <1>5, <1>9
<1> QED
  BY <1>10

\* A shuffled list is a permutation of the list.
LEMMA ShuffledPermutes ==
  ASSUME NEW N \in Nat, NEW arr, DOMAIN arr = 1..N, Len(arr) = N, NEW draws \in [1..N -> Nat]
  PROVE  \E p \in Bijection(1..N, 1..N) :
           Schedule!Shuffled(arr, draws) = [i \in 1..N |-> arr[p[i]]]
<1> DEFINE Rec(g) == g = [i \in 0..N |->
             IF i = 0 THEN [k \in 1..N |-> k]
             ELSE Schedule!RemoveAt(g[i - 1], (draws[i] % Len(g[i - 1])) + 1)]
           keys == CHOOSE g : Rec(g)
           p == [i \in 1..N |-> KeyDrawn(draws, keys[i - 1], i)]
<1>1. Rec(keys)
  <2>1. \E g : Rec(g)
    BY KeysExist
  <2> HIDE DEF Rec
  <2> QED
    BY <2>1
<1>2. Schedule!Shuffled(arr, draws) =
        [i \in 1..N |-> arr[keys[i - 1][(draws[i] % Len(keys[i - 1])) + 1]]]
  BY DEF Schedule!Shuffled
<1> HIDE DEF keys
<1>3. /\ keys[0] = [k \in 1..N |-> k]
      /\ \A i \in 1..N : keys[i] = Schedule!RemoveAt(keys[i - 1], Drawn(draws, keys[i - 1], i))
  <2>1. 0 \in 0..N /\ \A i \in 1..N : i \in 0..N /\ i # 0
    OBVIOUS
  <2> QED
    BY <1>1, <2>1 DEF Drawn
<1>4. \A i \in 0..N :
        /\ keys[i] \in Seq(1..N) /\ Len(keys[i]) = N - i
        /\ \A k, l \in 1..(N - i) : keys[i][k] = keys[i][l] => k = l
        /\ \A j \in 1..i : \A k \in 1..(N - i) : keys[i][k] # KeyDrawn(draws, keys[j - 1], j)
  <2>1. Draining(N, draws, keys)
    BY <1>3 DEF Draining
  <2>2. \A i \in 0..N : LeftBy(N, draws, keys, i)
    BY <2>1, KeysLeft
  <2> QED
    BY <2>2 DEF LeftBy
<1>5. ASSUME NEW i \in 1..N
      PROVE  Drawn(draws, keys[i - 1], i) \in 1..(N - (i - 1)) /\ p[i] \in 1..N
  <2>1. i - 1 \in 0..N /\ N - (i - 1) \in Nat \ {0}
    OBVIOUS
  <2>2. PICK L, d : L = Len(keys[i - 1]) /\ d = draws[i]
    OBVIOUS
  <2>3. L = N - (i - 1) /\ d \in Nat /\ keys[i - 1] \in Seq(1..N)
    BY <1>4, <2>1, <2>2
  <2>4. (d % L) + 1 \in 1..L
    BY <2>1, <2>3
  <2>5. Drawn(draws, keys[i - 1], i) \in 1..L
    BY <2>2, <2>4 DEF Drawn
  <2>6. keys[i - 1][Drawn(draws, keys[i - 1], i)] \in 1..N
    <3>1. \A k \in 1..Len(keys[i - 1]) : keys[i - 1][k] \in 1..N
      BY <2>3
    <3> QED
      BY ONLY <2>2, <2>5, <3>1
  <2>7. p[i] \in 1..N
    BY <2>6 DEF KeyDrawn
  <2> HIDE DEF p
  <2> QED
    BY <2>3, <2>5, <2>7
<1>6. ASSUME NEW i \in 1..N, NEW j \in 1..N, j < i PROVE p[i] # p[j]
  <2>1. i - 1 \in 0..N /\ j \in 1..(i - 1) /\ Drawn(draws, keys[i - 1], i) \in 1..(N - (i - 1))
    BY <1>5, <1>6
  <2>2. \A k \in 1..(N - (i - 1)) : keys[i - 1][k] # KeyDrawn(draws, keys[j - 1], j)
    BY <1>4, <2>1
  <2>3. p[i] = keys[i - 1][Drawn(draws, keys[i - 1], i)] /\ p[j] = KeyDrawn(draws, keys[j - 1], j)
    BY DEF KeyDrawn
  <2> HIDE DEF p
  <2> QED
    BY <2>1, <2>2, <2>3
<1>7. p \in [1..N -> 1..N]
  BY <1>5
<1>8. \A i, j \in 1..N : p[i] = p[j] => i = j
  <2> HIDE DEF p
  <2> SUFFICES ASSUME NEW i \in 1..N, NEW j \in 1..N, p[i] = p[j] PROVE i = j
    OBVIOUS
  <2>1. ~(i < j) /\ ~(j < i)
    BY <1>6
  <2> QED
    BY <2>1
<1>9. Schedule!Shuffled(arr, draws) = [i \in 1..N |-> arr[p[i]]]
  BY <1>2 DEF KeyDrawn, Drawn
<1> HIDE DEF p
<1>10. p \in Injection(1..N, 1..N)
  BY <1>7, <1>8, Fun_IsInj
<1>11. p \in Surjection(1..N, 1..N)
  BY <1>10, FS_Injection, FS_Interval
<1>12. p \in Bijection(1..N, 1..N)
  BY <1>10, <1>11, Fun_IsBij
<1> QED
  BY <1>9, <1>12

\* How often a value comes in a list.
Count(f, N, v) == Cardinality({i \in 1..N : f[i] = v})

\* So each value comes as often.
LEMMA ShuffledCounts ==
  ASSUME NEW N \in Nat, NEW arr, DOMAIN arr = 1..N, Len(arr) = N, NEW draws \in [1..N -> Nat], NEW v
  PROVE  Count(Schedule!Shuffled(arr, draws), N, v) = Count(arr, N, v)
<1>1. PICK p \in Bijection(1..N, 1..N) :
        Schedule!Shuffled(arr, draws) = [i \in 1..N |-> arr[p[i]]]
  BY ShuffledPermutes
<1> DEFINE A == {i \in 1..N : Schedule!Shuffled(arr, draws)[i] = v}
           B == {k \in 1..N : arr[k] = v}
           q == [i \in A |-> p[i]]
<1>2. p \in [1..N -> 1..N] /\ (\A a, b \in 1..N : p[a] = p[b] => a = b)
      /\ \A t \in 1..N : \E s \in 1..N : p[s] = t
  <2>1. p \in Bijection(1..N, 1..N)
    BY <1>1
  <2> QED
    BY ONLY <2>1 DEF Bijection, Injection, Surjection, IsInjective
<1>3. A = {i \in 1..N : arr[p[i]] = v}
  BY <1>1
<1>4. q \in [A -> B]
  BY <1>2, <1>3
<1>5. \A a, b \in A : q[a] = q[b] => a = b
  BY <1>2
<1>6. \A t \in B : \E s \in A : q[s] = t
  BY <1>2, <1>3
<1>7. IsFiniteSet(A)
  BY FS_Interval, FS_Subset, A \in SUBSET (1..N)
<1> HIDE DEF A, B, q
<1>8. q \in Bijection(A, B)
  BY <1>4, <1>5, <1>6, Fun_IsBij
<1>9. Cardinality(B) = Cardinality(A)
  BY <1>7, <1>8, FS_Bijection, Fun_ExistsBij
<1> QED
  BY <1>9 DEF A, B, Count

-------------------------------------------------------------------------------
(* Whose turn it is. *)

\* A remainder is what is left of a multiple.
LEMMA RemainderIs ==
  ASSUME NEW a \in Nat, NEW L \in Nat \ {0}, NEW q \in Int, NEW r \in 0..(L - 1), a = L * q + r
  PROVE  a % L = r /\ a \div L = q
<1>1. a % L \in 0..(L - 1) /\ a \div L \in Nat /\ a = L * (a \div L) + (a % L)
  OBVIOUS
<1>2. PICK m, o : m = a % L /\ o = a \div L
  OBVIOUS
<1>3. m \in 0..(L - 1) /\ o \in Nat /\ L * q + r = L * o + m
  BY <1>1, <1>2
<1>4. ~(q < o)
  <2> SUFFICES ASSUME q < o PROVE FALSE
    OBVIOUS
  <2>1. L * (q + 1) =< L * o /\ L * (q + 1) = L * q + L
    BY <1>3
  <2> QED
    BY <1>3, <2>1
<1>5. ~(o < q)
  <2> SUFFICES ASSUME o < q PROVE FALSE
    OBVIOUS
  <2>1. L * (o + 1) =< L * q /\ L * (o + 1) = L * o + L
    BY <1>3
  <2> QED
    BY <1>3, <2>1
<1>6. q = o
  BY <1>3, <1>4, <1>5
<1> QED
  BY <1>2, <1>3, <1>6

\* The slots of T that are shared out to the i-th of L members.
Turns(T, L, i) == {x \in 1..T : ((x - 1) % L) + 1 = i}

\* They are as many as those of any other, or one more.
LEMMA TurnsAreFair ==
  ASSUME NEW T \in Nat, NEW L \in Nat \ {0}, NEW i \in 1..L, NEW j \in 1..L
  PROVE  Cardinality(Turns(T, L, i)) =< Cardinality(Turns(T, L, j)) + 1
<1> DEFINE A == Turns(T, L, i)
           B == Turns(T, L, j)
           C == IF j =< i THEN A ELSE A \ {i}
           move == IF j =< i THEN j - i ELSE j - i - L
           f == [x \in C |-> x + move]
<1>1. IsFiniteSet(A) /\ IsFiniteSet(B)
  <2>1. A \in SUBSET (1..T) /\ B \in SUBSET (1..T)
    BY DEF Turns
  <2>2. IsFiniteSet(1..T)
    BY FS_Interval
  <2> QED
    BY ONLY <2>1, <2>2, FS_Subset
<1>2. ASSUME NEW x \in C PROVE x \in Int /\ x + move \in B
  <2>1. x \in 1..T /\ (x - 1) % L = i - 1
    BY DEF Turns
  <2>2. PICK q : q = (x - 1) \div L
    OBVIOUS
  <2>3. q \in Nat /\ x - 1 = L * q + (i - 1) /\ x - 1 \in Nat
    BY <2>1, <2>2
  <2>4. CASE j =< i
    <3>0. L * q \in Nat
      BY ONLY <2>3, L \in Nat
    <3>1. x + (j - i) - 1 = L * q + (j - 1) /\ L * q \in Nat /\ j - 1 \in 0..(L - 1)
      BY ONLY <2>1, <2>3, <3>0, L \in Nat, i \in 1..L, j \in 1..L
    <3>2. x + (j - i) - 1 \in Nat /\ x + (j - i) =< x
      BY <2>1, <2>4, <3>1
    <3>3. (x + (j - i) - 1) % L = j - 1
      <4>1. q \in Int /\ x + (j - i) - 1 \in Nat
        BY <2>3, <3>2
      <4> QED
        BY ONLY <3>1, <4>1, L \in Nat \ {0}, RemainderIs
    <3> QED
      BY <2>1, <2>4, <3>2, <3>3 DEF Turns
  <2>5. CASE ~(j =< i)
    <3>1. x # i
      BY <2>5
    <3>2. q # 0
      <4> SUFFICES ASSUME q = 0 PROVE FALSE
        OBVIOUS
      <4>1. L * q = 0
        OBVIOUS
      <4> QED
        BY ONLY <2>1, <2>3, <3>1, <4>1, i \in 1..L, L \in Nat
    <3>3. q - 1 \in Nat /\ L * q = L * (q - 1) + L /\ L * (q - 1) \in Nat
      BY <2>3, <3>2
    <3>4. x + (j - i - L) - 1 = L * (q - 1) + (j - 1) /\ j - 1 \in 0..(L - 1)
      BY ONLY <2>1, <2>3, <3>3, L \in Nat, i \in 1..L, j \in 1..L
    <3>5. x + (j - i - L) - 1 \in Nat /\ x + (j - i - L) =< x
      BY <2>1, <3>3, <3>4
    <3>6. (x + (j - i - L) - 1) % L = j - 1
      <4>1. q - 1 \in Int
        BY <3>3
      <4> QED
        BY ONLY <3>4, <3>5, <4>1, L \in Nat \ {0}, RemainderIs
    <3> QED
      BY <2>1, <2>5, <3>5, <3>6 DEF Turns
  <2> QED
    BY <2>1, <2>4, <2>5
<1>3. move \in Int
  OBVIOUS
<1>4. f \in [C -> B] /\ \A x, y \in C : f[x] = f[y] => x = y
  <2> HIDE DEF B, C, move
  <2>1. \A x \in C : f[x] = x + move /\ x \in Int
    BY <1>2
  <2>2. f \in [C -> B]
    BY <1>2
  <2>3. \A x, y \in C : f[x] = f[y] => x = y
    <3> HIDE DEF f
    <3> SUFFICES ASSUME NEW x \in C, NEW y \in C, f[x] = f[y] PROVE x = y
      OBVIOUS
    <3>1. x + move = y + move /\ x \in Int /\ y \in Int
      BY <2>1
    <3> QED
      BY ONLY <1>3, <3>1
  <2> QED
    BY <2>2, <2>3
<1>5. Cardinality(C) =< Cardinality(B)
  <2> HIDE DEF B, C, f
  <2>1. f \in Injection(C, B)
    BY <1>4, Fun_IsInj
  <2> QED
    BY <1>1, <2>1, FS_Injection
<1>6. Cardinality(A) \in Nat /\ Cardinality(B) \in Nat /\ Cardinality(A) =< Cardinality(C) + 1
  <2> HIDE DEF A, B
  <2>1. Cardinality(A) \in Nat /\ Cardinality(B) \in Nat
    BY <1>1, FS_CardinalityType
  <2>2. Cardinality(A \ {i}) = Cardinality(A) - 1 \/ Cardinality(A \ {i}) = Cardinality(A)
    BY <1>1, FS_RemoveElement
  <2> QED
    BY <2>1, <2>2
<1>7. Cardinality(C) \in Nat
  <2>1. IsFiniteSet(C)
    <3> HIDE DEF A
    <3> QED
      BY <1>1, FS_RemoveElement
  <2> HIDE DEF C
  <2> QED
    BY <2>1, FS_CardinalityType
<1> HIDE DEF A, B, C
<1>8. Cardinality(A) =< Cardinality(B) + 1
  BY <1>5, <1>6, <1>7
<1> QED
  BY <1>8 DEF A, B

\* What the schedule of a round is, place by place.
MadeOf(schedule, members, draws, round, arr) ==
  /\ DOMAIN arr = 1..TotalRounds /\ Len(arr) = TotalRounds
  /\ \A x \in 1..TotalRounds : arr[x] = members[((x - 1) % Len(members)) + 1]
  /\ DOMAIN schedule = 1..TotalRounds
  /\ \A i \in 1..TotalRounds : /\ schedule[i].account = Schedule!Shuffled(arr, draws)[i]
                               /\ schedule[i].bn = round + (i - 1) * RoundLength

\* What getBlockSchedule computes is of that kind.
LEMMA ScheduledIs ==
  ASSUME Schedule!ScheduleAssumption, NEW members, NEW draws, NEW round,
         NEW arr, arr = Schedule!Shares(members)
  PROVE  MadeOf(Schedule!Scheduled(members, draws, round), members, draws, round, arr)
<1>1. arr = [x \in 1..TotalRounds |-> members[((x - 1) % Len(members)) + 1]] /\ TotalRounds \in Nat
  BY DEF Schedule!Shares, Schedule!ScheduleAssumption
<1>2. PICK T : T = {arr[x] : x \in 1..TotalRounds}
  OBVIOUS
<1>3. arr \in Seq(T) /\ Len(arr) = TotalRounds
  BY <1>1, <1>2
<1>4. DOMAIN Schedule!Shuffled(arr, draws) = 1..TotalRounds
  BY <1>1 DEF Schedule!Shuffled
<1>5. PICK z : z = Schedule!Shuffled(arr, draws)
  OBVIOUS
<1>6. Schedule!Scheduled(members, draws, round) =
        [i \in 1..TotalRounds |-> [account |-> z[i], bn |-> round + (i - 1) * RoundLength]]
  BY <1>4, <1>5 DEF Schedule!Scheduled, Schedule!Numbered
<1>7. PICK y : y = Schedule!Scheduled(members, draws, round)
  OBVIOUS
<1>8. /\ DOMAIN y = 1..TotalRounds
      /\ \A i \in 1..TotalRounds :
           y[i].account = z[i] /\ y[i].bn = round + (i - 1) * RoundLength
  BY <1>6, <1>7
<1>9. DOMAIN arr = 1..TotalRounds
      /\ \A x \in 1..TotalRounds : arr[x] = members[((x - 1) % Len(members)) + 1]
  BY <1>1
<1> QED
  BY <1>3, <1>5, <1>7, <1>8, <1>9 DEF MadeOf

\* What the schedule's module counts.
LEMMA SlotsCounted ==
  ASSUME NEW schedule, NEW m
  PROVE  Schedule!SlotsOf(schedule, m) = Cardinality({i \in DOMAIN schedule : schedule[i].account = m})
  BY DEF Schedule!SlotsOf, Schedule!Cardinality, Cardinality

\* However the slots are shuffled, no member has two more than another.
LEMMA ScheduleIsFair ==
  ASSUME Schedule!ScheduleAssumption, NEW e \in DOMAIN Elections, NEW draws \in Schedule!Draws,
         NEW round, NEW i \in DOMAIN Elections[e].members, NEW j \in DOMAIN Elections[e].members,
         NEW schedule, schedule = Schedule!Scheduled(Elections[e].members, draws, round)
  PROVE  Schedule!SlotsOf(schedule, Elections[e].members[i]) =<
           Schedule!SlotsOf(schedule, Elections[e].members[j]) + 1
<1>1. PICK members, L, arr : members = Elections[e].members /\ L = Len(members)
                             /\ arr = Schedule!Shares(members)
  OBVIOUS
<1>2. /\ DOMAIN members = 1..L /\ L \in Nat \ {0}
      /\ \A k, l \in 1..L : members[k] = members[l] => k = l
  BY <1>1 DEF Schedule!ScheduleAssumption, Schedule!IsInjective
<1>3. /\ DOMAIN arr = 1..TotalRounds /\ Len(arr) = TotalRounds
      /\ \A x \in 1..TotalRounds : arr[x] = members[((x - 1) % L) + 1]
      /\ DOMAIN schedule = 1..TotalRounds
      /\ \A k \in 1..TotalRounds : schedule[k].account = Schedule!Shuffled(arr, draws)[k]
  <2>1. MadeOf(schedule, members, draws, round, arr)
    BY <1>1, ScheduledIs
  <2> QED
    BY ONLY <1>1, <2>1 DEF MadeOf
<1>4. TotalRounds \in Nat /\ draws \in [1..TotalRounds -> Nat]
  BY DEF Schedule!Draws, Schedule!ScheduleAssumption
<1>5. ASSUME NEW k \in 1..L
      PROVE  Schedule!SlotsOf(schedule, members[k]) = Cardinality(Turns(TotalRounds, L, k))
  <2>1. Schedule!SlotsOf(schedule, members[k]) =
          Cardinality({x \in 1..TotalRounds : Schedule!Shuffled(arr, draws)[x] = members[k]})
    <3>1. {x \in DOMAIN schedule : schedule[x].account = members[k]} =
            {x \in 1..TotalRounds : Schedule!Shuffled(arr, draws)[x] = members[k]}
      BY <1>3
    <3> QED
      BY <3>1, SlotsCounted
  <2>2. Cardinality({x \in 1..TotalRounds : Schedule!Shuffled(arr, draws)[x] = members[k]}) =
          Cardinality({x \in 1..TotalRounds : arr[x] = members[k]})
    <3>1. DOMAIN arr = 1..TotalRounds /\ Len(arr) = TotalRounds
      BY <1>3
    <3>2. Count(Schedule!Shuffled(arr, draws), TotalRounds, members[k]) =
            Count(arr, TotalRounds, members[k])
      BY ONLY <1>4, <3>1, ShuffledCounts
    <3> QED
      BY ONLY <3>2 DEF Count
  <2>3. {x \in 1..TotalRounds : arr[x] = members[k]} = Turns(TotalRounds, L, k)
    <3>1. ASSUME NEW x \in 1..TotalRounds
          PROVE  arr[x] = members[k] <=> ((x - 1) % L) + 1 = k
      <4>1. ((x - 1) % L) + 1 \in 1..L
        BY <1>2
      <4> QED
        BY <1>2, <1>3, <4>1
    <3> QED
      BY <3>1 DEF Turns
  <2> QED
    BY <2>1, <2>2, <2>3
<1>6. i \in 1..L /\ j \in 1..L
  BY <1>1, <1>2
<1>7. Cardinality(Turns(TotalRounds, L, i)) =< Cardinality(Turns(TotalRounds, L, j)) + 1
  BY <1>2, <1>4, <1>6, TurnsAreFair
<1> QED
  BY <1>1, <1>5, <1>6, <1>7

\* A height's slot is one of its round, and only once.
LEMMA SlotInRound ==
  ASSUME Schedule!ScheduleAssumption, NEW h \in Nat
  PROVE  \E k \in 1..TotalRounds : \A i \in 1..TotalRounds :
           Schedule!PastRound(h) + (i - 1) * RoundLength = h - (h % RoundLength) <=> i = k
<1>1. PICK R, T, M : R = RoundLength /\ T = TotalRounds /\ M = R * T
  OBVIOUS
<1>2. R \in Nat \ {0} /\ T \in Nat \ {0} /\ M \in Nat \ {0}
  <2>1. R \in Nat \ {0} /\ T \in Nat \ {0}
    BY <1>1 DEF Schedule!ScheduleAssumption
  <2> QED
    BY <1>1, <2>1
<1>3. PICK m, q, p, o : m = h % M /\ q = h \div M /\ p = m % R /\ o = m \div R
  OBVIOUS
<1>4. m \in 0..(M - 1) /\ q \in Nat /\ h = M * q + m
  BY <1>2, <1>3
<1>5. p \in 0..(R - 1) /\ o \in Nat /\ m = R * o + p
  BY <1>2, <1>3, <1>4
<1>6. o < T
  <2> SUFFICES ASSUME T =< o PROVE FALSE
    BY <1>2, <1>5
  <2>1. R * T =< R * o
    BY <1>2, <1>5
  <2> QED
    BY ONLY <1>1, <1>2, <1>4, <1>5, <2>1
<1>7. h % R = p
  <2>1. h = R * (T * q + o) + p /\ T * q + o \in Int
    <3>1. M * q = R * (T * q)
      BY <1>1, <1>2, <1>4
    <3>2. R * (T * q + o) = R * (T * q) + R * o /\ T * q + o \in Int
      BY <1>2, <1>4, <1>5
    <3> QED
      BY <1>2, <1>4, <1>5, <3>1, <3>2
  <2> QED
    BY ONLY <1>2, <1>5, <2>1, RemainderIs, h \in Nat
<1>8. Schedule!PastRound(h) = h - m
  BY <1>1, <1>3 DEF Schedule!PastRound
<1>9. ASSUME NEW i \in 1..T PROVE h - m + (i - 1) * R = h - p <=> i = o + 1
  <2>1. h - m + (i - 1) * R = h - p <=> (i - 1) * R = R * o
    BY ONLY <1>2, <1>4, <1>5, i \in 1..T, h \in Nat, (i - 1) * R \in Int, R * o \in Int
  <2>2. ASSUME (i - 1) * R = R * o PROVE i - 1 = o
    <3>1. ~(i - 1 < o)
      <4> SUFFICES ASSUME i - 1 < o PROVE FALSE
        OBVIOUS
      <4>1. R * i =< R * o /\ R * i = (i - 1) * R + R
        BY <1>2, <1>5
      <4> QED
        BY <1>2, <1>5, <2>2, <4>1
    <3>2. ~(o < i - 1)
      <4> SUFFICES ASSUME o < i - 1 PROVE FALSE
        OBVIOUS
      <4>1. R * (o + 1) =< (i - 1) * R /\ R * (o + 1) = R * o + R
        BY <1>2, <1>5
      <4> QED
        BY <1>2, <1>5, <2>2, <4>1
    <3> QED
      BY <1>5, <3>1, <3>2
  <2>3. i = o + 1 => (i - 1) * R = R * o
    BY <1>2, <1>5
  <2> QED
    BY <1>5, <2>1, <2>2, <2>3
<1>10. o + 1 \in 1..T
  BY <1>2, <1>5, <1>6
<1> QED
  BY <1>1, <1>7, <1>8, <1>9, <1>10

\* So it has one proposer.
LEMMA OneProposes ==
  ASSUME Schedule!ScheduleAssumption, NEW members, NEW draws, NEW h \in Nat,
         NEW schedule, schedule = Schedule!Scheduled(members, draws, Schedule!PastRound(h))
  PROVE  Cardinality({i \in DOMAIN schedule : schedule[i].bn = h - (h % RoundLength)}) = 1
<1>1. /\ DOMAIN schedule = 1..TotalRounds
      /\ \A i \in 1..TotalRounds :
           schedule[i].bn = Schedule!PastRound(h) + (i - 1) * RoundLength
  <2>1. MadeOf(schedule, members, draws, Schedule!PastRound(h), Schedule!Shares(members))
    BY ScheduledIs
  <2> QED
    BY ONLY <2>1 DEF MadeOf
<1>2. PICK k \in 1..TotalRounds : \A i \in 1..TotalRounds :
        Schedule!PastRound(h) + (i - 1) * RoundLength = h - (h % RoundLength) <=> i = k
  BY SlotInRound
<1>3. {i \in DOMAIN schedule : schedule[i].bn = h - (h % RoundLength)} = {k}
  BY <1>1, <1>2
<1> QED
  BY <1>3, FS_Singleton

\* No member ever has two slots of a round more than another, and every slot asked
\* for has one proposer: whatever the seeds draw, for any numbers of members and
\* slots.
THEOREM SlotsAreFair ==
  PartsSpec => []SlotsAreShared
<1>1. (scenario = "schedule" => ScheduleInv) => SlotsAreShared
  <2> SUFFICES ASSUME ScheduleInv PROVE Schedule!FairShares /\ Schedule!OneProposer
    BY DEF SlotsAreShared
  <2>0. ScheduleOK /\ AnswersAre /\ Schedule!ScheduleAssumption
    BY PartsAssumption DEF ScheduleInv
  <2>1. ASSUME NEW a \in Schedule!Answers
        PROVE  \E e \in DOMAIN Elections : \E draws \in Schedule!Draws :
                 /\ a.at \in Nat /\ Schedule!ValidElection(DOMAIN Elections, a.at) = Elections[e]
                 /\ a.schedule = Schedule!Scheduled(Elections[e].members, draws,
                                                   Schedule!PastRound(a.at))
    <3>1. PICK c \in Schedule!Caller : a = answer[c] /\ answer[c] # <<>>
      BY DEF Schedule!Answers
    <3>2. PICK e : e = Newest(Elected(a.at))
      OBVIOUS
    <3>3. /\ a.at \in Start..Top /\ Elected(a.at) # {}
          /\ a.schedule = ScheduleOf(e, Schedule!PastRound(a.at))
      BY <2>0, <3>1, <3>2 DEF AnswersAre
    <3>4. Schedule!ValidElection(DOMAIN Elections, a.at) = Elections[e]
      BY <3>2 DEF Schedule!ValidElection, Elected, Newest, Witnesses!Newest
    <3>5. e \in DOMAIN Elections
      <4>1. Elected(a.at) \subseteq DOMAIN Elections
        BY DEF Elected, Schedule!Before
      <4>2. Elected(a.at) \subseteq 1..Len(Elections) /\ Len(Elections) \in Nat
        BY <2>0, <4>1 DEF Schedule!ScheduleAssumption
      <4>3. e \in Elected(a.at)
        BY <3>2, <3>3, <4>2, NewestIs
      <4> QED
        BY <4>1, <4>3
    <3>6. Schedule!PastRound(a.at) \in Schedule!Rounds
      BY <3>3 DEF Schedule!Rounds
    <3>7. seed[Schedule!PastRound(a.at)] \in Schedule!Draws
      BY <2>0, <3>6 DEF ScheduleOK
    <3>8. a.at \in Nat
      BY <2>0, <3>3 DEF Schedule!ScheduleAssumption
    <3> QED
      BY <3>3, <3>4, <3>5, <3>7, <3>8 DEF ScheduleOf
  <2>2. Schedule!FairShares
    <3> SUFFICES ASSUME NEW a \in Schedule!Answers,
                        NEW m1 \in Schedule!Range(Schedule!ValidElection(DOMAIN Elections, a.at).members),
                        NEW m2 \in Schedule!Range(Schedule!ValidElection(DOMAIN Elections, a.at).members)
                 PROVE  Schedule!SlotsOf(a.schedule, m1) =< Schedule!SlotsOf(a.schedule, m2) + 1
      BY DEF Schedule!FairShares
    <3>1. PICK e \in DOMAIN Elections : \E draws \in Schedule!Draws :
            /\ Schedule!ValidElection(DOMAIN Elections, a.at) = Elections[e]
            /\ a.schedule = Schedule!Scheduled(Elections[e].members, draws, Schedule!PastRound(a.at))
      BY <2>1
    <3>2. PICK i \in DOMAIN Elections[e].members, j \in DOMAIN Elections[e].members :
            m1 = Elections[e].members[i] /\ m2 = Elections[e].members[j]
      BY <3>1 DEF Schedule!Range
    <3> QED
      BY <2>0, <3>1, <3>2, ScheduleIsFair
  <2>3. Schedule!OneProposer
    <3> SUFFICES ASSUME NEW a \in Schedule!Answers
                 PROVE  Cardinality({i \in DOMAIN a.schedule :
                                       a.schedule[i].bn = a.at - (a.at % RoundLength)}) = 1
      BY DEF Schedule!OneProposer, Schedule!Cardinality, Cardinality
    <3> QED
      BY <2>0, <2>1, OneProposes
  <2> QED
    BY <2>2, <2>3
<1> QED
  BY <1>1, ScheduleAlways, PTL

-------------------------------------------------------------------------------
(* TxPool.  A node's nonce is that of the blocks it has indexed, which only *)
(* rises; what the filter has, and what the cleaner has read, is below it.  *)

\* The nonce after the first k blocks.
After(k) == IF k = 0 THEN 0 ELSE NonceOf[chain[k][Len(chain[k])]] + 1

PoolOK ==
  /\ chain \in Seq(Seq(Tx))
  /\ pool \in [Pooler -> [Tx -> {"NONE", "UNCONFIRMED", "INCLUDED"}]]
  /\ nonce \in [Pooler -> Nat] /\ filter \in [Pooler -> SUBSET Tx] /\ old \in [Pooler -> SUBSET Tx]
  /\ at \in [Pooler -> Nat] /\ part \in [Pooler -> Nat \X {"insert", "update", "nonce"}]
  /\ cleans \in [Pooler -> [step : {"rest", "nonce", "delete"}, list : SUBSET Tx, limit : Nat]]

\* Each block goes on where the one before it has ended.
BlocksOK ==
  \A k \in 1..Len(chain) :
    /\ Len(chain[k]) > 0 /\ After(k - 1) =< After(k)

\* Where a node is within a block.
PlacesOK ==
  \A n \in Pooler :
    /\ at[n] =< Len(chain) /\ nonce[n] = After(at[n])
    /\ at[n] = Len(chain) => part[n] = <<1, "insert">>
    /\ at[n] < Len(chain) =>
         /\ part[n][1] \in 1..Len(chain[at[n] + 1])
         /\ part[n][2] = "nonce" => part[n][1] = Len(chain[at[n] + 1])

UsedOK ==
  \A n \in Pooler :
    /\ \A t \in filter[n] : Pool!Used(n, t)
    /\ cleans[n].limit =< nonce[n] /\ cleans[n].list \subseteq old[n]

PoolInv == PoolOK /\ BlocksOK /\ PlacesOK /\ UsedOK

\* At the start there is nothing.
LEMMA PoolInit ==
  ASSUME Pool!PoolAssumption, Pool!Init PROVE PoolInv
<1>1. chain = <<>> /\ Len(chain) = 0
  BY DEF Pool!Init
<1>2. PoolOK
  BY <1>1 DEF PoolOK, Pool!Init, Pool!Resting
<1>3. BlocksOK /\ PlacesOK
  BY <1>1 DEF BlocksOK, PlacesOK, After, Pool!Init
<1>4. UsedOK
  BY DEF UsedOK, Pool!Init, Pool!Resting
<1> QED
  BY <1>2, <1>3, <1>4 DEF PoolInv

\* A nonce is a number.
LEMMA NonceAfter ==
  ASSUME Pool!PoolAssumption, PoolOK, BlocksOK, NEW k \in 0..Len(chain) PROVE After(k) \in Nat
<1>1. CASE k = 0
  BY <1>1 DEF After
<1>2. CASE k # 0
  <2>0. k \in 1..Len(chain) /\ chain \in Seq(Seq(Tx))
    BY <1>2 DEF PoolOK
  <2>1. chain[k] \in Seq(Tx) /\ Len(chain[k]) > 0
    BY <2>0 DEF BlocksOK
  <2>2. chain[k][Len(chain[k])] \in Tx
    BY <2>1
  <2> QED
    BY <1>2, <2>2 DEF After, Pool!PoolAssumption
<1> QED
  BY <1>1, <1>2

\* A proposed block goes on from the nonce of who proposes it, who has indexed all.
LEMMA PoolPropose ==
  ASSUME Pool!PoolAssumption, PoolInv, NEW n \in Pooler, Pool!Propose(n) PROVE PoolInv'
<1>0. PoolOK /\ BlocksOK /\ PlacesOK /\ UsedOK
  BY DEF PoolInv
<1>1. PICK b \in {<<t>> : t \in Tx} \cup (Tx \X Tx) :
        /\ \A i \in DOMAIN b : NonceOf[b[i]] = nonce[n] + i - 1
        /\ chain' = Append(chain, b)
  BY DEF Pool!Propose
<1>2. at[n] = Len(chain) /\ UNCHANGED <<pool, nonce, filter, old, hears, takes, at, part, cleans>>
  BY DEF Pool!Propose
<1>3. b \in Seq(Tx) /\ Len(b) \in {1, 2} /\ DOMAIN b = 1..Len(b)
  <2>1. CASE b \in {<<t>> : t \in Tx}
    <3>1. PICK t \in Tx : b = <<t>>
      BY <2>1
    <3> QED
      BY <3>1
  <2>2. CASE b \in Tx \X Tx
    <3>1. PICK t, u \in Tx : b = <<t, u>>
      BY <2>2
    <3> QED
      BY <3>1
  <2> QED
    BY <1>1, <2>1, <2>2
<1>4. /\ chain' \in Seq(Seq(Tx)) /\ Len(chain') = Len(chain) + 1 /\ Len(chain) \in Nat
      /\ chain'[Len(chain) + 1] = b /\ \A k \in 1..Len(chain) : chain'[k] = chain[k]
  BY <1>0, <1>1, <1>3 DEF PoolOK
<1>5. \A k \in 0..Len(chain) : After(k)' = After(k)
  BY <1>4 DEF After
<1>6. PICK last : last = Len(chain) + 1
  OBVIOUS
<1>7. After(last)' = nonce[n] + Len(b)
  <2>1. Len(b) \in DOMAIN b
    BY <1>3
  <2>2. NonceOf[b[Len(b)]] = nonce[n] + Len(b) - 1
    BY <1>1, <2>1
  <2>3. After(last)' = NonceOf[b[Len(b)]] + 1
    <3>1. last # 0 /\ chain'[last] = b
      BY <1>4, <1>6
    <3> QED
      BY <3>1 DEF After
  <2>4. nonce[n] \in Nat /\ Len(b) \in Nat
    BY <1>0, <1>3 DEF PoolOK
  <2> QED
    BY <2>2, <2>3, <2>4
<1>8. PoolOK'
  BY <1>0, <1>2, <1>4 DEF PoolOK
<1>9. BlocksOK'
  <2> SUFFICES ASSUME NEW k \in 1..Len(chain') PROVE Len(chain'[k]) > 0 /\ After(k - 1)' =< After(k)'
    BY DEF BlocksOK
  <2>1. CASE k \in 1..Len(chain)
    <3>1. After(k)' = After(k) /\ After(k - 1)' = After(k - 1)
      BY <1>4, <1>5, <2>1
    <3> QED
      BY <1>0, <1>4, <2>1, <3>1 DEF BlocksOK
  <2>2. CASE k = Len(chain) + 1
    <3>1. After(k - 1)' = nonce[n] /\ nonce[n] \in Nat
      BY <1>0, <1>2, <1>4, <1>5, <2>2 DEF PlacesOK, PoolOK
    <3>2. k = last /\ chain'[k] = b /\ Len(b) > 0 /\ Len(b) \in Nat
      <4>1. Len(b) > 0 /\ Len(b) \in Nat
        <5>1. PICK l : l = Len(b) /\ (l = 1 \/ l = 2)
          BY <1>3
        <5>2. l > 0 /\ l \in Nat
          BY <5>1
        <5> QED
          BY <5>1, <5>2
      <4> QED
        BY <1>4, <1>6, <2>2, <4>1
    <3>3. After(k)' = nonce[n] + Len(b)
      BY <1>7, <3>2
    <3> QED
      BY <3>1, <3>2, <3>3
  <2> QED
    BY <1>4, <2>1, <2>2
<1>10. PlacesOK'
  <2> SUFFICES ASSUME NEW o \in Pooler
               PROVE  /\ at[o] =< Len(chain') /\ nonce[o] = After(at[o])'
                      /\ at[o] = Len(chain') => part[o] = <<1, "insert">>
                      /\ at[o] < Len(chain') =>
                           /\ part[o][1] \in 1..Len(chain'[at[o] + 1])
                           /\ part[o][2] = "nonce" => part[o][1] = Len(chain'[at[o] + 1])
    BY <1>2 DEF PlacesOK, After
  <2>1. at[o] \in Nat /\ at[o] =< Len(chain) /\ nonce[o] = After(at[o])
    BY <1>0 DEF PoolOK, PlacesOK
  <2>2. After(at[o])' = After(at[o])
    BY <1>2, <1>4, <1>5, <2>1 DEF After
  <2>3. CASE at[o] = Len(chain)
    <3>1. part[o] = <<1, "insert">> /\ chain'[at[o] + 1] = b
      BY <1>0, <1>4, <2>3 DEF PlacesOK
    <3> QED
      BY <1>3, <1>4, <2>1, <2>2, <2>3, <3>1
  <2>4. CASE at[o] < Len(chain)
    <3>0. at[o] + 1 \in 1..Len(chain)
      BY <1>4, <2>1, <2>4
    <3>1. chain'[at[o] + 1] = chain[at[o] + 1]
      BY <1>4, <3>0
    <3> QED
      BY <1>0, <1>4, <2>1, <2>2, <2>4, <3>1 DEF PlacesOK
  <2> QED
    BY <1>4, <2>1, <2>3, <2>4
<1>11. UsedOK'
  BY <1>0, <1>2 DEF UsedOK, Pool!Used
<1> QED
  BY <1>8, <1>9, <1>10, <1>11 DEF PoolInv

\* A step of indexing within a block.
LEMMA PoolIndexOne ==
  ASSUME Pool!PoolAssumption, PoolInv, NEW n \in Pooler, Pool!IndexInsert(n) \/ Pool!IndexUpdate(n)
  PROVE  PoolInv'
<1>0. PoolOK /\ BlocksOK /\ PlacesOK /\ UsedOK
  BY DEF PoolInv
<1>1. /\ at[n] < Len(chain) /\ part[n][2] \in {"insert", "update"}
      /\ UNCHANGED <<chain, nonce, filter, old, hears, takes, at, cleans>>
      /\ pool' \in [Pooler -> [Tx -> {"NONE", "UNCONFIRMED", "INCLUDED"}]]
      /\ \/ part' = [part EXCEPT ![n][2] = "update"]
         \/ Pool!NextPart(n)
  <2>0. pool \in [Pooler -> [Tx -> {"NONE", "UNCONFIRMED", "INCLUDED"}]]
    BY <1>0 DEF PoolOK
  <2>1. PICK t : t = Pool!Entry(n)
    OBVIOUS
  <2>2. CASE Pool!IndexInsert(n)
    <3>1. pool' = [pool EXCEPT ![n][t] = IF @ = "NONE" THEN "INCLUDED" ELSE @]
      BY <2>1, <2>2 DEF Pool!IndexInsert, Pool!Insert
    <3>2. pool' \in [Pooler -> [Tx -> {"NONE", "UNCONFIRMED", "INCLUDED"}]]
      BY <2>0, <3>1
    <3> QED
      BY <2>2, <3>2 DEF Pool!IndexInsert, Pool!Indexing
  <2>3. CASE Pool!IndexUpdate(n)
    <3>1. pool' = [pool EXCEPT ![n][t] = IF @ = "NONE" THEN @ ELSE "INCLUDED"]
      BY <2>1, <2>3 DEF Pool!IndexUpdate
    <3>2. pool' \in [Pooler -> [Tx -> {"NONE", "UNCONFIRMED", "INCLUDED"}]]
      BY <2>0, <3>1
    <3> QED
      BY <2>3, <3>2 DEF Pool!IndexUpdate, Pool!Indexing
  <2> QED
    BY <2>2, <2>3
<1>2. PICK len : len = Len(chain[at[n] + 1])
  OBVIOUS
<1>3. /\ at[n] \in Nat /\ part[n] \in Nat \X {"insert", "update", "nonce"} /\ part[n][1] \in 1..len
      /\ len \in Nat
  <2>1. at[n] + 1 \in 1..Len(chain) /\ chain \in Seq(Seq(Tx))
    BY <1>0, <1>1 DEF PoolOK
  <2>2. len \in Nat
    BY <1>2, <2>1
  <2> QED
    BY <1>0, <1>1, <1>2, <2>2 DEF PoolOK, PlacesOK
<1>4. /\ part' \in [Pooler -> Nat \X {"insert", "update", "nonce"}]
      /\ part'[n][1] \in 1..len /\ (part'[n][2] = "nonce" => part'[n][1] = len)
      /\ \A o \in Pooler : o # n => part'[o] = part[o]
  <2>1. CASE part' = [part EXCEPT ![n][2] = "update"]
    <3>1. PICK i \in Nat, w \in {"insert", "update", "nonce"} : part[n] = <<i, w>>
      BY <1>3
    <3>2. [part[n] EXCEPT ![2] = "update"] = <<i, "update">> /\ i \in 1..len
      BY <1>3, <3>1
    <3>3. part'[n] = <<i, "update">>
      BY <1>0, <2>1, <3>2 DEF PoolOK
    <3>4. part' \in [Pooler -> Nat \X {"insert", "update", "nonce"}]
          /\ \A o \in Pooler : o # n => part'[o] = part[o]
      <4>1. part \in [Pooler -> Nat \X {"insert", "update", "nonce"}]
        BY <1>0 DEF PoolOK
      <4>2. part' = [part EXCEPT ![n] = <<i, "update">>]
        BY <2>1, <3>2, <4>1
      <4> QED
        BY <4>1, <4>2
    <3> QED
      BY <3>2, <3>3, <3>4
  <2>2. CASE Pool!NextPart(n)
    <3>1. part' = [part EXCEPT ![n] = IF part[n][1] = len THEN <<part[n][1], "nonce">>
                                      ELSE <<part[n][1] + 1, "insert">>]
      BY <1>2, <2>2 DEF Pool!NextPart, Pool!Last
    <3> QED
      BY <1>0, <1>3, <3>1 DEF PoolOK
  <2> QED
    BY <1>1, <2>1, <2>2
<1>5. PoolOK' /\ BlocksOK' /\ UsedOK'
  BY <1>0, <1>1, <1>4 DEF PoolOK, BlocksOK, UsedOK, After, Pool!Used
<1>6. PlacesOK'
  <2> SUFFICES ASSUME NEW o \in Pooler
               PROVE  /\ at[o] =< Len(chain) /\ nonce[o] = After(at[o])
                      /\ at[o] = Len(chain) => part'[o] = <<1, "insert">>
                      /\ at[o] < Len(chain) =>
                           /\ part'[o][1] \in 1..Len(chain[at[o] + 1])
                           /\ part'[o][2] = "nonce" => part'[o][1] = Len(chain[at[o] + 1])
    BY <1>1 DEF PlacesOK, After
  <2>1. CASE o = n
    BY <1>0, <1>1, <1>2, <1>3, <1>4, <2>1 DEF PlacesOK
  <2>2. CASE o # n
    BY <1>0, <1>4, <2>2 DEF PlacesOK
  <2> QED
    BY <2>1, <2>2
<1> QED
  BY <1>5, <1>6 DEF PoolInv

\* The last step of a block takes the nonce forward.
LEMMA PoolIndexNonce ==
  ASSUME Pool!PoolAssumption, PoolInv, NEW n \in Pooler, Pool!IndexNonce(n)
  PROVE  PoolInv'
<1>0. PoolOK /\ BlocksOK /\ PlacesOK /\ UsedOK
  BY DEF PoolInv
<1>1. PICK k : k = at[n] + 1
  OBVIOUS
<1>2. /\ at[n] < Len(chain) /\ part[n][2] = "nonce"
      /\ nonce' = [nonce EXCEPT ![n] = NonceOf[chain[k][part[n][1]]] + 1]
      /\ at' = [at EXCEPT ![n] = k] /\ part' = [part EXCEPT ![n] = <<1, "insert">>]
      /\ UNCHANGED <<chain, pool, filter, old, hears, takes, cleans>>
  BY <1>0, <1>1 DEF Pool!IndexNonce, Pool!Indexing, Pool!Entry, PoolOK
<1>3. k \in 1..Len(chain) /\ k - 1 = at[n] /\ k # 0 /\ Len(chain) \in Nat /\ k \in Nat
  <2>1. at[n] \in Nat /\ Len(chain) \in Nat
    BY <1>0 DEF PoolOK
  <2> QED
    BY <1>1, <1>2, <2>1
<1>4. part[n][1] = Len(chain[k]) /\ nonce[n] = After(k - 1)
  BY <1>0, <1>1, <1>2, <1>3 DEF PlacesOK
<1>5. nonce' = [nonce EXCEPT ![n] = After(k)] /\ After(k) \in Nat /\ nonce[n] =< After(k)
  <2>1. After(k) = NonceOf[chain[k][Len(chain[k])]] + 1
    BY <1>3 DEF After
  <2>2. After(k) \in Nat
    <3>1. k \in 0..Len(chain)
      BY <1>3
    <3> QED
      BY <1>0, <3>1, NonceAfter
  <2>3. After(k - 1) =< After(k)
    BY <1>0, <1>3 DEF BlocksOK
  <2> QED
    BY <1>2, <1>4, <2>1, <2>2, <2>3
<1>6. \A o \in Pooler : nonce[o] \in Nat /\ nonce'[o] \in Nat /\ nonce[o] =< nonce'[o]
  BY <1>0, <1>5 DEF PoolOK
<1>7. PoolOK' /\ BlocksOK'
  <2>1. BlocksOK'
    BY <1>0, <1>2 DEF BlocksOK, After
  <2>2. nonce' \in [Pooler -> Nat] /\ at' \in [Pooler -> Nat]
    BY <1>0, <1>2, <1>3, <1>5 DEF PoolOK
  <2>3. part' \in [Pooler -> Nat \X {"insert", "update", "nonce"}]
    BY <1>0, <1>2 DEF PoolOK
  <2> QED
    BY <1>0, <1>2, <2>1, <2>2, <2>3 DEF PoolOK
<1>8. UsedOK'
  <2> SUFFICES ASSUME NEW o \in Pooler
               PROVE  /\ \A t \in filter[o] : NonceOf[t] < nonce'[o]
                      /\ cleans[o].limit =< nonce'[o] /\ cleans[o].list \subseteq old[o]
    BY <1>2 DEF UsedOK, Pool!Used
  <2>1. cleans[o].limit \in Nat /\ filter[o] \subseteq Tx /\ \A t \in Tx : NonceOf[t] \in Nat
    BY <1>0 DEF PoolOK, Pool!PoolAssumption
  <2> QED
    BY <1>0, <1>6, <2>1 DEF UsedOK, Pool!Used
<1>9. PlacesOK'
  <2> SUFFICES ASSUME NEW o \in Pooler
               PROVE  /\ at'[o] =< Len(chain) /\ nonce'[o] = After(at'[o])
                      /\ at'[o] = Len(chain) => part'[o] = <<1, "insert">>
                      /\ at'[o] < Len(chain) =>
                           /\ part'[o][1] \in 1..Len(chain[at'[o] + 1])
                           /\ part'[o][2] = "nonce" => part'[o][1] = Len(chain[at'[o] + 1])
    BY <1>2 DEF PlacesOK, After
  <2>1. CASE o = n
    <3>1. at'[o] = k /\ part'[o] = <<1, "insert">> /\ nonce'[o] = After(k)
      BY <1>0, <1>2, <1>5, <2>1 DEF PoolOK
    <3>2. ASSUME k < Len(chain) PROVE 1 \in 1..Len(chain[k + 1])
      <4>1. k + 1 \in 1..Len(chain) /\ chain \in Seq(Seq(Tx))
        BY <1>0, <1>3, <3>2 DEF PoolOK
      <4>2. Len(chain[k + 1]) > 0 /\ Len(chain[k + 1]) \in Nat
        BY <1>0, <4>1 DEF BlocksOK
      <4> QED
        BY <4>2
    <3> QED
      BY <1>3, <3>1, <3>2
  <2>2. CASE o # n
    <3>1. at'[o] = at[o] /\ part'[o] = part[o] /\ nonce'[o] = nonce[o]
      BY <1>0, <1>2, <1>5, <2>2 DEF PoolOK
    <3> QED
      BY <1>0, <3>1 DEF PlacesOK
  <2> QED
    BY <2>1, <2>2
<1> QED
  BY <1>7, <1>8, <1>9 DEF PoolInv

\* The cleaner drops transactions that are used up: the nonce it has read is not
\* above the node's.
LEMMA PoolClean ==
  ASSUME Pool!PoolAssumption, PoolInv, NEW n \in Pooler, Pool!Clean(n)
  PROVE  PoolInv' /\ Pool!UnusedStays
<1>0. PoolOK /\ BlocksOK /\ PlacesOK /\ UsedOK
  BY DEF PoolInv
<1>1. UNCHANGED <<chain, nonce, hears, takes, at, part>>
  BY DEF Pool!Clean, Pool!CleanList, Pool!CleanNonce, Pool!CleanOne
<1>2. BlocksOK' /\ PlacesOK'
  BY <1>0, <1>1 DEF BlocksOK, PlacesOK, After
<1>3. /\ cleans[n] \in [step : {"rest", "nonce", "delete"}, list : SUBSET Tx, limit : Nat]
      /\ nonce[n] \in Nat /\ cleans[n].limit \in Nat /\ cleans[n].list \subseteq Tx
      /\ cleans[n].limit =< nonce[n] /\ cleans[n].list \subseteq old[n] /\ old[n] \subseteq Tx
      /\ filter[n] \subseteq Tx
  BY <1>0 DEF PoolOK, UsedOK
<1>4. SUFFICES PoolOK' /\ UsedOK' /\ Pool!UnusedStays
  BY <1>2 DEF PoolInv
<1>5. CASE Pool!CleanList(n) \/ Pool!CleanNonce(n)
  <2>1. PICK r : cleans' = [cleans EXCEPT ![n] = r] /\ r.limit =< nonce[n] /\ r.list \subseteq old[n]
                 /\ r \in [step : {"rest", "nonce", "delete"}, list : SUBSET Tx, limit : Nat]
    <3>1. CASE Pool!CleanList(n)
      <4>1. Pool!Stale(n) \subseteq old[n] /\ 0 =< nonce[n]
        BY <1>3 DEF Pool!Stale
      <4>2. cleans' = [cleans EXCEPT ![n] = [step |-> "nonce", list |-> Pool!Stale(n), limit |-> 0]]
        BY <3>1 DEF Pool!CleanList
      <4>3. PICK r : r = [step |-> "nonce", list |-> Pool!Stale(n), limit |-> 0]
        OBVIOUS
      <4>4. r.limit = 0 /\ r.list = Pool!Stale(n) /\ Pool!Stale(n) \subseteq Tx
        BY <1>3, <4>1, <4>3
      <4>5. r \in [step : {"rest", "nonce", "delete"}, list : SUBSET Tx, limit : Nat]
        BY <4>3, <4>4
      <4>6. cleans' = [cleans EXCEPT ![n] = r] /\ r.limit =< nonce[n] /\ r.list \subseteq old[n]
        BY <4>1, <4>2, <4>3, <4>4
      <4> QED
        BY <4>5, <4>6
    <3>2. CASE Pool!CleanNonce(n)
      <4>1. cleans' = [cleans EXCEPT ![n].step = "delete", ![n].limit = nonce[n]]
        BY <3>2 DEF Pool!CleanNonce
      <4>2. PICK r : r = [step |-> "delete", list |-> cleans[n].list, limit |-> nonce[n]]
        OBVIOUS
      <4>3. PICK c : c = [cleans EXCEPT ![n].step = "delete"]
        OBVIOUS
      <4>4. c[n] = [step |-> "delete", list |-> cleans[n].list, limit |-> cleans[n].limit]
        BY <1>0, <1>3, <4>3 DEF PoolOK
      <4>5. cleans' = [c EXCEPT ![n].limit = nonce[n]] /\ [c[n] EXCEPT !.limit = nonce[n]] = r
        BY <4>1, <4>2, <4>3, <4>4
      <4>6. cleans' = [cleans EXCEPT ![n] = r]
        <5>1. cleans' = [c EXCEPT ![n] = r]
          BY <4>5
        <5> QED
          BY <4>3, <5>1
      <4>7. r \in [step : {"rest", "nonce", "delete"}, list : SUBSET Tx, limit : Nat]
        BY <1>3, <4>2
      <4>8. r.limit =< nonce[n] /\ r.list \subseteq old[n]
        BY <1>3, <4>2
      <4> QED
        BY <4>6, <4>7, <4>8
    <3> QED
      BY <1>5, <3>1, <3>2
  <2>2. UNCHANGED <<pool, filter, old>>
    BY <1>5 DEF Pool!CleanList, Pool!CleanNonce
  <2>3. PoolOK'
    BY <1>0, <1>1, <2>1, <2>2 DEF PoolOK
  <2>4. UsedOK'
    <3>1. \A o \in Pooler : cleans'[o] = IF o = n THEN r ELSE cleans[o]
      BY <1>0, <2>1 DEF PoolOK
    <3> QED
      BY <1>0, <1>1, <2>1, <2>2, <3>1 DEF UsedOK, Pool!Used
  <2>5. Pool!UnusedStays
    BY <1>0, <2>2 DEF Pool!UnusedStays, UsedOK, Pool!Known
  <2> QED
    BY <2>3, <2>4, <2>5
<1>6. CASE Pool!CleanOne(n)
  <2>1. PICK t \in cleans[n].list :
          /\ cleans' = [cleans EXCEPT ![n] =
                          IF cleans[n].list \ {t} = {} THEN Pool!Resting
                          ELSE [cleans[n] EXCEPT !.list = cleans[n].list \ {t}]]
          /\ pool' = [pool EXCEPT ![n][t] = IF Pool!Past(n, t) THEN "NONE" ELSE @]
          /\ filter' = [filter EXCEPT ![n] = IF Pool!Past(n, t) THEN @ \cup {t} ELSE @]
          /\ old' = [old EXCEPT ![n] = IF Pool!Past(n, t) THEN @ \ {t} ELSE @]
    BY <1>6 DEF Pool!CleanOne
  <2>2. t \in Tx /\ (Pool!Past(n, t) => Pool!Used(n, t))
    <3>1. t \in Tx /\ NonceOf[t] \in Nat
      BY <1>3 DEF Pool!PoolAssumption
    <3> QED
      BY <1>3, <3>1 DEF Pool!Past, Pool!Used
  <2>c. PICK c : c = [cleans[n] EXCEPT !.list = cleans[n].list \ {t}]
    OBVIOUS
  <2>r. PICK r : r = IF cleans[n].list \ {t} = {} THEN Pool!Resting ELSE c
    OBVIOUS
  <2>3. /\ r = IF cleans[n].list \ {t} = {} THEN Pool!Resting
               ELSE [cleans[n] EXCEPT !.list = cleans[n].list \ {t}]
        /\ cleans' = [cleans EXCEPT ![n] = r]
    BY <2>1, <2>c, <2>r
  <2>4. /\ r \in [step : {"rest", "nonce", "delete"}, list : SUBSET Tx, limit : Nat]
        /\ r.limit =< nonce[n] /\ r.list \subseteq old[n] \ {t}
    <3>1. CASE cleans[n].list \ {t} = {}
      BY <1>3, <2>3, <3>1 DEF Pool!Resting
    <3>2. CASE cleans[n].list \ {t} # {}
      <4>1. r = [step |-> cleans[n].step, list |-> cleans[n].list \ {t}, limit |-> cleans[n].limit]
        BY <1>3, <2>3, <3>2
      <4> QED
        BY <1>3, <4>1
    <3> QED
      BY <3>1, <3>2
  <2>5. /\ old' \in [Pooler -> SUBSET Tx] /\ r.list \subseteq old'[n]
        /\ \A o \in Pooler : o # n => old'[o] = old[o]
    BY <1>0, <1>3, <2>1, <2>4 DEF PoolOK
  <2>6. /\ filter' \in [Pooler -> SUBSET Tx] /\ \A o \in Pooler : o # n => filter'[o] = filter[o]
        /\ \A u \in filter'[n] : u \in filter[n] \/ (u = t /\ Pool!Past(n, t))
    BY <1>0, <1>3, <2>1, <2>2 DEF PoolOK
  <2>7. /\ pool' \in [Pooler -> [Tx -> {"NONE", "UNCONFIRMED", "INCLUDED"}]]
        /\ \A o \in Pooler, u \in Tx :
             pool'[o][u] = pool[o][u] \/ (o = n /\ u = t /\ Pool!Past(n, t))
    BY <1>0, <2>1, <2>2 DEF PoolOK
  <2>8. cleans' \in [Pooler -> [step : {"rest", "nonce", "delete"}, list : SUBSET Tx, limit : Nat]]
        /\ cleans'[n] = r /\ \A o \in Pooler : o # n => cleans'[o] = cleans[o]
    BY <1>0, <2>3, <2>4 DEF PoolOK
  <2>9. PoolOK'
    BY <1>0, <1>1, <2>5, <2>6, <2>7, <2>8 DEF PoolOK
  <2>10. UsedOK'
    <3> SUFFICES ASSUME NEW o \in Pooler
                 PROVE  /\ \A u \in filter'[o] : Pool!Used(o, u)
                        /\ cleans'[o].limit =< nonce[o] /\ cleans'[o].list \subseteq old'[o]
      BY <1>1 DEF UsedOK, Pool!Used
    <3>1. CASE o = n
      BY <1>0, <2>2, <2>4, <2>5, <2>6, <2>8, <3>1 DEF UsedOK
    <3>2. CASE o # n
      BY <1>0, <2>5, <2>6, <2>8, <3>2 DEF UsedOK
    <3> QED
      BY <3>1, <3>2
  <2>11. Pool!UnusedStays
    <3> SUFFICES ASSUME NEW o \in Pooler, NEW u \in Tx, ~Pool!Used(o, u)
                 PROVE  (Pool!Known(o, u) => pool'[o][u] # "NONE") /\ u \notin filter'[o]
      BY DEF Pool!UnusedStays
    <3>1. pool'[o][u] = pool[o][u]
      BY <2>2, <2>7
    <3>2. u \notin filter'[o]
      BY <1>0, <2>2, <2>6 DEF UsedOK
    <3> QED
      BY <3>1, <3>2 DEF Pool!Known
  <2> QED
    BY <2>9, <2>10, <2>11
<1> QED
  BY <1>5, <1>6 DEF Pool!Clean

\* What the other steps do to the pool and to the filter: a record comes or is
\* changed, and the filter takes what is used up.
LEMMA PoolKept ==
  ASSUME PoolOK, UsedOK,
         \A n \in Pooler, t \in Tx : Pool!Known(n, t) => pool'[n][t] # "NONE",
         \A n \in Pooler : \A t \in filter'[n] : t \in filter[n] \/ Pool!Used(n, t)
  PROVE  Pool!UnusedStays
  BY DEF Pool!UnusedStays, UsedOK

LEMMA PoolInsert ==
  ASSUME PoolOK, NEW n \in Pooler, NEW t \in Tx, NEW s \in {"UNCONFIRMED", "INCLUDED"}, Pool!Insert(n, t, s)
  PROVE  /\ pool' \in [Pooler -> [Tx -> {"NONE", "UNCONFIRMED", "INCLUDED"}]]
         /\ \A o \in Pooler, u \in Tx : Pool!Known(o, u) => pool'[o][u] # "NONE"
<1>1. pool \in [Pooler -> [Tx -> {"NONE", "UNCONFIRMED", "INCLUDED"}]]
  BY DEF PoolOK
<1>2. pool' = [pool EXCEPT ![n][t] = IF @ = "NONE" THEN s ELSE @]
  BY DEF Pool!Insert
<1> QED
  BY <1>1, <1>2 DEF Pool!Known

\* What a node indexes is a transaction.
LEMMA PoolEntry ==
  ASSUME PoolInv, NEW n \in Pooler, at[n] < Len(chain) PROVE Pool!Entry(n) \in Tx
<1>1. PICK k : k = at[n] + 1
  OBVIOUS
<1>2. k \in 1..Len(chain) /\ chain \in Seq(Seq(Tx))
  BY <1>1 DEF PoolInv, PoolOK
<1>3. chain[k] \in Seq(Tx)
  BY <1>2
<1>4. part[n][1] \in 1..Len(chain[k])
  BY <1>1 DEF PoolInv, PlacesOK
<1> QED
  BY <1>1, <1>3, <1>4 DEF Pool!Entry

\* Indexing takes no record out.
LEMMA PoolIndex ==
  ASSUME Pool!PoolAssumption, PoolInv, NEW n \in Pooler, Pool!Index(n)
  PROVE  PoolInv' /\ Pool!UnusedStays
<1>0. PoolOK /\ UsedOK
  BY DEF PoolInv
<1>1. PoolInv'
  BY PoolIndexOne, PoolIndexNonce DEF Pool!Index
<1>2. UNCHANGED filter
  BY DEF Pool!Index, Pool!IndexInsert, Pool!IndexUpdate, Pool!IndexNonce
<1>3. \A o \in Pooler, u \in Tx : Pool!Known(o, u) => pool'[o][u] # "NONE"
  <2>0. at[n] < Len(chain)
    BY DEF Pool!Index, Pool!IndexInsert, Pool!IndexUpdate, Pool!IndexNonce, Pool!Indexing
  <2>1. PICK t \in Tx : t = Pool!Entry(n)
    BY <2>0, PoolEntry
  <2>2. CASE Pool!IndexInsert(n)
    <3>1. Pool!Insert(n, t, "INCLUDED")
      BY <2>1, <2>2 DEF Pool!IndexInsert
    <3> QED
      BY <1>0, <3>1, PoolInsert
  <2>3. CASE Pool!IndexUpdate(n)
    <3>1. pool' = [pool EXCEPT ![n][t] = IF @ = "NONE" THEN @ ELSE "INCLUDED"]
      BY <2>1, <2>3 DEF Pool!IndexUpdate
    <3>2. pool \in [Pooler -> [Tx -> {"NONE", "UNCONFIRMED", "INCLUDED"}]]
      BY <1>0 DEF PoolOK
    <3> QED
      BY <3>1, <3>2 DEF Pool!Known
  <2>4. CASE Pool!IndexNonce(n)
    BY <2>4 DEF Pool!IndexNonce, Pool!Known
  <2> QED
    BY <2>2, <2>3, <2>4 DEF Pool!Index
<1> QED
  BY <1>0, <1>1, <1>2, <1>3, PoolKept

\* What is heard, taken or grows old leaves the blocks and the nonces alone.
LEMMA PoolTalk ==
  ASSUME Pool!PoolAssumption, PoolInv, NEW n \in Pooler, NEW t \in Tx,
         Pool!Hear(n, t) \/ Pool!Take(n, t) \/ Pool!Handle(n, t) \/ Pool!Age(n, t)
  PROVE  PoolInv' /\ Pool!UnusedStays
<1>0. PoolOK /\ BlocksOK /\ PlacesOK /\ UsedOK
  BY DEF PoolInv
<1> USE DEF Pool!Handle
<1>1. UNCHANGED <<chain, nonce, at, part, cleans>>
  BY DEF Pool!Hear, Pool!Take, Pool!Age, Pool!HearCheck, Pool!HearInsert, Pool!TakeFind, Pool!TakeInsert
<1>2. /\ pool' \in [Pooler -> [Tx -> {"NONE", "UNCONFIRMED", "INCLUDED"}]]
      /\ \A o \in Pooler, u \in Tx : Pool!Known(o, u) => pool'[o][u] # "NONE"
  <2>1. CASE Pool!Insert(n, t, "UNCONFIRMED")
    BY <1>0, <2>1, PoolInsert
  <2>2. CASE UNCHANGED pool
    BY <1>0, <2>2 DEF PoolOK, Pool!Known
  <2> QED
    BY <2>1, <2>2 DEF Pool!Hear, Pool!Take, Pool!Age, Pool!HearCheck, Pool!HearInsert,
                      Pool!TakeFind, Pool!TakeInsert
<1>3. /\ filter' \in [Pooler -> SUBSET Tx]
      /\ \A o \in Pooler : \A u \in filter'[o] : u \in filter[o] \/ Pool!Used(o, u)
  <2>0. filter \in [Pooler -> SUBSET Tx]
    BY <1>0 DEF PoolOK
  <2>1. CASE Pool!HearCheck(n, t)
    <3>1. filter' = [filter EXCEPT ![n] =
                       IF ~Pool!Rejected(n, t) /\ Pool!Used(n, t) THEN @ \cup {t} ELSE @]
      BY <2>1 DEF Pool!HearCheck
    <3> QED
      BY <2>0, <3>1
  <2>2. CASE UNCHANGED filter
    BY <2>0, <2>2
  <2> QED
    BY <2>1, <2>2 DEF Pool!Hear, Pool!Take, Pool!Age, Pool!HearInsert, Pool!TakeFind, Pool!TakeInsert
<1>4. old' \in [Pooler -> SUBSET Tx] /\ \A o \in Pooler : old[o] \subseteq old'[o]
  <2>0. old \in [Pooler -> SUBSET Tx]
    BY <1>0 DEF PoolOK
  <2>1. CASE Pool!Age(n, t)
    BY <2>0, <2>1 DEF Pool!Age
  <2>2. CASE UNCHANGED old
    BY <2>0, <2>2
  <2> QED
    BY <2>1, <2>2 DEF Pool!Hear, Pool!Take, Pool!HearCheck, Pool!HearInsert, Pool!TakeFind, Pool!TakeInsert
<1>5. PoolOK'
  BY <1>0, <1>1, <1>2, <1>3, <1>4 DEF PoolOK
<1>6. BlocksOK' /\ PlacesOK'
  BY <1>0, <1>1 DEF BlocksOK, PlacesOK, After
<1>7. UsedOK'
  <2> SUFFICES ASSUME NEW o \in Pooler
               PROVE  /\ \A u \in filter'[o] : Pool!Used(o, u)
                      /\ cleans[o].limit =< nonce[o] /\ cleans[o].list \subseteq old'[o]
    BY <1>1 DEF UsedOK, Pool!Used
  <2> QED
    BY <1>0, <1>3, <1>4 DEF UsedOK
<1> QED
  BY <1>0, <1>2, <1>3, <1>5, <1>6, <1>7, PoolKept DEF PoolInv

LEMMA PoolStep ==
  ASSUME Pool!PoolAssumption, PoolInv, [Pool!Next]_(Pool!vars)
  PROVE  PoolInv' /\ [Pool!UnusedStays]_(Pool!vars)
<1>0. PoolOK /\ BlocksOK /\ PlacesOK /\ UsedOK
  BY DEF PoolInv
<1>1. CASE UNCHANGED Pool!vars
  BY <1>0, <1>1 DEF Pool!vars, PoolInv, PoolOK, BlocksOK, PlacesOK, UsedOK, After, Pool!Used
<1>2. CASE Pool!Next
  <2>1. PICK n \in Pooler :
          \/ Pool!Propose(n) \/ Pool!Index(n) \/ Pool!Clean(n)
          \/ \E t \in Tx : Pool!Hear(n, t) \/ Pool!Take(n, t) \/ Pool!Handle(n, t) \/ Pool!Age(n, t)
    BY <1>2 DEF Pool!Next
  <2>2. CASE Pool!Propose(n)
    <3>1. UNCHANGED <<pool, filter>>
      BY <2>2 DEF Pool!Propose
    <3>2. Pool!UnusedStays
      BY <1>0, <3>1, PoolKept DEF Pool!Known
    <3> QED
      BY <2>2, <3>2, PoolPropose
  <2>3. CASE Pool!Index(n)
    BY <2>3, PoolIndex
  <2>4. CASE Pool!Clean(n)
    BY <2>4, PoolClean
  <2>5. CASE \E t \in Tx : Pool!Hear(n, t) \/ Pool!Take(n, t) \/ Pool!Handle(n, t) \/ Pool!Age(n, t)
    BY <2>5, PoolTalk
  <2> QED
    BY <2>1, <2>2, <2>3, <2>4, <2>5
<1> QED
  BY <1>1, <1>2

LEMMA PoolTypes == ASSUME PoolInv PROVE Pool!PoolTypeOK
<1>1. PoolOK /\ PlacesOK /\ UsedOK
  BY DEF PoolInv
<1> QED
  BY <1>1 DEF PoolOK, PlacesOK, UsedOK, Pool!PoolTypeOK

\* Whatever the blocks, the nonces and the interleaving of the cleaner, the parser,
\* what is heard and what is ingested, a node neither drops nor refuses a
\* transaction whose nonce is not used up.
THEOREM PoolKeepsUnused == PartsSpec => UnusedIsWelcome
<1>1. PartsInit => (scenario = "pool" => PoolInv)
  BY PoolInit, PartsAssumption DEF PartsInit
<1>2. ASSUME PoolInv, [Pool!Next]_(Pool!vars) PROVE PoolInv' /\ [Pool!UnusedStays]_(Pool!vars)
  BY <1>2, PoolStep, PartsAssumption
<1>3. (scenario = "pool" => PoolInv) /\ [PartsNext]_vars =>
        (scenario = "pool" => PoolInv)' /\ [scenario = "pool" => Pool!UnusedStays]_vars
  <2> SUFFICES ASSUME scenario = "pool" => PoolInv, [PartsNext]_vars
               PROVE  /\ (scenario = "pool" => PoolInv)'
                      /\ [scenario = "pool" => Pool!UnusedStays]_vars
    OBVIOUS
  <2>1. CASE scenario = "pool" /\ ~UNCHANGED Pool!vars
    BY <1>2, <2>1, PartsStep
  <2>2. CASE scenario = "pool" /\ UNCHANGED Pool!vars
    <3>1. UNCHANGED <<pool, filter>> /\ PoolInv /\ PoolOK /\ UsedOK
      BY <2>2 DEF Pool!vars, PoolInv
    <3>2. Pool!UnusedStays
      BY <3>1, PoolKept DEF Pool!Known
    <3> QED
      BY <1>2, <2>2, <3>2, PartsStep
  <2>3. CASE scenario # "pool"
    BY <2>3, PartsStep
  <2> QED
    BY <2>1, <2>2, <2>3
<1>4. (scenario = "pool" => PoolInv) => (scenario = "pool" => Pool!PoolTypeOK)
  BY PoolTypes
<1> QED
  BY <1>1, <1>3, <1>4, PTL DEF PartsSpec, UnusedIsWelcome

-------------------------------------------------------------------------------
(* Contracts: what the parser has handled, and what it reads again. *)

\* Where the parser is, as the place of an operation.
Spot == <<tx, op>>
Earlier(p, q) == Contracts!Earlier(p, q)
OpAt(p) == Contracts!OpAt(p)

\* A contract is made: its code is kept, or that was not asked for yet.
Valid(p) == OpAt(p).kind = "create" /\ (Txs[p[1]].at < ProofFrom \/ OpAt(p).proof = "signed")
Live(p) == Contracts!Live(p)

\* An update by the owner of a contract that was made.
Permitted(p) ==
  /\ OpAt(p).kind = "update" /\ OpAt(p).proof = "signed"
  /\ \E c \in Contracts!Places :
       c = OpAt(p).id /\ Earlier(c, p) /\ Valid(c) /\ Live(c) /\ OpAt(c).owner = OpAt(p).by

SpotOK ==
  /\ tx \in 1..(Len(Txs) + 1) /\ op \in Nat \ {0} /\ saved \in Nat /\ reached \in Nat
  /\ tx \in DOMAIN Txs => op =< Len(Txs[tx].ops) + 1
  /\ tx \notin DOMAIN Txs => op = 1
  /\ saved < tx /\ saved =< reached /\ tx - 1 =< reached /\ reached =< Len(Txs)
  /\ step \in {"next", "pin", "record", "version"} /\ faults \in Nat
  /\ step # "next" => Spot \in Contracts!Places /\ Valid(Spot)
  /\ step = "version" => Spot \in DOMAIN contracts

ContractsOK ==
  /\ contracts = [c \in DOMAIN contracts |-> contracts[c]]
  /\ DOMAIN contracts \subseteq Contracts!Places
  /\ \A c \in DOMAIN contracts :
       /\ contracts[c] = [code |-> contracts[c].code, creator |-> contracts[c].creator,
                          owner |-> contracts[c].owner, state |-> contracts[c].state]
       /\ contracts[c].code = OpAt(c).code /\ contracts[c].owner = OpAt(c).owner /\ Valid(c)
  /\ \A p \in outputs : p \in Contracts!Places /\ OpAt(p).kind = "output"

\* A version is a contract's first, or an update's.
VersionOK(v) ==
  /\ v = [id |-> v.id, at |-> v.at, place |-> v.place, code |-> v.code, by |-> v.by]
  /\ v.id \in DOMAIN contracts
  /\ v.place = <<>> => v.at = Txs[v.id[1]].at /\ v.code = OpAt(v.id).code
  /\ v.place # <<>> =>
       /\ v.place \in Contracts!Places /\ v.at = Txs[v.place[1]].at
       /\ OpAt(v.place).kind = "update" /\ OpAt(v.place).proof = "signed"
       /\ v.id = OpAt(v.place).id /\ v.by = OpAt(v.place).by /\ v.by = OpAt(v.id).owner
       /\ Earlier(v.id, v.place)

\* Without faults: nothing is left out up to where the parser is, nothing comes from
\* operations that were cut off, and the code of an update's version is wrong only
\* until the update is read again.
NothingMissing ==
  /\ tx \in DOMAIN Txs /\ op =< Len(Txs[tx].ops) =>
       \A k \in 1..(op - 1) : OpAt(<<tx, k>>).kind # "broken"
  /\ \A c \in DOMAIN contracts : Live(c) /\ c[1] =< reached
  /\ \A v \in versions :
       /\ v.place # <<>> => Live(v.place) /\ v.place[1] =< reached
                            /\ (Earlier(v.place, Spot) => v.code = OpAt(v.place).code)
       /\ \E u \in versions : u.id = v.id /\ u.place = <<>>
  /\ \A p \in Contracts!Places : Live(p) /\ Earlier(p, Spot) =>
       /\ Valid(p) => p \in DOMAIN contracts /\ \E u \in versions : u.id = p /\ u.place = <<>>
       /\ Permitted(p) => \E u \in versions : u.place = p

ContractsInv ==
  /\ SpotOK /\ ContractsOK /\ (\A v \in versions : VersionOK(v))
  /\ faults = 0 => NothingMissing

\* A place is a transaction's index and an operation's.
LEMMA PlaceIs ==
  ASSUME NEW p \in Contracts!Places
  PROVE  \E t \in DOMAIN Txs : \E k \in DOMAIN Txs[t].ops :
           /\ p = <<t, k>> /\ p[1] = t /\ p[2] = k
           /\ t \in 1..Len(Txs) /\ k \in 1..Len(Txs[t].ops) /\ t \in Nat /\ k \in Nat
<1>1. PICK t \in DOMAIN Txs : p \in {t} \X DOMAIN Txs[t].ops
  BY DEF Contracts!Places
<1>2. PICK k \in DOMAIN Txs[t].ops : p = <<t, k>>
  BY <1>1
<1>3. t \in 1..Len(Txs) /\ k \in 1..Len(Txs[t].ops)
  BY <1>2, PartsAssumption DEF Contracts!RegistryAssumption
<1> QED
  BY <1>2, <1>3, PartsAssumption DEF Contracts!RegistryAssumption

LEMMA PlaceHere ==
  ASSUME NEW t \in DOMAIN Txs, NEW k \in DOMAIN Txs[t].ops PROVE <<t, k>> \in Contracts!Places
  BY DEF Contracts!Places

LEMMA ContractsInit ==
  ASSUME Contracts!Init PROVE ContractsInv
<1>1. /\ DOMAIN contracts = {} /\ versions = {} /\ outputs = {} /\ saved = 0 /\ tx = 1 /\ op = 1
      /\ step = "next" /\ reached = 0 /\ faults = 0
  BY DEF Contracts!Init, Contracts!None
<1>2. SpotOK
  <2>1. Len(Txs) \in Nat /\ \A t \in DOMAIN Txs : Len(Txs[t].ops) \in Nat
    BY PartsAssumption DEF Contracts!RegistryAssumption
  <2> QED
    BY <1>1, <2>1 DEF SpotOK
<1>3. ContractsOK
  BY <1>1 DEF ContractsOK, Contracts!Init, Contracts!None
<1>4. NothingMissing
  <2>1. ASSUME NEW p \in Contracts!Places PROVE ~Earlier(p, Spot)
    BY <1>1, PlaceIs DEF Earlier, Contracts!Earlier, Spot
  <2> QED
    BY <1>1, <2>1 DEF NothingMissing
<1> QED
  BY <1>1, <1>2, <1>3, <1>4 DEF ContractsInv

\* From one operation to the next.
LEMMA NextSpot ==
  ASSUME SpotOK, tx \in DOMAIN Txs, op \in DOMAIN Txs[tx].ops, NEW p \in Contracts!Places
  PROVE  /\ Earlier(p, <<tx, op + 1>>) <=> Earlier(p, Spot) \/ p = Spot
         /\ Spot \in Contracts!Places /\ ~Earlier(Spot, Spot)
<1>1. PICK t \in DOMAIN Txs : \E k \in DOMAIN Txs[t].ops :
        p = <<t, k>> /\ p[1] = t /\ p[2] = k /\ t \in Nat /\ k \in Nat
  BY PlaceIs
<1>2. PICK k \in DOMAIN Txs[t].ops : p = <<t, k>> /\ p[1] = t /\ p[2] = k /\ t \in Nat /\ k \in Nat
  BY <1>1
<1>3. op \in Nat /\ tx \in Nat
  BY DEF SpotOK
<1>4. Spot[1] = tx /\ Spot[2] = op
  BY DEF Spot
<1>5. p = Spot <=> t = tx /\ k = op
  BY <1>2 DEF Spot
<1> QED
  BY <1>2, <1>3, <1>4, <1>5, PlaceHere DEF Earlier, Contracts!Earlier, Spot

\* The last transaction begun by any process, after a step of the parser.
LEMMA ReachedGrows ==
  ASSUME SpotOK, tx \in DOMAIN Txs, reached' = IF reached < tx THEN tx ELSE reached
  PROVE  reached' \in Nat /\ reached' >= reached /\ reached' >= tx /\ reached' =< Len(Txs)
<1>1. tx \in 1..Len(Txs) /\ Len(Txs) \in Nat /\ reached \in Nat
  BY PartsAssumption DEF SpotOK, Contracts!RegistryAssumption
<1> QED
  BY <1>1 DEF SpotOK

\* Steps that change neither versions nor what contracts there are: the parser goes
\* past what is not worth anything, or back.
LEMMA SameVersions ==
  ASSUME ContractsInv, SpotOK', ContractsOK', UNCHANGED versions,
         DOMAIN contracts' = DOMAIN contracts, reached' >= reached, faults' = 0 => faults = 0,
         faults' = 0 =>
           /\ tx' \in DOMAIN Txs /\ op' =< Len(Txs[tx'].ops) =>
                \A k \in 1..(op' - 1) : OpAt(<<tx', k>>).kind # "broken"
           /\ \A p \in Contracts!Places : Live(p) /\ Earlier(p, Spot') =>
                Earlier(p, Spot) \/ (~Valid(p) /\ ~Permitted(p) /\ \A v \in versions : v.place # p)
  PROVE  ContractsInv'
<1>1. \A v \in versions' : VersionOK(v)'
  BY DEF ContractsInv, VersionOK
<1>2. ASSUME faults' = 0 PROVE NothingMissing'
  <2>1. NothingMissing
    BY <1>2 DEF ContractsInv
  <2>2. reached \in Nat /\ reached' \in Nat
    BY DEF ContractsInv, SpotOK
  <2>3. \A c \in DOMAIN contracts' : Live(c) /\ c[1] =< reached'
    <3> SUFFICES ASSUME NEW c \in DOMAIN contracts PROVE Live(c) /\ c[1] =< reached'
      OBVIOUS
    <3>1. c[1] \in Nat
      BY PlaceIs DEF ContractsInv, ContractsOK
    <3> QED
      BY <2>1, <2>2, <3>1 DEF NothingMissing
  <2>4. ASSUME NEW v \in versions, v.place # <<>>
        PROVE  /\ Live(v.place) /\ v.place[1] =< reached'
               /\ Earlier(v.place, Spot') => v.code = OpAt(v.place).code
    <3>1. v.place \in Contracts!Places /\ v.place[1] \in Nat
      BY <2>4, PlaceIs DEF ContractsInv, VersionOK
    <3>2. Live(v.place) /\ v.place[1] =< reached
          /\ (Earlier(v.place, Spot) => v.code = OpAt(v.place).code)
      BY <2>1, <2>4 DEF NothingMissing
    <3>3. v.place[1] =< reached'
      BY <2>2, <3>1, <3>2
    <3> QED
      BY <1>2, <3>1, <3>2, <3>3
  <2>5. ASSUME NEW p \in Contracts!Places, Live(p), Earlier(p, Spot')
        PROVE  /\ Valid(p) => p \in DOMAIN contracts /\ \E u \in versions : u.id = p /\ u.place = <<>>
               /\ Permitted(p) => \E u \in versions : u.place = p
    <3>1. Earlier(p, Spot) \/ (~Valid(p) /\ ~Permitted(p))
      BY <1>2, <2>5
    <3> QED
      BY <2>1, <2>5, <3>1 DEF NothingMissing
  <2>6. \A v \in versions : \E u \in versions : u.id = v.id /\ u.place = <<>>
    BY <2>1 DEF NothingMissing
  <2>7. tx' \in DOMAIN Txs /\ op' =< Len(Txs[tx'].ops) =>
          \A k \in 1..(op' - 1) : OpAt(<<tx', k>>).kind # "broken"
    BY <1>2
  <2> QED
    BY <2>3, <2>4, <2>5, <2>6, <2>7 DEF NothingMissing
<1> QED
  BY <1>1, <1>2 DEF ContractsInv

\* What the parser goes past is neither the making of a contract nor an update.
LEMMA SameContracts ==
  ASSUME ContractsInv, SpotOK', ContractsOK', UNCHANGED versions,
         DOMAIN contracts' = DOMAIN contracts, reached' >= reached, faults' = 0 => faults = 0,
         faults' = 0 =>
           /\ tx' \in DOMAIN Txs /\ op' =< Len(Txs[tx'].ops) =>
                \A k \in 1..(op' - 1) : OpAt(<<tx', k>>).kind # "broken"
           /\ \A p \in Contracts!Places : Live(p) /\ Earlier(p, Spot') =>
                Earlier(p, Spot) \/ (~Valid(p) /\ OpAt(p).kind # "update")
  PROVE  ContractsInv'
<1>1. ASSUME NEW p \in Contracts!Places, OpAt(p).kind # "update"
      PROVE  ~Permitted(p) /\ \A v \in versions : v.place # p
  <2>1. ~Permitted(p)
    BY <1>1 DEF Permitted
  <2>2. p # <<>>
    BY PlaceIs
  <2>3. \A v \in versions : v.place # <<>> => OpAt(v.place).kind = "update"
    BY DEF ContractsInv, VersionOK
  <2> QED
    BY <1>1, <2>1, <2>2, <2>3
<1>2. faults' = 0 =>
           /\ tx' \in DOMAIN Txs /\ op' =< Len(Txs[tx'].ops) =>
                \A k \in 1..(op' - 1) : OpAt(<<tx', k>>).kind # "broken"
           /\ \A p \in Contracts!Places : Live(p) /\ Earlier(p, Spot') =>
                Earlier(p, Spot) \/ (~Valid(p) /\ ~Permitted(p) /\ \A v \in versions : v.place # p)
  BY <1>1
<1> QED
  BY <1>2, SameVersions

\* The next operation is handled.
LEMMA GoesOn ==
  ASSUME SpotOK, tx \in DOMAIN Txs, op \in DOMAIN Txs[tx].ops, Contracts!Continue,
         reached' = IF reached < tx THEN tx ELSE reached, saved' = saved, faults' \in Nat
  PROVE  SpotOK' /\ Spot' = <<tx, op + 1>>
<1>1. /\ tx \in 1..Len(Txs) /\ op \in 1..Len(Txs[tx].ops) /\ Len(Txs[tx].ops) \in Nat /\ Len(Txs) \in Nat
  BY PartsAssumption DEF Contracts!RegistryAssumption
<1>2. reached' \in Nat /\ reached' >= reached /\ reached' >= tx /\ reached' =< Len(Txs)
  BY ReachedGrows
<1>3. op' = op + 1 /\ tx' = tx /\ step' = "next"
  BY DEF Contracts!Continue
<1>4. Spot' = <<tx', op'>>
  BY DEF Spot
<1>5. SpotOK'
  <2>1. /\ tx' \in 1..(Len(Txs) + 1) /\ op' \in Nat \ {0} /\ op' =< Len(Txs[tx'].ops) + 1
        /\ saved' \in Nat /\ tx' \in DOMAIN Txs /\ saved' < tx' /\ tx' - 1 =< reached'
    BY <1>1, <1>2, <1>3 DEF SpotOK
  <2>2. saved' =< reached'
    BY <1>2 DEF SpotOK
  <2> QED
    BY <1>2, <1>3, <2>1, <2>2 DEF SpotOK
<1> QED
  BY <1>3, <1>4, <1>5

\* An exception leaves the transaction's other operations.
LEMMA GivesUp ==
  ASSUME SpotOK, tx \in DOMAIN Txs, op \in DOMAIN Txs[tx].ops, Contracts!Abort,
         reached' = IF reached < tx THEN tx ELSE reached, saved' = saved, faults' \in Nat
  PROVE  SpotOK' /\ Spot' = <<tx, Len(Txs[tx].ops) + 1>>
<1>1. /\ tx \in 1..Len(Txs) /\ op \in 1..Len(Txs[tx].ops) /\ Len(Txs[tx].ops) \in Nat /\ Len(Txs) \in Nat
  BY PartsAssumption DEF Contracts!RegistryAssumption
<1>2. reached' \in Nat /\ reached' >= reached /\ reached' >= tx /\ reached' =< Len(Txs)
  BY ReachedGrows
<1>3. op' = Len(Txs[tx].ops) + 1 /\ tx' = tx /\ step' = "next"
  BY DEF Contracts!Abort
<1>4. Spot' = <<tx', op'>>
  BY DEF Spot
<1>5. SpotOK'
  <2>1. /\ tx' \in 1..(Len(Txs) + 1) /\ op' \in Nat \ {0} /\ op' =< Len(Txs[tx'].ops) + 1
        /\ saved' \in Nat /\ tx' \in DOMAIN Txs /\ saved' < tx' /\ tx' - 1 =< reached'
    BY <1>1, <1>2, <1>3 DEF SpotOK
  <2>2. saved' =< reached'
    BY <1>2 DEF SpotOK
  <2> QED
    BY <1>2, <1>3, <2>1, <2>2 DEF SpotOK
<1> QED
  BY <1>3, <1>4, <1>5

Handled == reached' = IF reached < tx THEN tx ELSE reached

\* The operations before the next one have been read.
LEMMA NotBroken ==
  ASSUME ContractsInv, faults = 0, tx \in DOMAIN Txs, op \in DOMAIN Txs[tx].ops,
         OpAt(Spot).kind # "broken", Contracts!Continue, NEW k \in 1..(op' - 1)
  PROVE  OpAt(<<tx', k>>).kind # "broken"
<1>1. op' = op + 1 /\ tx' = tx /\ op \in Nat
  BY DEF Contracts!Continue, ContractsInv, SpotOK
<1>2. op =< Len(Txs[tx].ops)
  BY PartsAssumption DEF Contracts!RegistryAssumption
<1>3. CASE k = op
  BY <1>1, <1>3 DEF Spot
<1>4. CASE k \in 1..(op - 1)
  BY <1>1, <1>2, <1>4 DEF ContractsInv, NothingMissing
<1> QED
  BY <1>1, <1>3, <1>4

\* What is done first about an operation, and what passes it by.
LEMMA ContractsCreate ==
  ASSUME ContractsInv, Contracts!Create, Handled PROVE ContractsInv'
<1>0. SpotOK /\ ContractsOK
  BY DEF ContractsInv
<1>1. /\ tx \in DOMAIN Txs /\ op \in DOMAIN Txs[tx].ops /\ OpAt(Spot).kind = "create" /\ step = "next"
      /\ UNCHANGED <<contracts, versions, outputs, saved>>
  BY DEF Contracts!Create, Contracts!Handling, Contracts!This, OpAt, Contracts!OpAt, Spot
<1>2. Spot \in Contracts!Places /\ reached \in Nat /\ faults \in Nat /\ OpAt(Spot) = Contracts!This
  BY <1>0, <1>1, NextSpot, PlaceHere DEF SpotOK, Spot, OpAt, Contracts!OpAt, Contracts!This
<1>3. reached' \in Nat /\ reached' >= reached /\ reached' >= tx /\ reached' =< Len(Txs)
  BY <1>0, <1>1, ReachedGrows DEF Handled
<1>4. ContractsOK'
  BY <1>0, <1>1 DEF ContractsOK
<1>5. CASE step' = "pin" /\ UNCHANGED <<tx, op, faults>> /\ Valid(Spot)
  <2>1. SpotOK' /\ Spot' = Spot
    BY <1>0, <1>1, <1>2, <1>3, <1>5 DEF SpotOK, Spot
  <2>2. faults = 0 => NothingMissing
    BY DEF ContractsInv
  <2> QED
    BY <1>1, <1>3, <1>4, <1>5, <2>1, <2>2, SameContracts DEF NothingMissing
<1>6. CASE Contracts!Continue /\ faults' \in Nat /\ (faults' = 0 => faults = 0 /\ ~Valid(Spot))
  <2>1. SpotOK' /\ Spot' = <<tx, op + 1>>
    BY <1>0, <1>1, <1>6, GoesOn DEF Handled
  <2>2. ASSUME faults' = 0
        PROVE  /\ \A p \in Contracts!Places : Live(p) /\ Earlier(p, Spot') =>
                    Earlier(p, Spot) \/ (~Valid(p) /\ OpAt(p).kind # "update")
               /\ \A k \in 1..(op' - 1) : OpAt(<<tx', k>>).kind # "broken"
    <3>1. \A p \in Contracts!Places : Earlier(p, Spot') => Earlier(p, Spot) \/ p = Spot
      BY <1>0, <1>1, <2>1, NextSpot
    <3>2. \A k \in 1..(op' - 1) : OpAt(<<tx', k>>).kind # "broken"
      BY <1>1, <1>6, <2>2, NotBroken
    <3> QED
      BY <1>1, <1>6, <2>2, <3>1, <3>2
  <2> QED
    BY <1>1, <1>3, <1>4, <1>6, <2>1, <2>2, SameContracts
<1>7. \/ step' = "pin" /\ UNCHANGED <<tx, op, faults>> /\ Valid(Spot)
      \/ Contracts!Continue /\ faults' \in Nat /\ (faults' = 0 => faults = 0 /\ ~Valid(Spot))
  <2>1. Contracts!At = Txs[Spot[1]].at /\ Contracts!At \in Nat /\ ProofFrom \in Nat
    BY <1>1, PartsAssumption DEF Contracts!At, Spot, Contracts!RegistryAssumption
  <2>2. Valid(Spot) <=> Contracts!At < ProofFrom \/ Contracts!Proved(Contracts!This)
    BY <1>1, <1>2, <2>1 DEF Valid, Contracts!Proved
  <2> QED
    BY <1>2, <2>1, <2>2 DEF Contracts!Create, Contracts!Fault
<1> QED
  BY <1>5, <1>6, <1>7

LEMMA ContractsPin ==
  ASSUME ContractsInv, Contracts!Pin, Handled PROVE ContractsInv'
<1>0. SpotOK /\ ContractsOK /\ faults \in Nat
  BY DEF ContractsInv, SpotOK
<1>1. /\ Spot \in Contracts!Places /\ Valid(Spot) /\ tx \in DOMAIN Txs /\ op \in DOMAIN Txs[tx].ops
      /\ UNCHANGED <<contracts, versions, outputs, saved>>
  <2>1. Spot \in Contracts!Places /\ Valid(Spot)
    BY <1>0 DEF Contracts!Pin, SpotOK
  <2>2. tx \in DOMAIN Txs /\ op \in DOMAIN Txs[tx].ops
    BY <2>1, PlaceIs DEF Spot
  <2> QED
    BY <2>1, <2>2 DEF Contracts!Pin
<1>2. reached' \in Nat /\ reached' >= reached /\ reached' >= tx /\ reached' =< Len(Txs)
  BY <1>0, <1>1, ReachedGrows DEF Handled
<1>3. ContractsOK'
  BY <1>0, <1>1 DEF ContractsOK
<1>4. CASE step' = "record" /\ UNCHANGED <<tx, op, faults>>
  <2>1. SpotOK' /\ Spot' = Spot
    BY <1>0, <1>1, <1>2, <1>4 DEF SpotOK, Spot
  <2>2. faults = 0 => NothingMissing
    BY DEF ContractsInv
  <2> QED
    BY <1>1, <1>2, <1>3, <1>4, <2>1, <2>2, SameContracts DEF NothingMissing
<1>5. CASE Contracts!Fault /\ Contracts!Abort
  <2>1. faults' \in Nat /\ faults' # 0
    BY <1>0, <1>5 DEF Contracts!Fault
  <2>2. SpotOK'
    BY <1>0, <1>1, <1>5, <2>1, GivesUp DEF Handled
  <2> QED
    BY <1>1, <1>2, <1>3, <2>1, <2>2, SameContracts
<1> QED
  BY <1>4, <1>5 DEF Contracts!Pin

\* What comes after an operation that cannot be read is not live.
LEMMA ContractsBroken ==
  ASSUME ContractsInv, Contracts!Broken, Handled PROVE ContractsInv'
<1>0. SpotOK /\ ContractsOK /\ faults \in Nat
  BY DEF ContractsInv, SpotOK
<1>1. /\ tx \in DOMAIN Txs /\ op \in DOMAIN Txs[tx].ops /\ OpAt(Spot).kind = "broken"
      /\ UNCHANGED <<contracts, versions, outputs, saved, faults>> /\ Contracts!Abort
  BY DEF Contracts!Broken, Contracts!Handling, Contracts!This, OpAt, Contracts!OpAt, Spot
<1>2. reached' \in Nat /\ reached' >= reached /\ reached' >= tx /\ reached' =< Len(Txs)
  BY <1>0, <1>1, ReachedGrows DEF Handled
<1>3. ContractsOK'
  BY <1>0, <1>1 DEF ContractsOK
<1>4. SpotOK' /\ Spot' = <<tx, Len(Txs[tx].ops) + 1>>
  BY <1>0, <1>1, GivesUp DEF Handled
<1>5. ASSUME NEW p \in Contracts!Places, Live(p), Earlier(p, Spot') PROVE Earlier(p, Spot)
  <2>1. PICK t \in DOMAIN Txs : \E k \in DOMAIN Txs[t].ops :
          /\ p = <<t, k>> /\ p[1] = t /\ p[2] = k
          /\ t \in 1..Len(Txs) /\ k \in 1..Len(Txs[t].ops) /\ t \in Nat /\ k \in Nat
    BY PlaceIs
  <2>2. PICK k \in DOMAIN Txs[t].ops :
          p = <<t, k>> /\ p[1] = t /\ p[2] = k /\ t \in Nat /\ k \in Nat
    BY <2>1
  <2>3. tx \in Nat /\ op \in Nat /\ op > 0
    BY <1>0 DEF SpotOK
  <2>4. ~(t = tx /\ op =< k)
    <3>1. ASSUME t = tx, op =< k PROVE FALSE
      <4>1. op \in 1..p[2] /\ <<p[1], op>> = Spot
        BY <2>2, <2>3, <3>1 DEF Spot
      <4> QED
        BY <1>1, <1>5, <4>1 DEF Live, Contracts!Live, OpAt, Contracts!OpAt
    <3> QED
      BY <3>1
  <2>5. t < tx \/ t = tx
    BY <1>4, <1>5, <2>2, <2>3 DEF Earlier, Contracts!Earlier
  <2> QED
    BY <2>2, <2>3, <2>4, <2>5 DEF Earlier, Contracts!Earlier, Spot
<1>6. ~(op' =< Len(Txs[tx'].ops))
  <2>1. tx' = tx /\ op' = Len(Txs[tx].ops) + 1 /\ Len(Txs[tx].ops) \in Nat
    BY <1>1, PartsAssumption DEF Contracts!Abort, Contracts!RegistryAssumption
  <2> QED
    BY <2>1
<1> QED
  BY <1>1, <1>2, <1>3, <1>4, <1>5, <1>6, SameContracts

\* An output changes a contract's state, which is not its code.
LEMMA ContractsOutput ==
  ASSUME ContractsInv, Contracts!Output, Handled PROVE ContractsInv'
<1>0. SpotOK /\ ContractsOK /\ faults \in Nat
  BY DEF ContractsInv, SpotOK
<1>1. /\ tx \in DOMAIN Txs /\ op \in DOMAIN Txs[tx].ops /\ OpAt(Spot).kind = "output"
      /\ UNCHANGED <<versions, saved, faults>> /\ Contracts!Continue
  BY DEF Contracts!Output, Contracts!Handling, Contracts!This, OpAt, Contracts!OpAt, Spot
<1>2. reached' \in Nat /\ reached' >= reached /\ reached' >= tx /\ reached' =< Len(Txs)
  BY <1>0, <1>1, ReachedGrows DEF Handled
<1>3. ContractsOK' /\ DOMAIN contracts' = DOMAIN contracts
  <2>1. Spot \in Contracts!Places /\ Contracts!Here = Spot
    BY <1>1, PlaceHere DEF Spot, Contracts!Here
  <2>2. \A p \in outputs' : p \in Contracts!Places /\ OpAt(p).kind = "output"
    BY <1>0, <1>1, <2>1 DEF Contracts!Output, ContractsOK
  <2>3. CASE UNCHANGED contracts
    BY <1>0, <2>2, <2>3 DEF ContractsOK
  <2>4. CASE /\ Contracts!This.id \in DOMAIN contracts
             /\ contracts' = [contracts EXCEPT ![Contracts!This.id].state = Contracts!This.state]
    <3>1. PICK i \in DOMAIN contracts :
            contracts' = [contracts EXCEPT ![i].state = Contracts!This.state]
      BY <2>4
    <3>2. contracts[i] = [code |-> contracts[i].code, creator |-> contracts[i].creator,
                          owner |-> contracts[i].owner, state |-> contracts[i].state]
      BY <1>0 DEF ContractsOK
    <3>3. [contracts[i] EXCEPT !.state = Contracts!This.state] =
            [code |-> contracts[i].code, creator |-> contracts[i].creator,
             owner |-> contracts[i].owner, state |-> Contracts!This.state]
      BY <3>2
    <3>4. /\ contracts' = [c \in DOMAIN contracts |-> contracts'[c]]
          /\ contracts'[i] = [code |-> contracts[i].code, creator |-> contracts[i].creator,
                              owner |-> contracts[i].owner, state |-> Contracts!This.state]
          /\ \A c \in DOMAIN contracts : c # i => contracts'[c] = contracts[c]
      BY <1>0, <3>1, <3>3 DEF ContractsOK
    <3>5. DOMAIN contracts' = DOMAIN contracts
      BY <3>4
    <3>6. ASSUME NEW c \in DOMAIN contracts'
          PROVE  /\ contracts'[c] = [code |-> contracts'[c].code, creator |-> contracts'[c].creator,
                                     owner |-> contracts'[c].owner, state |-> contracts'[c].state]
                 /\ contracts'[c].code = OpAt(c).code /\ contracts'[c].owner = OpAt(c).owner /\ Valid(c)
      <4>1. CASE c = i
        BY <1>0, <3>4, <4>1 DEF ContractsOK
      <4>2. CASE c # i
        BY <1>0, <3>4, <3>5, <4>2 DEF ContractsOK
      <4> QED
        BY <4>1, <4>2
    <3> QED
      BY <1>0, <2>2, <3>4, <3>5, <3>6 DEF ContractsOK
  <2> QED
    BY <2>3, <2>4 DEF Contracts!Output
<1>4. SpotOK' /\ Spot' = <<tx, op + 1>>
  BY <1>0, <1>1, GoesOn DEF Handled
<1>5. ASSUME faults' = 0
      PROVE  /\ \A p \in Contracts!Places : Live(p) /\ Earlier(p, Spot') =>
                  Earlier(p, Spot) \/ (~Valid(p) /\ OpAt(p).kind # "update")
             /\ \A k \in 1..(op' - 1) : OpAt(<<tx', k>>).kind # "broken"
  <2>1. \A p \in Contracts!Places : Earlier(p, Spot') => Earlier(p, Spot) \/ p = Spot
    BY <1>0, <1>1, <1>4, NextSpot
  <2>2. \A k \in 1..(op' - 1) : OpAt(<<tx', k>>).kind # "broken"
    BY <1>1, <1>5, NotBroken
  <2> QED
    BY <1>1, <2>1, <2>2 DEF Valid
<1> QED
  BY <1>1, <1>2, <1>3, <1>4, <1>5, SameContracts

LEMMA ContractsEndTx ==
  ASSUME ContractsInv, Contracts!EndTx, Handled PROVE ContractsInv'
<1>0. SpotOK /\ ContractsOK /\ faults \in Nat
  BY DEF ContractsInv, SpotOK
<1>1. /\ tx \in DOMAIN Txs /\ op > Len(Txs[tx].ops) /\ step = "next" /\ step' = "next"
      /\ tx' = tx + 1 /\ op' = 1 /\ UNCHANGED <<contracts, versions, outputs, saved, faults>>
  BY DEF Contracts!EndTx
<1>2. reached' \in Nat /\ reached' >= reached /\ reached' >= tx /\ reached' =< Len(Txs)
  BY <1>0, <1>1, ReachedGrows DEF Handled
<1>3. ContractsOK'
  BY <1>0, <1>1 DEF ContractsOK
<1>4. /\ tx \in Nat /\ tx \in 1..Len(Txs) /\ Len(Txs) \in Nat /\ op \in Nat
      /\ \A t \in DOMAIN Txs : Len(Txs[t].ops) \in Nat
  BY <1>0, <1>1, PartsAssumption DEF SpotOK, Contracts!RegistryAssumption
<1>5. SpotOK'
  BY <1>0, <1>1, <1>2, <1>4 DEF SpotOK
<1>6. ASSUME NEW p \in Contracts!Places, Earlier(p, Spot') PROVE Earlier(p, Spot)
  <2>1. PICK t \in DOMAIN Txs : \E k \in DOMAIN Txs[t].ops :
          /\ p = <<t, k>> /\ p[1] = t /\ p[2] = k
          /\ t \in 1..Len(Txs) /\ k \in 1..Len(Txs[t].ops) /\ t \in Nat /\ k \in Nat
    BY PlaceIs
  <2>2. t < tx \/ t = tx
    BY <1>1, <1>4, <1>6, <2>1 DEF Earlier, Contracts!Earlier, Spot
  <2> QED
    BY <1>1, <1>4, <2>1, <2>2 DEF Earlier, Contracts!Earlier, Spot
<1> QED
  BY <1>1, <1>2, <1>3, <1>5, <1>6, SameContracts

\* The last block handled is noted, and a restart goes back to what was noted.
LEMMA ContractsSave ==
  ASSUME ContractsInv, Contracts!Save PROVE ContractsInv'
<1>0. SpotOK /\ ContractsOK /\ faults \in Nat
  BY DEF ContractsInv, SpotOK
<1>1. /\ saved' = tx - 1
      /\ UNCHANGED <<contracts, versions, outputs, tx, op, step, reached, faults>>
  BY DEF Contracts!Save
<1>2. ContractsOK' /\ SpotOK' /\ Spot' = Spot
  BY <1>0, <1>1 DEF ContractsOK, SpotOK, Spot
<1>3. reached \in Nat /\ (faults = 0 => NothingMissing)
  BY DEF ContractsInv, SpotOK
<1> QED
  BY <1>1, <1>2, <1>3, SameContracts DEF NothingMissing

LEMMA ContractsCrash ==
  ASSUME ContractsInv, Contracts!Crash PROVE ContractsInv'
<1>0. SpotOK /\ ContractsOK /\ faults \in Nat
  BY DEF ContractsInv, SpotOK
<1>1. /\ tx' = saved + 1 /\ op' = 1 /\ step' = "next"
      /\ UNCHANGED <<contracts, versions, outputs, saved, reached, faults>>
  BY DEF Contracts!Crash
<1>2. /\ tx \in Nat /\ saved \in Nat /\ saved < tx /\ reached \in Nat /\ Len(Txs) \in Nat
      /\ op \in Nat /\ \A t \in DOMAIN Txs : Len(Txs[t].ops) \in Nat
  BY <1>0, PartsAssumption DEF SpotOK, Contracts!RegistryAssumption
<1>3. ContractsOK' /\ SpotOK'
  <2>1. ContractsOK'
    BY <1>0, <1>1 DEF ContractsOK
  <2>2. tx' =< tx /\ tx' \in 1..(Len(Txs) + 1) /\ tx' - 1 = saved
    BY <1>0, <1>1, <1>2 DEF SpotOK
  <2>3. saved =< reached /\ reached =< Len(Txs)
    BY <1>0 DEF SpotOK
  <2>4. tx' \in DOMAIN Txs => op' =< Len(Txs[tx'].ops) + 1
    <3>1. ASSUME NEW t \in DOMAIN Txs PROVE 1 =< Len(Txs[t].ops) + 1
      BY <1>2
    <3> QED
      BY <1>1, <3>1
  <2>5. saved' < tx' /\ saved' =< reached' /\ tx' - 1 =< reached' /\ reached' =< Len(Txs)
    BY <1>1, <1>2, <2>2, <2>3
  <2>6. saved' \in Nat /\ reached' \in Nat /\ faults' \in Nat
    BY <1>0, <1>1, <1>2
  <2> QED
    BY <1>1, <2>1, <2>2, <2>4, <2>5, <2>6 DEF SpotOK
<1>4. ASSUME NEW p \in Contracts!Places, Earlier(p, Spot') PROVE Earlier(p, Spot)
  <2>1. PICK t \in DOMAIN Txs : \E k \in DOMAIN Txs[t].ops :
          /\ p = <<t, k>> /\ p[1] = t /\ p[2] = k
          /\ t \in 1..Len(Txs) /\ k \in 1..Len(Txs[t].ops) /\ t \in Nat /\ k \in Nat
    BY PlaceIs
  <2>2. t < tx
    BY <1>1, <1>2, <1>4, <2>1 DEF Earlier, Contracts!Earlier, Spot
  <2> QED
    BY <2>1, <2>2 DEF Earlier, Contracts!Earlier, Spot
<1> QED
  BY <1>1, <1>2, <1>3, <1>4, SameContracts

\* A contract is recorded, or recorded again as new.
LEMMA ContractsRecord ==
  ASSUME ContractsInv, Contracts!Record, Handled PROVE ContractsInv'
<1>0. SpotOK /\ ContractsOK /\ faults \in Nat
  BY DEF ContractsInv, SpotOK
<1>1. /\ Spot \in Contracts!Places /\ Valid(Spot) /\ tx \in DOMAIN Txs /\ op \in DOMAIN Txs[tx].ops
      /\ step = "record" /\ step' = "version"
      /\ UNCHANGED <<versions, outputs, saved, tx, op, faults>> /\ Spot' = Spot
  <2>1. step = "record" /\ step' = "version" /\ UNCHANGED <<versions, outputs, saved, tx, op, faults>>
    BY DEF Contracts!Record
  <2>2. Spot \in Contracts!Places /\ Valid(Spot)
    BY <1>0, <2>1 DEF SpotOK
  <2>3. tx \in DOMAIN Txs /\ op \in DOMAIN Txs[tx].ops
    BY <2>2, PlaceIs DEF Spot
  <2> QED
    BY <2>1, <2>2, <2>3 DEF Spot
<1>2. reached' \in Nat /\ reached' >= reached /\ reached' >= tx /\ reached' =< Len(Txs)
  BY <1>0, <1>1, ReachedGrows DEF Handled
<1>3. /\ Contracts!Id = Spot /\ OpAt(Spot) = Contracts!This
  BY DEF Contracts!Id, Contracts!Here, Contracts!This, Spot, OpAt, Contracts!OpAt
<1> DEFINE record == [code |-> Contracts!This.code, creator |-> Contracts!This.by,
                    owner |-> Contracts!This.owner, state |-> EmptyState]
<1>4. contracts' = [c \in DOMAIN contracts \cup {Spot} |-> IF c = Spot THEN record ELSE contracts[c]]
  BY <1>3 DEF Contracts!Record
<1>5. /\ DOMAIN contracts' = DOMAIN contracts \cup {Spot} /\ contracts'[Spot] = record
      /\ \A c \in DOMAIN contracts : c # Spot => contracts'[c] = contracts[c]
      /\ contracts' = [c \in DOMAIN contracts' |-> contracts'[c]]
  BY <1>4
<1>6. ContractsOK'
  <2>1. ASSUME NEW c \in DOMAIN contracts'
        PROVE  /\ contracts'[c] = [code |-> contracts'[c].code, creator |-> contracts'[c].creator,
                                   owner |-> contracts'[c].owner, state |-> contracts'[c].state]
               /\ contracts'[c].code = OpAt(c).code /\ contracts'[c].owner = OpAt(c).owner /\ Valid(c)
               /\ c \in Contracts!Places
    <3>1. CASE c = Spot
      BY <1>1, <1>3, <1>5, <3>1
    <3>2. CASE c # Spot
      <4>1. c \in DOMAIN contracts /\ contracts'[c] = contracts[c]
        BY <1>5, <3>2
      <4> QED
        BY <1>0, <4>1 DEF ContractsOK
    <3> QED
      BY <3>1, <3>2
  <2> QED
    BY <1>0, <1>1, <1>5, <2>1 DEF ContractsOK
<1>7. SpotOK'
  BY <1>0, <1>1, <1>2, <1>5 DEF SpotOK
<1>8. \A v \in versions' : VersionOK(v)'
  BY <1>1, <1>5 DEF ContractsInv, VersionOK
<1>9. ASSUME faults' = 0 PROVE NothingMissing'
  <2>1. NothingMissing /\ reached \in Nat /\ reached' \in Nat /\ tx \in Nat /\ op \in Nat
    BY <1>0, <1>1, <1>2, <1>9 DEF ContractsInv, SpotOK
  <2>2. op =< Len(Txs[tx].ops) /\ Spot[1] = tx /\ Spot[2] = op
    BY <1>1, PartsAssumption DEF Contracts!RegistryAssumption, Spot
  <2>3. \A k \in 1..(op - 1) : OpAt(<<tx, k>>).kind # "broken"
    BY <1>1, <2>1, <2>2 DEF NothingMissing
  <2>4. Live(Spot)
    <3>1. ASSUME NEW k \in 1..op PROVE OpAt(<<tx, k>>).kind # "broken"
      <4>1. CASE k = op
        BY <1>1, <4>1 DEF Valid, Spot
      <4>2. CASE k # op
        BY <2>1, <2>3, <4>2
      <4> QED
        BY <4>1, <4>2
    <3> QED
      BY <2>2, <3>1 DEF Live, Contracts!Live, OpAt, Contracts!OpAt
  <2>5. ASSUME NEW c \in DOMAIN contracts' PROVE Live(c) /\ c[1] =< reached'
    <3>1. CASE c = Spot
      BY <1>2, <2>2, <2>4, <3>1
    <3>2. CASE c \in DOMAIN contracts
      <4>1. c[1] \in Nat /\ c[1] =< reached /\ Live(c)
        BY <1>0, <2>1, <3>2, PlaceIs DEF ContractsOK, NothingMissing
      <4> QED
        BY <1>2, <2>1, <4>1
    <3> QED
      BY <1>5, <3>1, <3>2
  <2>6. ASSUME NEW v \in versions, v.place # <<>>
        PROVE  /\ Live(v.place) /\ v.place[1] =< reached'
               /\ Earlier(v.place, Spot) => v.code = OpAt(v.place).code
    <3>1. v.place[1] \in Nat
      BY <2>6, PlaceIs DEF ContractsInv, VersionOK
    <3> QED
      BY <1>2, <2>1, <2>6, <3>1 DEF NothingMissing
  <2>7. \A p \in Contracts!Places : Live(p) /\ Earlier(p, Spot) =>
       /\ Valid(p) => p \in DOMAIN contracts' /\ \E u \in versions : u.id = p /\ u.place = <<>>
       /\ Permitted(p) => \E u \in versions : u.place = p
    BY <1>5, <2>1 DEF NothingMissing
  <2>8. \A v \in versions : \E u \in versions : u.id = v.id /\ u.place = <<>>
    BY <2>1 DEF NothingMissing
  <2> QED
    BY <1>1, <2>3, <2>5, <2>6, <2>7, <2>8 DEF NothingMissing
<1> QED
  BY <1>6, <1>7, <1>8, <1>9 DEF ContractsInv

\* One version is written in the place of those like it, and the parser goes on.
LEMMA VersionWritten ==
  ASSUME ContractsInv, Handled, Contracts!Continue, UNCHANGED <<contracts, outputs, saved>>,
         tx \in DOMAIN Txs, op \in DOMAIN Txs[tx].ops, OpAt(Spot).kind # "broken", faults' \in Nat,
         NEW w, VersionOK(w), w \in versions', versions' \subseteq versions \cup {w},
         \A v \in versions \ versions' : v.id = w.id /\ v.place = w.place,
         faults' = 0 =>
           /\ faults = 0
           /\ w.place # <<>> => Live(w.place) /\ w.place[1] =< reached'
                                /\ (Earlier(w.place, Spot') => w.code = OpAt(w.place).code)
           /\ \E u \in versions' : u.id = w.id /\ u.place = <<>>
           /\ \A v \in versions' : v # w => v.place # Spot
           /\ Valid(Spot) => Spot \in DOMAIN contracts
                             /\ \E u \in versions' : u.id = Spot /\ u.place = <<>>
           /\ Permitted(Spot) => \E u \in versions' : u.place = Spot
  PROVE  ContractsInv'
<1>0. SpotOK /\ ContractsOK
  BY DEF ContractsInv
<1>1. reached' \in Nat /\ reached' >= reached /\ reached' >= tx /\ reached' =< Len(Txs)
  BY <1>0, ReachedGrows DEF Handled
<1>2. ContractsOK'
  BY <1>0 DEF ContractsOK
<1>3. SpotOK' /\ Spot' = <<tx, op + 1>>
  BY <1>0, GoesOn DEF Handled
<1>4. \A v \in versions' : VersionOK(v)'
  BY DEF ContractsInv, VersionOK
<1>5. ASSUME faults' = 0 PROVE NothingMissing'
  <2>1. NothingMissing /\ reached \in Nat /\ faults = 0
    BY <1>0, <1>5 DEF ContractsInv, SpotOK
  <2>2. \A k \in 1..(op' - 1) : OpAt(<<tx', k>>).kind # "broken"
    BY <2>1, NotBroken
  <2>3. ASSUME NEW c \in DOMAIN contracts PROVE Live(c) /\ c[1] =< reached'
    <3>1. c[1] \in Nat
      BY <1>0, PlaceIs DEF ContractsOK
    <3> QED
      BY <1>1, <2>1, <3>1 DEF NothingMissing
  <2>4. \A p \in Contracts!Places : Earlier(p, Spot') <=> Earlier(p, Spot) \/ p = Spot
    BY <1>0, <1>3, NextSpot
  <2>5. ASSUME NEW v \in versions', v.place # <<>>
        PROVE  /\ Live(v.place) /\ v.place[1] =< reached'
               /\ Earlier(v.place, Spot') => v.code = OpAt(v.place).code
    <3>1. CASE v = w
      BY <1>5, <2>5, <3>1
    <3>2. CASE v # w
      <4>1. v \in versions /\ v.place # Spot
        BY <1>5, <3>2
      <4>2. v.place \in Contracts!Places /\ v.place[1] \in Nat
        BY <2>5, <4>1, PlaceIs DEF ContractsInv, VersionOK
      <4>3. /\ Live(v.place) /\ v.place[1] =< reached
            /\ Earlier(v.place, Spot) => v.code = OpAt(v.place).code
        BY <2>1, <2>5, <4>1 DEF NothingMissing
      <4>4. v.place[1] =< reached'
        BY <1>1, <2>1, <4>2, <4>3
      <4> QED
        BY <2>4, <4>1, <4>2, <4>3, <4>4
    <3> QED
      BY <3>1, <3>2
  <2>6. ASSUME NEW v \in versions PROVE \E u \in versions' : u.id = v.id /\ u.place = v.place
    OBVIOUS
  <2>7. ASSUME NEW v \in versions' PROVE \E u \in versions' : u.id = v.id /\ u.place = <<>>
    <3>1. CASE v = w
      BY <1>5, <3>1
    <3>2. CASE v \in versions
      <4>1. PICK u \in versions : u.id = v.id /\ u.place = <<>>
        BY <2>1, <3>2 DEF NothingMissing
      <4> QED
        BY <2>6, <4>1
    <3> QED
      BY <3>1, <3>2
  <2>8. ASSUME NEW p \in Contracts!Places, Live(p), Earlier(p, Spot')
        PROVE  /\ Valid(p) => p \in DOMAIN contracts /\ \E u \in versions' : u.id = p /\ u.place = <<>>
               /\ Permitted(p) => \E u \in versions' : u.place = p
    <3>1. CASE p = Spot
      BY <1>5, <3>1
    <3>2. CASE Earlier(p, Spot)
      <4>1. /\ Valid(p) => p \in DOMAIN contracts /\ \E u \in versions : u.id = p /\ u.place = <<>>
            /\ Permitted(p) => \E u \in versions : u.place = p
        BY <2>1, <2>8, <3>2 DEF NothingMissing
      <4> QED
        BY <2>6, <4>1
    <3> QED
      BY <2>4, <2>8, <3>1, <3>2
  <2> QED
    BY <2>2, <2>3, <2>5, <2>7, <2>8 DEF NothingMissing
<1> QED
  BY <1>2, <1>3, <1>4, <1>5 DEF ContractsInv

\* The first version of a contract, or of the versions of its block the one found: an
\* update's then has the wrong code, and the update is still to be read again.
LEMMA ContractsFirstVersion ==
  ASSUME ContractsInv, Contracts!FirstVersion, Handled PROVE ContractsInv'
<1>0. SpotOK /\ ContractsOK /\ faults \in Nat /\ (faults = 0 => NothingMissing)
  BY DEF ContractsInv, SpotOK
<1>1. /\ Spot \in Contracts!Places /\ Valid(Spot) /\ tx \in DOMAIN Txs /\ op \in DOMAIN Txs[tx].ops
      /\ Spot \in DOMAIN contracts /\ Contracts!Continue
      /\ UNCHANGED <<contracts, outputs, saved, faults>>
  <2>1. step = "version" /\ Contracts!Continue /\ UNCHANGED <<contracts, outputs, saved, faults>>
    BY DEF Contracts!FirstVersion
  <2>2. Spot \in Contracts!Places /\ Valid(Spot) /\ Spot \in DOMAIN contracts
    BY <1>0, <2>1 DEF SpotOK
  <2>3. tx \in DOMAIN Txs /\ op \in DOMAIN Txs[tx].ops
    BY <2>2, PlaceIs DEF Spot
  <2> QED
    BY <2>1, <2>2, <2>3
<1>2. /\ Contracts!Id = Spot /\ OpAt(Spot) = Contracts!This /\ Contracts!At = Txs[Spot[1]].at
      /\ Spot[1] = tx /\ Spot[2] = op /\ OpAt(Spot).kind = "create"
  BY <1>1 DEF Contracts!Id, Contracts!Here, Contracts!This, Spot, OpAt, Contracts!OpAt, Contracts!At, Valid
<1>3. ~Permitted(Spot)
  BY <1>2 DEF Permitted
<1>4. reached' \in Nat /\ reached' >= reached
  BY <1>0, <1>1, ReachedGrows DEF Handled
<1>5. SpotOK' /\ Spot' = <<tx, op + 1>>
  BY <1>0, <1>1, GoesOn DEF Handled
<1>6. ASSUME NEW v \in versions, v.place # <<>>
      PROVE  v.place # Spot /\ v.place \in Contracts!Places /\ v.place[1] \in Nat
  BY <1>2, <1>6, PlaceIs DEF ContractsInv, VersionOK
<1> DEFINE same == {v \in versions : v.id = Spot /\ v.at = Contracts!At}
<1>7. \/ /\ same = {}
         /\ versions' = versions \cup
              {[id |-> Spot, at |-> Contracts!At, place |-> <<>>, code |-> OpAt(Spot).code,
                by |-> Contracts!This.by]}
      \/ \E v \in same : versions' = (versions \ {v}) \cup {[v EXCEPT !.code = OpAt(Spot).code]}
  BY <1>2 DEF Contracts!FirstVersion
<1>8. CASE /\ same = {}
           /\ versions' = versions \cup
                {[id |-> Spot, at |-> Contracts!At, place |-> <<>>, code |-> OpAt(Spot).code,
                  by |-> Contracts!This.by]}
  <2> DEFINE w == [id |-> Spot, at |-> Contracts!At, place |-> <<>>, code |-> OpAt(Spot).code,
                   by |-> Contracts!This.by]
  <2>1. VersionOK(w)
    BY <1>1, <1>2 DEF VersionOK
  <2>2. w.id = Spot /\ w.place = <<>>
    OBVIOUS
  <2>3. w \in versions' /\ versions' \subseteq versions \cup {w} /\ versions \subseteq versions'
    BY <1>8
  <2>4. \E u \in versions' : u.id = Spot /\ u.place = <<>>
    BY <2>2, <2>3
  <2>5. \A v \in versions' : v # w => v.place # Spot
    <3>1. Spot # <<>>
      BY DEF Spot
    <3> QED
      BY <1>6, <2>3, <3>1
  <2>6. OpAt(Spot).kind # "broken"
    BY <1>2
  <2> HIDE DEF w
  <2> QED
    BY <1>0, <1>1, <1>3, <2>1, <2>2, <2>3, <2>4, <2>5, <2>6, VersionWritten
<1>9. ASSUME NEW v \in same,
             versions' = (versions \ {v}) \cup {[v EXCEPT !.code = OpAt(Spot).code]}
      PROVE  ContractsInv'
  <2>1. v \in versions /\ v.id = Spot /\ VersionOK(v)
    BY <1>9 DEF ContractsInv
  <2>2. PICK w : /\ w = [id |-> v.id, at |-> v.at, place |-> v.place, code |-> OpAt(Spot).code,
                         by |-> v.by]
                 /\ w = [v EXCEPT !.code = OpAt(Spot).code]
    <3>1. v = [id |-> v.id, at |-> v.at, place |-> v.place, code |-> v.code, by |-> v.by]
      BY <2>1 DEF VersionOK
    <3>2. [v EXCEPT !.code = OpAt(Spot).code] =
            [id |-> v.id, at |-> v.at, place |-> v.place, code |-> OpAt(Spot).code, by |-> v.by]
      BY <3>1
    <3> QED
      BY <3>2
  <2>3. /\ w.id = v.id /\ w.at = v.at /\ w.place = v.place /\ w.by = v.by /\ w.code = OpAt(Spot).code
        /\ w = [id |-> w.id, at |-> w.at, place |-> w.place, code |-> w.code, by |-> w.by]
    BY <2>2
  <2>4. VersionOK(w)
    BY <2>1, <2>3 DEF VersionOK
  <2>5. /\ w \in versions' /\ versions' \subseteq versions \cup {w}
        /\ \A u \in versions \ versions' : u = v
    BY <1>9, <2>2
  <2>6. ASSUME faults = 0, w.place # <<>>
        PROVE  /\ Live(w.place) /\ w.place[1] =< reached'
               /\ ~Earlier(w.place, Spot')
    <3>1. v.place # <<>> /\ Earlier(Spot, v.place) /\ v.place \in Contracts!Places
      BY <2>1, <2>3, <2>6, <1>6 DEF VersionOK
    <3>2. Live(v.place) /\ v.place[1] =< reached /\ v.place[1] \in Nat
      BY <1>0, <1>6, <2>1, <2>6, <3>1 DEF NothingMissing
    <3>3. v.place[1] =< reached' /\ reached \in Nat
      BY <1>0, <1>4, <3>2 DEF SpotOK
    <3>4. ~Earlier(v.place, Spot)
      <4>1. PICK t \in DOMAIN Txs : \E k \in DOMAIN Txs[t].ops :
              v.place[1] = t /\ v.place[2] = k /\ t \in Nat /\ k \in Nat
        BY <3>1, PlaceIs
      <4>2. Spot[1] \in Nat /\ Spot[2] \in Nat
        BY <1>0, <1>2 DEF SpotOK
      <4> QED
        BY <3>1, <4>1, <4>2 DEF Earlier, Contracts!Earlier
    <3>5. ~Earlier(v.place, Spot')
      BY <1>0, <1>1, <1>5, <1>6, <2>1, <3>1, <3>4, NextSpot
    <3> QED
      BY <2>3, <3>2, <3>3, <3>5
  <2>7. ASSUME faults = 0 PROVE \E u \in versions' : u.id = Spot /\ u.place = <<>>
    <3>1. PICK u \in versions : u.id = v.id /\ u.place = <<>>
      BY <1>0, <2>1, <2>7 DEF NothingMissing
    <3>2. CASE u = v
      BY <2>1, <2>3, <2>5, <3>1, <3>2
    <3>3. CASE u # v
      BY <2>1, <2>5, <3>1, <3>3
    <3> QED
      BY <3>2, <3>3
  <2>8. \A u \in versions' : u # w => u.place # Spot
    <3>1. Spot # <<>>
      BY DEF Spot
    <3> QED
      BY <1>6, <2>5, <3>1
  <2>9. OpAt(Spot).kind # "broken"
    BY <1>2
  <2>10. \A u \in versions \ versions' : u.id = w.id /\ u.place = w.place
    BY <2>3, <2>5
  <2>11. w.id = Spot
    BY <2>1, <2>3
  <2>12. faults' = faults /\ faults' \in Nat
    BY <1>0, <1>1
  <2> QED
    BY <1>1, <1>3, <2>4, <2>5, <2>6, <2>7, <2>8, <2>9, <2>10, <2>11, <2>12, VersionWritten
<1> QED
  BY <1>7, <1>8, <1>9

\* Nothing broken comes before the operation that is handled.
LEMMA LiveHere ==
  ASSUME ContractsInv, faults = 0, tx \in DOMAIN Txs, op \in DOMAIN Txs[tx].ops,
         OpAt(Spot).kind # "broken"
  PROVE  Live(Spot)
<1>1. NothingMissing /\ op \in Nat /\ op =< Len(Txs[tx].ops) /\ Spot[1] = tx /\ Spot[2] = op
  BY PartsAssumption DEF ContractsInv, SpotOK, Contracts!RegistryAssumption, Spot
<1>2. ASSUME NEW k \in 1..op PROVE OpAt(<<tx, k>>).kind # "broken"
  <2>1. CASE k = op
    BY <2>1 DEF Spot
  <2>2. CASE k # op
    BY <1>1, <2>2 DEF NothingMissing
  <2> QED
    BY <2>1, <2>2
<1> QED
  BY <1>1, <1>2 DEF Live, Contracts!Live, OpAt, Contracts!OpAt

\* Without faults an update is taken when Hive's transactions permit it.
LEMMA UpdateIsPermitted ==
  ASSUME ContractsInv, faults = 0, Spot \in Contracts!Places, OpAt(Spot).kind = "update"
  PROVE  Permitted(Spot) <=> Contracts!Proved(OpAt(Spot)) /\ Contracts!MayUpdate(OpAt(Spot))
<1>0. ContractsOK /\ NothingMissing
  BY DEF ContractsInv
<1>1. ASSUME Permitted(Spot)
      PROVE  Contracts!Proved(OpAt(Spot)) /\ Contracts!MayUpdate(OpAt(Spot))
  <2>1. PICK c \in Contracts!Places : /\ c = OpAt(Spot).id /\ Earlier(c, Spot) /\ Valid(c) /\ Live(c)
                                      /\ OpAt(c).owner = OpAt(Spot).by
    BY <1>1 DEF Permitted
  <2>2. c \in DOMAIN contracts /\ contracts[c].owner = OpAt(c).owner
    BY <1>0, <2>1 DEF NothingMissing, ContractsOK
  <2> QED
    BY <1>1, <2>1, <2>2 DEF Permitted, Contracts!Proved, Contracts!MayUpdate
<1>2. ASSUME Contracts!Proved(OpAt(Spot)), Contracts!MayUpdate(OpAt(Spot)) PROVE Permitted(Spot)
  <2>1. PICK c \in DOMAIN contracts : c = OpAt(Spot).id /\ contracts[c].owner = OpAt(Spot).by
    BY <1>2 DEF Contracts!MayUpdate
  <2>2. c \in Contracts!Places /\ Valid(c) /\ OpAt(c).owner = OpAt(Spot).by /\ Live(c)
    BY <1>0, <2>1 DEF ContractsOK, NothingMissing
  <2>3. Earlier(c, Spot)
    BY <2>1, <2>2, PartsAssumption DEF Contracts!RegistryAssumption, Earlier, OpAt
  <2> QED
    BY <1>2, <2>1, <2>2, <2>3 DEF Permitted, Contracts!Proved
<1> QED
  BY <1>1, <1>2

LEMMA ContractsUpdate ==
  ASSUME ContractsInv, Contracts!Update, Handled PROVE ContractsInv'
<1>0. SpotOK /\ ContractsOK /\ faults \in Nat /\ (faults = 0 => NothingMissing)
  BY DEF ContractsInv, SpotOK
<1>1. /\ tx \in DOMAIN Txs /\ op \in DOMAIN Txs[tx].ops /\ OpAt(Spot).kind = "update"
      /\ UNCHANGED <<contracts, outputs, saved>> /\ Contracts!Continue
  BY DEF Contracts!Update, Contracts!Handling, Contracts!This, OpAt, Contracts!OpAt, Spot
<1>2. /\ Contracts!Here = Spot /\ OpAt(Spot) = Contracts!This /\ Contracts!At = Txs[Spot[1]].at
      /\ Spot[1] = tx /\ Spot[2] = op /\ Spot \in Contracts!Places /\ Spot # <<>>
  BY <1>1, PlaceHere
     DEF Contracts!Here, Contracts!This, Spot, OpAt, Contracts!OpAt, Contracts!At
<1>3. ~Valid(Spot) /\ OpAt(Spot).kind # "broken"
  BY <1>1 DEF Valid
<1>4. reached' \in Nat /\ reached' >= reached /\ reached' >= tx
  BY <1>0, <1>1, ReachedGrows DEF Handled
<1>5. CASE /\ Contracts!Proved(Contracts!This) /\ Contracts!MayUpdate(Contracts!This)
           /\ versions' =
                {v \in versions : ~(v.id = Contracts!This.id /\ v.at = Contracts!At
                                    /\ v.place = Contracts!Here)} \cup
                  {[id |-> Contracts!This.id, at |-> Contracts!At, place |-> Contracts!Here,
                    code |-> Contracts!This.code, by |-> Contracts!This.by]}
           /\ UNCHANGED faults
  <2> DEFINE w == [id |-> OpAt(Spot).id, at |-> Contracts!At, place |-> Spot,
                   code |-> OpAt(Spot).code, by |-> OpAt(Spot).by]
  <2>1. versions' = {v \in versions : ~(v.id = w.id /\ v.at = w.at /\ v.place = w.place)} \cup {w}
    BY <1>2, <1>5
  <2>2. /\ w.id = OpAt(Spot).id /\ w.at = Contracts!At /\ w.place = Spot
        /\ w.code = OpAt(Spot).code /\ w.by = OpAt(Spot).by
        /\ w = [id |-> w.id, at |-> w.at, place |-> w.place, code |-> w.code, by |-> w.by]
    OBVIOUS
  <2> HIDE DEF w
  <2>3. /\ w.id \in DOMAIN contracts /\ contracts[w.id].owner = w.by /\ OpAt(Spot).proof = "signed"
        /\ w.id \in Contracts!Places /\ OpAt(w.id).owner = w.by
    BY <1>0, <1>2, <1>5, <2>2 DEF Contracts!Proved, Contracts!MayUpdate, ContractsOK
  <2>4. Earlier(w.id, Spot)
    BY <1>1, <1>2, <2>2, <2>3, PartsAssumption DEF Contracts!RegistryAssumption, Earlier, OpAt
  <2>5. VersionOK(w)
    BY <1>1, <1>2, <2>2, <2>3, <2>4 DEF VersionOK
  <2>6. /\ w \in versions' /\ versions' \subseteq versions \cup {w}
        /\ \A v \in versions \ versions' : v.id = w.id /\ v.place = w.place
    BY <2>1
  <2>7. \A v \in versions' : v # w => v.place # Spot
    <3>1. ASSUME NEW v \in versions, v.place = Spot PROVE v.id = w.id /\ v.at = w.at
      BY <1>2, <2>2, <3>1 DEF ContractsInv, VersionOK
    <3> QED
      BY <2>1, <2>2, <3>1
  <2>8. ASSUME faults = 0
        PROVE  Live(Spot) /\ \E u \in versions' : u.id = w.id /\ u.place = <<>>
    <3>1. Live(Spot)
      BY <1>1, <1>3, <2>8, LiveHere
    <3>2. Valid(w.id) /\ Live(w.id)
      BY <1>0, <2>3, <2>8 DEF ContractsOK, NothingMissing
    <3>3. PICK u \in versions : u.id = w.id /\ u.place = <<>>
      BY <1>0, <2>3, <2>4, <2>8, <3>2 DEF NothingMissing
    <3>4. u \in versions'
      BY <1>2, <2>1, <2>2, <3>3
    <3> QED
      BY <3>1, <3>3, <3>4
  <2>9. Spot[1] =< reached'
    BY <1>2, <1>4
  <2> QED
    BY <1>0, <1>1, <1>3, <1>5, <2>2, <2>5, <2>6, <2>7, <2>8, <2>9, VersionWritten
<1>6. CASE /\ UNCHANGED versions /\ faults' \in Nat
           /\ faults' = 0 => faults = 0 /\ ~(Contracts!Proved(Contracts!This)
                                             /\ Contracts!MayUpdate(Contracts!This))
  <2>1. SpotOK' /\ Spot' = <<tx, op + 1>>
    BY <1>0, <1>1, <1>6, GoesOn DEF Handled
  <2>2. ContractsOK'
    BY <1>0, <1>1 DEF ContractsOK
  <2>3. ASSUME faults' = 0
        PROVE  /\ \A k \in 1..(op' - 1) : OpAt(<<tx', k>>).kind # "broken"
               /\ ~Permitted(Spot) /\ \A v \in versions : v.place # Spot
    <3>1. \A k \in 1..(op' - 1) : OpAt(<<tx', k>>).kind # "broken"
      BY <1>1, <1>3, <1>6, <2>3, NotBroken
    <3>2. ~Permitted(Spot)
      BY <1>1, <1>2, <1>6, <2>3, UpdateIsPermitted
    <3>3. ASSUME NEW v \in versions, v.place = Spot PROVE FALSE
      <4>1. /\ v.id \in DOMAIN contracts /\ OpAt(Spot).proof = "signed"
            /\ v.id = OpAt(Spot).id /\ OpAt(v.id).owner = OpAt(Spot).by
        BY <1>2, <3>3 DEF ContractsInv, VersionOK
      <4>2. contracts[v.id].owner = OpAt(v.id).owner
        BY <1>0, <4>1 DEF ContractsOK
      <4> QED
        BY <1>2, <1>6, <2>3, <4>1, <4>2 DEF Contracts!Proved, Contracts!MayUpdate
    <3> QED
      BY <3>1, <3>2, <3>3
  <2>4. \A p \in Contracts!Places : Earlier(p, Spot') => Earlier(p, Spot) \/ p = Spot
    BY <1>0, <1>1, <2>1, NextSpot
  <2> QED
    BY <1>1, <1>3, <1>4, <1>6, <2>1, <2>2, <2>3, <2>4, SameVersions
<1>7. ASSUME Contracts!Fault, UNCHANGED versions
      PROVE  UNCHANGED versions /\ faults' \in Nat /\ faults' # 0
  BY <1>0, <1>7 DEF Contracts!Fault
<1> QED
  BY <1>0, <1>5, <1>6, <1>7 DEF Contracts!Update

LEMMA ContractsStep ==
  ASSUME ContractsInv, [Contracts!Next]_(Contracts!vars) PROVE ContractsInv'
<1>1. CASE Contracts!Handle /\ Handled
  BY <1>1, ContractsCreate, ContractsPin, ContractsRecord, ContractsFirstVersion, ContractsUpdate,
     ContractsBroken, ContractsOutput, ContractsEndTx DEF Contracts!Handle
<1>2. CASE UNCHANGED Contracts!vars
  <2>1. UNCHANGED <<contracts, versions, outputs, saved, tx, op, step, reached, faults>>
    BY <1>2 DEF Contracts!vars
  <2>2. SpotOK' /\ ContractsOK' /\ Spot' = Spot
    BY <2>1 DEF ContractsInv, SpotOK, ContractsOK, Spot
  <2>3. reached \in Nat /\ (faults = 0 => NothingMissing)
    BY DEF ContractsInv, SpotOK
  <2> QED
    BY <2>1, <2>2, <2>3, SameContracts DEF NothingMissing
<1> QED
  BY <1>1, <1>2, ContractsSave, ContractsCrash DEF Contracts!Next, Handled

\* Read at once up to a transaction, Hive has the contracts that were made and the
\* updates that were permitted.
LEMMA ReadAtOnce ==
  ASSUME NEW n
  PROVE  /\ \A p : p \in Contracts!ContractsOf(n) <=>
              p \in Contracts!Places /\ p[1] =< n /\ Live(p) /\ Valid(p)
         /\ \A p : p \in Contracts!UpdatesOf(n) =>
              p \in Contracts!Places /\ p[1] =< n /\ Live(p) /\ Permitted(p)
  BY DEF Contracts!ContractsOf, Contracts!UpdatesOf, Live, Valid, Permitted, OpAt, Earlier

\* What FollowsHive says of the versions, which are of those contracts and updates.
LEMMA VersionsOfHive ==
  ASSUME ContractsInv, faults = 0, Contracts!AtBlockEnd, tx - 1 = reached
  PROVE  /\ DOMAIN contracts = Contracts!ContractsOf(reached)
         /\ \A v \in versions :
              \/ v.id \in Contracts!ContractsOf(reached) /\ v.place = <<>> /\ v.code = OpAt(v.id).code
              \/ /\ v.place \in Contracts!UpdatesOf(reached)
                 /\ v.id = OpAt(v.place).id /\ v.code = OpAt(v.place).code
         /\ \A c \in Contracts!ContractsOf(reached) : \E v \in versions : v.id = c /\ v.place = <<>>
         /\ \A p \in Contracts!UpdatesOf(reached) :
              \E v \in versions : v.place = p /\ v.id = OpAt(p).id
<1>1. /\ SpotOK /\ ContractsOK /\ NothingMissing /\ op = 1 /\ tx \in Nat /\ reached \in Nat
      /\ \A v \in versions : VersionOK(v)
  BY DEF ContractsInv, SpotOK, Contracts!AtBlockEnd
<1>2. ASSUME NEW p \in Contracts!Places PROVE p[1] \in Nat /\ (p[1] =< reached => Earlier(p, Spot))
  <2>1. p[1] \in Nat
    BY PlaceIs
  <2> QED
    BY <1>1, <2>1 DEF Earlier, Contracts!Earlier, Spot
<1>3. DOMAIN contracts = Contracts!ContractsOf(reached)
  <2>1. ASSUME NEW c \in DOMAIN contracts PROVE c \in Contracts!ContractsOf(reached)
    BY <1>1, ReadAtOnce DEF ContractsOK, NothingMissing
  <2>2. ASSUME NEW c \in Contracts!ContractsOf(reached) PROVE c \in DOMAIN contracts
    BY <1>1, <1>2, ReadAtOnce DEF NothingMissing
  <2> QED
    BY <2>1, <2>2
<1>4. ASSUME NEW v \in versions, v.place # <<>>
      PROVE  /\ v.place \in Contracts!UpdatesOf(reached)
             /\ v.id = OpAt(v.place).id /\ v.code = OpAt(v.place).code
  <2>1. /\ v.place \in Contracts!Places /\ OpAt(v.place).kind = "update"
        /\ OpAt(v.place).proof = "signed" /\ v.id \in DOMAIN contracts /\ v.id = OpAt(v.place).id
        /\ OpAt(v.id).owner = OpAt(v.place).by /\ Earlier(v.id, v.place)
    BY <1>1, <1>4 DEF VersionOK
  <2>2. /\ Live(v.place) /\ v.place[1] =< reached
        /\ Earlier(v.place, Spot) => v.code = OpAt(v.place).code
    BY <1>1, <1>4 DEF NothingMissing
  <2>3. v.place \in Contracts!UpdatesOf(reached)
    BY <1>3, <2>1, <2>2 DEF Contracts!UpdatesOf, Live, OpAt, Earlier
  <2> QED
    BY <1>2, <2>1, <2>2, <2>3
<1>5. ASSUME NEW v \in versions, v.place = <<>>
      PROVE  v.id \in Contracts!ContractsOf(reached) /\ v.code = OpAt(v.id).code
  BY <1>1, <1>3, <1>5 DEF VersionOK
<1>6. ASSUME NEW c \in Contracts!ContractsOf(reached)
      PROVE  \E v \in versions : v.id = c /\ v.place = <<>>
  BY <1>1, <1>2, ReadAtOnce DEF NothingMissing
<1>7. ASSUME NEW p \in Contracts!UpdatesOf(reached)
      PROVE  \E v \in versions : v.place = p /\ v.id = OpAt(p).id
  <2>1. p \in Contracts!Places /\ p[1] =< reached /\ Live(p) /\ Permitted(p)
    BY ReadAtOnce
  <2>2. PICK v \in versions : v.place = p
    BY <1>1, <1>2, <2>1 DEF NothingMissing
  <2>3. p # <<>>
    BY <2>1, PlaceIs
  <2>4. v.id = OpAt(v.place).id
    BY <1>1, <2>2, <2>3 DEF VersionOK
  <2> QED
    BY <2>2, <2>4
<1> QED
  BY <1>3, <1>4, <1>5, <1>6, <1>7

LEMMA ContractsAreHives ==
  ASSUME ContractsInv PROVE Contracts!FollowsHive
<1> SUFFICES ASSUME faults = 0, Contracts!AtBlockEnd, tx - 1 = reached
             PROVE  /\ DOMAIN contracts = Contracts!ContractsOf(reached)
                    /\ \A c \in DOMAIN contracts :
                         /\ contracts[c].code = OpAt(c).code
                         /\ contracts[c].owner = OpAt(c).owner
                    /\ {<<v.id, v.place, v.code>> : v \in versions} =
                         {<<c, <<>>, OpAt(c).code>> : c \in Contracts!ContractsOf(reached)} \cup
                         {<<OpAt(p).id, p, OpAt(p).code>> : p \in Contracts!UpdatesOf(reached)}
  BY DEF Contracts!FollowsHive, OpAt
<1> DEFINE known == {<<v.id, v.place, v.code>> : v \in versions}
           first == {<<c, <<>>, OpAt(c).code>> : c \in Contracts!ContractsOf(reached)}
           later == {<<OpAt(p).id, p, OpAt(p).code>> : p \in Contracts!UpdatesOf(reached)}
<1>1. known \subseteq first \cup later
  <2>1. ASSUME NEW v \in versions PROVE <<v.id, v.place, v.code>> \in first \cup later
    BY VersionsOfHive
  <2> QED
    BY <2>1
<1>2. first \subseteq known
  <2>1. ASSUME NEW c \in Contracts!ContractsOf(reached) PROVE <<c, <<>>, OpAt(c).code>> \in known
    <3>1. PICK v \in versions : v.id = c /\ v.place = <<>>
      BY VersionsOfHive
    <3>2. v.code = OpAt(c).code
      <4>1. <<>> \notin Contracts!UpdatesOf(reached)
        BY ReadAtOnce, PlaceIs
      <4> QED
        BY <3>1, <4>1, VersionsOfHive
    <3> QED
      BY <3>1, <3>2
  <2> QED
    BY <2>1
<1>3. later \subseteq known
  <2>1. ASSUME NEW p \in Contracts!UpdatesOf(reached)
        PROVE  <<OpAt(p).id, p, OpAt(p).code>> \in known
    <3>1. PICK v \in versions : v.place = p /\ v.id = OpAt(p).id
      BY VersionsOfHive
    <3>2. p # <<>>
      BY ReadAtOnce, PlaceIs
    <3>3. v.code = OpAt(p).code
      BY <3>1, <3>2, VersionsOfHive
    <3> QED
      BY <3>1, <3>3
  <2> QED
    BY <2>1
<1>4. \A c \in DOMAIN contracts :
        contracts[c].code = OpAt(c).code /\ contracts[c].owner = OpAt(c).owner
  BY DEF ContractsInv, ContractsOK
<1>5. DOMAIN contracts = Contracts!ContractsOf(reached)
  BY VersionsOfHive
<1>6. known = first \cup later
  BY <1>1, <1>2, <1>3
<1> QED
  BY <1>4, <1>5, <1>6

\* The last output is the one at the greatest height: a contract has one at a height.
LEMMA LastOutput ==
  ASSUME ContractsInv PROVE Contracts!StateSurvivesReplay
<1> SUFFICES ASSUME NEW p \in outputs, OpAt(p).id \in DOMAIN contracts,
                    \A q \in outputs : OpAt(q).id = OpAt(p).id => ~Earlier(p, q)
             PROVE  Contracts!StateFor(OpAt(p).id) = OpAt(p).state
  BY DEF Contracts!StateSurvivesReplay, OpAt, Earlier
<1> DEFINE of == {q \in outputs : OpAt(q).id = OpAt(p).id}
           Latest(l) == l \in of /\ \A q \in of : Txs[q[1]].at =< Txs[l[1]].at
<1>1. \A q \in outputs : q \in Contracts!Places /\ OpAt(q).kind = "output"
  BY DEF ContractsInv, ContractsOK
<1>2. \A q \in outputs : q[1] \in DOMAIN Txs /\ q[1] \in Nat /\ q[2] \in Nat /\ Txs[q[1]].at \in Nat
  BY <1>1, PlaceIs, PartsAssumption DEF Contracts!RegistryAssumption
<1>3. Latest(p)
  <2>1. ASSUME NEW q \in of PROVE Txs[q[1]].at =< Txs[p[1]].at
    <3>1. ~(p[1] < q[1])
      BY <2>1 DEF Earlier, Contracts!Earlier
    <3>2. CASE q[1] = p[1]
      BY <1>2, <3>2
    <3>3. CASE q[1] < p[1]
      BY <1>2, <3>3, PartsAssumption DEF Contracts!RegistryAssumption
    <3> QED
      BY <1>2, <3>1, <3>2, <3>3
  <2> QED
    BY <2>1
<1>4. ASSUME NEW l, Latest(l) PROVE l = p
  <2>1. l \in outputs /\ OpAt(l).id = OpAt(p).id
    BY <1>4
  <2>2. Txs[l[1]].at = Txs[p[1]].at
    BY <1>2, <1>3, <1>4, <2>1
  <2> QED
    BY <1>1, <2>1, <2>2, PartsAssumption DEF Contracts!RegistryAssumption, OpAt
<1>5. (CHOOSE l \in of : \A q \in of : Txs[q[1]].at =< Txs[l[1]].at) = p
  <2>1. p \in of /\ \A q \in of : Txs[q[1]].at =< Txs[p[1]].at
    BY <1>3
  <2>2. \A l \in of : (\A q \in of : Txs[q[1]].at =< Txs[l[1]].at) => l = p
    BY <1>4
  <2> HIDE DEF of
  <2> QED
    BY <2>1, <2>2
<1>6. of # {} /\ of = {q \in outputs : Contracts!OpAt(q).id = OpAt(p).id}
  BY DEF OpAt
<1> QED
  BY <1>5, <1>6 DEF Contracts!StateFor, OpAt

LEMMA ContractsTyped ==
  ASSUME ContractsInv PROVE Contracts!RegistryTypeOK /\ Contracts!OnlyProvedCode
<1>1. Contracts!RegistryTypeOK
  BY DEF ContractsInv, SpotOK, ContractsOK, VersionOK, Contracts!RegistryTypeOK
<1>2. Contracts!OnlyProvedCode
  BY DEF ContractsInv, ContractsOK, VersionOK, Valid, OpAt, Contracts!OnlyProvedCode
<1> QED
  BY <1>1, <1>2

\* However IPFS fails and the node is restarted, the contracts and versions it knows
\* have code that is kept and are their owner's, and a call sees the last output; and
\* when nothing failed, they are those Hive's transactions say.
THEOREM ContractsAreOfHive == PartsSpec => []ContractsFollowHive
<1>1. PartsInit => (scenario = "contracts" => ContractsInv)
  BY ContractsInit DEF PartsInit
<1>2. (scenario = "contracts" => ContractsInv) /\ [PartsNext]_vars =>
        (scenario = "contracts" => ContractsInv)'
  BY PartsStep, ContractsStep
<1>3. (scenario = "contracts" => ContractsInv) => ContractsFollowHive
  BY ContractsTyped, ContractsAreHives, LastOutput DEF ContractsFollowHive
<1> QED
  BY <1>1, <1>2, <1>3, PTL DEF PartsSpec

-------------------------------------------------------------------------------
(* FileUpload. *)

Requests(m) == [file : File, timer : 0..(m - 1)]
Handlers(m, c) ==
  [id : 0..(c - 1), peer : Peer, request : Requests(m), file : File,
   pc : {"hash", "sign", "pin", "answer", "refuse", "clean"}]

Answers(c) == [of : 0..(c - 1), peer : Peer, file : File, type : {"success", "error"}]

\* Of a file being worked on: from which request it came, and how far it is.
HandlerOK(h) ==
  /\ h \in Handlers(made, came)
  /\ h.request # Null
  /\ [peer |-> h.peer, file |-> h.request.file] \in asked
  /\ h.pc \in {"sign", "pin", "answer"} => h.file = h.request.file
  /\ h.pc = "answer" => h.file \in pinned

\* An answer is that of a handler which has come to its end, one to each.
AnswerOK(a) ==
  /\ a \in Answers(came)
  /\ a.type = "success" => a.file \in pinned /\ [peer |-> a.peer, file |-> a.file] \in asked
  /\ \A h \in handlers : h.id = a.of => h.pc = "clean"

RequestOK(p) ==
  requests[p] # Null =>
    /\ requests[p] \in Requests(made)
    /\ [peer |-> p, timer |-> requests[p].timer] \in timers
    /\ [peer |-> p, file |-> requests[p].file] \in asked

UploadInv ==
  /\ made \in Nat /\ came \in Nat /\ errors \in Nat
  /\ DOMAIN requests = Peer /\ \A p \in Peer : RequestOK(p)
  /\ timers \subseteq [peer : Peer, timer : 0..(made - 1)]
  /\ pinned \subseteq File
  /\ \A h \in handlers : HandlerOK(h)
  /\ \A h, g \in handlers : h.id = g.id => h = g
  /\ \A a \in answers : AnswerOK(a)
  /\ \A a, b \in answers : a.of = b.of => a = b

-------------------------------------------------------------------------------
(* IndexReset. *)

This == Upgrade!This

\* The releases are such that their ids only grow.
Growing == UpkeepAssumption /\ Upgrade!ReleasesGrow

\* What collection c has of this release.
Mine(c) == Upgrade!OfThis(c)

\* What release r keeps, of the resets since the b recorded: the least of them.
KeepOf(r, b) ==
  Upgrade!Min({Release[r].keep[i] : i \in (b + 1)..Len(Release[r].keep)}
              \cup {Upgrade!Infinity})

\* What was stored by height h was stored after the first b resets, as far as it
\* falls under them.
Follows(h, stored, b) == \A i \in 1..b : h > This.keep[i] => stored >= i

Fresh(b) == \A h \in DOMAIN events : Follows(h, events[h], b)

\* The blocks stored have no gap, and are stored after every reset recorded; where
\* the release asks for another, what it keeps is there.
BlocksInv ==
  /\ \E g \in (Genesis - 1)..LastBlock : events \in [Genesis..g -> Nat]
  /\ \/ blockReset = <<>> /\ DOMAIN events = {}
     \/ \E q \in 1..release : blockReset = <<Release[q].block>> /\ Fresh(Release[q].block)
  /\ lastHb = 0 \/ lastHb \in Genesis..LastBlock
  /\ \/ lastHb = 0 \/ lastHb \in DOMAIN events
     \/ /\ stage \in {"blocks", "events", "lastHb"} /\ DOMAIN events # {}
        /\ blockReset # <<This.block>>
  /\ blockReset # <<This.block>> /\ DOMAIN events # {} =>
       KeepOf(release, blockReset[1]) \in DOMAIN events

\* How far init is with the blocks.
BlockSteps ==
  /\ stage = "events" =>
       \/ DOMAIN events = {} /\ keep = Genesis - 1
       \/ DOMAIN events # {} /\ keep = KeepOf(release, blockReset[1])
          /\ blockReset # <<This.block>>
  /\ stage = "lastHb" =>
       \/ DOMAIN events = {} /\ lastHb = 0
       \/ keep \in DOMAIN events /\ blockReset # <<This.block>>
  /\ stage \in {"lastHb", "blockId"} => Fresh(This.block)
  /\ stage \in {"index", "empty", "indexId", "start", "run"} => blockReset = <<This.block>>

Written == [index : Nat, at : (Genesis + 1)..LastBlock, stored : Nat]

\* What the collections hold up to height m, where the parser has come.
WholeTo(m) ==
  /\ \A c \in Collection :
       /\ {w.at : w \in Mine(c)} = (Genesis + 1)..m
       /\ \A w \in Mine(c) : Follows(w.at, w.stored, This.block)
       /\ c \notin Kept => content[c] = Mine(c)
  /\ processed = 0 \/ (processed \in (Genesis + 1)..m /\ processed \in DOMAIN events)
  /\ stage = "run" => cursor = 0 \/ (cursor \in Genesis..m /\ cursor \in DOMAIN events)

IndexInv ==
  /\ content \in [Collection -> SUBSET Written] /\ processed \in Nat
  /\ processed = 0 \/ processed \in Genesis..LastBlock
  /\ cursor = 0 \/ cursor \in Genesis..LastBlock
  /\ indexReset = <<>> \/ \E q \in 1..release : indexReset = <<Release[q].index>>
  /\ \A c \in Collection : \A w \in content[c] : indexReset # <<>> /\ w.index =< indexReset[1]
  /\ indexReset = <<This.index>> =>
       blockReset = <<This.block>> /\ \E m \in Genesis..LastBlock : WholeTo(m)
  /\ stage \in {"start", "run"} => indexReset = <<This.index>>
  /\ stage \in {"empty", "indexId"} =>
       indexReset # <<This.index>> /\ \A c \in Collection \ (todo \cup Kept) : content[c] = {}
  /\ stage = "indexId" => processed = 0
  /\ stage = "run" =>
       next \in Genesis..(LastBlock + 1) /\ (next = Genesis \/ next - 1 \in DOMAIN events)

ResetInv ==
  /\ release \in 1..Len(Release) /\ starts \in Nat
  /\ stage \in {"blocks", "events", "lastHb", "blockId", "index", "empty", "indexId", "start", "run"}
  /\ todo \subseteq Collection /\ (stage = "empty" \/ todo = {})
  /\ BlocksInv /\ BlockSteps /\ IndexInv

\* A step is one of the part chosen.
LEMMA UpkeepStep ==
  ASSUME [UpkeepNext]_upkeepVars
  PROVE  /\ service' = service
         /\ service = "upload" => [Upload!Next]_(Upload!vars)
         /\ service = "upgrade" => [Upgrade!Next]_(Upgrade!vars)
<1> USE DEF ofUpload, ofUpgrade, Upload!vars, Upgrade!vars, Upgrade!db
<1>1. CASE UNCHANGED upkeepVars
  BY <1>1 DEF upkeepVars
<1>2. CASE UpkeepNext
  BY <1>2 DEF UpkeepNext
<1> QED
  BY <1>1, <1>2

LEMMA HandlersGrow ==
  ASSUME NEW m \in Nat, NEW c \in Nat
  PROVE  /\ Requests(m) \subseteq Requests(m + 1)
         /\ Handlers(m, c) \subseteq Handlers(m + 1, c)
         /\ Handlers(m, c) \subseteq Handlers(m, c + 1)
         /\ Answers(c) \subseteq Answers(c + 1)
         /\ \A h \in Handlers(m, c) : h.id # c /\ h.file \in File
         /\ \A a \in Answers(c) : a.of # c
<1>1. 0..(m - 1) \subseteq 0..(m + 1 - 1) /\ 0..(c - 1) \subseteq 0..(c + 1 - 1)
  OBVIOUS
<1>2. Requests(m) \subseteq Requests(m + 1)
  BY <1>1 DEF Requests
<1> QED
  BY <1>1, <1>2 DEF Handlers, Answers

LEMMA UploadInit ==
  ASSUME UpkeepInit, service = "upload"
  PROVE  UploadInv
BY DEF UpkeepInit, UploadInv, Upload!Init, RequestOK

\* An action of the handler of a file, but for what it ends with.
LEMMA WorkKeeps ==
  ASSUME UploadInv, NEW h \in handlers,
         Upload!Match(h) \/ Upload!Sign(h) \/ Upload!Pin(h) \/ Upload!Answer(h)
  PROVE  UploadInv'
<1> USE DEF UploadInv, HandlerOK
<1> PICK stop \in {"sign", "pin", "answer", "refuse", "clean"} :
      /\ handlers' = (handlers \ {h}) \cup {[h EXCEPT !.pc = stop]}
      /\ stop \in {"sign", "pin", "answer"} => h.file = h.request.file
      /\ stop = "answer" => h.file \in pinned'
      /\ Upload!Answer(h) => stop = "clean"
  BY DEF Upload!Match, Upload!Sign, Upload!Pin, Upload!Answer, Upload!Goto
<1> DEFINE k == [h EXCEPT !.pc = stop]
<1>0. UNCHANGED <<requests, timers, asked, made, came, errors>>
  BY DEF Upload!Match, Upload!Sign, Upload!Pin, Upload!Answer
<1>1. /\ k.id = h.id /\ k.peer = h.peer /\ k.request = h.request /\ k.file = h.file
      /\ k.pc = stop /\ k \in Handlers(made, came)
  BY DEF Handlers
<1>2. pinned \subseteq pinned' /\ pinned' \subseteq File
  <2>1. h.file \in File
    BY HandlersGrow
  <2> QED
    BY <2>1 DEF Upload!Match, Upload!Sign, Upload!Pin, Upload!Answer
<1>3. HandlerOK(k)'
  BY <1>0, <1>1
<1>4. \A g \in handlers' : HandlerOK(g)'
  BY <1>0, <1>2, <1>3
<1>5. \A g, j \in handlers' : g.id = j.id => g = j
  <2> HIDE DEF k
  <2>1. \A g, j \in handlers : g.id = j.id => g = j
    OBVIOUS
  <2>2. handlers' = (handlers \ {h}) \cup {k} /\ k.id = h.id
    BY <1>1 DEF k
  <2> QED
    BY <2>1, <2>2
<1>6. \A p \in Peer : RequestOK(p)'
  BY <1>0 DEF RequestOK
<1>7. CASE Upload!Answer(h)
  <2> DEFINE a == [of |-> h.id, peer |-> h.peer, file |-> h.request.file,
                   type |-> IF h.pc = "answer" THEN "success" ELSE "error"]
  <2>1. answers' = answers \cup {a} /\ stop = "clean" /\ h.pc # "clean" /\ pinned' = pinned
    BY <1>7 DEF Upload!Answer
  <2>2. \A g \in handlers' : g.id = h.id => g.pc = "clean"
    BY <1>1, <2>1
  <2>3. AnswerOK(a)'
    <3>1. HandlerOK(h) /\ (h.pc = "answer" => h.request.file \in pinned)
      OBVIOUS
    <3>2. a \in Answers(came)
      BY <3>1 DEF Answers, Handlers, Requests
    <3> QED
      BY <1>0, <2>1, <2>2, <3>1, <3>2 DEF AnswerOK
  <2>4. \A b \in answers : AnswerOK(b)' /\ b.of # h.id
    BY <1>0, <1>1, <2>1 DEF AnswerOK
  <2> QED
    BY <1>0, <1>2, <1>4, <1>5, <1>6, <2>1, <2>3, <2>4
<1>8. CASE ~Upload!Answer(h)
  <2>1. answers' = answers /\ h.pc # "clean"
    BY <1>8 DEF Upload!Match, Upload!Sign, Upload!Pin
  <2>2. \A b \in answers : b.of # h.id
    BY <2>1 DEF AnswerOK
  <2>3. \A b \in answers : AnswerOK(b)'
    <3> HIDE DEF k
    <3>1. handlers' = (handlers \ {h}) \cup {k} /\ k.id = h.id
      BY <1>1 DEF k
    <3> QED
      BY <1>0, <1>2, <2>1, <2>2, <3>1 DEF AnswerOK
  <2> QED
    BY <1>0, <1>2, <1>4, <1>5, <1>6, <2>1, <2>3
<1> QED
  BY <1>7, <1>8

LEMMA UploadStep ==
  ASSUME UpkeepAssumption, UploadInv, [Upload!Next]_(Upload!vars)
  PROVE  UploadInv'
<1> USE DEF UploadInv
<1>1. CASE UNCHANGED Upload!vars
  BY <1>1 DEF Upload!vars, RequestOK, HandlerOK, AnswerOK
<1>2. ASSUME NEW p \in Peer, NEW f \in File, Upload!Request(p, f)
      PROVE  UploadInv'
  <2> USE <1>2 DEF Upload!Request
  <2>1. \A h \in handlers' : HandlerOK(h)'
    BY HandlersGrow DEF HandlerOK
  <2>2. \A a \in answers' : AnswerOK(a)'
    BY DEF AnswerOK
  <2>3. \A q \in Peer : RequestOK(q)'
    BY HandlersGrow DEF RequestOK, Requests
  <2> QED
    BY <2>1, <2>2, <2>3
<1>3. ASSUME NEW p \in Peer, NEW f \in File, Upload!Receive(p, f)
      PROVE  UploadInv'
  <2> USE <1>3 DEF Upload!Receive
  <2>0. \A q \in Peer : RequestOK(q)'
    BY DEF RequestOK
  <2>1. /\ \A g \in handlers : HandlerOK(g)' /\ g.id # came
        /\ \A a \in answers : a \in Answers(came + 1) /\ a.of # came
    BY HandlersGrow DEF HandlerOK, AnswerOK
  <2>2. CASE handlers' = handlers
    BY <2>0, <2>1, <2>2 DEF AnswerOK
  <2>3. CASE handlers' # handlers
    <3> PICK h :
          h = [id |-> came, peer |-> p, request |-> requests[p], file |-> f, pc |-> "hash"]
      OBVIOUS
    <3>1. handlers' = handlers \cup {h} /\ requests[p] # Null
      BY <2>3 DEF Upload!Of
    <3>2. HandlerOK(h)'
      <4>1. RequestOK(p) /\ UNCHANGED <<asked, made, pinned>>
        OBVIOUS
      <4>2. h \in Handlers(made, came + 1)
        BY <3>1, <4>1 DEF RequestOK, Handlers
      <4>3. h.request = requests[p] /\ h.peer = p /\ h.pc = "hash"
        OBVIOUS
      <4>4. [peer |-> p, file |-> requests[p].file] \in asked'
        BY <3>1, <4>1 DEF RequestOK
      <4>5. made' = made /\ came' = came + 1
        OBVIOUS
      <4> QED
        BY <3>1, <4>2, <4>3, <4>4, <4>5 DEF HandlerOK
    <3>3. h.id = came
      OBVIOUS
    <3>4. \A a \in answers : AnswerOK(a)'
      BY <2>1, <3>1, <3>3 DEF AnswerOK
    <3>5. \A g, j \in handlers' : g.id = j.id => g = j
      BY <2>1, <3>1, <3>3
    <3>6. \A g \in handlers' : HandlerOK(g)'
      BY <2>1, <3>1, <3>2
    <3>7. UNCHANGED <<requests, timers, pinned, answers, made, errors>> /\ came' = came + 1
      OBVIOUS
    <3> QED
      BY <2>0, <3>4, <3>5, <3>6, <3>7
  <2> QED
    BY <2>2, <2>3
<1>4. ASSUME NEW t \in timers, Upload!Expire(t)
      PROVE  UploadInv'
  <2> USE <1>4 DEF Upload!Expire
  <2>1. \A q \in Peer : RequestOK(q)'
    BY DEF RequestOK
  <2> QED
    BY <2>1 DEF HandlerOK, AnswerOK
<1>5. ASSUME NEW h \in handlers, Upload!Clean(h)
      PROVE  UploadInv'
  <2> USE <1>5 DEF Upload!Clean
  <2>1. \A q \in Peer : RequestOK(q)'
    BY DEF RequestOK, HandlerOK
  <2> QED
    BY <2>1 DEF HandlerOK, AnswerOK
<1>6. ASSUME NEW h \in handlers, Upload!Fail(h)
      PROVE  UploadInv'
  BY <1>6 DEF Upload!Fail, HandlerOK, AnswerOK, RequestOK
<1>7. ASSUME NEW h \in handlers, Upload!Work(h)
      PROVE  UploadInv'
  BY <1>5, <1>7, WorkKeeps DEF Upload!Work
<1> QED
  BY <1>1, <1>2, <1>3, <1>4, <1>6, <1>7 DEF Upload!Next

\* There are as many answers as files at most, since each has its own.
LEMMA UploadHolds ==
  ASSUME UploadInv
  PROVE  Upload!UploadTypeOK /\ Upload!SuccessIsKept /\ Upload!RequestsHaveTimers
<1> USE DEF UploadInv
<1>1. Cardinality(answers) =< came
  <2> DEFINE N == 0..(came - 1)
  <2> DEFINE f == [a \in answers |-> a.of]
  <2>1. f \in [answers -> N] /\ \A a, b \in answers : f[a] = f[b] => a = b
    BY DEF AnswerOK, Answers
  <2>2. f \in Injection(answers, N)
    BY <2>1 DEF Injection, IsInjective
  <2>3. IsFiniteSet(N) /\ Cardinality(N) = came
    BY FS_Interval
  <2> HIDE DEF N, f
  <2>4. Cardinality(answers) =< Cardinality(N)
    BY <2>2, <2>3, FS_Injection
  <2> QED
    BY <2>3, <2>4
<1>2. Upload!UploadTypeOK
  <2>1. \A p \in Peer : requests[p] # Null =>
          requests[p].file \in File /\ requests[p].timer \in 0..(made - 1)
    BY DEF RequestOK, Requests
  <2>2. \A h \in handlers : h.request # Null /\
          h.pc \in {"hash", "sign", "pin", "answer", "refuse", "clean"}
    BY DEF HandlerOK, Handlers
  <2> QED
    BY <1>1, <2>1, <2>2 DEF Upload!UploadTypeOK, Cardinality, Upload!Cardinality
<1>3. Upload!SuccessIsKept
  BY DEF Upload!SuccessIsKept, AnswerOK
<1>4. Upload!RequestsHaveTimers
  BY DEF Upload!RequestsHaveTimers, RequestOK
<1> QED
  BY <1>2, <1>3, <1>4

\* What a node says it keeps is pinned and was asked for, and no request stays
\* without a timer of its own, however requests, files and timers overlap.
THEOREM UploadsStayKept == UpkeepSpec => []UploadsAreKept
<1> DEFINE Inv == service = "upload" => UploadInv
<1>1. UpkeepInit => Inv
  BY UploadInit
<1>2. Inv /\ [UpkeepNext]_upkeepVars => Inv'
  BY UpkeepStep, UploadStep, UpkeepAssumption
<1>3. Inv => UploadsAreKept
  BY UploadHolds DEF UploadsAreKept
<1> QED
  BY <1>1, <1>2, <1>3, PTL DEF UpkeepSpec

-------------------------------------------------------------------------------
\* The assumptions about the constants, as the steps use them.
LEMMA ReleaseIs ==
  ASSUME Growing, NEW r \in 1..Len(Release)
  PROVE  /\ Release[r].index \in Nat /\ Release[r].block \in Nat
         /\ Len(Release[r].keep) \in Nat /\ Release[r].block =< Len(Release[r].keep)
         /\ \A i \in 1..Len(Release[r].keep) : Release[r].keep[i] \in Genesis..Synced
         /\ \A q \in 1..r :
              /\ Release[q].index =< Release[r].index /\ Release[q].block =< Release[r].block
              /\ Release[q].index = Release[r].index => Release[q].block = Release[r].block
              /\ \A i \in 1..Release[q].block : Release[q].keep[i] = Release[r].keep[i]
<1>1. /\ Release \in Seq([index : Nat, block : Nat, keep : Seq(Nat)])
      /\ Upgrade!ReleasesGrow
      /\ \A x \in DOMAIN Release : Len(Release[x].keep) >= Release[x].block
  BY DEF Growing, UpkeepAssumption, Upgrade!ResetAssumption
<1>2. DOMAIN Release = 1..Len(Release) /\ Len(Release) \in Nat
  BY <1>1
<1>3. Release[r] \in [index : Nat, block : Nat, keep : Seq(Nat)]
  <2> DEFINE T == [index : Nat, block : Nat, keep : Seq(Nat)]
  <2>1. Release \in Seq(T)
    BY <1>1
  <2> HIDE DEF T
  <2>2. Release[r] \in T
    BY <2>1
  <2> QED
    BY <2>2 DEF T
<1>4. Release[r].keep \in Seq(Nat)
  BY <1>3
<1>5. DOMAIN Release[r].keep = 1..Len(Release[r].keep) /\ Len(Release[r].keep) \in Nat
  BY <1>4
<1>6. \A q \in 1..r : q \in DOMAIN Release /\ q =< r
  BY <1>2
<1> QED
  BY <1>1, <1>2, <1>3, <1>5, <1>6 DEF Upgrade!ReleasesGrow

LEMMA GenesisIs ==
  ASSUME Growing
  PROVE  Genesis \in Nat \ {0} /\ LastBlock \in Nat /\ Genesis =< LastBlock /\ Synced \in Nat
BY DEF Growing, UpkeepAssumption, Upgrade!ResetAssumption

LEMMA MinIs ==
  ASSUME NEW S, S \subseteq Nat, S # {}
  PROVE  Upgrade!Min(S) \in S /\ \A x \in S : Upgrade!Min(S) =< x
BY LeastNat DEF Upgrade!Min

\* Blocks are missing when there are none.
LEMMA MissingIs ==
  ASSUME Growing, NEW g \in (Genesis - 1)..LastBlock, events \in [Genesis..g -> Nat]
  PROVE  /\ Upgrade!MissingGenesis <=> DOMAIN events = {}
         /\ events = Upgrade!NoEvents <=> DOMAIN events = {}
         /\ DOMAIN events # {} => Genesis \in DOMAIN events /\ Upgrade!Min(DOMAIN events) = Genesis
<1>0. DOMAIN events = Genesis..g /\ Genesis \in Nat
  BY GenesisIs
<1>1. events = Upgrade!NoEvents <=> DOMAIN events = {}
  BY <1>0 DEF Upgrade!NoEvents
<1>2. ASSUME DOMAIN events # {}
      PROVE  Genesis \in DOMAIN events /\ Upgrade!Min(DOMAIN events) = Genesis
  <2>1. Genesis \in DOMAIN events /\ DOMAIN events \subseteq Nat
    BY <1>0, <1>2
  <2>2. /\ Upgrade!Min(DOMAIN events) \in DOMAIN events
        /\ Upgrade!Min(DOMAIN events) =< Genesis
    BY <2>1, MinIs
  <2> QED
    BY <1>0, <2>1, <2>2
<1> QED
  BY <1>1, <1>2 DEF Upgrade!MissingGenesis

LEMMA KeepIs ==
  ASSUME Growing, NEW r \in 1..Len(Release), NEW b \in Nat, b < Release[r].block
  PROVE  /\ KeepOf(r, b) \in Nat
         /\ \A i \in (b + 1)..Release[r].block : KeepOf(r, b) =< Release[r].keep[i]
         /\ Synced =< LastBlock => KeepOf(r, b) \in Genesis..Synced
<1> DEFINE L == Len(Release[r].keep)
<1> DEFINE K == {Release[r].keep[i] : i \in (b + 1)..L}
<1>1. /\ Release[r].block \in Nat /\ L \in Nat /\ Release[r].block =< L
      /\ \A i \in 1..L : Release[r].keep[i] \in Genesis..Synced
  BY ReleaseIs
<1>2. Genesis \in Nat /\ Synced \in Nat /\ LastBlock \in Nat /\ Upgrade!Infinity = LastBlock + 1
  BY GenesisIs DEF Upgrade!Infinity
<1> HIDE DEF L
<1>3. (b + 1)..Release[r].block \subseteq (b + 1)..L /\ (b + 1)..L \subseteq 1..L /\ b + 1 \in (b + 1)..L
  BY <1>1
<1>4. K \subseteq Genesis..Synced /\ K # {}
      /\ \A i \in (b + 1)..Release[r].block : Release[r].keep[i] \in K
  BY <1>1, <1>3
<1>5. KeepOf(r, b) = Upgrade!Min(K \cup {Upgrade!Infinity})
  BY DEF KeepOf, K, L
<1> HIDE DEF K
<1>6. K \subseteq Nat
  BY <1>2, <1>4
<1>7. K \cup {Upgrade!Infinity} \subseteq Nat /\ K \cup {Upgrade!Infinity} # {}
  BY <1>2, <1>6
<1>8. /\ KeepOf(r, b) \in K \cup {Upgrade!Infinity}
      /\ \A x \in K \cup {Upgrade!Infinity} : KeepOf(r, b) =< x
  BY <1>5, <1>7, MinIs
<1>9. ASSUME Synced =< LastBlock
      PROVE  KeepOf(r, b) \in Genesis..Synced
  <2>1. PICK x \in K : KeepOf(r, b) =< x /\ x \in Genesis..Synced
    BY <1>4, <1>8
  <2>2. KeepOf(r, b) # Upgrade!Infinity
    BY <1>2, <1>9, <2>1
  <2> QED
    BY <1>4, <1>8, <2>2
<1> QED
  BY <1>4, <1>7, <1>8, <1>9

LEMMA ResetInit ==
  ASSUME Growing, UpkeepInit, service = "upgrade"
  PROVE  ResetInv
<1>1. Upgrade!Init
  BY DEF UpkeepInit
<1>2. Release \in Seq([index : Nat, block : Nat, keep : Seq(Nat)]) /\ Release # <<>>
  BY DEF Growing, UpkeepAssumption, Upgrade!ResetAssumption
<1>3. 1 \in 1..Len(Release)
  BY <1>2
<1>4. Genesis \in Nat \ {0} /\ LastBlock \in Nat /\ Genesis =< LastBlock
  BY GenesisIs
<1>5. /\ release = 1 /\ starts = 0 /\ stage = "blocks" /\ todo = {} /\ events = [h \in {} |-> 0]
      /\ blockReset = <<>> /\ lastHb = 0 /\ indexReset = <<>> /\ processed = 0 /\ cursor = 0
      /\ content = [c \in Collection |-> {}]
  BY <1>1 DEF Upgrade!Init, Upgrade!None, Upgrade!NoEvents
<1>6. BlocksInv
  <2>1. Genesis..(Genesis - 1) = {} /\ Genesis - 1 \in (Genesis - 1)..LastBlock
    BY <1>4
  <2>2. events \in [Genesis..(Genesis - 1) -> Nat] /\ DOMAIN events = {}
    BY <1>5, <2>1
  <2> QED
    BY <1>5, <2>1, <2>2 DEF BlocksInv
<1>7. BlockSteps
  BY <1>5 DEF BlockSteps
<1>8. IndexInv
  BY <1>5 DEF IndexInv
<1> QED
  BY <1>3, <1>5, <1>6, <1>7, <1>8 DEF ResetInv

\* What the actions of init and of a run leave alone.
LEMMA CheckBlocksKeeps ==
  ASSUME Growing, ResetInv, Upgrade!CheckBlocks
  PROVE  ResetInv'
<1> PICK g \in (Genesis - 1)..LastBlock : events \in [Genesis..g -> Nat]
  BY DEF ResetInv, BlocksInv
<1>1. /\ stage = "blocks" /\ stage' \in {"events", "index"}
      /\ UNCHANGED <<events, lastHb, blockReset, indexReset, processed, content, release, todo,
                     next, cursor, starts>>
  BY DEF Upgrade!CheckBlocks, Upgrade!db
<1>2. Upgrade!MissingGenesis <=> DOMAIN events = {}
  BY MissingIs
<1>3. blockReset = <<>> => DOMAIN events = {}
  BY DEF ResetInv, BlocksInv
<1>4. stage' = "index" => blockReset = <<This.block>>
  BY <1>2, <1>3 DEF Upgrade!CheckBlocks, This
<1>5. stage' = "events" =>
        \/ DOMAIN events = {} /\ keep' = Genesis - 1
        \/ /\ DOMAIN events # {} /\ keep' = KeepOf(release, blockReset[1])
           /\ blockReset # <<This.block>>
  BY <1>2 DEF Upgrade!CheckBlocks, Upgrade!Keep, KeepOf, This, Upgrade!This
<1>6. BlocksInv'
  BY <1>1, <1>3, <1>4 DEF ResetInv, BlocksInv, This, Upgrade!This, Fresh, Follows
<1>7. BlockSteps'
  BY <1>1, <1>4, <1>5 DEF BlockSteps, This, Upgrade!This
<1>8. IndexInv'
  BY <1>1 DEF ResetInv, IndexInv, WholeTo, Mine, Upgrade!OfThis, This, Upgrade!This, Follows
<1> QED
  BY <1>1, <1>6, <1>7, <1>8 DEF ResetInv

LEMMA DeleteEventsKeeps ==
  ASSUME Growing, ResetInv, Upgrade!DeleteEvents
  PROVE  ResetInv'
<1> PICK g \in (Genesis - 1)..LastBlock : events \in [Genesis..g -> Nat]
  BY DEF ResetInv, BlocksInv
<1>1. /\ stage = "events" /\ stage' = "lastHb"
      /\ events' = [h \in {i \in DOMAIN events : i =< keep} |-> events[h]]
      /\ UNCHANGED <<lastHb, blockReset, indexReset, processed, content, release, todo, keep,
                     next, cursor, starts>>
  BY DEF Upgrade!DeleteEvents
<1>2. DOMAIN events' \subseteq DOMAIN events /\ \A h \in DOMAIN events' : events'[h] = events[h]
  BY <1>1
<1>3. DOMAIN events = Genesis..g /\ Genesis \in Nat \ {0} /\ g \in Int
  BY GenesisIs
<1>4. CASE DOMAIN events = {}
  <2>1. DOMAIN events' = {} /\ events' \in [Genesis..g -> Nat] /\ lastHb = 0
    BY <1>1, <1>2, <1>3, <1>4 DEF ResetInv, BlocksInv
  <2>2. BlocksInv'
    BY <1>1, <1>2, <1>4, <2>1 DEF ResetInv, BlocksInv, Fresh, Follows, This, Upgrade!This
  <2>3. BlockSteps'
    BY <1>1, <2>1 DEF BlockSteps, Fresh
  <2>4. IndexInv'
    BY <1>1, <1>4, <2>1 DEF ResetInv, IndexInv, WholeTo, Mine, Upgrade!OfThis, This, Upgrade!This, Follows
  <2> QED
    BY <1>1, <2>2, <2>3, <2>4 DEF ResetInv
<1>5. CASE DOMAIN events # {}
  <2>1. /\ keep = KeepOf(release, blockReset[1]) /\ blockReset # <<This.block>>
        /\ keep \in DOMAIN events
    BY <1>1, <1>5 DEF ResetInv, BlocksInv, BlockSteps
  <2>2. PICK q \in 1..release : blockReset = <<Release[q].block>> /\ Fresh(Release[q].block)
    BY <1>5 DEF ResetInv, BlocksInv
  <2> DEFINE b == Release[q].block
  <2>3. b \in Nat /\ This.block \in Nat /\ b < This.block /\ release \in 1..Len(Release)
        /\ blockReset[1] = b
    <3>1. release \in 1..Len(Release) /\ This = Release[release] /\ Len(Release) \in Nat
      BY DEF ResetInv, This, Upgrade!This, Growing, UpkeepAssumption, Upgrade!ResetAssumption
    <3>2. q \in 1..Len(Release)
      BY <3>1
    <3>3. b \in Nat /\ This.block \in Nat /\ b =< This.block
      BY <3>1, <3>2, ReleaseIs
    <3> QED
      BY <2>1, <2>2, <3>1, <3>3
  <2>4. \A i \in (b + 1)..This.block : keep =< This.keep[i] /\ This.keep[i] \in Nat
    <3>1. This = Release[release] /\ Genesis \in Nat /\ Synced \in Nat
      BY GenesisIs DEF This, Upgrade!This
    <3>2. /\ Len(This.keep) \in Nat /\ This.block =< Len(This.keep)
          /\ \A i \in 1..Len(This.keep) : This.keep[i] \in Genesis..Synced
      BY <2>3, <3>1, ReleaseIs
    <3>3. \A i \in (b + 1)..This.block : i \in 1..Len(This.keep)
      BY <2>3, <3>2
    <3>4. keep = KeepOf(release, b) /\ b < Release[release].block
      BY <2>1, <2>3, <3>1
    <3> HIDE DEF b
    <3>5. \A i \in (b + 1)..Release[release].block : KeepOf(release, b) =< Release[release].keep[i]
      BY <2>3, <3>4, KeepIs
    <3> QED
      BY <3>1, <3>2, <3>3, <3>4, <3>5
  <2> HIDE DEF b
  <2>5. keep \in Genesis..LastBlock /\ DOMAIN events' = Genesis..keep /\ keep =< g
    <3>1. keep \in Genesis..g /\ g =< LastBlock /\ LastBlock \in Nat
      BY <1>3, <2>1, GenesisIs
    <3>2. {i \in Genesis..g : i =< keep} = Genesis..keep
      BY <1>3, <3>1
    <3> QED
      BY <1>1, <1>3, <3>1, <3>2
  <2>6. events' \in [Genesis..keep -> Nat] /\ keep \in DOMAIN events' /\ keep \in (Genesis - 1)..LastBlock
    BY <1>1, <1>2, <1>3, <2>5
  <2>7. Fresh(b)'
    BY <1>1, <1>2, <2>2 DEF Fresh, Follows, This, Upgrade!This, b
  <2>8. Fresh(This.block)'
    <3> SUFFICES ASSUME NEW h \in DOMAIN events', NEW i \in 1..This.block, h > This.keep[i]
                 PROVE  events'[h] >= i
      BY <1>1 DEF Fresh, Follows, This, Upgrade!This
    <3>1. h =< keep /\ h \in Nat /\ keep \in Nat
      BY <1>3, <2>5
    <3>2. i \in 1..b
      BY <2>3, <2>4, <3>1
    <3> QED
      BY <1>1, <2>7, <3>2 DEF Fresh, Follows, This, Upgrade!This
  <2>9. BlocksInv'
    BY <1>1, <2>1, <2>2, <2>6, <2>7 DEF ResetInv, BlocksInv, This, Upgrade!This, b
  <2>10. BlockSteps'
    BY <1>1, <2>1, <2>6, <2>8 DEF BlockSteps, This, Upgrade!This
  <2>11. IndexInv'
    BY <1>1, <2>1 DEF ResetInv, IndexInv, This, Upgrade!This
  <2> QED
    BY <1>1, <2>9, <2>10, <2>11 DEF ResetInv
<1> QED
  BY <1>4, <1>5

LEMMA BlockWritesKeep ==
  ASSUME Growing, ResetInv, Upgrade!ResetLastHb \/ Upgrade!SetBlockReset
  PROVE  ResetInv'
<1>1. CASE Upgrade!ResetLastHb
  <2>1. /\ stage = "lastHb" /\ stage' = "blockId"
        /\ lastHb' = IF lastHb = 0 THEN 0 ELSE keep
        /\ UNCHANGED <<events, blockReset, indexReset, processed, content, release, todo, keep,
                       next, cursor, starts>>
    BY <1>1 DEF Upgrade!ResetLastHb, Upgrade!None
  <2>2. lastHb' = 0 \/ lastHb' \in DOMAIN events
    BY <2>1 DEF ResetInv, BlockSteps
  <2>3. BlocksInv'
    <3>1. PICK g \in (Genesis - 1)..LastBlock : events \in [Genesis..g -> Nat]
      BY DEF ResetInv, BlocksInv
    <3>2. \A h \in DOMAIN events : h \in Genesis..LastBlock
      BY <3>1, GenesisIs
    <3> QED
      BY <2>1, <2>2, <3>2 DEF ResetInv, BlocksInv, Fresh, Follows, This, Upgrade!This
  <2>4. BlockSteps'
    BY <2>1 DEF ResetInv, BlockSteps, Fresh, Follows, This, Upgrade!This
  <2>5. IndexInv'
    BY <2>1 DEF ResetInv, IndexInv, WholeTo, Mine, Upgrade!OfThis, This, Upgrade!This, Follows
  <2> QED
    BY <2>1, <2>3, <2>4, <2>5 DEF ResetInv
<1>2. CASE Upgrade!SetBlockReset
  <2>1. /\ stage = "blockId" /\ stage' = "index" /\ blockReset' = <<This.block>>
        /\ UNCHANGED <<events, lastHb, indexReset, processed, content, release, todo, keep,
                       next, cursor, starts>>
    BY <1>2 DEF Upgrade!SetBlockReset, This
  <2>2. release \in 1..release /\ This = Release[release] /\ Fresh(This.block)
    BY <2>1 DEF ResetInv, BlockSteps, This, Upgrade!This
  <2>3. BlocksInv'
    BY <2>1, <2>2 DEF ResetInv, BlocksInv, Fresh, Follows, This, Upgrade!This
  <2>4. BlockSteps'
    BY <2>1 DEF BlockSteps, This, Upgrade!This
  <2>5. IndexInv'
    BY <2>1 DEF ResetInv, IndexInv, WholeTo, Mine, Upgrade!OfThis, This, Upgrade!This, Follows
  <2> QED
    BY <2>1, <2>3, <2>4, <2>5 DEF ResetInv
<1> QED
  BY <1>1, <1>2

\* What init and a run leave alone of the blocks, when they have been looked after.
LEMMA BlocksStay ==
  ASSUME ResetInv, stage \in {"index", "empty", "indexId", "start", "run"},
         stage' \in {"index", "empty", "indexId", "start", "run"},
         UNCHANGED <<events, lastHb, blockReset, release>>
  PROVE  BlocksInv' /\ BlockSteps'
<1>1. BlocksInv'
  BY DEF ResetInv, BlocksInv, BlockSteps, Fresh, Follows, This, Upgrade!This
<1>2. BlockSteps'
  BY DEF ResetInv, BlockSteps, This, Upgrade!This
<1> QED
  BY <1>1, <1>2

\* Until its index reset is recorded, no collection has anything of a release.
LEMMA NoneYet ==
  ASSUME Growing, ResetInv, indexReset # <<This.index>>
  PROVE  /\ \A c \in Collection : Mine(c) = {}
         /\ \A c \in Collection : \A w \in content[c] : w.index \in Nat /\ w.index < This.index
<1> USE DEF This, Upgrade!This
<1>1. ASSUME NEW c \in Collection, NEW w \in content[c] PROVE w.index \in Nat /\ w.index < This.index
  <2>1. /\ content \in [Collection -> SUBSET Written]
        /\ indexReset # <<>> /\ w.index =< indexReset[1]
        /\ indexReset = <<>> \/ \E q \in 1..release : indexReset = <<Release[q].index>>
    BY <1>1 DEF ResetInv, IndexInv
  <2>2. w.index \in Nat
    BY <1>1, <2>1 DEF Written
  <2>3. PICK q \in 1..release : indexReset = <<Release[q].index>>
    BY <2>1
  <2>4. release \in 1..Len(Release) /\ Len(Release) \in Nat
    BY DEF ResetInv, Growing, UpkeepAssumption, Upgrade!ResetAssumption
  <2>5. q \in 1..Len(Release)
    BY <2>4
  <2>6. Release[q].index \in Nat /\ Release[release].index \in Nat
        /\ Release[q].index =< Release[release].index
    BY <2>4, <2>5, ReleaseIs
  <2>7. w.index =< Release[q].index /\ Release[q].index # Release[release].index
    BY <2>1, <2>3
  <2> QED
    BY <2>2, <2>6, <2>7
<1>2. release \in 1..Len(Release)
  BY DEF ResetInv
<1>3. This.index \in Nat
  BY <1>2, ReleaseIs
<1>4. ASSUME NEW c \in Collection, NEW w \in Mine(c) PROVE FALSE
  <2>1. w \in content[c] /\ w.index = This.index
    BY <1>4 DEF Mine, Upgrade!OfThis
  <2> QED
    BY <1>1, <1>3, <2>1
<1> QED
  BY <1>1, <1>4

LEMMA IndexStepsKeep ==
  ASSUME Growing, ResetInv,
         \/ Upgrade!CheckIndex \/ (\E c \in Collection : Upgrade!Empty(c))
         \/ Upgrade!DeleteProcessed \/ Upgrade!SetIndexReset
  PROVE  ResetInv'
<1> USE DEF Upgrade!db, This, Upgrade!This
<1>0. /\ stage \in {"index", "empty", "indexId", "start", "run"}
      /\ stage' \in {"index", "empty", "indexId", "start", "run"}
      /\ UNCHANGED <<events, lastHb, blockReset, release, keep, next, cursor, starts>>
  BY DEF Upgrade!CheckIndex, Upgrade!Empty, Upgrade!DeleteProcessed, Upgrade!SetIndexReset
<1>1. BlocksInv' /\ BlockSteps'
  BY <1>0, BlocksStay
<1>2. CASE Upgrade!CheckIndex
  <2>1. /\ UNCHANGED <<indexReset, processed, content>> /\ stage = "index"
        /\ \/ indexReset = <<This.index>> /\ stage' = "start" /\ todo' = todo
           \/ indexReset # <<This.index>> /\ stage' = "empty" /\ todo' = Collection \ Kept
    BY <1>2 DEF Upgrade!CheckIndex
  <2>2. IndexInv'
    BY <1>0, <2>1 DEF ResetInv, IndexInv, WholeTo, Mine, Upgrade!OfThis, Follows
  <2> QED
    BY <1>0, <1>1, <2>1, <2>2 DEF ResetInv
<1>3. ASSUME NEW c \in Collection, Upgrade!Empty(c)
      PROVE  ResetInv'
  <2>1. /\ UNCHANGED <<indexReset, processed>> /\ stage = "empty" /\ stage' = stage
        /\ content' = [content EXCEPT ![c] = {}] /\ todo' = todo \ {c}
    BY <1>3 DEF Upgrade!Empty
  <2>2. IndexInv'
    BY <1>0, <2>1 DEF ResetInv, IndexInv
  <2> QED
    BY <1>0, <1>1, <2>1, <2>2 DEF ResetInv
<1>4. CASE Upgrade!DeleteProcessed
  <2>1. /\ UNCHANGED <<indexReset, content, todo>> /\ stage = "empty" /\ stage' = "indexId"
        /\ processed' = 0 /\ todo = {}
    BY <1>4 DEF Upgrade!DeleteProcessed, Upgrade!None
  <2>2. IndexInv'
    BY <1>0, <2>1 DEF ResetInv, IndexInv
  <2> QED
    BY <1>0, <1>1, <2>1, <2>2 DEF ResetInv
<1>5. CASE Upgrade!SetIndexReset
  <2>1. /\ UNCHANGED <<processed, content, todo>> /\ stage = "indexId" /\ stage' = "start"
        /\ indexReset' = <<This.index>> /\ todo = {} /\ processed = 0
        /\ blockReset = <<This.block>> /\ \A c \in Collection \ Kept : content[c] = {}
    BY <1>5 DEF Upgrade!SetIndexReset, ResetInv, BlockSteps, IndexInv
  <2>2. WholeTo(Genesis)'
    <3>1. (Genesis + 1)..Genesis = {}
      BY GenesisIs
    <3>2. \A c \in Collection : Mine(c) = {}
      BY <2>1, NoneYet DEF ResetInv, IndexInv
    <3>3. \A c \in Collection : Mine(c)' = Mine(c)
      BY <1>0, <2>1 DEF Mine, Upgrade!OfThis
    <3> QED
      BY <1>0, <2>1, <3>1, <3>2, <3>3 DEF WholeTo
  <2>3. Genesis \in Genesis..LastBlock /\ release \in 1..release
    BY GenesisIs DEF ResetInv
  <2>4. \A c \in Collection : \A w \in content'[c] :
          indexReset' # <<>> /\ w.index =< indexReset'[1]
    <3>1. This.index \in Nat
      BY ReleaseIs DEF ResetInv
    <3>2. indexReset # <<This.index>>
      BY <2>1 DEF ResetInv, IndexInv
    <3>3. \A c \in Collection : \A w \in content[c] : w.index \in Nat /\ w.index < This.index
      BY <3>2, NoneYet
    <3> QED
      BY <2>1, <3>1, <3>3
  <2>5. IndexInv'
    BY <1>0, <2>1, <2>2, <2>3, <2>4 DEF ResetInv, IndexInv
  <2> QED
    BY <1>0, <1>1, <2>1, <2>5 DEF ResetInv
<1> QED
  BY <1>2, <1>3, <1>4, <1>5

\* While a node starts or runs, what it has is whole up to a height.
LEMMA RunsWhole ==
  ASSUME Growing, ResetInv, stage \in {"start", "run"}
  PROVE  /\ indexReset = <<This.index>> /\ blockReset = <<This.block>>
         /\ \E m \in Genesis..LastBlock : WholeTo(m)
         /\ \E g \in (Genesis - 1)..LastBlock : events \in [Genesis..g -> Nat]
         /\ Fresh(This.block) /\ (lastHb = 0 \/ lastHb \in DOMAIN events) /\ todo = {}
         /\ Genesis \in Nat \ {0} /\ LastBlock \in Nat
<1>1. indexReset = <<This.index>> /\ blockReset = <<This.block>>
  BY DEF ResetInv, IndexInv, BlockSteps
<1>2. Fresh(This.block)
  <2>1. blockReset # <<>>
    BY <1>1
  <2>2. PICK q \in 1..release : blockReset = <<Release[q].block>> /\ Fresh(Release[q].block)
    BY <2>1 DEF ResetInv, BlocksInv
  <2> QED
    BY <1>1, <2>2
<1> QED
  BY <1>1, <1>2, GenesisIs DEF ResetInv, BlocksInv, IndexInv

LEMMA StartKeeps ==
  ASSUME Growing, ResetInv, Upgrade!Start \/ Upgrade!SaveLastHb
  PROVE  ResetInv'
<1> USE DEF Upgrade!db, This, Upgrade!This
<1>0. stage \in {"start", "run"}
  BY DEF Upgrade!Start, Upgrade!SaveLastHb
<1> PICK m \in Genesis..LastBlock : WholeTo(m)
  BY <1>0, RunsWhole
<1> PICK g \in (Genesis - 1)..LastBlock : events \in [Genesis..g -> Nat]
  BY <1>0, RunsWhole
<1>1. Genesis \in Nat \ {0} /\ LastBlock \in Nat
  BY <1>0, RunsWhole
<1>2. CASE Upgrade!Start
  <2>1. /\ UNCHANGED <<events, lastHb, blockReset, indexReset, processed, content, release, todo,
                       keep, starts>>
        /\ stage = "start" /\ stage' = "run" /\ cursor' = processed
        /\ next' = IF lastHb = 0 THEN Genesis ELSE lastHb
    BY <1>2 DEF Upgrade!Start, Upgrade!None
  <2>2. BlocksInv' /\ BlockSteps'
    BY <2>1, BlocksStay
  <2>3. next' \in Genesis..(LastBlock + 1) /\ (next' = Genesis \/ next' - 1 \in DOMAIN events)
    <3>1. lastHb = 0 \/ lastHb \in DOMAIN events
      BY <1>0, RunsWhole
    <3>2. DOMAIN events = Genesis..g
      OBVIOUS
    <3>3. CASE lastHb = 0
      BY <1>1, <2>1, <3>3
    <3>4. CASE lastHb # 0
      <4>1. lastHb \in Genesis..g /\ g \in Int /\ g =< LastBlock /\ next' = lastHb
        BY <2>1, <3>1, <3>2, <3>4
      <4>2. lastHb = Genesis \/ lastHb - 1 \in Genesis..g
        BY <1>1, <4>1
      <4> QED
        BY <1>1, <3>2, <4>1, <4>2
    <3> QED
      BY <3>3, <3>4
  <2>4. WholeTo(m)'
    BY <1>1, <2>1 DEF WholeTo, Mine, Upgrade!OfThis, Follows
  <2>5. IndexInv'
    BY <1>0, <2>1, <2>3, <2>4 DEF ResetInv, IndexInv
  <2> QED
    BY <2>1, <2>2, <2>5 DEF ResetInv
<1>3. CASE Upgrade!SaveLastHb
  <2>1. /\ UNCHANGED <<events, blockReset, indexReset, processed, content, release, stage, todo,
                       keep, next, cursor, starts>>
        /\ stage = "run" /\ lastHb' = next - 1 /\ next - 1 \in DOMAIN events
    BY <1>3 DEF Upgrade!SaveLastHb
  <2>2. BlocksInv'
    <3>1. next - 1 \in Genesis..LastBlock
      BY <1>1, <2>1
    <3> QED
      BY <2>1, <3>1 DEF ResetInv, BlocksInv, Fresh, Follows
  <2>3. BlockSteps'
    BY <2>1 DEF ResetInv, BlockSteps
  <2>4. IndexInv'
    BY <2>1 DEF ResetInv, IndexInv, WholeTo, Mine, Upgrade!OfThis, Follows
  <2> QED
    BY <2>1, <2>2, <2>3, <2>4 DEF ResetInv
<1> QED
  BY <1>2, <1>3

LEMMA StoreKeeps ==
  ASSUME Growing, ResetInv, Upgrade!Store
  PROVE  ResetInv'
<1> USE DEF This, Upgrade!This
<1>0. /\ stage = "run" /\ next =< LastBlock /\ next' = next + 1
      /\ events' = [h \in DOMAIN events \cup {next} |->
                      IF h = next THEN This.block ELSE events[h]]
      /\ UNCHANGED <<lastHb, blockReset, indexReset, processed, content, release, stage, todo,
                     keep, cursor, starts>>
  BY DEF Upgrade!Store
<1> PICK m \in Genesis..LastBlock : WholeTo(m)
  BY <1>0, RunsWhole
<1> PICK g \in (Genesis - 1)..LastBlock : events \in [Genesis..g -> Nat]
  BY <1>0, RunsWhole
<1>1. Genesis \in Nat \ {0} /\ LastBlock \in Nat /\ DOMAIN events = Genesis..g /\ g \in Int
  BY <1>0, RunsWhole
<1>2. /\ next \in Genesis..(LastBlock + 1) /\ (next = Genesis \/ next - 1 \in DOMAIN events)
      /\ release \in 1..Len(Release)
  BY <1>0 DEF ResetInv, IndexInv
<1>3. This.block \in Nat
  BY <1>2, ReleaseIs
<1>4. DOMAIN events \cup {next} = Genesis..g \/ DOMAIN events \cup {next} = Genesis..next
  BY <1>1, <1>2
<1>5. \E k \in (Genesis - 1)..LastBlock : events' \in [Genesis..k -> Nat]
  <2>1. PICK k \in (Genesis - 1)..LastBlock : DOMAIN events \cup {next} = Genesis..k
    <3>1. next \in (Genesis - 1)..LastBlock
      BY <1>0, <1>1, <1>2
    <3> QED
      BY <1>4, <3>1
  <2>2. \A h \in DOMAIN events : events[h] \in Nat
    BY <1>1
  <2>3. events' \in [DOMAIN events \cup {next} -> Nat]
    BY <1>0, <1>3, <2>2
  <2> QED
    BY <2>1, <2>3
<1>6. DOMAIN events \subseteq DOMAIN events' /\ next \in DOMAIN events' /\ next' - 1 = next
  BY <1>0, <1>1, <1>2
<1>7. Fresh(This.block)'
  <2>1. Fresh(This.block) /\ blockReset = <<This.block>>
    BY <1>0, RunsWhole
  <2>2. \A h \in DOMAIN events' : Follows(h, events'[h], This.block)
    BY <1>0, <1>3, <2>1 DEF Fresh, Follows
  <2> QED
    BY <1>0, <2>2 DEF Fresh, Follows
<1>8. BlocksInv'
  <2>1. blockReset = <<This.block>> /\ release \in 1..release /\ (lastHb = 0 \/ lastHb \in DOMAIN events)
    BY <1>0, <1>2, RunsWhole
  <2> QED
    <3>1. lastHb = 0 \/ lastHb \in Genesis..LastBlock
      BY DEF ResetInv, BlocksInv
    <3> QED
      BY <1>0, <1>5, <1>6, <1>7, <2>1, <3>1 DEF BlocksInv
<1>9. BlockSteps'
  BY <1>0 DEF ResetInv, BlockSteps
<1>10. WholeTo(m)'
  BY <1>0, <1>6 DEF WholeTo, Mine, Upgrade!OfThis, Follows
<1>11. next' \in Genesis..(LastBlock + 1)
  BY <1>0, <1>1, <1>2
<1>12. IndexInv'
  BY <1>0, <1>6, <1>10, <1>11 DEF ResetInv, IndexInv
<1> QED
  BY <1>0, <1>8, <1>9, <1>12 DEF ResetInv

LEMMA CursorKeeps ==
  ASSUME Growing, ResetInv, Upgrade!First \/ Upgrade!SaveProcessed
  PROVE  ResetInv'
<1> USE DEF Upgrade!db, This, Upgrade!This
<1>0. /\ stage = "run" /\ stage' = stage
      /\ UNCHANGED <<events, lastHb, blockReset, indexReset, content, release, todo, keep, next,
                     starts>>
  BY DEF Upgrade!First, Upgrade!SaveProcessed
<1> PICK m \in Genesis..LastBlock : WholeTo(m)
  BY <1>0, RunsWhole
<1> PICK g \in (Genesis - 1)..LastBlock : events \in [Genesis..g -> Nat]
  BY <1>0, RunsWhole
<1>1. Genesis \in Nat \ {0} /\ LastBlock \in Nat
  BY <1>0, RunsWhole
<1>2. BlocksInv' /\ BlockSteps'
  BY <1>0, BlocksStay
<1>3. CASE Upgrade!First
  <2>1. cursor' = Upgrade!Min(DOMAIN events) /\ events # Upgrade!NoEvents /\ processed' = processed
    BY <1>3 DEF Upgrade!First
  <2>2. cursor' = Genesis /\ Genesis \in DOMAIN events
    BY <2>1, MissingIs
  <2>3. WholeTo(m)'
    BY <1>0, <1>1, <2>1, <2>2 DEF WholeTo, Mine, Upgrade!OfThis, Follows
  <2>4. IndexInv'
    BY <1>0, <1>1, <2>1, <2>2, <2>3 DEF ResetInv, IndexInv
  <2> QED
    BY <1>0, <1>2, <2>4 DEF ResetInv
<1>4. CASE Upgrade!SaveProcessed
  <2>1. processed' = cursor /\ cursor' = cursor /\ cursor # 0 /\ cursor > Genesis
    BY <1>4 DEF Upgrade!SaveProcessed, Upgrade!None
  <2>2. cursor \in Genesis..m /\ cursor \in DOMAIN events
    BY <1>0, <2>1 DEF WholeTo
  <2>3. cursor \in (Genesis + 1)..m /\ cursor \in Nat /\ cursor \in Genesis..LastBlock
    BY <1>1, <2>1, <2>2
  <2>4. WholeTo(m)'
    BY <1>0, <1>1, <2>1, <2>2, <2>3 DEF WholeTo, Mine, Upgrade!OfThis, Follows
  <2>5. IndexInv'
    BY <1>0, <2>1, <2>3, <2>4 DEF ResetInv, IndexInv
  <2> QED
    BY <1>0, <1>2, <2>5 DEF ResetInv
<1> QED
  BY <1>3, <1>4

LEMMA ParseKeeps ==
  ASSUME Growing, ResetInv, Upgrade!Parse
  PROVE  ResetInv'
<1> USE DEF Upgrade!db, This, Upgrade!This
<1> PICK upto : upto = Upgrade!Min({h \in DOMAIN events : h > cursor})
  OBVIOUS
<1> PICK entry : entry = [index |-> This.index, at |-> upto, stored |-> events[upto]]
  OBVIOUS
<1>0. /\ stage = "run" /\ stage' = stage /\ cursor # 0
      /\ {h \in DOMAIN events : h > cursor} # {} /\ cursor' = upto
      /\ content' = [c \in Collection |-> content[c] \cup {entry}]
      /\ UNCHANGED <<events, lastHb, blockReset, indexReset, processed, release, todo, keep, next,
                     starts>>
  BY DEF Upgrade!Parse, Upgrade!Written, Upgrade!None
<1> PICK m \in Genesis..LastBlock : WholeTo(m)
  BY <1>0, RunsWhole
<1> PICK g \in (Genesis - 1)..LastBlock : events \in [Genesis..g -> Nat]
  BY <1>0, RunsWhole
<1>1. Genesis \in Nat \ {0} /\ LastBlock \in Nat /\ DOMAIN events = Genesis..g /\ g \in Int
  BY <1>0, RunsWhole
<1>2. cursor \in Genesis..m /\ cursor \in DOMAIN events
  BY <1>0 DEF WholeTo
<1>3. upto = cursor + 1 /\ upto \in DOMAIN events
  <2> DEFINE A == {h \in DOMAIN events : h > cursor}
  <2>1. A \subseteq Nat /\ A # {}
    BY <1>0, <1>1
  <2>2. upto \in A /\ \A h \in A : upto =< h
    BY <2>1, MinIs
  <2>3. upto \in Genesis..g /\ upto > cursor
    BY <1>1, <2>2
  <2>4. cursor + 1 \in Genesis..g
    BY <1>1, <1>2, <2>3
  <2>5. cursor + 1 \in A
    BY <1>1, <1>2, <2>4
  <2>6. upto =< cursor + 1
    BY <2>2, <2>5
  <2> QED
    BY <1>1, <1>2, <2>2, <2>3, <2>6
<1>4. upto \in (Genesis + 1)..LastBlock /\ events[upto] \in Nat
  BY <1>1, <1>2, <1>3
<1>5. entry \in Written /\ entry.at = upto /\ entry.index = This.index /\ entry.stored = events[upto]
  <2>1. This.index \in Nat
    BY ReleaseIs DEF ResetInv
  <2> QED
    BY <1>4, <2>1 DEF Written
<1>6. Follows(entry.at, entry.stored, This.block)
  BY <1>0, <1>3, <1>5, RunsWhole DEF Fresh
<1>7. PICK k \in Genesis..LastBlock :
        /\ (Genesis + 1)..k = (Genesis + 1)..m \cup {upto}
        /\ m =< k /\ upto =< k
  <2>1. m \in Int /\ Genesis =< m /\ upto \in Int /\ (upto \in (Genesis + 1)..m \/ upto = m + 1)
    BY <1>1, <1>2, <1>3
  <2>2. CASE upto \in (Genesis + 1)..m
    <3> DEFINE I == (Genesis + 1)..m
    <3>1. upto \in I /\ upto =< m /\ m =< m
      BY <1>1, <2>1, <2>2
    <3> HIDE DEF I
    <3>2. I = I \cup {upto}
      BY <3>1
    <3> QED
      BY <3>1, <3>2 DEF I
  <2>3. CASE upto = m + 1
    <3>1. (Genesis + 1)..(m + 1) = (Genesis + 1)..m \cup {m + 1}
      BY <1>1, <2>1
    <3>2. upto \in Genesis..LastBlock /\ m =< upto /\ upto =< upto
      BY <1>1, <1>4, <2>1, <2>3
    <3> QED
      BY <2>3, <3>1, <3>2
  <2> QED
    BY <2>1, <2>2, <2>3
<1>8. WholeTo(k)'
  <2>1. ASSUME NEW c \in Collection
        PROVE  /\ {w.at : w \in Mine(c)'} = (Genesis + 1)..k
               /\ \A w \in Mine(c)' : Follows(w.at, w.stored, This.block)
               /\ c \notin Kept => content'[c] = Mine(c)'
    <3>0. content'[c] = content[c] \cup {entry}
      BY <1>0
    <3>1. Mine(c)' = Mine(c) \cup {entry}
      BY <1>0, <1>5, <3>0 DEF Mine, Upgrade!OfThis
    <3>2. /\ {w.at : w \in Mine(c)} = (Genesis + 1)..m
          /\ \A w \in Mine(c) : Follows(w.at, w.stored, This.block)
          /\ c \notin Kept => content[c] = Mine(c)
      BY DEF WholeTo
    <3>3. {w.at : w \in Mine(c)'} = {w.at : w \in Mine(c)} \cup {upto}
      BY <1>5, <3>1
    <3> QED
      BY <1>5, <1>6, <1>7, <3>0, <3>1, <3>2, <3>3
  <2>2. processed = 0 \/ (processed \in (Genesis + 1)..k /\ processed \in DOMAIN events)
    <3>1. processed = 0 \/ (processed \in (Genesis + 1)..m /\ processed \in DOMAIN events)
      BY DEF WholeTo
    <3> QED
      BY <1>1, <1>7, <3>1
  <2>3. cursor' \in Genesis..k /\ cursor' \in DOMAIN events
    BY <1>0, <1>1, <1>3, <1>4, <1>7
  <2> QED
    BY <1>0, <2>1, <2>2, <2>3 DEF WholeTo, Follows
<1>9. BlocksInv' /\ BlockSteps'
  BY <1>0, BlocksStay
<1>10. content' \in [Collection -> SUBSET Written] /\ cursor' \in Genesis..LastBlock
  <2>1. content \in [Collection -> SUBSET Written]
    BY DEF ResetInv, IndexInv
  <2> QED
    BY <1>0, <1>1, <1>4, <1>5, <2>1
<1>11. \A c \in Collection : \A w \in content'[c] :
         indexReset' # <<>> /\ w.index =< indexReset'[1]
  <2> SUFFICES ASSUME NEW c \in Collection, NEW w \in content'[c]
               PROVE  indexReset' # <<>> /\ w.index =< indexReset'[1]
    OBVIOUS
  <2>1. indexReset = <<This.index>> /\ indexReset' = indexReset
    BY <1>0, RunsWhole
  <2>2. This.index \in Nat
    BY ReleaseIs DEF ResetInv
  <2>3. w \in content[c] \/ w = entry
    BY <1>0
  <2>4. CASE w \in content[c]
    BY <2>1, <2>4 DEF ResetInv, IndexInv
  <2>5. CASE w = entry
    BY <1>5, <2>1, <2>2, <2>5
  <2> QED
    BY <2>3, <2>4, <2>5
<1>12. IndexInv'
  BY <1>0, <1>8, <1>10, <1>11 DEF ResetInv, IndexInv
<1> QED
  BY <1>0, <1>9, <1>12 DEF ResetInv

LEMMA RestartKeeps ==
  ASSUME Growing, ResetInv, Upgrade!Restart
  PROVE  ResetInv'
<1> USE DEF This, Upgrade!This
<1>0. /\ UNCHANGED <<events, lastHb, blockReset, indexReset, processed, content>>
      /\ release' \in release..Len(Release) /\ (release' = release \/ Synced \in DOMAIN events)
      /\ stage' = "blocks" /\ todo' = {} /\ cursor' = 0 /\ starts' = starts + 1
  BY DEF Upgrade!Restart, Upgrade!db, Upgrade!None
<1> PICK g \in (Genesis - 1)..LastBlock : events \in [Genesis..g -> Nat]
  BY DEF ResetInv, BlocksInv
<1> PICK r : r = release'
  OBVIOUS
<1>1. /\ Len(Release) \in Nat /\ release \in 1..Len(Release) /\ r \in 1..Len(Release) /\ release \in 1..r
      /\ This = Release[release] /\ This' = Release[r]
  BY <1>0 DEF ResetInv, Growing, UpkeepAssumption, Upgrade!ResetAssumption
<1>2. /\ Genesis \in Nat \ {0} /\ LastBlock \in Nat /\ Synced \in Nat /\ DOMAIN events = Genesis..g
      /\ g \in Int
  BY GenesisIs
<1>3. /\ This.index \in Nat /\ This.block \in Nat /\ This.index =< Release[r].index
      /\ This.block =< Release[r].block
      /\ This.index = Release[r].index => This.block = Release[r].block
      /\ \A i \in 1..This.block : This.keep[i] = Release[r].keep[i]
      /\ Release[r].index \in Nat /\ Release[r].block \in Nat
  BY <1>1, ReleaseIs
\* What is stored after a reset was so for any later release.
<1>4. ASSUME NEW q \in 1..release
      PROVE  /\ q \in 1..r /\ Release[q].block \in Nat /\ Release[q].index \in Nat
             /\ Release[q].block =< This.block /\ Release[q].block =< Release[r].block
             /\ Release[q].index =< This.index
             /\ \A i \in 1..Release[q].block : Release[q].keep[i] = This.keep[i]
             /\ \A i \in 1..Release[q].block : Release[q].keep[i] = Release[r].keep[i]
  <2>1. q \in 1..r /\ q \in 1..Len(Release)
    BY <1>1
  <2> QED
    BY <1>1, <2>1, ReleaseIs
<1>5. \/ blockReset = <<>> /\ DOMAIN events = {}
      \/ \E q \in 1..r : blockReset = <<Release[q].block>> /\ Fresh(Release[q].block)'
  <2>1. CASE blockReset = <<>>
    BY <2>1 DEF ResetInv, BlocksInv
  <2>2. ASSUME NEW q \in 1..release, blockReset = <<Release[q].block>>, Fresh(Release[q].block)
        PROVE  Fresh(Release[q].block)'
    BY <1>0, <1>1, <1>4, <2>2 DEF Fresh, Follows
  <2> QED
    BY <1>4, <2>1, <2>2 DEF ResetInv, BlocksInv
<1>6. ASSUME blockReset # <<Release[r].block>>, DOMAIN events # {}
      PROVE  KeepOf(r, blockReset[1]) \in DOMAIN events
  <2>1. CASE r = release
    BY <1>1, <1>6, <2>1 DEF ResetInv, BlocksInv
  <2>2. CASE r # release
    <3>1. PICK q \in 1..release : blockReset = <<Release[q].block>>
      BY <1>6 DEF ResetInv, BlocksInv
    <3>2. Release[q].block \in Nat /\ Release[q].block < Release[r].block
      BY <1>3, <1>4, <1>6, <3>1
    <3>3. Synced \in Genesis..g /\ Synced =< LastBlock
      BY <1>0, <1>2, <2>2
    <3>4. KeepOf(r, Release[q].block) \in Genesis..Synced
      BY <1>1, <3>2, <3>3, KeepIs
    <3> QED
      BY <1>2, <3>1, <3>3, <3>4
  <2> QED
    BY <2>1, <2>2
<1>7. lastHb = 0 \/ lastHb \in DOMAIN events \/ (DOMAIN events # {} /\ blockReset # <<Release[r].block>>)
  <2>1. SUFFICES ASSUME DOMAIN events # {}, blockReset # <<This.block>>,
                        blockReset = <<Release[r].block>>
                 PROVE  FALSE
    BY DEF ResetInv, BlocksInv
  <2>2. PICK q \in 1..release : blockReset = <<Release[q].block>>
    BY <2>1 DEF ResetInv, BlocksInv
  <2> QED
    BY <1>3, <1>4, <2>1, <2>2
<1>8. BlocksInv'
  <2>1. lastHb = 0 \/ lastHb \in Genesis..LastBlock
    BY DEF ResetInv, BlocksInv
  <2> QED
    BY <1>0, <1>1, <1>5, <1>6, <1>7, <2>1 DEF BlocksInv
<1>9. BlockSteps'
  BY <1>0 DEF BlockSteps
<1>10. ASSUME indexReset = <<Release[r].index>>
       PROVE  /\ blockReset = <<Release[r].block>>
              /\ \E m \in Genesis..LastBlock : WholeTo(m)'
  <2>1. PICK q \in 1..release : indexReset = <<Release[q].index>>
    BY <1>10 DEF ResetInv, IndexInv
  <2>2. This.index = Release[r].index
    BY <1>3, <1>4, <1>10, <2>1
  <2>3. PICK m \in Genesis..LastBlock : WholeTo(m) /\ blockReset = <<This.block>>
    BY <1>10, <2>2 DEF ResetInv, IndexInv
  <2>4. WholeTo(m)'
    BY <1>0, <1>1, <1>3, <2>2, <2>3 DEF WholeTo, Mine, Upgrade!OfThis, Follows
  <2> QED
    BY <1>3, <2>2, <2>3, <2>4
<1>11. IndexInv'
  <2>1. indexReset = <<>> \/ \E q \in 1..r : indexReset = <<Release[q].index>>
    BY <1>4 DEF ResetInv, IndexInv
  <2> QED
    BY <1>0, <1>1, <1>10, <2>1 DEF ResetInv, IndexInv
<1> QED
  BY <1>0, <1>1, <1>8, <1>9, <1>11 DEF ResetInv

LEMMA ResetStep ==
  ASSUME Growing, ResetInv, [Upgrade!Next]_(Upgrade!vars)
  PROVE  ResetInv'
<1>1. CASE UNCHANGED Upgrade!vars
  BY <1>1 DEF Upgrade!vars, Upgrade!db, ResetInv, BlocksInv, BlockSteps, IndexInv, WholeTo, Mine, Upgrade!OfThis, Fresh,
              Follows, This, Upgrade!This
<1>2. CASE Upgrade!InitSteps
  BY <1>2, CheckBlocksKeeps, DeleteEventsKeeps, BlockWritesKeep, IndexStepsKeep, StartKeeps
  DEF Upgrade!InitSteps
<1>3. CASE Upgrade!Store \/ Upgrade!SaveLastHb \/ Upgrade!First \/ Upgrade!Parse
           \/ Upgrade!SaveProcessed \/ Upgrade!Restart
  BY <1>3, StoreKeeps, StartKeeps, CursorKeeps, ParseKeeps, RestartKeeps
<1> QED
  BY <1>1, <1>2, <1>3 DEF Upgrade!Next

LEMMA MaxIs ==
  ASSUME NEW m, NEW S, m \in S, S \subseteq Int, \A x \in S : x =< m
  PROVE  Upgrade!Max(S) = m
<1>1. \E x \in S : \A y \in S : x >= y
  OBVIOUS
<1>2. Upgrade!Max(S) \in S /\ \A y \in S : Upgrade!Max(S) >= y
  BY <1>1 DEF Upgrade!Max
<1>3. m \in Int /\ Upgrade!Max(S) \in Int /\ Upgrade!Max(S) =< m /\ Upgrade!Max(S) >= m
  BY <1>2
<1> QED
  BY <1>3

LEMMA ResetHolds ==
  ASSUME Growing, ResetInv
  PROVE  Upgrade!ResetTypeOK /\ Upgrade!IndexIsWhole /\ Upgrade!ParsedIsStored
<1> USE DEF Upgrade!None
<1>0. Genesis \in Nat \ {0} /\ LastBlock \in Nat /\ Genesis =< LastBlock
  BY GenesisIs
<1> PICK g \in (Genesis - 1)..LastBlock : events \in [Genesis..g -> Nat]
  BY DEF ResetInv, BlocksInv
<1>1. Upgrade!ResetTypeOK
  <2>1. DOMAIN events \subseteq Upgrade!Heights
    BY <1>0 DEF Upgrade!Heights
  <2>2. lastHb \in {0} \cup Upgrade!Heights
    BY <1>0 DEF ResetInv, BlocksInv, Upgrade!Heights
  <2>3. processed \in {0} \cup Upgrade!Heights /\ cursor \in {0} \cup Upgrade!Heights
    BY <1>0 DEF ResetInv, IndexInv, Upgrade!Heights
  <2>4. \A c \in Collection : \A w \in content[c] : w.at \in Upgrade!Heights
    <3>1. \A w \in Written : w.at \in Upgrade!Heights
      BY <1>0 DEF Written, Upgrade!Heights
    <3> QED
      BY <3>1 DEF ResetInv, IndexInv
  <2> QED
    BY <2>1, <2>2, <2>3, <2>4 DEF ResetInv, Upgrade!ResetTypeOK
<1>2. ASSUME stage = "run", NEW m \in Genesis..LastBlock, WholeTo(m), NEW c \in Collection
      PROVE  /\ c \notin Kept => content[c] = Mine(c)
             /\ \A w \in Mine(c) : \A i \in Upgrade!Due(w.at) : w.stored >= i
             /\ LET last == Upgrade!Max({w.at : w \in Mine(c)} \cup {processed, Genesis})
                IN {w.at : w \in Mine(c)} = (Genesis + 1)..last
  <2>1. /\ {w.at : w \in Mine(c)} = (Genesis + 1)..m
        /\ \A w \in Mine(c) : Follows(w.at, w.stored, This.block)
        /\ c \notin Kept => content[c] = Mine(c)
        /\ processed = 0 \/ processed \in (Genesis + 1)..m
    BY <1>2 DEF WholeTo
  <2> DEFINE S == (Genesis + 1)..m \cup {processed, Genesis}
  <2>2. m \in S /\ S \subseteq Int /\ \A x \in S : x =< m
    BY <1>0, <2>1
  <2>3. Upgrade!Max(S) = m
    BY <2>2, MaxIs
  <2> QED
    BY <2>1, <2>3 DEF Upgrade!Due, Follows, This
<1>3. Upgrade!IndexIsWhole
  BY <1>2, RunsWhole DEF Upgrade!IndexIsWhole, Mine
<1>4. Upgrade!ParsedIsStored
  BY RunsWhole DEF Upgrade!ParsedIsStored, WholeTo
<1> QED
  BY <1>1, <1>3, <1>4

\* However often a node is stopped within its resets and started with a later
\* release, whose ids only grow: while it runs its index is that of its own release,
\* without a gap, and but for what no reset empties of no other.
THEOREM IndexStaysWhole == Upgrade!ReleasesGrow /\ UpkeepSpec => []IndexIsWhole
<1> DEFINE Inv == Upgrade!ReleasesGrow /\ (service = "upgrade" => ResetInv)
<1>1. Upgrade!ReleasesGrow /\ UpkeepInit => Inv
  BY ResetInit, UpkeepAssumption DEF Growing
<1>2. Inv /\ [UpkeepNext]_upkeepVars => Inv'
  BY UpkeepStep, ResetStep, UpkeepAssumption DEF Growing
<1>3. Inv => IndexIsWhole
  BY ResetHolds, UpkeepAssumption DEF Growing, IndexIsWhole
<1> QED
  BY <1>1, <1>2, <1>3, PTL DEF UpkeepSpec

===============================================================================
