---------------------------- MODULE ElectionsProofs ----------------------------
(***************************************************************************)
(* Proofs about Elections for every value of its constants: nodes elect    *)
(* the same, what a holder counted is accepted by all, and more than half  *)
(* the weight of the electorate before is behind every election; and what  *)
(* the threshold is worth, for every weight and every time, of which       *)
(* TLC sees one set of weights.                                            *)
(***************************************************************************)
EXTENDS Elections, SumTheorems

-------------------------------------------------------------------------------
(* The threshold, for every weight and every time. *)

\* How a quotient is bounded: what TLA+ says of \div.
LEMMA Quotient ==
  ASSUME NEW a \in Int, NEW b \in Nat \ {0}
  PROVE  /\ a \div b \in Int
         /\ b * (a \div b) =< a
         /\ a < b * (a \div b + 1)
  OBVIOUS

\* A quotient lies between the factors that its dividend lies between.
LEMMA QuotientBetween ==
  ASSUME NEW a \in Int, NEW b \in Nat \ {0}, NEW low \in Int, NEW high \in Int,
         b * low =< a, a < b * (high + 1)
  PROVE  low =< a \div b /\ a \div b =< high
<1> DEFINE q == a \div b
<1>1. q \in Int /\ b * q =< a /\ a < b * (q + 1)
  BY Quotient
<1> HIDE DEF q
<1>2. low =< q
  <2> SUFFICES ASSUME q + 1 =< low PROVE FALSE
    BY <1>1
  <2>1. b * (q + 1) =< b * low
    BY <1>1
  <2> QED
    BY <2>1, <1>1
<1>3. q =< high
  <2> SUFFICES ASSUME high + 1 =< q PROVE FALSE
    BY <1>1
  <2>1. b * (high + 1) =< b * q
    BY <1>1
  <2> QED
    BY <2>1, <1>1
<1> QED
  BY <1>2, <1>3 DEF q

-------------------------------------------------------------------------------
\* Both limits are whole, and the lower one is more than half the weight.
LEMMA Limits ==
  ASSUME NEW w \in Nat
  PROVE  MinMembers(w) \in Nat /\ MaxMembers(w) \in Nat /\ 2 * MinMembers(w) > w
  BY DEF MinMembers, MaxMembers

\* The time left is never negative and never more than all of it.
LEMMA TimeLeft ==
  ASSUME NEW since \in Nat
  PROVE  Left(since) \in 0..MaxSince
  BY SinceAssumption DEF Left

\* Products of naturals are naturals and grow with either factor.
LEMMA Products ==
  ASSUME NEW a \in Nat, NEW b \in Nat, NEW c \in Nat, a =< b
  PROVE  a * c \in Nat /\ a * c =< b * c
  OBVIOUS

\* Whenever an election can be held, the votes it needs are more than half the
\* weight (what one node counts as a majority no other part of the network has)
\* and at most the upper limit, two thirds of the weight rounded up: the
\* threshold can be reached.
THEOREM ThresholdIsMajority ==
  ASSUME NEW since \in Nat, NEW w \in Nat, ~Throws(since, w)
  PROVE  2 * MinVotes(since, w) > w /\ MinVotes(since, w) =< MaxMembers(w)
<1> DEFINE low == MinMembers(w)
           high == MaxMembers(w)
           span == Left(since) * (high - low)
           top == 2 * (low * MaxSince + span) + MaxSince
<1>1. low \in Nat /\ high \in Nat /\ low < high /\ 2 * low > w
  BY Limits DEF Throws
<1>2. Left(since) \in Nat /\ Left(since) =< MaxSince /\ MaxSince \in Nat /\ MaxSince > 0
  BY TimeLeft, SinceAssumption
<1> HIDE DEF low, high
<1>3. span \in Nat /\ span =< MaxSince * (high - low)
  BY <1>1, <1>2, Products
<1>4. low * MaxSince \in Nat /\ MaxSince * (high - low) = MaxSince * high - low * MaxSince
      /\ MaxSince * high \in Nat
  BY <1>1, <1>2
<1> HIDE DEF span
<1>5. top \in Int /\ (2 * MaxSince) * low =< top /\ top < (2 * MaxSince) * (high + 1)
  <2>1. (2 * MaxSince) * low = 2 * (low * MaxSince)
    BY <1>1, <1>2
  <2>2. (2 * MaxSince) * (high + 1) = 2 * (MaxSince * high) + 2 * MaxSince
    BY <1>1, <1>2
  <2> QED
    BY <2>1, <2>2, <1>2, <1>3, <1>4
<1>6. low =< top \div (2 * MaxSince) /\ top \div (2 * MaxSince) =< high
      /\ top \div (2 * MaxSince) \in Int
  <2> HIDE DEF top
  <2> QED
    BY <1>1, <1>2, <1>5, QuotientBetween, Quotient
<1>7. MinVotes(since, w) = top \div (2 * MaxSince)
  BY DEF MinVotes, top, span, low, high
<1> QED
  BY <1>1, <1>6, <1>7 DEF high

\* What was enough at one block is enough at every later one: votes the holder
\* has counted are still a majority when Hive includes them late.
THEOREM ThresholdFalls ==
  ASSUME NEW since \in Nat, NEW later \in Nat, since =< later,
         NEW w \in Nat, ~Throws(since, w)
  PROVE  MinVotes(later, w) =< MinVotes(since, w)
<1> DEFINE low == MinMembers(w)
           wide == MaxMembers(w) - low
           top(s) == 2 * (low * MaxSince + Left(s) * wide) + MaxSince
           b == 2 * MaxSince
<1>1. low \in Nat /\ wide \in Nat /\ b \in Nat \ {0} /\ MaxSince \in Nat
  BY Limits, SinceAssumption DEF Throws
<1>2. Left(later) \in Nat /\ Left(since) \in Nat /\ Left(later) =< Left(since)
  BY TimeLeft, SinceAssumption DEF Left
<1> HIDE DEF low, wide, b
<1>3. /\ Left(later) * wide \in Nat /\ Left(since) * wide \in Nat
      /\ Left(later) * wide =< Left(since) * wide
  BY <1>1, <1>2, Products
<1>4. low * MaxSince \in Nat
  BY <1>1
<1>5. top(later) \in Int /\ top(since) \in Int /\ top(later) =< top(since)
  BY <1>1, <1>3, <1>4
<1> HIDE DEF top
<1>6. top(later) \div b =< top(since) \div b
  <2> DEFINE q == top(since) \div b
  <2>1. q \in Int /\ top(since) < b * (q + 1)
    BY <1>1, <1>5, Quotient
  <2> HIDE DEF q
  <2>2. top(later) < b * (q + 1)
    BY <1>1, <1>5, <2>1
  <2> DEFINE r == top(later) \div b
  <2>3. r \in Int /\ b * r =< top(later)
    BY <1>1, <1>5, Quotient
  <2> HIDE DEF r
  <2>4. r =< q
    <3> SUFFICES ASSUME q + 1 =< r PROVE FALSE
      BY <2>1, <2>3
    <3>1. b * (q + 1) =< b * r
      BY <1>1, <2>1, <2>3
    <3> QED
      BY <1>1, <1>5, <2>1, <2>2, <2>3, <3>1
  <2> QED
    BY <2>4 DEF q, r
<1> QED
  BY <1>6 DEF MinVotes, top, low, wide, b

-------------------------------------------------------------------------------
(* Numbers. *)

\* The remainder and the quotient of a natural number.
LEMMA Remainder ==
  ASSUME NEW a \in Nat, NEW b \in Nat \ {0}
  PROVE  a % b \in 0..(b - 1) /\ a \div b \in Nat /\ a = b * (a \div b) + (a % b)
  OBVIOUS

\* A block less than an epoch after a slot belongs to that slot.
LEMMA SlotOfBlock ==
  ASSUME NEW blk \in Nat, blk % EpochLength = 0, NEW h \in Nat,
         blk =< h, h < blk + EpochLength
  PROVE  Slot(h) = blk
<1>1. EpochLength \in Nat \ {0}
  BY ElectionsAssumption
<1> DEFINE p == blk \div EpochLength
           q == h \div EpochLength
<1>2. p \in Nat /\ blk = EpochLength * p
  BY <1>1, Remainder
<1>3. q \in Nat /\ h % EpochLength \in 0..(EpochLength - 1) /\ h = EpochLength * q + (h % EpochLength)
  BY <1>1, Remainder
<1>4. EpochLength * (p + 1) = EpochLength * p + EpochLength
  BY <1>1, <1>2
<1>5. p =< q /\ q =< p
  BY <1>1, <1>2, <1>4, QuotientBetween
<1> QED
  BY <1>1, <1>2, <1>3, <1>5 DEF Slot

\* There is no slot at the first block.
LEMMA SlotsLater ==
  ASSUME NEW blk \in Nat \ {0}, blk % EpochLength = 0
  PROVE  blk > 1
<1>1. EpochLength \in Nat /\ EpochLength > 1
  BY ElectionsAssumption
<1>2. blk = EpochLength * (blk \div EpochLength) /\ blk \div EpochLength \in Nat
  BY <1>1, Remainder
<1>3. ASSUME NEW p \in Nat, EpochLength * p = 1 PROVE FALSE
  <2>1. CASE p = 0
    BY <1>1, <1>3, <2>1
  <2>2. CASE p >= 1
    <3>1. EpochLength * 1 =< EpochLength * p
      BY <1>1, <2>2
    <3> QED
      BY <1>1, <1>3, <3>1
  <2> QED
    BY <2>1, <2>2
<1> QED
  BY <1>2, <1>3

\* A bounded set of naturals has a largest.
LEMMA Largest ==
  ASSUME NEW S, S \subseteq Nat, S # {}, NEW b \in Nat, \A x \in S : x =< b
  PROVE  \E m \in S : \A x \in S : x =< m
<1> DEFINE R == OpToRel(<, Nat)
           T == {x \in Nat : x =< b /\ b - x \in S}
<1>1. T # {} /\ T \subseteq Nat
  <2>1. PICK x \in S : TRUE
    OBVIOUS
  <2>2. x \in Nat /\ x =< b
    BY <2>1
  <2>3. b - x \in Nat /\ b - (b - x) = x /\ b - x =< b
    BY <2>2
  <2> QED
    BY <2>1, <2>3
<1>2. PICK t \in T : \A y \in T : ~(<<y, t>> \in R)
  <2> HIDE DEF T, R
  <2>1. IsWellFoundedOn(R, Nat)
    BY NatLessThanWellFounded DEF R
  <2> QED
    BY <1>1, <2>1, WFMin
<1>3. \A y \in T : ~(y < t)
  BY <1>2 DEF OpToRel
<1>4. ASSUME NEW x \in S PROVE x =< b - t
  <2>1. x \in Nat /\ x =< b /\ b - x \in Nat /\ b - x =< b /\ b - (b - x) = x
    OBVIOUS
  <2>2. b - x \in T
    BY <2>1
  <2>3. t \in Nat /\ ~(b - x < t)
    BY <1>3, <2>2
  <2> QED
    BY <2>1, <2>3
<1> QED
  BY <1>4

-------------------------------------------------------------------------------
(* The invariant.  What a node has once parsed it keeps: top says up to     *)
(* which block each node has, restarts or not.  As nodes that restart parse *)
(* blocks again, their state does not tell; there is such a top.            *)

\* Epoch e is the last before block h that a node with the elections d knows.
IsLast(d, h, e) ==
  /\ e \in DOMAIN d /\ d[e].at < h
  /\ \A f \in DOMAIN d : d[f].at < h => d[f].at =< d[e].at

\* Epochs follow each other from 0, in the order of their blocks.
Ordered(d) ==
  /\ 0 \in DOMAIN d /\ d[0] = Elected(FirstTag, 0)
  /\ \A e \in DOMAIN d : \A f \in 0..(e - 1) : f \in DOMAIN d /\ d[f].at < d[e].at

\* The votes S of electorate r suffice at a block.
Suffices(r, S, blk) ==
  /\ ~Throws(blk - r.at, Total(r.weights))
  /\ Weight(r, Places(r.members, S)) >= MinVotes(blk - r.at, Total(r.weights))

\* What is stored for an epoch is a result on Hive that the electorate before
\* has signed.
Justified(d, e) ==
  LET h == d[e].at
  IN /\ h \in DOMAIN results /\ results[h].made.epoch = e
     /\ d[e] = Elected(results[h].made.tag, h)
     /\ Suffices(d[e - 1], results[h].signed, h)

StoredInv ==
  \A n \in Node : Ordered(db[n]) /\ \A e \in DOMAIN db[n] \ {0} : Justified(db[n], e)

TopInv(top) ==
  /\ top \in [Node -> Nat]
  /\ \A n \in Node : /\ parsed[n] =< top[n] /\ top[n] =< now
                     /\ \A e \in DOMAIN db[n] : db[n][e].at =< top[n]

\* Nodes have the same elections of the blocks they have parsed.
AgreeInv(top) ==
  \A n, m \in Node : \A e \in DOMAIN db[n] :
    db[n][e].at =< top[m] => e \in DOMAIN db[m] /\ db[m][e] = db[n][e]

\* Whoever has parsed a result has its epoch, from there or from before.
AcceptedInv(top) ==
  \A n \in Node : \A h \in DOMAIN results :
    h =< top[n] => /\ results[h].made.epoch \in DOMAIN db[n]
                   /\ db[n][results[h].made.epoch].at =< h

\* A node with the elections d that has parsed up to block b was at slot blk and
\* has made up an election of that epoch there from what it knew.
MadeAt(d, b, blk, epoch) ==
  /\ blk \in Nat /\ blk > 1 /\ blk % EpochLength = 0 /\ blk =< b
  /\ IsLast(d, blk - 1, epoch - 1)

\* All of S are members of the electorate r.
Members(r, S) == \A m \in S : Places(r.members, {m}) # {}

\* The node holds that election, from the one before, with the signatures of
\* members.
HeldAt(d, b, blk, epoch, last, S) ==
  /\ MadeAt(d, b, blk, epoch) /\ last = d[epoch - 1]
  /\ \E e \in DOMAIN d : IsLast(d, blk, e) /\ Members(d[e], S)

\* The node has found the signatures of a result enough, by the weights of the
\* election before it at the places the members of the slot have.
WonAt(d, b, r) ==
  /\ MadeAt(d, b, r.blk, r.made.epoch)
  /\ \E e \in DOMAIN d :
       LET last == d[r.made.epoch - 1]
           since == r.blk - last.at
       IN /\ IsLast(d, r.blk, e) /\ Members(d[e], r.signed)
          /\ r.bits = Places(d[e].members, r.signed)
          /\ ~Throws(since, Total(last.weights))
          /\ Weight(last, r.bits) >= MinVotes(since, Total(last.weights))

HoldInv(top) ==
  \A n \in Node : hold[n] # NoHold =>
    HeldAt(db[n], top[n], hold[n].blk, hold[n].made.epoch, hold[n].last, hold[n].signed)

SentInv(top) ==
  /\ \A r \in sent : \E n \in Node : WonAt(db[n], top[n], r)
  /\ \A h \in DOMAIN results :
       /\ results[h].blk < h /\ h =< results[h].blk + Settle
       /\ \E n \in Node : WonAt(db[n], top[n], results[h])

SharedInv(top) ==
  TopInv(top) /\ AgreeInv(top) /\ AcceptedInv(top) /\ HoldInv(top) /\ SentInv(top)

ElectionsInv ==
  /\ ElectionTypeOK
  /\ \A n \in Node : 0 \in DOMAIN db[n] /\ db[n][0].at = 0
  /\ fails = 0 => StoredInv /\ \E top \in [Node -> 0..now] : SharedInv(top)

-------------------------------------------------------------------------------
(* Type correctness. *)

Known == \A n \in Node : 0 \in DOMAIN db[n] /\ db[n][0].at = 0

\* There is a last election before every block.
LEMMA LastExists ==
  ASSUME NEW d, 0 \in DOMAIN d, d[0].at = 0,
         NEW b \in Nat, \A e \in DOMAIN d : d[e].at \in 0..b,
         NEW h \in Nat, h > 0
  PROVE  \E e \in DOMAIN d : IsLast(d, h, e)
<1> DEFINE S == {d[e].at : e \in {f \in DOMAIN d : d[f].at < h}}
<1>1. S \subseteq Nat /\ S # {} /\ \A x \in S : x =< b
  OBVIOUS
<1>2. PICK m \in S : \A x \in S : x =< m
  BY <1>1, Largest
<1>3. PICK e \in DOMAIN d : d[e].at = m /\ d[e].at < h
  BY <1>2
<1> QED
  BY <1>2, <1>3 DEF IsLast

\* It is the one getValidElectionOfblock finds.
LEMMA EpochIsLast ==
  ASSUME ElectionTypeOK, Known, NEW n \in Node, NEW h \in Nat, h > 0
  PROVE  EpochAt(n, h) \in DOMAIN db[n] /\ IsLast(db[n], h, EpochAt(n, h))
<1>1. MaxHeight \in Nat /\ \A e \in DOMAIN db[n] : db[n][e].at \in 0..MaxHeight
  BY ElectionsAssumption DEF ElectionTypeOK, Record
<1>2. \E e \in DOMAIN db[n] : IsLast(db[n], h, e)
  BY <1>1, LastExists DEF Known
<1> QED
  BY <1>2 DEF EpochAt, IsLast

\* What a node makes up at a slot.
LEMMA MadeType ==
  ASSUME ElectionTypeOK, Known, NEW n \in Node, NEW blk \in Nat, blk > 1
  PROVE  Made(n, blk) \in [epoch : Nat, tag : Tag]
<1>1. EpochAt(n, blk - 1) \in DOMAIN db[n]
  BY EpochIsLast
<1>2. EpochAt(n, blk - 1) \in Nat /\ tag \in Tag
  BY <1>1 DEF ElectionTypeOK
<1> QED
  BY <1>2 DEF Made

\* The initial state is typed and every node knows the first election.
LEMMA TypeInit == Init => ElectionTypeOK /\ Known
<1> SUFFICES ASSUME Init PROVE ElectionTypeOK /\ Known
  OBVIOUS
<1>1. \A n \in Node : DOMAIN db[n] = {0} /\ db[n][0] = Elected(FirstTag, 0)
  BY DEF Init
<1>2. Elected(FirstTag, 0) \in Record
  BY ElectionsAssumption DEF Elected, Record
<1> QED
  BY <1>1, <1>2, ElectionsAssumption DEF Init, ElectionTypeOK, Known, Elected, NoHold

\* What an indexed election is made of.
LEMMA RecordType ==
  ASSUME NEW r \in Record
  PROVE  r.members \in Seq(Node) /\ r.weights \in Seq(Nat) /\ r.at \in 0..MaxHeight
  BY ElectionsAssumption DEF Record

\* The bounds are natural numbers.
LEMMA BoundsAre ==
  /\ MaxHeight \in Nat /\ MaxTags \in Nat /\ MaxFails \in Nat /\ MaxRestarts \in Nat
  BY ElectionsAssumption

\* The heights and counters of a typed state, as the steps below use them.
LEMMA Counters ==
  ASSUME ElectionTypeOK
  PROVE  /\ now \in Nat /\ now =< MaxHeight /\ now \in 0..MaxHeight
         /\ \A n \in Node : parsed[n] \in Nat /\ parsed[n] =< now
         /\ parsed \in [Node -> 0..now] /\ DOMAIN results \subseteq 1..now
         /\ tags \in 0..MaxTags /\ fails \in 0..MaxFails /\ restarts \in 0..MaxRestarts
<1>1. now \in 0..MaxHeight /\ parsed \in [Node -> 0..now] /\ DOMAIN results \subseteq 1..now
      /\ tags \in 0..MaxTags /\ fails \in 0..MaxFails /\ restarts \in 0..MaxRestarts
  BY DEF ElectionTypeOK
<1> QED
  BY <1>1, BoundsAre

\* What a new Hive block does to the heights and to the holds.
LEMMA HiveBlockType ==
  ASSUME ElectionTypeOK, HiveBlock
  PROVE  /\ now' = now + 1 /\ now' \in 0..MaxHeight /\ 1..now \subseteq 1..now'
         /\ parsed' \in [Node -> 0..now'] /\ hold' \in [Node -> {NoHold} \cup Holding]
         /\ now + 1 \in 1..now' /\ UNCHANGED <<tag, db, tags, fails, restarts>>
<1>1. now' = now + 1 /\ now < MaxHeight /\ UNCHANGED <<tag, parsed, db, tags, fails, restarts>>
  BY DEF HiveBlock, counters
<1>2. now' \in 0..MaxHeight /\ 1..now \subseteq 1..now' /\ 0..now \subseteq 0..now' /\ now + 1 \in 1..now'
  BY <1>1, Counters, BoundsAre
<1>3. hold' \in [Node -> {NoHold} \cup Holding]
  BY DEF HiveBlock, ElectionTypeOK
<1> QED
  BY <1>1, <1>2, <1>3, Counters

\* Every step keeps the types and the known elections.
LEMMA TypeStep == ElectionTypeOK /\ Known /\ [Next]_vars => ElectionTypeOK' /\ Known'
<1> SUFFICES ASSUME ElectionTypeOK, Known, [Next]_vars PROVE ElectionTypeOK' /\ Known'
  OBVIOUS
<1> USE ElectionsAssumption
<1>1. CASE EmptyBlock
  <2>1. sent' \subseteq sent /\ results' = results /\ HiveBlock
    BY <1>1 DEF EmptyBlock
  <2> QED
    BY <2>1, HiveBlockType DEF ElectionTypeOK, Known
<1>2. CASE ResultBlock
  <2>1. PICK r \in sent : results' = Put(results, now + 1, r) /\ sent' \subseteq sent
    BY <1>2 DEF ResultBlock
  <2>2. HiveBlock
    BY <1>2 DEF ResultBlock
  <2>3. DOMAIN results' = DOMAIN results \cup {now + 1}
        /\ \A h \in DOMAIN results' : results'[h] = r \/ (h \in DOMAIN results /\ results'[h] = results[h])
    BY <2>1 DEF Put
  <2>4. DOMAIN results' \subseteq 1..now'
    BY <2>2, <2>3, HiveBlockType, Counters
  <2>5. \A h \in DOMAIN results' : results'[h] \in Result
    BY <2>1, <2>3 DEF ElectionTypeOK
  <2> QED
    BY <2>1, <2>2, <2>4, <2>5, HiveBlockType DEF ElectionTypeOK, Known
<1>3. CASE Release
  <2>1. tag' \in Tag /\ tags' \in 0..MaxTags
    BY <1>3, Counters, BoundsAre DEF Release
  <2> QED
    BY <1>3, <2>1 DEF Release, ElectionTypeOK, Known
<1>4. ASSUME NEW n \in Node, Parse(n) PROVE ElectionTypeOK' /\ Known'
  <2> DEFINE h == parsed[n] + 1
  <2>1. h \in 1..now /\ h \in Nat /\ h > 0 /\ h =< MaxHeight
    BY <1>4, Counters, BoundsAre DEF Parse
  <2>2. parsed' \in [Node -> 0..now']
    BY <1>4, <2>1 DEF Parse, ElectionTypeOK
  <2>3. hold' \in [Node -> {NoHold} \cup Holding]
    <3>1. CASE Holds(n, h)
      <4>1. h > 1
        BY <2>1, <3>1, SlotsLater DEF Holds
      <4>2. Made(n, h) \in [epoch : Nat, tag : Tag]
        BY <2>1, <4>1, MadeType
      <4> DEFINE last == Electorate(n, h - 1)
      <4>3. last \in Record
        <5>1. h - 1 \in Nat /\ h - 1 > 0
          BY <2>1, <4>1
        <5> QED
          BY <5>1, EpochIsLast DEF Electorate, ElectionTypeOK
      <4>4. [blk |-> h, made |-> Made(n, h), last |-> last, signed |-> {}] \in Holding
        <5> HIDE DEF last
        <5>1. h \in 1..MaxHeight
          BY <2>1, BoundsAre
        <5> QED
          BY <4>2, <4>3, <5>1 DEF Holding
      <4> QED
        BY <1>4, <3>1, <4>4 DEF Parse, StartHold, ElectionTypeOK
    <3>2. CASE ~Holds(n, h)
      BY <1>4, <3>2 DEF Parse, ElectionTypeOK
    <3> QED
      BY <3>1, <3>2
  <2>4. /\ db' = [k \in Node |-> db'[k]] /\ fails' \in 0..MaxFails /\ Known'
        /\ \A k \in Node : \A e \in DOMAIN db'[k] : e \in Nat /\ db'[k][e] \in Record
    <3>1. CASE db' = Store(n, h, results[h]) /\ h \in DOMAIN results /\ Indexes(n, h, results[h]) /\ fails' = fails
      <4> DEFINE r == results[h]
      <4>1. r.made.epoch \in Nat /\ r.made.tag \in Tag /\ r.made.epoch \notin DOMAIN db[n]
        BY <3>1 DEF ElectionTypeOK, Result, Indexes
      <4>2. Elected(r.made.tag, h) \in Record
        BY <2>1, <4>1 DEF Elected, Record
      <4>3. db' = [k \in Node |-> IF k = n THEN Put(db[n], r.made.epoch, Elected(r.made.tag, h)) ELSE db[k]]
        BY <3>1 DEF Store, ElectionTypeOK
      <4>4. \A k \in Node : \A e \in DOMAIN db'[k] : e \in Nat /\ db'[k][e] \in Record
        BY <4>1, <4>2, <4>3 DEF Put, ElectionTypeOK
      <4>5. Known'
        BY <4>1, <4>3 DEF Put, Known
      <4>6. db' = [k \in Node |-> db'[k]]
        BY <4>3
      <4> QED
        BY <3>1, <4>4, <4>5, <4>6 DEF ElectionTypeOK
    <3>2. CASE UNCHANGED db /\ fails' \in 0..MaxFails
      BY <3>2 DEF ElectionTypeOK, Known
    <3>3. fails + 1 \in 0..MaxFails \/ ~(fails < MaxFails)
      BY Counters, BoundsAre
    <3> QED
      BY <1>4, <3>1, <3>2, <3>3 DEF Parse, ElectionTypeOK
  <2> QED
    BY <1>4, <2>2, <2>3, <2>4 DEF Parse, ElectionTypeOK
<1>5. ASSUME NEW n \in Node, FinishHold(n) PROVE ElectionTypeOK' /\ Known'
  <2> DEFINE blk == hold[n].blk
             members == Electorate(n, blk).members
             made == [blk |-> blk, made |-> hold[n].made,
                      bits |-> Places(members, hold[n].signed), signed |-> hold[n].signed]
  <2>1. hold[n] \in Holding
    BY <1>5 DEF FinishHold, ElectionTypeOK
  <2>2. blk \in Nat /\ blk > 0
    BY <2>1 DEF Holding
  <2>3. Electorate(n, blk) \in Record
    BY <2>2, EpochIsLast DEF Electorate, ElectionTypeOK
  <2>4. made \in Result
    BY <2>1, <2>3, RecordType DEF Holding, Result, Places
  <2>5. sent' \subseteq Result
    BY <1>5, <2>4 DEF FinishHold, ElectionTypeOK
  <2> QED
    BY <1>5, <2>5 DEF FinishHold, ElectionTypeOK, Known, counters
<1>6. ASSUME NEW n \in Node, Restart(n) PROVE ElectionTypeOK' /\ Known'
  <2>1. parsed' \in [Node -> 0..now]
    <3>1. CASE parsed[n] > 0 /\ parsed' = [parsed EXCEPT ![n] = parsed[n] - 1]
      <4>1. parsed[n] - 1 \in 0..now
        BY <3>1, Counters
      <4> QED
        BY <3>1, <4>1, Counters
    <3> QED
      BY <1>6, <3>1 DEF Restart, ElectionTypeOK
  <2>3. restarts' \in 0..MaxRestarts
    <3>1. restarts < MaxRestarts /\ restarts' = restarts + 1
      BY <1>6 DEF Restart
    <3> QED
      BY <3>1, Counters, BoundsAre
  <2>2. hold' \in [Node -> {NoHold} \cup Holding]
    BY <1>6 DEF Restart, ElectionTypeOK
  <2> QED
    BY <1>6, <2>1, <2>2, <2>3 DEF Restart, ElectionTypeOK, Known
<1>7. ASSUME NEW m \in Node, NEW n \in Node, Sign(m, n) PROVE ElectionTypeOK' /\ Known'
  <2>1. hold' \in [Node -> {NoHold} \cup Holding]
    <3>1. hold[n] \in Holding
      BY <1>7 DEF Sign, CanSign, ElectionTypeOK
    <3>2. [hold[n] EXCEPT !.signed = hold[n].signed \cup {m}] \in Holding
      BY <3>1 DEF Holding
    <3> HIDE DEF Holding
    <3>3. hold' = [hold EXCEPT ![n] = [hold[n] EXCEPT !.signed = hold[n].signed \cup {m}]]
      BY <1>7, Zenon DEF Sign
    <3> QED
      BY <3>2, <3>3 DEF ElectionTypeOK
  <2> QED
    BY <1>7, <2>1 DEF Sign, ElectionTypeOK, Known, counters
<1>8. CASE UNCHANGED vars
  BY <1>8 DEF vars, counters, ElectionTypeOK, Known
<1> QED
  BY <1>1, <1>2, <1>3, <1>4, <1>5, <1>6, <1>7, <1>8 DEF Next

-------------------------------------------------------------------------------
(* What a node knows of the blocks it has parsed does not change. *)

\* Elections d of the blocks up to b become d2 of those up to c.
Grows(d, b, d2, c) ==
  /\ b =< c /\ DOMAIN d \subseteq DOMAIN d2
  /\ \A e \in DOMAIN d : d2[e] = d[e]
  /\ \A e \in DOMAIN d2 \ DOMAIN d : d2[e].at > b /\ d2[e].at \in Nat

\* A node that goes on indexing keeps the last election of the heights it passed.
LEMMA LastStays ==
  ASSUME NEW d, NEW b \in Nat, NEW d2, NEW c \in Nat, Grows(d, b, d2, c),
         NEW h \in Nat, h =< b + 1, NEW e, IsLast(d, h, e)
  PROVE  IsLast(d2, h, e)
<1>1. ASSUME NEW f \in DOMAIN d2, d2[f].at < h PROVE d2[f].at =< d2[e].at
  <2>1. f \in DOMAIN d
    BY <1>1 DEF Grows
  <2> QED
    BY <1>1, <2>1 DEF Grows, IsLast
<1> QED
  BY <1>1 DEF Grows, IsLast

\* It keeps what an election was made from.
LEMMA MadeStays ==
  ASSUME NEW d, NEW b \in Nat, NEW d2, NEW c \in Nat, Grows(d, b, d2, c),
         NEW blk, NEW epoch, MadeAt(d, b, blk, epoch)
  PROVE  MadeAt(d2, c, blk, epoch) /\ d2[epoch - 1] = d[epoch - 1]
<1>1. blk - 1 \in Nat /\ blk - 1 =< b + 1
  BY DEF MadeAt
<1>2. IsLast(d2, blk - 1, epoch - 1)
  BY <1>1, LastStays DEF MadeAt
<1>3. blk =< c
  BY DEF MadeAt, Grows
<1> QED
  BY <1>2, <1>3 DEF MadeAt, Grows, IsLast

\* It keeps what a hold was made from.
LEMMA HeldStays ==
  ASSUME NEW d, NEW b \in Nat, NEW d2, NEW c \in Nat, Grows(d, b, d2, c),
         NEW blk, NEW epoch, NEW last, NEW S, HeldAt(d, b, blk, epoch, last, S)
  PROVE  HeldAt(d2, c, blk, epoch, last, S)
<1>1. PICK e \in DOMAIN d : IsLast(d, blk, e) /\ Members(d[e], S)
  BY DEF HeldAt
<1>2. blk \in Nat /\ blk =< b + 1
  BY DEF HeldAt, MadeAt
<1>3. IsLast(d2, blk, e) /\ e \in DOMAIN d2 /\ d2[e] = d[e]
  BY <1>1, <1>2, LastStays DEF Grows
<1> QED
  BY <1>1, <1>3, MadeStays DEF HeldAt

\* It keeps what made a result win.
LEMMA WonStays ==
  ASSUME NEW d, NEW b \in Nat, NEW d2, NEW c \in Nat, Grows(d, b, d2, c),
         NEW r, WonAt(d, b, r)
  PROVE  WonAt(d2, c, r)
<1>1. MadeAt(d, b, r.blk, r.made.epoch)
  BY DEF WonAt
<1>2. MadeAt(d2, c, r.blk, r.made.epoch) /\ d2[r.made.epoch - 1] = d[r.made.epoch - 1]
  BY <1>1, MadeStays
<1>3. r.blk \in Nat /\ r.blk =< b + 1
  BY <1>1 DEF MadeAt
<1>4. ASSUME NEW e \in DOMAIN d, IsLast(d, r.blk, e)
      PROVE  e \in DOMAIN d2 /\ d2[e] = d[e] /\ IsLast(d2, r.blk, e)
  BY <1>3, <1>4, LastStays DEF Grows
<1> QED
  BY <1>2, <1>4 DEF WonAt

-------------------------------------------------------------------------------
(* Facts about ordered elections. *)

\* The last election before a block is the one with the highest epoch.
LEMMA LastIsHighest ==
  ASSUME NEW d, Ordered(d), DOMAIN d \subseteq Nat, \A e \in DOMAIN d : d[e].at \in Nat,
         NEW h \in Nat, NEW e, IsLast(d, h, e),
         NEW f \in DOMAIN d, d[f].at < h
  PROVE  f =< e
<1> SUFFICES ASSUME e < f PROVE FALSE
  BY DEF IsLast
<1>1. e \in 0..(f - 1)
  BY DEF IsLast
<1>2. d[e].at < d[f].at
  BY <1>1 DEF Ordered
<1> QED
  BY <1>2 DEF IsLast

\* The last election of a height is one: no two are indexed at the same height.
LEMMA LastIsOne ==
  ASSUME NEW d, Ordered(d), DOMAIN d \subseteq Nat, \A e \in DOMAIN d : d[e].at \in Nat,
         NEW h \in Nat, NEW e, IsLast(d, h, e), NEW f, IsLast(d, h, f)
  PROVE  f = e
<1>1. f =< e /\ e =< f
  BY LastIsHighest DEF IsLast
<1> QED
  BY <1>1 DEF IsLast

\* Without an epoch a node is without all later ones, and the one before it is
\* the last.
LEMMA LastWithout ==
  ASSUME NEW d, Ordered(d), DOMAIN d \subseteq Nat, \A e \in DOMAIN d : d[e].at \in Nat,
         NEW e \in Nat, e \notin DOMAIN d, e - 1 \in DOMAIN d,
         NEW h \in Nat, d[e - 1].at < h
  PROVE  IsLast(d, h, e - 1) /\ \A f \in DOMAIN d : f =< e - 1
<1>1. ASSUME NEW f \in DOMAIN d PROVE f =< e - 1 /\ d[f].at =< d[e - 1].at
  <2>1. f =< e - 1
    BY DEF Ordered
  <2>2. CASE f = e - 1
    BY <2>2
  <2>3. CASE f # e - 1
    <3>1. f \in 0..((e - 1) - 1)
      BY <2>1, <2>3
    <3> QED
      BY <2>1, <3>1 DEF Ordered
  <2> QED
    BY <2>1, <2>2, <2>3
<1> QED
  BY <1>1 DEF IsLast

\* Weights and their parts are natural numbers.
LEMMA WeightType ==
  ASSUME NEW r \in Record, NEW S
  PROVE  Total(r.weights) \in Nat /\ Weight(r, S) \in Nat
<1>1. r.weights \in Seq(Nat)
  BY RecordType
<1> DEFINE w == r.weights
           D == DOMAIN w
<1>2. IsFiniteSet(D) /\ \A i \in D : w[i] \in Nat
  <2>1. D = 1..Len(w) /\ Len(w) \in Nat
    BY <1>1
  <2>2. IsFiniteSet(1..Len(w))
    BY <2>1, FS_Interval
  <2>3. \A i \in D : w[i] \in Nat
    BY <1>1
  <2> QED
    BY <2>1, <2>2, <2>3
<1>3. IsFiniteSet(S \cap D)
  BY <1>2, FS_Subset, S \cap D \subseteq D
<1>4. Total(w) = SumOf(w, D) /\ Weight(r, S) = SumOf(w, S \cap D)
  BY DEF Total, Weight, SumOf
<1> HIDE DEF w, D
<1>5. SumOf(w, D) \in Nat
  BY <1>2, SumNat
<1>6. SumOf(w, S \cap D) \in Nat
  BY <1>2, <1>3, SumNat
<1> QED
  BY <1>4, <1>5, <1>6 DEF w, D

\* The votes an election needs are an integer.
LEMMA VotesType ==
  ASSUME NEW since \in Nat, NEW w \in Nat
  PROVE  MinVotes(since, w) \in Int
<1>1. MaxMembers(w) - MinMembers(w) \in Int /\ MinMembers(w) \in Int /\ Left(since) \in Int
  BY Limits, TimeLeft
<1> DEFINE span == Left(since) * (MaxMembers(w) - MinMembers(w))
           top == 2 * (MinMembers(w) * MaxSince + span) + MaxSince
<1>2. span \in Int /\ MinMembers(w) * MaxSince \in Int
  BY <1>1, SinceAssumption
<1>3. top \in Int /\ 2 * MaxSince \in Nat \ {0}
  BY <1>2, SinceAssumption
<1>4. MinVotes(since, w) = top \div (2 * MaxSince)
  BY DEF MinVotes
<1> HIDE DEF top
<1> QED
  BY <1>3, <1>4, Quotient

\* What sufficed at a block suffices at a later one.
LEMMA SufficesLater ==
  ASSUME NEW w \in Nat, NEW v \in Nat, NEW since \in Int, NEW later \in Int,
         since =< later, ~Throws(since, w), v >= MinVotes(since, w)
  PROVE  ~Throws(later, w) /\ v >= MinVotes(later, w)
<1>1. since \in Nat /\ later \in Nat
  BY SinceAssumption DEF Throws
<1>2. MinVotes(later, w) =< MinVotes(since, w)
  BY <1>1, ThresholdFalls
<1>3. MinVotes(later, w) \in Int /\ MinVotes(since, w) \in Int
  BY <1>1, VotesType
<1>4. ~Throws(later, w)
  BY <1>1, SinceAssumption, Limits DEF Throws
<1> QED
  BY <1>2, <1>3, <1>4

-------------------------------------------------------------------------------
(* A result that was won is indexed by all who have no election of its epoch. *)

\* The epochs and records a node has indexed.
LEMMA DbType ==
  ASSUME ElectionTypeOK, NEW n \in Node
  PROVE  /\ DOMAIN db[n] \subseteq Nat
         /\ \A e \in DOMAIN db[n] : db[n][e] \in Record /\ db[n][e].at \in Nat
<1>1. MaxHeight \in Nat
  BY ElectionsAssumption
<1> QED
  BY <1>1, RecordType DEF ElectionTypeOK

\* What getValidElectionOfblock finds is the one last election.
LEMMA EpochAtIs ==
  ASSUME ElectionTypeOK, NEW n \in Node, Ordered(db[n]),
         NEW h \in Nat, NEW e, IsLast(db[n], h, e)
  PROVE  EpochAt(n, h) = e /\ Electorate(n, h) = db[n][e]
<1>1. IsLast(db[n], h, EpochAt(n, h))
  BY DEF EpochAt, IsLast
<1>2. EpochAt(n, h) = e
  BY <1>1, DbType, LastIsOne
<1> QED
  BY <1>2 DEF Electorate

\* The places of members are theirs.
LEMMA PlacesOfMembers ==
  ASSUME NEW r \in Record, NEW S, Members(r, S)
  PROVE  /\ Places(r.members, S) \subseteq DOMAIN r.members
         /\ {r.members[i] : i \in Places(r.members, S)} = S
  BY DEF Members, Places

\* A result that others have counted as won wins at every node that parses it.
LEMMA WonIsIndexed ==
  ASSUME ElectionTypeOK, StoredInv, NEW top, TopInv(top), AgreeInv(top), SentInv(top),
         NEW n \in Node, NEW h \in DOMAIN results, h = top[n] + 1,
         results[h].made.epoch \notin DOMAIN db[n]
  PROVE  /\ Indexes(n, h, results[h])
         /\ results[h].made.epoch - 1 \in DOMAIN db[n]
         /\ \A f \in DOMAIN db[n] : f =< results[h].made.epoch - 1
         /\ Suffices(db[n][results[h].made.epoch - 1], results[h].signed, h)
<1> DEFINE r == results[h]
           e == r.made.epoch
           d == db[n]
           E == d[e - 1]
<1>1. /\ h \in Nat /\ r \in Result /\ e \in Nat /\ r.blk \in Nat
      /\ top[n] \in Nat /\ Ordered(d)
      /\ \A k \in Node : \A f \in DOMAIN db[k] : db[k][f].at \in Nat
  BY DbType DEF ElectionTypeOK, Result, TopInv, StoredInv
<1>2. PICK m \in Node : WonAt(db[m], top[m], r)
  BY DEF SentInv
<1>3. /\ r.blk < h /\ h =< r.blk + Settle /\ r.blk > 1 /\ r.blk % EpochLength = 0
      /\ IsLast(db[m], r.blk - 1, e - 1)
  BY <1>2 DEF SentInv, WonAt, MadeAt
<1>4. e - 1 \in DOMAIN d /\ E = db[m][e - 1] /\ E.at < r.blk - 1
  <2>1. e - 1 \in DOMAIN db[m] /\ db[m][e - 1].at < r.blk - 1
    BY <1>3 DEF IsLast
  <2>2. db[m][e - 1].at =< top[n]
    BY <1>1, <1>3, <2>1
  <2> QED
    BY <2>1, <2>2 DEF AgreeInv
<1>5. E \in Record /\ E.at \in Nat
  BY <1>4, DbType
<1>6. /\ IsLast(d, h, e - 1) /\ IsLast(d, r.blk, e - 1)
      /\ \A f \in DOMAIN d : f =< e - 1
  BY <1>1, <1>3, <1>4, DbType, LastWithout
<1>7. Slot(h) = r.blk
  <2>1. Settle < EpochLength /\ EpochLength \in Nat /\ Settle \in Nat
    BY ElectionsAssumption
  <2> QED
    BY <1>1, <1>3, <2>1, SlotOfBlock
<1>8. Electorate(n, h) = E /\ Electorate(n, Slot(h)) = E
  BY <1>1, <1>6, <1>7, EpochAtIs
<1> DEFINE total == Total(E.weights)
           weight == Weight(E, Places(E.members, r.signed))
<1>9. /\ Members(E, r.signed) /\ r.bits = Places(E.members, r.signed)
      /\ ~Throws(r.blk - E.at, total) /\ weight >= MinVotes(r.blk - E.at, total)
  <2>1. PICK l \in DOMAIN db[m] :
          LET last == db[m][e - 1]
              since == r.blk - last.at
          IN /\ IsLast(db[m], r.blk, l) /\ Members(db[m][l], r.signed)
             /\ r.bits = Places(db[m][l].members, r.signed)
             /\ ~Throws(since, Total(last.weights))
             /\ Weight(last, r.bits) >= MinVotes(since, Total(last.weights))
    BY <1>2 DEF WonAt
  <2>2. e - 1 =< l
    <3>1. e - 1 \in DOMAIN db[m] /\ db[m][e - 1].at < r.blk
      BY <1>1, <1>3 DEF IsLast
    <3>2. Ordered(db[m])
      BY DEF StoredInv
    <3> QED
      BY <1>1, <2>1, <3>1, <3>2, DbType, LastIsHighest
  <2>3. l \in DOMAIN d /\ d[l] = db[m][l]
    <3>1. db[m][l].at =< top[n]
      BY <1>1, <1>3, <2>1 DEF IsLast
    <3> QED
      BY <3>1 DEF AgreeInv
  <2>4. l = e - 1
    BY <1>1, <1>4, <1>6, <2>2, <2>3, DbType
  <2> QED
    BY <1>4, <2>1, <2>4
<1>10. total \in Nat /\ weight \in Nat
  BY <1>5, WeightType
<1>11. ~Throws(h - E.at, total) /\ weight >= MinVotes(h - E.at, total)
  <2>1. r.blk - E.at \in Int /\ h - E.at \in Int /\ r.blk - E.at =< h - E.at
    BY <1>1, <1>3, <1>5
  <2>2. ~Throws(r.blk - E.at, total) /\ weight >= MinVotes(r.blk - E.at, total)
    BY <1>9
  <2>3. PICK a, b, w, v : a = r.blk - E.at /\ b = h - E.at /\ w = total /\ v = weight
    OBVIOUS
  <2>4. a \in Int /\ b \in Int /\ a =< b /\ w \in Nat /\ v \in Nat /\ ~Throws(a, w) /\ v >= MinVotes(a, w)
    BY <1>10, <2>1, <2>2, <2>3
  <2>5. ~Throws(b, w) /\ v >= MinVotes(b, w)
    BY <2>4, SufficesLater
  <2> QED
    BY <2>3, <2>5
<1>12. Valid(n, h, r)
  <2>1. /\ r.bits \subseteq DOMAIN E.members
        /\ {E.members[i] : i \in r.bits} = r.signed
    <3> HIDE DEF E, r
    <3> QED
      BY <1>5, <1>9, PlacesOfMembers
  <2> QED
    BY <1>8, <2>1 DEF Valid
<1>13. Majority(n, h, r)
  BY <1>8, <1>11 DEF Majority
<1> QED
  BY <1>4, <1>6, <1>11, <1>12, <1>13 DEF Indexes, Suffices

-------------------------------------------------------------------------------
(* A node that parses a block. *)

\* It stores the election a result on the block brings, if it is without.
LEMMA ParseStores ==
  ASSUME ElectionTypeOK, StoredInv, NEW top, TopInv(top), AgreeInv(top), AcceptedInv(top),
         SentInv(top), NEW n \in Node, Parse(n), fails' = fails,
         NEW h, h = parsed[n] + 1,
         h \in DOMAIN results, results[h].made.epoch \notin DOMAIN db[n]
  PROVE  /\ h = top[n] + 1
         /\ db' = Store(n, h, results[h])
         /\ results[h].made.epoch - 1 \in DOMAIN db[n]
         /\ \A f \in DOMAIN db[n] : f =< results[h].made.epoch - 1
         /\ Suffices(db[n][results[h].made.epoch - 1], results[h].signed, h)
<1>1. parsed[n] \in Nat /\ top[n] \in Nat /\ parsed[n] =< top[n] /\ h \in Nat
  BY DEF ElectionTypeOK, TopInv
<1>2. ~(h =< top[n])
  BY DEF AcceptedInv
<1>3. h = top[n] + 1
  BY <1>1, <1>2
<1>4. /\ Indexes(n, h, results[h])
      /\ results[h].made.epoch - 1 \in DOMAIN db[n]
      /\ \A f \in DOMAIN db[n] : f =< results[h].made.epoch - 1
      /\ Suffices(db[n][results[h].made.epoch - 1], results[h].signed, h)
  BY <1>3, WonIsIndexed
<1>5. fails' # fails + 1
  BY DEF ElectionTypeOK
<1>6. db' = Store(n, h, results[h])
  BY <1>4, <1>5 DEF Parse
<1> QED
  BY <1>3, <1>4, <1>6

\* The new election is of the block, by the electorate before it.
LEMMA ParseKeeps ==
  ASSUME ElectionTypeOK, StoredInv, NEW top, TopInv(top), AgreeInv(top), AcceptedInv(top),
         SentInv(top), NEW n \in Node, Parse(n), fails' = fails,
         NEW h, h = parsed[n] + 1
  PROVE  /\ StoredInv'
         /\ \A k \in Node \ {n} : db'[k] = db[k]
         /\ DOMAIN db[n] \subseteq DOMAIN db'[n]
         /\ \A f \in DOMAIN db[n] : db'[n][f] = db[n][f]
         /\ \A f \in DOMAIN db'[n] \ DOMAIN db[n] :
              /\ h \in DOMAIN results /\ f = results[h].made.epoch
              /\ h = top[n] + 1 /\ db'[n][f] = Elected(results[h].made.tag, h)
         /\ h \in DOMAIN results => results[h].made.epoch \in DOMAIN db'[n]
<1> DEFINE e == results[h].made.epoch
           d == db[n]
<1>1. h \in Nat /\ results' = results
  BY DEF ElectionTypeOK, Parse
<1>2. CASE h \in DOMAIN results /\ e \notin DOMAIN d
  <2>0. PICK d2, new : new = Elected(results[h].made.tag, h) /\ d2 = Put(d, e, new)
    OBVIOUS
  <2>1. /\ h = top[n] + 1 /\ db' = Store(n, h, results[h])
        /\ e - 1 \in DOMAIN d /\ (\A f \in DOMAIN d : f =< e - 1)
        /\ Suffices(d[e - 1], results[h].signed, h)
    BY <1>2, ParseStores
  <2>2. e \in Nat /\ e # 0 /\ top[n] \in Nat
    <3>1. e \in Nat /\ e - 1 \in Nat
      BY <1>2, <2>1, DbType DEF ElectionTypeOK, Result
    <3> QED
      BY <3>1 DEF TopInv
  <2>3. db' = [k \in Node |-> IF k = n THEN d2 ELSE db[k]]
    BY <2>0, <2>1 DEF Store, ElectionTypeOK
  <2>4. /\ DOMAIN d2 = DOMAIN d \cup {e} /\ d2[e] = new
        /\ \A f \in DOMAIN d : d2[f] = d[f]
    BY <1>2, <2>0 DEF Put
  <2>5. Ordered(d) /\ \A f \in DOMAIN d : d[f].at =< top[n] /\ d[f].at \in Nat
    BY DbType DEF StoredInv, TopInv
  <2>6. new.at = h
    BY <2>0 DEF Elected
  <2>7. Ordered(d2)
    <3>1. 0 \in DOMAIN d2 /\ d2[0] = Elected(FirstTag, 0)
      BY <2>4, <2>5 DEF Ordered
    <3>2. ASSUME NEW g \in DOMAIN d, NEW f \in 0..(g - 1)
          PROVE  f \in DOMAIN d2 /\ d2[f].at < d2[g].at
      BY <2>4, <2>5, <3>2 DEF Ordered
    <3>3. ASSUME NEW f \in 0..(e - 1)
          PROVE  f \in DOMAIN d2 /\ d2[f].at < d2[e].at
      <4>1. f \in DOMAIN d
        <5>1. CASE f = e - 1
          BY <2>1, <5>1
        <5>2. CASE f # e - 1
          <6>1. f \in 0..((e - 1) - 1)
            BY <2>2, <5>2
          <6> QED
            BY <2>1, <2>5, <6>1 DEF Ordered
        <5> QED
          BY <5>1, <5>2
      <4> QED
        <5>1. d2[f] = d[f] /\ d[f].at =< top[n] /\ d[f].at \in Nat
          BY <2>4, <2>5, <4>1
        <5>2. d2[e].at = h /\ top[n] < h
          BY <2>1, <2>2, <2>4, <2>6
        <5>3. h \in Nat
          BY <1>1
        <5> QED
          BY <2>2, <2>4, <4>1, <5>1, <5>2, <5>3
    <3> QED
      BY <2>4, <3>1, <3>2, <3>3 DEF Ordered
  <2>8. ASSUME NEW f \in DOMAIN d2 \ {0} PROVE Justified(d2, f)'
    <3>1. CASE f = e
      BY <1>1, <1>2, <2>1, <2>0, <2>4, <2>6, <3>1 DEF Justified
    <3>2. CASE f # e
      <4>1. f \in DOMAIN d /\ Justified(d, f)
        BY <2>4, <3>2 DEF StoredInv
      <4>2. f - 1 \in DOMAIN d
        <5>1. f \in Nat
          BY <4>1, DbType
        <5>2. f - 1 \in 0..(f - 1)
          BY <5>1
        <5> QED
          BY <2>5, <4>1, <5>2 DEF Ordered
      <4>3. d2[f] = d[f] /\ d2[f - 1] = d[f - 1]
        BY <2>4, <4>1, <4>2
      <4> QED
        BY <1>1, <4>1, <4>3 DEF Justified
    <3> QED
      BY <3>1, <3>2
  <2>9. StoredInv'
    <3>1. ASSUME NEW k \in Node \ {n}
          PROVE  (Ordered(db[k]) /\ \A f \in DOMAIN db[k] \ {0} : Justified(db[k], f))'
      BY <1>1, <2>3 DEF StoredInv, Justified
    <3>2. (Ordered(db[n]) /\ \A f \in DOMAIN db[n] \ {0} : Justified(db[n], f))'
      BY <2>3, <2>7, <2>8
    <3> QED
      BY <3>1, <3>2 DEF StoredInv
  <2> QED
    BY <1>2, <2>0, <2>1, <2>3, <2>4, <2>9
<1>3. CASE h \in DOMAIN results => e \in DOMAIN d
  <2>1. db' = db
    BY <1>3 DEF Parse, Indexes
  <2>2. StoredInv'
    BY <1>1, <2>1 DEF StoredInv, Justified
  <2> QED
    BY <1>3, <2>1, <2>2
<1> QED
  BY <1>2, <1>3

\* The invariant, with the block among those the node has once parsed.
LEMMA ParseShared ==
  ASSUME ElectionTypeOK, ElectionTypeOK', StoredInv, NEW top \in [Node -> 0..now], SharedInv(top),
         NEW n \in Node, Parse(n), fails' = fails
  PROVE  StoredInv' /\ \E c \in [Node -> 0..now'] : SharedInv(c)'
<1> DEFINE g == IF top[n] < parsed[n] + 1 THEN parsed[n] + 1 ELSE top[n]
<1>1. PICK h, c : h = parsed[n] + 1 /\ c = [top EXCEPT ![n] = g]
  OBVIOUS
<1>2. /\ h \in Nat /\ h =< now /\ now \in Nat /\ h =< top[n] + 1
      /\ now' = now /\ results' = results /\ sent' = sent
      /\ parsed' = [parsed EXCEPT ![n] = h]
  <2>1. /\ parsed[n] < now /\ now' = now /\ results' = results /\ sent' = sent
        /\ parsed' = [parsed EXCEPT ![n] = parsed[n] + 1]
    BY DEF Parse
  <2>2. parsed[n] =< top[n] /\ top[n] \in 0..now
    BY DEF SharedInv, TopInv
  <2> QED
    BY <1>1, <2>1, <2>2, Counters
<1>3. /\ c \in [Node -> 0..now] /\ c[n] \in Nat
      /\ \A k \in Node \ {n} : c[k] = top[k]
      /\ top[n] =< c[n] /\ h =< c[n] /\ (c[n] = h \/ c[n] = top[n])
  BY <1>1, <1>2
<1>4. /\ StoredInv'
      /\ \A k \in Node \ {n} : db'[k] = db[k]
      /\ DOMAIN db[n] \subseteq DOMAIN db'[n]
      /\ \A f \in DOMAIN db[n] : db'[n][f] = db[n][f]
      /\ \A f \in DOMAIN db'[n] \ DOMAIN db[n] :
           /\ h \in DOMAIN results /\ f = results[h].made.epoch
           /\ h = top[n] + 1 /\ db'[n][f] = Elected(results[h].made.tag, h)
      /\ h \in DOMAIN results => results[h].made.epoch \in DOMAIN db'[n]
  BY <1>1, ParseKeeps DEF SharedInv
<1>5. \A k \in Node : \A f \in DOMAIN db[k] : db[k][f].at \in Nat /\ db[k][f].at =< top[k]
  BY DbType DEF SharedInv, TopInv
<1>6. \A f \in DOMAIN db'[n] \ DOMAIN db[n] : db'[n][f].at = h
  BY <1>4 DEF Elected
<1>7. \A k \in Node : Grows(db[k], top[k], db'[k], c[k])
  <2>1. Grows(db[n], top[n], db'[n], c[n])
    BY <1>2, <1>3, <1>4, <1>6 DEF Grows
  <2>2. ASSUME NEW k \in Node \ {n} PROVE Grows(db[k], top[k], db'[k], c[k])
    BY <1>3, <1>4 DEF Grows
  <2> QED
    BY <2>1, <2>2
<1>8. TopInv(c)'
  <2>1. c \in [Node -> Nat]
    BY <1>2, <1>3
  <2>2. \A k \in Node : parsed'[k] =< c[k] /\ c[k] =< now'
    BY <1>2, <1>3 DEF SharedInv, TopInv, ElectionTypeOK
  <2>3. ASSUME NEW k \in Node, NEW f \in DOMAIN db'[k] PROVE db'[k][f].at =< c[k]
    BY <1>3, <1>4, <1>5, <1>6
  <2> QED
    BY <2>1, <2>2, <2>3 DEF TopInv
<1>9. AgreeInv(c)'
  <2> SUFFICES ASSUME NEW k \in Node, NEW m \in Node, NEW f \in DOMAIN db'[k],
                      db'[k][f].at =< c[m]
               PROVE  f \in DOMAIN db'[m] /\ db'[m][f] = db'[k][f]
    BY DEF AgreeInv
  <2>1. CASE f \in DOMAIN db[k] /\ db[k][f].at =< top[m]
    <3>1. f \in DOMAIN db[m] /\ db[m][f] = db[k][f]
      BY <2>1 DEF SharedInv, AgreeInv
    <3> QED
      BY <1>4, <2>1, <3>1
  <2>2. CASE f \in DOMAIN db[k] /\ ~(db[k][f].at =< top[m])
    <3>1. m = n /\ db'[k][f] = db[k][f] /\ top[n] \in Nat
      BY <1>3, <1>4, <2>2
    <3>2. db[k][f].at = h /\ h = top[n] + 1 /\ h > 0 /\ k # n
      BY <1>2, <1>3, <1>5, <2>2, <3>1
    <3>3. f # 0
      BY <2>2, <3>2 DEF StoredInv, Ordered, Elected
    <3>4. /\ h \in DOMAIN results /\ results[h].made.epoch = f
          /\ db[k][f] = Elected(results[h].made.tag, h)
      BY <2>2, <3>2, <3>3 DEF StoredInv, Justified
    <3>5. f \in DOMAIN db'[n]
      BY <1>4, <3>4
    <3>6. f \notin DOMAIN db[n]
      <4>1. ASSUME f \in DOMAIN db[n] PROVE FALSE
        <5>1. db[n][f].at =< top[n] /\ h =< top[k]
          BY <1>5, <2>2, <3>2, <4>1
        <5>2. db[n][f].at =< top[k]
          BY <1>2, <1>5, <3>2, <4>1, <5>1, <3>1, <1>3
        <5>3. db[k][f] = db[n][f]
          BY <4>1, <5>2 DEF SharedInv, AgreeInv
        <5> QED
          BY <3>1, <3>2, <5>1, <5>3
      <4> QED
        BY <4>1
    <3> QED
      BY <1>4, <3>1, <3>4, <3>5, <3>6
  <2>3. CASE f \notin DOMAIN db[k]
    <3>1. /\ k = n /\ h \in DOMAIN results /\ f = results[h].made.epoch
          /\ h = top[n] + 1 /\ db'[n][f] = Elected(results[h].made.tag, h)
      BY <1>4, <2>3
    <3>2. CASE m = n
      BY <3>1, <3>2
    <3>3. CASE m # n
      <4>1. h =< top[m]
        BY <1>3, <1>6, <2>3, <3>1, <3>3
      <4>2. f \in DOMAIN db[m] /\ db[m][f].at =< h
        BY <3>1, <4>1 DEF SharedInv, AcceptedInv
      <4>3. ~(db[m][f].at =< top[n])
        BY <2>3, <3>1, <4>2 DEF SharedInv, AgreeInv
      <4>4. db[m][f].at = h
        BY <1>2, <1>5, <3>1, <4>2, <4>3
      <4>5. f # 0
        BY <2>3, <3>1 DEF StoredInv, Ordered
      <4>6. db[m][f] = Elected(results[h].made.tag, h)
        BY <4>2, <4>4, <4>5 DEF StoredInv, Justified
      <4> QED
        BY <1>4, <3>1, <3>3, <4>2, <4>6
    <3> QED
      BY <3>2, <3>3
  <2> QED
    BY <2>1, <2>2, <2>3
<1>10. AcceptedInv(c)'
  <2> SUFFICES ASSUME NEW k \in Node, NEW b \in DOMAIN results, b =< c[k]
               PROVE  /\ results[b].made.epoch \in DOMAIN db'[k]
                      /\ db'[k][results[b].made.epoch].at =< b
    BY <1>2 DEF AcceptedInv
  <2>1. CASE b =< top[k]
    BY <1>4, <2>1 DEF SharedInv, AcceptedInv
  <2>2. CASE ~(b =< top[k])
    <3>1. k = n /\ b \in Nat
      BY <1>3, <2>2 DEF ElectionTypeOK
    <3>2. b = h
      BY <1>2, <1>3, <2>2, <3>1
    <3>3. results[h].made.epoch \in DOMAIN db'[n]
      BY <1>4, <3>2
    <3>4. CASE results[h].made.epoch \in DOMAIN db[n]
      BY <1>2, <1>3, <1>4, <1>5, <2>2, <3>1, <3>2, <3>4
    <3>5. CASE results[h].made.epoch \notin DOMAIN db[n]
      BY <1>2, <1>6, <3>1, <3>2, <3>3, <3>5
    <3> QED
      BY <3>4, <3>5
  <2> QED
    BY <2>1, <2>2
<1>11. HoldInv(c)'
  <2> SUFFICES ASSUME NEW k \in Node, hold'[k] # NoHold
               PROVE  HeldAt(db'[k], c[k], hold'[k].blk, hold'[k].made.epoch, hold'[k].last, hold'[k].signed)
    BY DEF HoldInv
  <2>1. top[k] \in Nat /\ c[k] \in Nat
    BY <1>3
  <2>2. CASE hold'[k] = hold[k]
    <3>1. HeldAt(db[k], top[k], hold[k].blk, hold[k].made.epoch, hold[k].last, hold[k].signed)
      BY <2>2 DEF SharedInv, HoldInv
    <3> QED
      BY <1>7, <2>1, <2>2, <3>1, HeldStays
  <2> DEFINE new == [blk |-> h, made |-> Made(n, h), last |-> Electorate(n, h - 1), signed |-> {}]
  <2>3. CASE k = n /\ Holds(n, h) /\ hold' = [hold EXCEPT ![n] = new]
    <3>1. hold'[k] = new
      BY <2>3 DEF ElectionTypeOK
    <3>2. h > 1 /\ h % EpochLength = 0
      BY <1>1, <1>2, <2>3, SlotsLater DEF Holds, ElectionTypeOK
    <3>3. Known
      BY DEF StoredInv, Ordered, Elected, Known
    <3>4. h - 1 \in Nat /\ h - 1 > 0 /\ h > 0
      BY <1>2, <3>2
    <3>5. IsLast(db[n], h - 1, EpochAt(n, h - 1)) /\ EpochAt(n, h - 1) \in Nat
      BY <3>3, <3>4, EpochIsLast, DbType
    <3>6. IsLast(db[n], h, EpochAt(n, h))
      BY <1>2, <3>3, <3>4, EpochIsLast
    <3>7. IsLast(db'[n], h - 1, EpochAt(n, h - 1)) /\ IsLast(db'[n], h, EpochAt(n, h))
      BY <1>2, <1>3, <1>7, <2>1, <2>3, <3>4, <3>5, <3>6, LastStays
    <3>8. Made(n, h).epoch - 1 = EpochAt(n, h - 1)
      BY <3>5 DEF Made
    <3>9. MadeAt(db'[n], c[n], h, Made(n, h).epoch)
      BY <1>2, <1>3, <3>2, <3>7, <3>8 DEF MadeAt
    <3>10. \E e \in DOMAIN db'[n] : IsLast(db'[n], h, e) /\ Members(db'[n][e], {})
      BY <3>7 DEF IsLast, Members
    <3>11. Electorate(n, h - 1) = db'[n][Made(n, h).epoch - 1]
      <4>1. EpochAt(n, h - 1) \in DOMAIN db[n]
        BY <3>5 DEF IsLast
      <4>2. db'[n][EpochAt(n, h - 1)] = db[n][EpochAt(n, h - 1)]
        BY <1>2, <1>3, <1>7, <2>1, <2>3, <4>1 DEF Grows
      <4> QED
        BY <3>8, <4>2 DEF Electorate
    <3>12. /\ hold'[k].blk = h /\ hold'[k].made = Made(n, h) /\ hold'[k].signed = {}
           /\ hold'[k].last = Electorate(n, h - 1)
      BY <3>1
    <3> HIDE DEF new
    <3> QED
      BY <2>3, <3>9, <3>10, <3>11, <3>12 DEF HeldAt
  <2> QED
    BY <1>1, <2>2, <2>3 DEF Parse, StartHold, ElectionTypeOK
<1>12. SentInv(c)'
  <2>1. ASSUME NEW r, \E k \in Node : WonAt(db[k], top[k], r)
        PROVE  \E k \in Node : WonAt(db'[k], c[k], r)
    <3>1. PICK k \in Node : WonAt(db[k], top[k], r)
      BY <2>1
    <3>2. top[k] \in Nat /\ c[k] \in Nat
      BY <1>3
    <3> QED
      BY <1>7, <3>1, <3>2, WonStays
  <2> QED
    BY <1>2, <2>1 DEF SharedInv, SentInv
<1> QED
  BY <1>2, <1>3, <1>4, <1>8, <1>9, <1>10, <1>11, <1>12 DEF SharedInv

-------------------------------------------------------------------------------
(* The other steps leave top as it is. *)

\* A new Hive block keeps what nodes share.
LEMMA HiveBlockShared ==
  ASSUME ElectionTypeOK, StoredInv, NEW top \in [Node -> 0..now], SharedInv(top),
         EmptyBlock \/ ResultBlock
  PROVE  StoredInv' /\ top \in [Node -> 0..now'] /\ SharedInv(top)'
<1>1. /\ HiveBlock /\ now \in Nat /\ now' = now + 1 /\ parsed' = parsed /\ db' = db
      /\ DOMAIN results \subseteq 1..now
  BY Counters DEF EmptyBlock, ResultBlock, HiveBlock
<1>2. /\ \A h \in DOMAIN results : h \in DOMAIN results' /\ results'[h] = results[h]
      /\ \A h \in DOMAIN results' \ DOMAIN results :
           h = now + 1 /\ results'[h] \in sent /\ Live(results'[h].blk)
      /\ sent' \subseteq sent
  <2>1. CASE EmptyBlock
    BY <2>1 DEF EmptyBlock
  <2>2. CASE ResultBlock
    <3>1. PICK r \in sent : Live(r.blk) /\ results' = Put(results, now + 1, r) /\ sent' \subseteq sent
      BY <2>2 DEF ResultBlock
    <3>2. now + 1 \notin DOMAIN results
      BY <1>1
    <3> QED
      BY <3>1, <3>2 DEF Put
  <2> QED
    BY <2>1, <2>2
<1>3. StoredInv'
  BY <1>1, <1>2 DEF StoredInv, Justified
<1>4. top \in [Node -> 0..now'] /\ TopInv(top)'
  BY <1>1 DEF SharedInv, TopInv
<1>5. AgreeInv(top)'
  BY <1>1 DEF SharedInv, AgreeInv
<1>6. AcceptedInv(top)'
  BY <1>1, <1>2 DEF SharedInv, AcceptedInv
<1>7. HoldInv(top)'
  <2>1. \A n \in Node : hold'[n] = hold[n] \/ hold'[n] = NoHold
    BY <1>1 DEF HiveBlock
  <2> QED
    BY <1>1, <2>1 DEF SharedInv, HoldInv
<1>8. SentInv(top)'
  <2>1. \A r \in sent' : \E n \in Node : WonAt(db'[n], top[n], r)
    BY <1>1, <1>2 DEF SharedInv, SentInv
  <2>2. ASSUME NEW h \in DOMAIN results'
        PROVE  /\ results'[h].blk < h /\ h =< results'[h].blk + Settle
               /\ \E n \in Node : WonAt(db'[n], top[n], results'[h])
    <3>1. CASE h \in DOMAIN results
      BY <1>1, <1>2, <3>1 DEF SharedInv, SentInv
    <3>2. CASE h \notin DOMAIN results
      <4>1. h = now + 1 /\ results'[h] \in sent /\ h =< results'[h].blk + Settle
        BY <1>2, <3>2 DEF Live
      <4>2. PICK n \in Node : WonAt(db[n], top[n], results'[h])
        BY <4>1 DEF SharedInv, SentInv
      <4>3. results'[h].blk \in Nat /\ results'[h].blk =< now
        <5>1. results'[h].blk \in Nat /\ results'[h].blk =< top[n]
          BY <4>2 DEF WonAt, MadeAt
        <5> QED
          BY <1>1, <5>1
      <4> QED
        BY <1>1, <4>1, <4>2, <4>3
    <3> QED
      BY <3>1, <3>2
  <2> QED
    BY <2>1, <2>2 DEF SentInv
<1> QED
  BY <1>3, <1>4, <1>5, <1>6, <1>7, <1>8 DEF SharedInv

\* So does a node whose hold ends.
LEMMA FinishHoldShared ==
  ASSUME ElectionTypeOK, StoredInv, NEW top \in [Node -> 0..now], SharedInv(top),
         NEW n \in Node, FinishHold(n)
  PROVE  SharedInv(top)'
<1> DEFINE blk == hold[n].blk
           d == db[n]
           E == Electorate(n, blk)
           last == hold[n].last
           since == blk - last.at
           bits == Places(E.members, hold[n].signed)
           r == [blk |-> blk, made |-> hold[n].made, bits |-> bits, signed |-> hold[n].signed]
<1>1. /\ results' = results /\ db' = db /\ parsed' = parsed /\ now' = now
      /\ hold' = [hold EXCEPT ![n] = NoHold] /\ hold[n] # NoHold
  BY DEF FinishHold
<1>2. TopInv(top)' /\ AgreeInv(top)' /\ AcceptedInv(top)'
  BY <1>1 DEF SharedInv, TopInv, AgreeInv, AcceptedInv
<1>3. HoldInv(top)'
  BY <1>1 DEF SharedInv, HoldInv, ElectionTypeOK
<1>4. /\ MadeAt(d, top[n], blk, hold[n].made.epoch) /\ Ordered(d)
      /\ \E e \in DOMAIN d : IsLast(d, blk, e) /\ Members(d[e], hold[n].signed)
  BY <1>1 DEF SharedInv, HoldInv, HeldAt, StoredInv
<1>5. PICK e \in DOMAIN d : IsLast(d, blk, e) /\ Members(d[e], hold[n].signed)
  BY <1>4
<1>6. last = d[hold[n].made.epoch - 1]
  BY <1>1 DEF SharedInv, HoldInv, HeldAt
<1>7. E = d[e]
  BY <1>4, <1>5, EpochAtIs DEF MadeAt
<1>8. CASE sent' = sent \cup {r} /\ ~Throws(since, Total(last.weights))
             /\ Weight(last, bits) >= MinVotes(since, Total(last.weights))
  <2>1. WonAt(d, top[n], r)
    BY <1>4, <1>5, <1>6, <1>7, <1>8 DEF WonAt
  <2> QED
    BY <1>1, <1>2, <1>3, <1>8, <2>1 DEF SharedInv, SentInv
<1>9. CASE sent' = sent
  BY <1>1, <1>2, <1>3, <1>9 DEF SharedInv, SentInv
<1> QED
  BY <1>8, <1>9 DEF FinishHold

\* So does a signature.
LEMMA SignShared ==
  ASSUME ElectionTypeOK, StoredInv, NEW top \in [Node -> 0..now], SharedInv(top),
         NEW m \in Node, NEW n \in Node, Sign(m, n)
  PROVE  SharedInv(top)'
<1> DEFINE blk == hold[n].blk
           d == db[n]
<1>1. /\ results' = results /\ db' = db /\ parsed' = parsed /\ now' = now /\ sent' = sent
      /\ hold' = [hold EXCEPT ![n] = [hold[n] EXCEPT !.signed = hold[n].signed \cup {m}]]
      /\ hold[n] # NoHold /\ Places(Electorate(n, blk).members, {m}) # {}
  BY Zenon DEF Sign, CanSign
<1>2. PICK e \in DOMAIN d : IsLast(d, blk, e) /\ Members(d[e], hold[n].signed)
  BY <1>1 DEF SharedInv, HoldInv, HeldAt
<1>3. Electorate(n, blk) = d[e]
  BY <1>1, <1>2, EpochAtIs DEF SharedInv, HoldInv, HeldAt, MadeAt, StoredInv
<1>4. Members(d[e], hold[n].signed \cup {m})
  BY <1>1, <1>2, <1>3 DEF Members
<1>5. /\ hold'[n].blk = blk /\ hold'[n].made = hold[n].made
      /\ hold'[n].signed = hold[n].signed \cup {m} /\ hold'[n].last = hold[n].last
  BY <1>1 DEF ElectionTypeOK, Holding
<1>6. HoldInv(top)'
  <2>1. ASSUME NEW k \in Node, k # n PROVE hold'[k] = hold[k]
    BY <1>1, <2>1 DEF ElectionTypeOK
  <2>2. HeldAt(d, top[n], blk, hold[n].made.epoch, hold[n].last, hold[n].signed \cup {m})
    BY <1>1, <1>2, <1>4 DEF SharedInv, HoldInv, HeldAt
  <2> QED
    BY <1>1, <1>5, <2>1, <2>2 DEF SharedInv, HoldInv
<1> QED
  BY <1>1, <1>6 DEF SharedInv, TopInv, AgreeInv, AcceptedInv, SentInv

-------------------------------------------------------------------------------
(* The invariant and what it says. *)

\* The inductive invariant holds at the start.
LEMMA ElectionsInit == Init => ElectionsInv
<1> SUFFICES ASSUME Init PROVE ElectionsInv
  OBVIOUS
<1>1. ElectionTypeOK /\ Known
  BY TypeInit
<1>2. /\ results = <<>> /\ sent = {} /\ now = 0
      /\ parsed = [n \in Node |-> 0] /\ hold = [n \in Node |-> NoHold]
      /\ \A n \in Node : DOMAIN db[n] = {0} /\ db[n][0] = Elected(FirstTag, 0)
  BY DEF Init
<1>3. DOMAIN results = {}
  BY <1>2
<1>4. StoredInv
  BY <1>2 DEF StoredInv, Ordered
<1>5. PICK top : top = [n \in Node |-> 0]
  OBVIOUS
<1>6. top \in [Node -> 0..now] /\ TopInv(top) /\ AgreeInv(top)
  BY <1>2, <1>5 DEF TopInv, AgreeInv, Elected
<1>7. AcceptedInv(top) /\ SentInv(top)
  BY <1>2, <1>3 DEF AcceptedInv, SentInv
<1>8. HoldInv(top)
  BY <1>2 DEF HoldInv
<1> QED
  BY <1>1, <1>4, <1>6, <1>7, <1>8 DEF ElectionsInv, Known, SharedInv

\* Every step keeps it.
LEMMA ElectionsStep == ElectionsInv /\ [Next]_vars => ElectionsInv'
<1> SUFFICES ASSUME ElectionsInv, [Next]_vars PROVE ElectionsInv'
  OBVIOUS
<1>1. ElectionTypeOK /\ Known /\ ElectionTypeOK' /\ Known'
  BY TypeStep DEF ElectionsInv, Known
<1>2. SUFFICES ASSUME fails' = 0
               PROVE  StoredInv' /\ \E top \in [Node -> 0..now'] : SharedInv(top)'
  BY <1>1 DEF ElectionsInv, Known
<1>3. fails = 0
  <2>1. fails \in Nat /\ fails' \in {fails, fails + 1}
    BY <1>1, ElectionsAssumption
    DEF ElectionTypeOK, Next, EmptyBlock, ResultBlock, HiveBlock, Release, Parse, FinishHold,
        Restart, Sign, vars, counters
  <2> QED
    BY <1>2, <2>1
<1>4. StoredInv
  BY <1>3 DEF ElectionsInv
<1>5. PICK top \in [Node -> 0..now] : SharedInv(top)
  BY <1>3 DEF ElectionsInv
<1>6. CASE EmptyBlock \/ ResultBlock
  BY <1>1, <1>4, <1>5, <1>6, HiveBlockShared
<1>7. ASSUME NEW n \in Node, Parse(n)
      PROVE  StoredInv' /\ \E c \in [Node -> 0..now'] : SharedInv(c)'
  BY <1>1, <1>2, <1>3, <1>4, <1>5, <1>7, ParseShared
<1>8. ASSUME UNCHANGED <<now, results, db>>, SharedInv(top)'
      PROVE  StoredInv' /\ \E c \in [Node -> 0..now'] : SharedInv(c)'
  <2>1. StoredInv'
    BY <1>4, <1>8 DEF StoredInv, Justified
  <2> QED
    BY <1>5, <1>8, <2>1
<1>9. ASSUME NEW n \in Node, FinishHold(n)
      PROVE  StoredInv' /\ \E c \in [Node -> 0..now'] : SharedInv(c)'
  <2>1. SharedInv(top)'
    BY <1>1, <1>4, <1>5, <1>9, FinishHoldShared
  <2> QED
    BY <1>8, <1>9, <2>1 DEF FinishHold
<1>10. ASSUME NEW m \in Node, NEW n \in Node, Sign(m, n)
       PROVE  StoredInv' /\ \E c \in [Node -> 0..now'] : SharedInv(c)'
  <2>1. SharedInv(top)'
    BY <1>1, <1>4, <1>5, <1>10, SignShared
  <2> QED
    BY <1>8, <1>10, <2>1 DEF Sign
<1>11. ASSUME NEW n \in Node, Restart(n)
       PROVE  StoredInv' /\ \E c \in [Node -> 0..now'] : SharedInv(c)'
  <2>1. TopInv(top)'
    <3>1. \A k \in Node : parsed[k] \in Nat /\ top[k] \in Nat
      BY <1>1, <1>5 DEF ElectionTypeOK
    <3>2. \A k \in Node : parsed'[k] =< top[k]
      BY <1>1, <1>5, <1>11, <3>1 DEF Restart, SharedInv, TopInv, ElectionTypeOK
    <3> QED
      BY <1>5, <1>11, <3>2 DEF Restart, SharedInv, TopInv
  <2>2. HoldInv(top)'
    BY <1>1, <1>5, <1>11 DEF Restart, SharedInv, HoldInv, ElectionTypeOK
  <2>3. AgreeInv(top)' /\ AcceptedInv(top)' /\ SentInv(top)'
    BY <1>5, <1>11 DEF Restart, SharedInv, AgreeInv, AcceptedInv, SentInv
  <2> QED
    BY <1>8, <1>11, <2>1, <2>2, <2>3 DEF Restart, SharedInv
<1>12. CASE Release
  BY <1>5, <1>8, <1>12
  DEF Release, SharedInv, TopInv, AgreeInv, AcceptedInv, HoldInv, SentInv
<1>13. CASE UNCHANGED vars
  BY <1>5, <1>8, <1>13
  DEF vars, counters, SharedInv, TopInv, AgreeInv, AcceptedInv, HoldInv, SentInv
<1> QED
  BY <1>6, <1>7, <1>9, <1>10, <1>11, <1>12, <1>13 DEF Next

\* So it always holds.
LEMMA ElectionsInvariant == Spec => []ElectionsInv
  BY ElectionsInit, ElectionsStep, PTL DEF Spec

\* Nodes that have parsed the block of an election have the same one for its
\* epoch, whoever held it and whoever restarted or lags behind: for any nodes,
\* weights, tags and epoch length, as long as no content failed to be fetched.
THEOREM NodesAgreeOnElections == Spec => []SameElections
<1>1. ElectionsInv => SameElections
  <2> SUFFICES ASSUME ElectionsInv PROVE SameElections
    OBVIOUS
  <2> SUFFICES ASSUME fails = 0, NEW n \in Node, NEW m \in Node, NEW e \in DOMAIN db[n],
                      db[n][e].at =< parsed[m]
               PROVE  e \in DOMAIN db[m] /\ db[m][e] = db[n][e]
    BY DEF ElectionsInv, SameElections, NodesElectTheSame
  <2>1. PICK top \in [Node -> 0..now] : SharedInv(top)
    BY DEF ElectionsInv
  <2>2. db[n][e].at =< top[m]
    <3>1. parsed[m] \in Nat /\ top[m] \in Nat /\ parsed[m] =< top[m] /\ db[n][e].at \in Nat
      BY <2>1, DbType DEF ElectionsInv, ElectionTypeOK, SharedInv, TopInv
    <3> QED
      BY <3>1
  <2> QED
    BY <2>1, <2>2 DEF SharedInv, AgreeInv
<1> QED
  BY <1>1, ElectionsInvariant, PTL

\* What a holder counted as a majority is one for everybody who parses the
\* result: the electorate at the slot is the last election each of them has, and
\* the threshold has only fallen.
THEOREM HeldIsAcceptedByAll == Spec => []HeldIsAccepted
<1>1. ElectionsInv => HeldIsAccepted
  <2> SUFFICES ASSUME ElectionsInv, fails = 0, NEW h \in DOMAIN results, NEW n \in Node,
                      h =< parsed[n]
               PROVE  results[h].made.epoch \in DOMAIN db[n]
    BY DEF HeldIsAccepted
  <2>1. PICK top \in [Node -> 0..now] : SharedInv(top)
    BY DEF ElectionsInv
  <2>2. h =< top[n]
    <3>1. parsed[n] \in Nat /\ top[n] \in Nat /\ parsed[n] =< top[n] /\ h \in Nat
      BY <2>1 DEF ElectionsInv, ElectionTypeOK, SharedInv, TopInv
    <3> QED
      BY <3>1
  <2> QED
    BY <2>1, <2>2 DEF SharedInv, AcceptedInv
<1> QED
  BY <1>1, ElectionsInvariant, PTL

\* More than half the weight of the election before is behind every election a
\* node has, however far the threshold has fallen by then.
THEOREM MajorityBehindElections == Spec => []MajorityBehind
<1>1. ElectionsInv => MajorityBehind
  <2> SUFFICES ASSUME ElectionsInv, fails = 0, NEW n \in Node, NEW e \in DOMAIN db[n] \ {0}
               PROVE  LET before == db[n][e - 1]
                          signed == results[db[n][e].at].signed
                      IN /\ e - 1 \in DOMAIN db[n]
                         /\ 2 * Weight(before, Places(before.members, signed)) > Total(before.weights)
    BY DEF MajorityBehind
  <2> DEFINE before == db[n][e - 1]
             h == db[n][e].at
             total == Total(before.weights)
             weight == Weight(before, Places(before.members, results[h].signed))
  <2>1. e - 1 \in DOMAIN db[n] /\ h \in Nat /\ before \in Record /\ before.at \in Nat
    <3>1. e \in Nat /\ e - 1 \in 0..(e - 1)
      BY DbType DEF ElectionsInv
    <3>2. e - 1 \in DOMAIN db[n]
      BY <3>1 DEF ElectionsInv, StoredInv, Ordered
    <3> QED
      BY <3>2, DbType DEF ElectionsInv
  <2>2. ~Throws(h - before.at, total) /\ weight >= MinVotes(h - before.at, total)
    BY DEF ElectionsInv, StoredInv, Justified, Suffices
  <2>3. total \in Nat /\ weight \in Nat
    BY <2>1, WeightType
  <2>4. 2 * weight > total
    <3>1. h - before.at \in Nat
      BY <2>1, <2>2, SinceAssumption DEF Throws
    <3> HIDE DEF total, weight
    <3>2. 2 * MinVotes(h - before.at, total) > total /\ MinVotes(h - before.at, total) \in Int
      BY <2>2, <2>3, <3>1, ThresholdIsMajority, VotesType
    <3> QED
      BY <2>2, <2>3, <3>2
  <2> QED
    BY <2>1, <2>4
<1> QED
  BY <1>1, ElectionsInvariant, PTL

===============================================================================
