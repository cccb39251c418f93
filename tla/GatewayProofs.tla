------------------------------ MODULE GatewayProofs ------------------------------
(***************************************************************************)
(* Proofs about Gateway for every value of its constants: what is on Hive  *)
(* has been built from all that Hive held below its height.                *)
(***************************************************************************)
EXTENDS Gateway, SumTheorems

-------------------------------------------------------------------------------
(* What is always so of the types. *)

Op == {Nothing} \cup [op : {"index"}, id : Withdrawal] \cup [op : {"elect"}, members : Electable]
      \cup Tx("batch") \cup Tx("rotate")

Contents(kind) == SUBSET (IF kind = "batch" THEN Withdrawal ELSE Node)

\* What a node collects signatures on; what is sent.
CallOK(c, kind) ==
  /\ c \in [at : 1..now, till : Nat, content : Contents(kind), keys : SUBSET Node,
            waiting : SUBSET Node, signed : SUBSET Node]
  /\ c.at % Every[kind] = 0

SentOK(tx) ==
  /\ tx.op \in Kind /\ tx.at \in 1..now /\ tx.at % Every[tx.op] = 0
  /\ tx.content \in Contents(tx.op) /\ tx.signed \subseteq Node

\* Hive has a transaction while it is good.
OnHiveOK(i) ==
  /\ hive[i].at \in 1..(i - 1) /\ hive[i].at % Every[hive[i].op] = 0
  /\ i =< hive[i].at + Life[hive[i].op]

GatewayOK ==
  /\ hive \in Seq(Op)
  /\ \A i \in DOMAIN hive : hive[i].op \in Kind => OnHiveOK(i)
  /\ auth.keys \subseteq Node /\ auth.at \in 0..now /\ auth.at % Every["rotate"] = 0
  /\ \A tx \in sent : SentOK(tx)
  /\ parsed \in [Node -> Nat] /\ seen \in [Node -> Nat]
  /\ \A n \in Node : parsed[n] =< now /\ seen[n] =< now /\ parsed[n] =< seen[n]
  /\ withdrawals = [n \in Node |-> withdrawals[n]]
  /\ \A n \in Node : \E S \in SUBSET Withdrawal : withdrawals[n] \in [S -> {"PENDING", "COMPLETE"}]
  /\ call = [n \in Node |-> [k \in Kind |-> call[n][k]]]
  /\ \A n \in Node, k \in Kind : call[n][k] # NoCall => CallOK(call[n][k], k)
  /\ elections \in 0..MaxElections /\ fails \in 0..MaxFails /\ restarts \in 0..MaxRestarts

\* The assumptions on the constants, one by one.
LEMMA Constants ==
  /\ FirstKeys \subseteq Node /\ Electable \subseteq SUBSET Node
  /\ \A k \in Kind : Every[k] \in Nat \ {0} /\ Life[k] \in Nat /\ Life[k] < Every[k]
  /\ \A k \in Kind : AnswerTime[k] \in Nat
  /\ MaxElections \in Nat /\ MaxFails \in Nat /\ MaxRestarts \in Nat /\ MaxHeight \in Nat
  /\ Trail \in Nat
  BY GatewayAssumption

\* The initial state is typed.
LEMMA GatewayInit == Init => GatewayOK
<1> SUFFICES ASSUME Init PROVE GatewayOK
  OBVIOUS
<1> USE DEF Init
<1>1. now = 0 /\ hive \in Seq(Op) /\ DOMAIN hive = {}
  BY DEF now
<1>2. auth.keys \subseteq Node /\ auth.at = 0 /\ 0 % Every["rotate"] = 0
  BY Constants DEF Kind
<1>3. parsed \in [Node -> Nat] /\ seen \in [Node -> Nat] /\ \A n \in Node : parsed[n] = 0 /\ seen[n] = 0
  OBVIOUS
<1>4. withdrawals = [n \in Node |-> withdrawals[n]]
  OBVIOUS
<1>5. ASSUME NEW n \in Node
      PROVE  \E S \in SUBSET Withdrawal : withdrawals[n] \in [S -> {"PENDING", "COMPLETE"}]
  <2>1. withdrawals[n] \in [{} -> {"PENDING", "COMPLETE"}]
    OBVIOUS
  <2> QED
    BY <2>1
<1>6. call = [n \in Node |-> [k \in Kind |-> call[n][k]]] /\ \A n \in Node, k \in Kind : call[n][k] = NoCall
  OBVIOUS
<1>7. elections \in 0..MaxElections /\ fails \in 0..MaxFails /\ restarts \in 0..MaxRestarts
  BY Constants
<1>8. \A tx \in sent : SentOK(tx)
  OBVIOUS
<1>9. \A n \in Node : parsed[n] =< now /\ seen[n] =< now /\ parsed[n] =< seen[n]
  BY <1>1, <1>3
<1> HIDE DEF Init
<1> QED
  BY <1>1, <1>2, <1>3, <1>4, <1>5, <1>6, <1>7, <1>8, <1>9 DEF GatewayOK

\* The Hive chain of a typed state.
LEMMA HiveIs ==
  ASSUME GatewayOK
  PROVE  /\ now \in Nat /\ DOMAIN hive = 1..now
         /\ \A i \in 1..now : hive[i] \in Op
  BY DEF GatewayOK, now

\* A Hive block: what there was stays, and what is due at the height is added.
LEMMA HiveGoesOn ==
  ASSUME GatewayOK, NEW op \in Op, HiveBlock(op)
  PROVE  /\ now' = now + 1 /\ hive' \in Seq(Op) /\ DOMAIN hive' = 1..(now + 1)
         /\ \A i \in 1..now : hive'[i] = hive[i]
         /\ hive'[now + 1] = op
         /\ call' = [n \in Node |-> [k \in Kind |-> call'[n][k]]]
         /\ \A n \in Node, k \in Kind : call'[n][k] # NoCall => call'[n][k] = call[n][k]
         /\ parsed' = parsed /\ seen' = seen /\ withdrawals' = withdrawals
<1>1. hive' = Append(hive, op) /\ hive \in Seq(Op)
  BY DEF HiveBlock, GatewayOK
<1>2. call' = [n \in Node |-> [k \in Kind |->
        IF call[n][k] # NoCall /\ call[n][k].till =< now THEN NoCall ELSE call[n][k]]]
  BY DEF HiveBlock
<1>3. /\ now' = now + 1 /\ hive' \in Seq(Op) /\ DOMAIN hive' = 1..(now + 1)
      /\ \A i \in 1..now : hive'[i] = hive[i]
      /\ hive'[now + 1] = op
  BY <1>1 DEF now
<1>4. /\ call' = [n \in Node |-> [k \in Kind |-> call'[n][k]]]
      /\ \A n \in Node, k \in Kind : call'[n][k] # NoCall => call'[n][k] = call[n][k]
  BY <1>2
<1>5. parsed' = parsed /\ seen' = seen /\ withdrawals' = withdrawals
  BY DEF HiveBlock
<1> QED
  BY <1>3, <1>4, <1>5

\* What was right before a block is right after it.
LEMMA StaysRight ==
  ASSUME GatewayOK, NEW op \in Op, HiveBlock(op),
         NEW h, h = now + 1, op.op \in Kind => OnHiveOK(h)',
         sent' \subseteq sent,
         auth'.keys \subseteq Node, auth'.at \in 0..(now + 1), auth'.at % Every["rotate"] = 0,
         elections' \in 0..MaxElections, fails' \in 0..MaxFails, restarts' \in 0..MaxRestarts
  PROVE  GatewayOK'
<1>1. now \in Nat /\ DOMAIN hive = 1..now
  BY HiveIs
<1>2. /\ now' = now + 1 /\ hive' \in Seq(Op) /\ DOMAIN hive' = 1..(now + 1)
      /\ \A i \in 1..now : hive'[i] = hive[i]
      /\ hive'[now + 1] = op
      /\ call' = [n \in Node |-> [k \in Kind |-> call'[n][k]]]
      /\ \A n \in Node, k \in Kind : call'[n][k] # NoCall => call'[n][k] = call[n][k]
      /\ parsed' = parsed /\ seen' = seen /\ withdrawals' = withdrawals
  BY HiveGoesOn
<1>3. ASSUME NEW i \in DOMAIN hive', hive'[i].op \in Kind PROVE OnHiveOK(i)'
  <2>1. CASE i = h
    BY <1>2, <1>3, <2>1
  <2>2. CASE i # h
    <3>1. i \in 1..now /\ hive'[i] = hive[i]
      BY <1>1, <1>2, <2>2
    <3>2. OnHiveOK(i)
      BY <1>1, <1>3, <3>1 DEF GatewayOK
    <3> QED
      BY <3>1, <3>2 DEF OnHiveOK
  <2> QED
    BY <2>1, <2>2
<1>4. ASSUME NEW tx \in sent' PROVE SentOK(tx)'
  <2>1. SentOK(tx)
    BY <1>4 DEF GatewayOK
  <2> QED
    BY <1>1, <1>2, <2>1 DEF SentOK
<1>5. ASSUME NEW n \in Node, NEW k \in Kind, call'[n][k] # NoCall PROVE CallOK(call[n][k], k)'
  <2>1. call'[n][k] = call[n][k]
    BY <1>2, <1>5
  <2>2. CallOK(call[n][k], k)
    BY <1>5, <2>1 DEF GatewayOK
  <2> QED
    BY <1>1, <1>2, <2>1, <2>2 DEF CallOK
<1>6. \A n \in Node : parsed'[n] =< now' /\ seen'[n] =< now' /\ parsed'[n] =< seen'[n]
  BY <1>1, <1>2 DEF GatewayOK
<1>7. parsed' \in [Node -> Nat] /\ seen' \in [Node -> Nat]
      /\ withdrawals' = [n \in Node |-> withdrawals'[n]]
      /\ \A n \in Node : \E S \in SUBSET Withdrawal : withdrawals'[n] \in [S -> {"PENDING", "COMPLETE"}]
  BY <1>2 DEF GatewayOK
<1> QED
  BY <1>1, <1>2, <1>3, <1>4, <1>5, <1>6, <1>7 DEF GatewayOK

\* A Hive block without a multisig transaction keeps the types.
LEMMA OtherBlockOK ==
  ASSUME GatewayOK, NEW op \in Op, op.op \notin Kind, OtherBlock(op),
         elections' \in 0..MaxElections, fails' = fails, restarts' = restarts
  PROVE  GatewayOK'
<1>1. HiveBlock(op) /\ sent' \subseteq sent /\ auth' = auth
  BY DEF OtherBlock
<1>2. now \in Nat
  BY HiveIs
<1>3. auth'.keys \subseteq Node /\ auth'.at \in 0..(now + 1) /\ auth'.at % Every["rotate"] = 0
      /\ fails' \in 0..MaxFails /\ restarts' \in 0..MaxRestarts
  BY <1>1, <1>2 DEF GatewayOK
<1> QED
  BY <1>1, <1>2, <1>3, StaysRight

\* So does a block with one that Hive accepted.
LEMMA MultisigBlockOK ==
  ASSUME GatewayOK, NEW tx \in sent, Accepts(tx, now + 1),
         HiveBlock([op |-> tx.op, at |-> tx.at, content |-> tx.content]),
         auth' = IF tx.op = "rotate" THEN [keys |-> tx.content, at |-> tx.at] ELSE auth,
         sent' \subseteq sent, UNCHANGED counters
  PROVE  GatewayOK'
<1>1. PICK op, h : op = [op |-> tx.op, at |-> tx.at, content |-> tx.content] /\ h = now + 1
  OBVIOUS
<1>2. SentOK(tx)
  BY DEF GatewayOK
<1>3. op.op = tx.op /\ op.at = tx.at /\ op.op \in Kind
  BY <1>1, <1>2 DEF SentOK
<1>4. op \in Op
  BY <1>1, <1>2 DEF SentOK, Op, Tx, Contents, Kind
<1>5. now \in Nat /\ h =< tx.at + Life[tx.op] /\ tx.at \in 1..now /\ tx.at % Every[tx.op] = 0
  BY <1>1, <1>2, HiveIs DEF Accepts, Unexpired, SentOK
<1>6. HiveBlock(op)
  BY <1>1
<1>7. OnHiveOK(h)'
  <2>1. hive'[h] = op
    BY <1>1, <1>4, <1>6, HiveGoesOn
  <2> QED
    BY <1>1, <1>3, <1>5, <2>1 DEF OnHiveOK
<1>8. auth'.keys \subseteq Node /\ auth'.at \in 0..(now + 1) /\ auth'.at % Every["rotate"] = 0
  <2>1. CASE tx.op = "rotate"
    BY <1>2, <1>5, <2>1 DEF SentOK, Contents
  <2>2. CASE tx.op # "rotate"
    BY <1>5, <2>2 DEF GatewayOK
  <2> QED
    BY <2>1, <2>2
<1>9. elections' \in 0..MaxElections /\ fails' \in 0..MaxFails /\ restarts' \in 0..MaxRestarts
  BY DEF GatewayOK, counters
<1> QED
  BY <1>1, <1>4, <1>6, <1>7, <1>8, <1>9, StaysRight

\* What a node collects signatures on once its parsers have run on a block.
NewCall(n, k, h) ==
  [at |-> h, till |-> now + AnswerTime[k], content |-> Build(n, k, h),
   keys |-> auth.keys, waiting |-> IF k = "batch" THEN auth.keys ELSE auth.keys \ {n},
   signed |-> IF k = "batch" THEN {} ELSE {n}]

\* What parsing a block does to the multisig calls: node n opens those due at h.
LEMMA CallsAre ==
  ASSUME GatewayOK, NEW n \in Node, Parse(n), NEW h, h = parsed[n] + 1
  PROVE  /\ h \in 1..now /\ now \in Nat
         /\ call' = [m \in Node |-> [k \in Kind |-> call'[m][k]]]
         /\ \A m \in Node \ {n}, k \in Kind : call'[m][k] = call[m][k]
         /\ \A k \in Kind :
              \/ call'[n][k] = call[n][k]
              \/ /\ h % Every[k] = 0
                 /\ call'[n][k] = NewCall(n, k, h)
<1>1. call' = Calls(n, h) /\ parsed[n] < now
  <2>1. now \in Nat /\ parsed[n] \in Nat /\ Trail \in Nat
    BY HiveIs, Constants DEF GatewayOK
  <2>2. call' = Calls(n, h) /\ parsed[n] + Trail < now
    BY DEF Parse
  <2> QED
    BY <2>1, <2>2
<1>2. now \in Nat /\ parsed[n] \in Nat
  BY HiveIs DEF GatewayOK
<1>3. call = [m \in Node |-> [k \in Kind |-> call[m][k]]]
  BY DEF GatewayOK
<1>4. call' = [call EXCEPT ![n] = [k \in Kind |->
        IF ~Proposes(n, k, h) THEN call[n][k]
        ELSE NewCall(n, k, h)]]
  BY <1>1 DEF Calls, NewCall
<1>5. \A k \in Kind : Proposes(n, k, h) => h % Every[k] = 0
  BY DEF Proposes
<1>6. ASSUME NEW k \in Kind
      PROVE  call'[n][k] = IF ~Proposes(n, k, h) THEN call[n][k]
             ELSE NewCall(n, k, h)
  BY <1>3, <1>4
<1>7. \A m \in Node \ {n} : call'[m] = call[m]
  BY <1>3, <1>4
<1>8. call' = [m \in Node |-> [k \in Kind |-> call'[m][k]]]
  BY <1>3, <1>4
<1>9. \A k \in Kind : Proposes(n, k, h) => h % Every[k] = 0 /\ call'[n][k] = NewCall(n, k, h)
  BY <1>5, <1>6
<1>10. \A k \in Kind : ~Proposes(n, k, h) => call'[n][k] = call[n][k]
  BY <1>6
<1>11. h \in 1..now
  BY <1>1, <1>2
<1> QED
  BY <1>2, <1>7, <1>8, <1>9, <1>10, <1>11

\* The keys of the election valid at a height, of all that Hive holds.
MembersAt(E) ==
  IF E = {} THEN FirstKeys ELSE hive[CHOOSE i \in E : \A j \in E : j =< i].members
ElectedBy(h) == MembersAt({i \in DOMAIN hive : i < h /\ hive[i].op = "elect"})

\* A node has stored the elections below the height it builds for.
LEMMA ElectedIs ==
  ASSUME GatewayOK, NEW n \in Node, NEW h \in Nat, h =< seen[n] + 1
  PROVE  Elected(n, h) = ElectedBy(h)
<1>1. now \in Nat /\ DOMAIN hive = 1..now /\ seen[n] \in Nat /\ seen[n] =< now
  BY HiveIs DEF GatewayOK
<1>2. {i \in 1..seen[n] : i < h /\ hive[i].op = "elect"}
        = {i \in DOMAIN hive : i < h /\ hive[i].op = "elect"}
  BY <1>1
<1>3. Elected(n, h) = MembersAt({i \in 1..seen[n] : i < h /\ hive[i].op = "elect"})
  BY DEF Elected, MembersAt
<1> QED
  BY <1>2, <1>3 DEF ElectedBy

\* A bounded set of heights that is not empty has a last one.
LEMMA LastOne ==
  ASSUME NEW E, NEW m \in Nat, E \subseteq 1..m, E # {}
  PROVE  (CHOOSE i \in E : \A j \in E : j =< i) \in E
<1> DEFINE S == {x \in Nat : \E i \in E : x = m - i}
<1>1. S \subseteq Nat /\ S # {}
  <2>1. PICK i \in E : i \in 1..m
    OBVIOUS
  <2>2. m - i \in S
    BY <2>1
  <2> QED
    BY <2>2
<1>2. PICK x \in S : \A y \in S : x =< y
  <2> HIDE DEF S
  <2> QED
    BY <1>1, LeastNat
<1>3. PICK i \in E : x = m - i
  BY <1>2
<1>4. \A j \in E : j =< i
  <2> SUFFICES ASSUME NEW j \in E PROVE j =< i
    OBVIOUS
  <2>1. i \in 1..m /\ j \in 1..m
    OBVIOUS
  <2>2. m - j \in S
    BY <2>1
  <2>3. m - i =< m - j
    BY <1>2, <1>3, <2>2
  <2> QED
    BY <2>1, <2>3
<1> QED
  BY <1>4

\* So that it is a set of nodes.
LEMMA ElectedType ==
  ASSUME GatewayOK, NEW h
  PROVE  ElectedBy(h) \subseteq Node
<1> DEFINE E == {i \in DOMAIN hive : i < h /\ hive[i].op = "elect"}
           last == CHOOSE i \in E : \A j \in E : j =< i
<1>1. now \in Nat /\ E \subseteq 1..now /\ \A i \in 1..now : hive[i] \in Op
  BY HiveIs
<1>2. CASE E = {}
  BY <1>2, Constants DEF ElectedBy, MembersAt
<1>3. CASE E # {}
  <2>1. last \in E
    <3> HIDE DEF E
    <3> QED
      BY <1>1, <1>3, LastOne
  <2>2. last \in 1..now /\ hive[last].op = "elect"
    <3> HIDE DEF last
    <3> QED
      BY <1>1, <2>1
  <2>3. \A op \in Op : op.op = "elect" => op.members \subseteq Node
    BY Constants DEF Op, Nothing, Tx
  <2>4. hive[last].members \subseteq Node
    <3> HIDE DEF last
    <3> QED
      BY <1>1, <2>2, <2>3
  <2> QED
    BY <1>3, <2>4 DEF ElectedBy, MembersAt
<1> QED
  BY <1>2, <1>3

\* What a node builds for a multisig operation is one of its possible contents.
LEMMA BuildType ==
  ASSUME GatewayOK, NEW n \in Node, NEW k \in Kind, NEW h \in Nat, h =< seen[n] + 1
  PROVE  Build(n, k, h) \in Contents(k)
<1>1. Pending(n) \subseteq Withdrawal
  BY DEF Pending, GatewayOK
<1>2. Elected(n, h) \subseteq Node
  BY ElectedIs, ElectedType
<1> QED
  BY <1>1, <1>2 DEF Build, Contents

\* Withdrawals are only added, and marked.
LEMMA WithdrawalsAfter ==
  ASSUME GatewayOK, NEW n \in Node, NEW op \in Op, Apply(n, op) \/ UNCHANGED withdrawals
  PROVE  /\ withdrawals' = [m \in Node |-> withdrawals'[m]]
         /\ \A m \in Node : \E S \in SUBSET Withdrawal : withdrawals'[m] \in [S -> {"PENDING", "COMPLETE"}]
         /\ \A m \in Node, w \in Withdrawal :
              w \in DOMAIN withdrawals[m] /\ withdrawals[m][w] = "COMPLETE" =>
                w \in DOMAIN withdrawals'[m] /\ withdrawals'[m][w] = "COMPLETE"
         /\ Apply(n, op) /\ op.op = "batch" =>
              \A w \in op.content : w \in DOMAIN withdrawals'[n] /\ withdrawals'[n][w] = "COMPLETE"
<1>0. /\ withdrawals = [m \in Node |-> withdrawals[m]]
      /\ \A m \in Node : \E S \in SUBSET Withdrawal : withdrawals[m] \in [S -> {"PENDING", "COMPLETE"}]
  BY DEF GatewayOK
<1>1. ASSUME NEW ids \in SUBSET Withdrawal, NEW s \in {"PENDING", "COMPLETE"},
             withdrawals' = Mark(n, ids, s)
      PROVE  /\ withdrawals' = [m \in Node |-> withdrawals'[m]]
             /\ \A m \in Node \ {n} : withdrawals'[m] = withdrawals[m]
             /\ withdrawals'[n] = [w \in DOMAIN withdrawals[n] \cup ids |->
                                     IF w \in ids THEN s ELSE withdrawals[n][w]]
             /\ \A m \in Node : \E S \in SUBSET Withdrawal :
                  withdrawals'[m] \in [S -> {"PENDING", "COMPLETE"}]
  <2>1. withdrawals' = [withdrawals EXCEPT ![n] =
          [w \in DOMAIN withdrawals[n] \cup ids |-> IF w \in ids THEN s ELSE withdrawals[n][w]]]
    BY <1>1 DEF Mark
  <2>2. PICK f : f = [w \in DOMAIN withdrawals[n] \cup ids |->
                        IF w \in ids THEN s ELSE withdrawals[n][w]]
    OBVIOUS
  <2>3. withdrawals' = [withdrawals EXCEPT ![n] = f]
    BY <2>1, <2>2
  <2>4. PICK S \in SUBSET Withdrawal : withdrawals[n] \in [S -> {"PENDING", "COMPLETE"}]
    BY <1>0
  <2>5. f \in [S \cup ids -> {"PENDING", "COMPLETE"}] /\ S \cup ids \in SUBSET Withdrawal
    BY <2>2, <2>4
  <2>6. withdrawals' = [m \in Node |-> withdrawals'[m]]
    BY <1>0, <2>3
  <2>7. withdrawals'[n] = f /\ \A m \in Node \ {n} : withdrawals'[m] = withdrawals[m]
    BY <1>0, <2>3
  <2>8. ASSUME NEW m \in Node
        PROVE  \E R \in SUBSET Withdrawal : withdrawals'[m] \in [R -> {"PENDING", "COMPLETE"}]
    BY <1>0, <2>5, <2>7
  <2> QED
    BY <2>2, <2>6, <2>7, <2>8
<1>2. CASE UNCHANGED withdrawals /\ op.op # "batch"
  BY <1>0, <1>2
<1>3. CASE ~Apply(n, op)
  BY <1>0, <1>3
<1>4. CASE Apply(n, op) /\ op.op = "index" /\ op.id \notin DOMAIN withdrawals[n]
  <2>1. op.id \in Withdrawal
    BY <1>4 DEF Op, Nothing, Tx
  <2>2. withdrawals' = Mark(n, {op.id}, "PENDING")
    BY <1>4 DEF Apply
  <2>3. {op.id} \in SUBSET Withdrawal
    BY <2>1
  <2>4. /\ withdrawals' = [m \in Node |-> withdrawals'[m]]
        /\ \A m \in Node \ {n} : withdrawals'[m] = withdrawals[m]
        /\ withdrawals'[n] = [w \in DOMAIN withdrawals[n] \cup {op.id} |->
                                IF w \in {op.id} THEN "PENDING" ELSE withdrawals[n][w]]
        /\ \A m \in Node : \E S \in SUBSET Withdrawal :
             withdrawals'[m] \in [S -> {"PENDING", "COMPLETE"}]
    BY <1>1, <2>2, <2>3
  <2>5. ASSUME NEW m \in Node, NEW w \in Withdrawal,
               w \in DOMAIN withdrawals[m], withdrawals[m][w] = "COMPLETE"
        PROVE  w \in DOMAIN withdrawals'[m] /\ withdrawals'[m][w] = "COMPLETE"
    <3>1. CASE m = n
      BY <1>4, <2>4, <2>5, <3>1
    <3>2. CASE m # n
      BY <2>4, <2>5, <3>2
    <3> QED
      BY <3>1, <3>2
  <2> QED
    BY <1>4, <2>4, <2>5
<1>5. CASE Apply(n, op) /\ op.op = "batch"
  <2>1. op.content \in SUBSET Withdrawal
    BY <1>5 DEF Op, Nothing, Tx
  <2>2. withdrawals' = Mark(n, op.content, "COMPLETE")
    BY <1>5 DEF Apply
  <2>3. /\ withdrawals' = [m \in Node |-> withdrawals'[m]]
        /\ \A m \in Node \ {n} : withdrawals'[m] = withdrawals[m]
        /\ withdrawals'[n] = [w \in DOMAIN withdrawals[n] \cup op.content |->
                                IF w \in op.content THEN "COMPLETE" ELSE withdrawals[n][w]]
        /\ \A m \in Node : \E S \in SUBSET Withdrawal :
             withdrawals'[m] \in [S -> {"PENDING", "COMPLETE"}]
    BY <1>1, <2>1, <2>2
  <2>4. ASSUME NEW m \in Node, NEW w \in Withdrawal,
               w \in DOMAIN withdrawals[m], withdrawals[m][w] = "COMPLETE"
        PROVE  w \in DOMAIN withdrawals'[m] /\ withdrawals'[m][w] = "COMPLETE"
    <3>1. CASE m = n
      BY <2>3, <2>4, <3>1
    <3>2. CASE m # n
      BY <2>3, <2>4, <3>2
    <3> QED
      BY <3>1, <3>2
  <2>5. \A w \in op.content : w \in DOMAIN withdrawals'[n] /\ withdrawals'[n][w] = "COMPLETE"
    BY <2>3
  <2> QED
    BY <2>3, <2>4, <2>5
<1>6. CASE Apply(n, op) /\ op.op # "batch" /\ ~(op.op = "index" /\ op.id \notin DOMAIN withdrawals[n])
  BY <1>2, <1>6 DEF Apply
<1> QED
  BY <1>2, <1>3, <1>4, <1>5, <1>6

\* Parsing a block keeps the types.
LEMMA ParseOK == ASSUME GatewayOK, NEW n \in Node, Parse(n) PROVE GatewayOK'
<1>1. PICK h : h = parsed[n] + 1
  OBVIOUS
<1>2. /\ h \in 1..now /\ now \in Nat
      /\ call' = [m \in Node |-> [k \in Kind |-> call'[m][k]]]
      /\ \A m \in Node \ {n}, k \in Kind : call'[m][k] = call[m][k]
      /\ \A k \in Kind :
           \/ call'[n][k] = call[n][k]
           \/ /\ h % Every[k] = 0
              /\ call'[n][k] = NewCall(n, k, h)
  BY <1>1, CallsAre
<1>3. hive' = hive /\ auth' = auth /\ sent' = sent /\ elections' = elections /\ restarts' = restarts
  BY DEF Parse
<1>4. now' = now
  BY <1>3 DEF now
<1>5. parsed' = [parsed EXCEPT ![n] = h] /\ seen' = [seen EXCEPT ![n] = IF h > seen[n] THEN h ELSE seen[n]]
  BY <1>1 DEF Parse
<1>6. /\ parsed \in [Node -> Nat] /\ seen \in [Node -> Nat]
      /\ \A m \in Node : parsed[m] =< now /\ seen[m] =< now /\ parsed[m] =< seen[m]
  BY DEF GatewayOK
<1>7. /\ parsed' \in [Node -> Nat] /\ seen' \in [Node -> Nat]
      /\ \A m \in Node : parsed'[m] =< now /\ seen'[m] =< now /\ parsed'[m] =< seen'[m]
  BY <1>2, <1>5, <1>6
<1>8. fails' \in 0..MaxFails
  BY Constants DEF Parse, GatewayOK
<1>9. /\ withdrawals' = [m \in Node |-> withdrawals'[m]]
      /\ \A m \in Node : \E S \in SUBSET Withdrawal : withdrawals'[m] \in [S -> {"PENDING", "COMPLETE"}]
  <2>1. hive[h] \in Op
    BY <1>2, HiveIs
  <2>2. Apply(n, hive[h]) \/ UNCHANGED withdrawals
    BY <1>1 DEF Parse
  <2> QED
    BY <2>1, <2>2, WithdrawalsAfter
<1>10. ASSUME NEW m \in Node, NEW k \in Kind, call'[m][k] # NoCall PROVE CallOK(call[m][k], k)'
  <2>1. CASE call'[m][k] = call[m][k]
    <3>1. CallOK(call[m][k], k)
      BY <1>10, <2>1 DEF GatewayOK
    <3> QED
      BY <1>3, <1>4, <2>1, <3>1 DEF CallOK
  <2>2. CASE call'[m][k] # call[m][k]
    <3>1. m = n
      BY <1>2, <2>2
    <3>2. h % Every[k] = 0 /\ call'[m][k] = NewCall(n, k, h)
      BY <1>2, <2>2, <3>1
    <3>3. Build(n, k, h) \in Contents(k)
      <4>1. h \in Nat /\ h =< seen[n] + 1
        BY <1>1, <1>2, <1>6
      <4> QED
        BY <4>1, BuildType
    <3>4. auth.keys \subseteq Node
      BY DEF GatewayOK
    <3> QED
      BY <1>2, <1>4, <3>2, <3>3, <3>4, Constants DEF CallOK, NewCall
  <2> QED
    BY <2>1, <2>2
<1>11. /\ hive' \in Seq(Op)
       /\ \A i \in DOMAIN hive' : hive'[i].op \in Kind => OnHiveOK(i)'
       /\ auth'.keys \subseteq Node /\ auth'.at \in 0..now' /\ auth'.at % Every["rotate"] = 0
       /\ \A tx \in sent' : SentOK(tx)'
  BY <1>3, <1>4 DEF GatewayOK, OnHiveOK, SentOK
<1>12. elections' \in 0..MaxElections /\ restarts' \in 0..MaxRestarts
  BY <1>3 DEF GatewayOK
<1> QED
  BY <1>2, <1>4, <1>7, <1>8, <1>9, <1>10, <1>11, <1>12 DEF GatewayOK

\* So does a restart.
LEMMA RestartOK == ASSUME GatewayOK, NEW n \in Node, Restart(n) PROVE GatewayOK'
<1>1. /\ hive' = hive /\ auth' = auth /\ sent' = sent /\ seen' = seen /\ withdrawals' = withdrawals
      /\ elections' = elections /\ fails' = fails
  BY DEF Restart
<1>2. now' = now
  BY <1>1 DEF now
<1>3. call' = [call EXCEPT ![n] = [k \in Kind |-> NoCall]]
  BY DEF Restart
<1>4. call = [m \in Node |-> [k \in Kind |-> call[m][k]]]
      /\ \A m \in Node, k \in Kind : call[m][k] # NoCall => CallOK(call[m][k], k)
  BY DEF GatewayOK
<1>5. /\ call' = [m \in Node |-> [k \in Kind |-> call'[m][k]]]
      /\ \A m \in Node, k \in Kind : call'[m][k] # NoCall => call'[m][k] = call[m][k]
  BY <1>3, <1>4
<1>6. ASSUME NEW m \in Node, NEW k \in Kind, call'[m][k] # NoCall PROVE CallOK(call[m][k], k)'
  <2>1. call'[m][k] = call[m][k] /\ CallOK(call[m][k], k)
    BY <1>4, <1>5, <1>6
  <2> QED
    BY <1>2, <2>1 DEF CallOK
<1>7. /\ parsed \in [Node -> Nat]
      /\ \A m \in Node : parsed[m] =< now /\ seen[m] =< now /\ parsed[m] =< seen[m]
      /\ now \in Nat /\ seen \in [Node -> Nat]
  BY HiveIs DEF GatewayOK
<1>8. parsed' \in [Node -> Nat] /\ \A m \in Node : parsed'[m] =< parsed[m]
  <2>1. parsed' = parsed \/ parsed' = [parsed EXCEPT ![n] = IF parsed[n] > 0 THEN parsed[n] - 1 ELSE 0]
    BY DEF Restart
  <2> QED
    BY <1>7, <2>1
<1>9. \A m \in Node : parsed'[m] =< now /\ seen'[m] =< now /\ parsed'[m] =< seen'[m]
  BY <1>1, <1>7, <1>8
<1>10. restarts' \in 0..MaxRestarts
  BY Constants DEF Restart, GatewayOK
<1>11. /\ hive' \in Seq(Op)
       /\ \A i \in DOMAIN hive' : hive'[i].op \in Kind => OnHiveOK(i)'
       /\ auth'.keys \subseteq Node /\ auth'.at \in 0..now' /\ auth'.at % Every["rotate"] = 0
       /\ \A tx \in sent' : SentOK(tx)'
       /\ withdrawals' = [m \in Node |-> withdrawals'[m]]
       /\ \A m \in Node : \E S \in SUBSET Withdrawal : withdrawals'[m] \in [S -> {"PENDING", "COMPLETE"}]
       /\ elections' \in 0..MaxElections /\ fails' \in 0..MaxFails
  BY <1>1, <1>2 DEF GatewayOK, OnHiveOK, SentOK
<1> QED
  BY <1>1, <1>2, <1>5, <1>6, <1>7, <1>8, <1>9, <1>10, <1>11 DEF GatewayOK

\* The call after m has got the request, with the signatures S.
Heard(c, m, S) == [c EXCEPT !.signed = S, !.waiting = c.waiting \ {m}]

Signed(c, m) == {c.signed, c.signed \cup {m}}

\* d is the call c after that.
HeardBy(c, m, d) == \E S \in Signed(c, m) : d = Heard(c, m, S)

\* What an answer does: at most one signature more on the call, or the call ends
\* and a transaction is sent.
LEMMA AnswerIs ==
  ASSUME GatewayOK, NEW m \in Node, NEW n \in Node, NEW kind \in Kind, Answer(m, n, kind)
  PROVE  /\ UNCHANGED <<hive, auth, parsed, seen, withdrawals, counters>>
         /\ call[n][kind] # NoCall
         /\ call' = [i \in Node |-> [k \in Kind |-> call'[i][k]]]
         /\ \A i \in Node, k \in Kind :
              \/ call'[i][k] = call[i][k] \/ call'[i][k] = NoCall
              \/ i = n /\ k = kind /\ HeardBy(call[n][kind], m, call'[n][kind])
         /\ \A tx \in sent' :
              \/ tx \in sent
              \/ /\ tx.op = kind /\ tx.at = call[n][kind].at /\ tx.content = call[n][kind].content
                 /\ tx.signed = call[n][kind].signed \cup {m}
<1>1. call = [i \in Node |-> [k \in Kind |-> call[i][k]]]
  BY DEF GatewayOK
<1>2. PICK c, tx : /\ c = call[n][kind]
                   /\ tx = [op |-> kind, at |-> c.at, content |-> c.content,
                            signed |-> c.signed \cup {m}]
  OBVIOUS
<1>3. UNCHANGED <<hive, auth, parsed, seen, withdrawals, counters>> /\ c # NoCall
  BY <1>2 DEF Answer
<1>4. \/ sent' = sent \cup {tx} /\ call' = [call EXCEPT ![n][kind] = NoCall]
      \/ /\ sent' = sent
         /\ \E S \in Signed(c, m) : call' = [call EXCEPT ![n][kind] = Heard(c, m, S)]
  BY <1>2 DEF Answer, Heard, Signed
<1>5. ASSUME NEW D, call' = [call EXCEPT ![n][kind] = D]
      PROVE  /\ call' = [i \in Node |-> [k \in Kind |-> call'[i][k]]]
             /\ \A i \in Node, k \in Kind : call'[i][k] = IF i = n /\ k = kind THEN D ELSE call[i][k]
  BY <1>1, <1>5
<1>6. CASE sent' = sent \cup {tx} /\ call' = [call EXCEPT ![n][kind] = NoCall]
  <2>1. /\ call' = [i \in Node |-> [k \in Kind |-> call'[i][k]]]
        /\ \A i \in Node, k \in Kind : call'[i][k] = IF i = n /\ k = kind THEN NoCall ELSE call[i][k]
    BY <1>5, <1>6
  <2> QED
    BY <1>2, <1>3, <1>6, <2>1
<1>7. ASSUME sent' = sent, NEW S \in Signed(c, m), NEW C, C = Heard(c, m, S),
             call' = [call EXCEPT ![n][kind] = C]
      PROVE  /\ call' = [i \in Node |-> [k \in Kind |-> call'[i][k]]]
             /\ \A i \in Node, k \in Kind :
                  \/ call'[i][k] = call[i][k]
                  \/ i = n /\ k = kind /\ HeardBy(c, m, call'[n][kind])
  <2>1. /\ call' = [i \in Node |-> [k \in Kind |-> call'[i][k]]]
        /\ \A i \in Node, k \in Kind : call'[i][k] = IF i = n /\ k = kind THEN C ELSE call[i][k]
    BY <1>5, <1>7
  <2>2. call'[n][kind] = Heard(c, m, S)
    BY <1>7, <2>1
  <2>3. HeardBy(c, m, call'[n][kind])
    BY <1>7, <2>2 DEF HeardBy
  <2> QED
    BY <2>1, <2>3
<1>8. CASE /\ sent' = sent
           /\ \E S \in Signed(c, m) : call' = [call EXCEPT ![n][kind] = Heard(c, m, S)]
  BY <1>2, <1>3, <1>7, <1>8
<1> QED
  BY <1>4, <1>6, <1>8

\* An answer keeps the types.
LEMMA AnswerOK ==
  ASSUME GatewayOK, NEW m \in Node, NEW n \in Node, NEW kind \in Kind, Answer(m, n, kind)
  PROVE  GatewayOK'
<1>1. /\ hive' = hive /\ auth' = auth /\ parsed' = parsed /\ seen' = seen
      /\ withdrawals' = withdrawals /\ elections' = elections /\ fails' = fails /\ restarts' = restarts
  BY AnswerIs DEF counters
<1>2. now' = now
  BY <1>1 DEF now
<1>3. PICK c : c = call[n][kind]
  OBVIOUS
<1>4. CallOK(c, kind)
  <2>1. call[n][kind] # NoCall
    BY AnswerIs
  <2> QED
    BY <1>3, <2>1 DEF GatewayOK
<1>5. /\ call' = [i \in Node |-> [k \in Kind |-> call'[i][k]]]
      /\ \A i \in Node, k \in Kind :
           \/ call'[i][k] = call[i][k] \/ call'[i][k] = NoCall
           \/ i = n /\ k = kind /\ HeardBy(c, m, call'[n][kind])
  BY <1>3, AnswerIs
<1>6. ASSUME NEW i \in Node, NEW k \in Kind, call'[i][k] # NoCall PROVE CallOK(call[i][k], k)'
  <2>1. CASE call'[i][k] = call[i][k]
    <3>1. CallOK(call[i][k], k)
      BY <1>6, <2>1 DEF GatewayOK
    <3> QED
      BY <1>2, <2>1, <3>1 DEF CallOK
  <2>2. CASE i = n /\ k = kind /\ HeardBy(c, m, call'[n][kind])
    <3>1. PICK S \in Signed(c, m) : call'[n][kind] = Heard(c, m, S)
      BY <2>2 DEF HeardBy
    <3>2. S \in SUBSET Node
      BY <1>4 DEF CallOK, Signed
    <3> QED
      BY <1>2, <1>4, <2>2, <3>1, <3>2 DEF CallOK, Heard
  <2> QED
    BY <1>5, <1>6, <2>1, <2>2
<1>7. ASSUME NEW tx \in sent' PROVE SentOK(tx)'
  <2>1. CASE tx \in sent
    BY <1>2, <2>1 DEF GatewayOK, SentOK
  <2>2. CASE tx \notin sent
    <3>1. tx.op = kind /\ tx.at = c.at /\ tx.content = c.content /\ tx.signed = c.signed \cup {m}
      <4>1. \/ tx \in sent
            \/ /\ tx.op = kind /\ tx.at = call[n][kind].at /\ tx.content = call[n][kind].content
               /\ tx.signed = call[n][kind].signed \cup {m}
        BY <1>7, AnswerIs
      <4> QED
        BY <1>3, <2>2, <4>1
    <3> QED
      BY <1>2, <1>4, <3>1 DEF SentOK, CallOK
  <2> QED
    BY <2>1, <2>2
<1>8. /\ hive' \in Seq(Op)
      /\ \A i \in DOMAIN hive' : hive'[i].op \in Kind => OnHiveOK(i)'
      /\ auth'.keys \subseteq Node /\ auth'.at \in 0..now' /\ auth'.at % Every["rotate"] = 0
      /\ withdrawals' = [i \in Node |-> withdrawals'[i]]
      /\ \A i \in Node : \E S \in SUBSET Withdrawal : withdrawals'[i] \in [S -> {"PENDING", "COMPLETE"}]
      /\ elections' \in 0..MaxElections /\ fails' \in 0..MaxFails /\ restarts' \in 0..MaxRestarts
      /\ parsed' \in [Node -> Nat] /\ seen' \in [Node -> Nat]
      /\ \A i \in Node : parsed'[i] =< now' /\ seen'[i] =< now' /\ parsed'[i] =< seen'[i]
  BY <1>1, <1>2 DEF GatewayOK, OnHiveOK
<1> QED
  BY <1>5, <1>6, <1>7, <1>8 DEF GatewayOK

\* The Hive blocks that hold no multisig transaction.
LEMMA BlockIs ==
  ASSUME GatewayOK, EmptyBlock \/ IndexBlock \/ ElectionBlock
  PROVE  /\ \E op \in Op : op.op \notin Kind /\ OtherBlock(op)
         /\ elections' \in 0..MaxElections /\ fails' = fails /\ restarts' = restarts
<1>1. CASE EmptyBlock
  BY <1>1 DEF EmptyBlock, Nothing, Op, Kind, counters, GatewayOK
<1>2. CASE IndexBlock
  <2>1. PICK w \in Withdrawal : OtherBlock([op |-> "index", id |-> w]) /\ UNCHANGED counters
    BY <1>2 DEF IndexBlock
  <2>2. [op |-> "index", id |-> w] \in Op
    BY DEF Op
  <2> QED
    BY <2>1, <2>2 DEF Kind, counters, GatewayOK
<1>3. CASE ElectionBlock
  <2>1. PICK s \in Electable : /\ OtherBlock([op |-> "elect", members |-> s])
                               /\ elections < MaxElections /\ elections' = elections + 1
                               /\ UNCHANGED <<fails, restarts>>
    BY <1>3 DEF ElectionBlock
  <2>2. [op |-> "elect", members |-> s] \in Op
    BY DEF Op
  <2>3. elections' \in 0..MaxElections
    BY <2>1, Constants DEF GatewayOK
  <2> QED
    BY <2>1, <2>2, <2>3 DEF Kind
<1> QED
  BY <1>1, <1>2, <1>3

\* Every step keeps the types.
LEMMA GatewayStep == GatewayOK /\ [Next]_vars => GatewayOK'
<1> SUFFICES ASSUME GatewayOK, [Next]_vars PROVE GatewayOK'
  OBVIOUS
<1>1. CASE EmptyBlock \/ IndexBlock \/ ElectionBlock
  BY <1>1, BlockIs, OtherBlockOK
<1>2. CASE MultisigBlock
  <2>1. PICK tx \in sent :
          /\ Accepts(tx, now + 1)
          /\ HiveBlock([op |-> tx.op, at |-> tx.at, content |-> tx.content])
          /\ auth' = IF tx.op = "rotate" THEN [keys |-> tx.content, at |-> tx.at] ELSE auth
          /\ sent' \subseteq sent /\ UNCHANGED counters
    BY <1>2 DEF MultisigBlock
  <2> QED
    BY <2>1, MultisigBlockOK
<1>3. CASE UNCHANGED vars
  BY <1>3 DEF vars, counters, GatewayOK, OnHiveOK, SentOK, CallOK, now
<1> QED
  BY <1>1, <1>2, <1>3, ParseOK, RestartOK, AnswerOK DEF Next

\* Everything the account and its keepers hold is of its type.
THEOREM GatewayTypeCorrect == Spec => []GatewayTypeOK
<1>1. GatewayOK => GatewayTypeOK
  <2> SUFFICES ASSUME GatewayOK PROVE GatewayTypeOK
    OBVIOUS
  <2>1. now \in Nat /\ \A i \in DOMAIN hive : hive[i] \in Op
    BY HiveIs
  <2>2. parsed \in [Node -> 0..now] /\ seen \in [Node -> 0..now]
    BY <2>1 DEF GatewayOK
  <2>3. \A tx \in sent : tx.op \in Kind /\ tx.signed \subseteq Node
    BY DEF GatewayOK, SentOK
  <2>4. \A n \in Node, k \in Kind : call[n][k] # NoCall => call[n][k].signed \subseteq Node
    BY DEF GatewayOK, CallOK
  <2>5. \A n \in Node : /\ DOMAIN withdrawals[n] \subseteq Withdrawal
                        /\ \A w \in DOMAIN withdrawals[n] : withdrawals[n][w] \in {"PENDING", "COMPLETE"}
    BY DEF GatewayOK
  <2> QED
    BY <2>1, <2>2, <2>3, <2>4, <2>5 DEF GatewayOK, GatewayTypeOK, Op
<1> QED
  BY <1>1, GatewayInit, GatewayStep, PTL DEF Spec

-------------------------------------------------------------------------------
(* What transactions are made of. *)

\* A rotation is to the keys of the election valid at its height; a batch pays
\* nothing that was paid below its height.
Founded(kind, at, content) ==
  /\ kind = "rotate" => content = ElectedBy(at)
  /\ kind = "batch" /\ fails = 0 =>
       \A i \in 1..(at - 1) : hive[i].op = "batch" => hive[i].content \cap content = {}

\* A node has marked what the batches it has parsed paid.
Marked(n) ==
  \A i \in 1..parsed[n] : hive[i].op = "batch" =>
    \A w \in hive[i].content : w \in DOMAIN withdrawals[n] /\ withdrawals[n][w] = "COMPLETE"

FoundedInv ==
  /\ GatewayOK
  /\ auth.keys = ElectedBy(auth.at)
  /\ \A tx \in sent : Founded(tx.op, tx.at, tx.content)
  /\ \A i \in DOMAIN hive : hive[i].op \in Kind => Founded(hive[i].op, hive[i].at, hive[i].content)
  /\ \A n \in Node, k \in Kind : call[n][k] # NoCall => Founded(k, call[n][k].at, call[n][k].content)
  /\ fails = 0 => \A n \in Node : Marked(n)

\* The initial state is founded.
LEMMA FoundedInit == Init => FoundedInv
<1> SUFFICES ASSUME Init PROVE FoundedInv
  OBVIOUS
<1>1. GatewayOK
  BY GatewayInit
<1>2. DOMAIN hive = {}
  BY DEF Init
<1>3. auth.keys = ElectedBy(auth.at)
  BY <1>2 DEF Init, ElectedBy, MembersAt
<1>4. \A n \in Node : Marked(n)
  BY DEF Init, Marked
<1>5. sent = {} /\ \A n \in Node, k \in Kind : call[n][k] = NoCall
  BY DEF Init
<1> QED
  BY <1>1, <1>2, <1>3, <1>4, <1>5 DEF FoundedInv

\* What was elected below a height that Hive has reached does not change.
LEMMA ElectedStays ==
  ASSUME GatewayOK, GatewayOK', now' >= now, \A i \in 1..now : hive'[i] = hive[i],
         NEW h \in 0..now
  PROVE  ElectedBy(h)' = ElectedBy(h)
<1>1. now \in Nat /\ DOMAIN hive = 1..now
  BY HiveIs
<1>2. now' \in Nat /\ DOMAIN hive' = 1..now'
  BY DEF GatewayOK, now
<1>3. PICK E, F : /\ E = {i \in DOMAIN hive : i < h /\ hive[i].op = "elect"}
                  /\ F = {i \in DOMAIN hive' : i < h /\ hive'[i].op = "elect"}
  OBVIOUS
<1>4. E = F
  BY <1>1, <1>2, <1>3
<1>5. ElectedBy(h) = MembersAt(E) /\ ElectedBy(h)' = MembersAt(E)'
  BY <1>3, <1>4 DEF ElectedBy
<1>6. CASE E = {}
  BY <1>5, <1>6 DEF MembersAt
<1>7. CASE E # {}
  <2>1. PICK l : l = CHOOSE i \in E : \A j \in E : j =< i
    OBVIOUS
  <2>2. l \in E
    <3>1. E \subseteq 1..now
      BY <1>1, <1>3
    <3> QED
      BY <1>1, <1>7, <2>1, <3>1, LastOne
  <2>3. hive'[l] = hive[l]
    BY <1>1, <1>3, <2>2
  <2>4. MembersAt(E) = hive[l].members /\ MembersAt(E)' = hive'[l].members
    BY <1>7, <2>1 DEF MembersAt
  <2> QED
    BY <1>5, <2>3, <2>4
<1> QED
  BY <1>6, <1>7

\* What was founded stays so while Hive only grows and no write fails.
LEMMA FoundedStays ==
  ASSUME GatewayOK, GatewayOK', now' >= now, \A i \in 1..now : hive'[i] = hive[i],
         fails' = 0 => fails = 0,
         NEW kind, NEW at \in 1..now, NEW content, Founded(kind, at, content)
  PROVE  Founded(kind, at, content)'
<1>1. now \in Nat /\ at \in 0..now
  BY HiveIs
<1>2. ElectedBy(at)' = ElectedBy(at)
  BY <1>1, ElectedStays
<1>3. \A i \in 1..(at - 1) : hive'[i] = hive[i]
  BY <1>1
<1> QED
  BY <1>2, <1>3 DEF Founded

\* A step after which Hive holds what it held, and all that is new is founded.
LEMMA FoundedGoesOn ==
  ASSUME FoundedInv, GatewayOK', now' >= now, \A i \in 1..now : hive'[i] = hive[i],
         fails' = 0 => fails = 0,
         auth' = auth \/ auth'.keys = ElectedBy(auth.at)',
         \A tx \in sent' : tx \in sent \/ Founded(tx.op, tx.at, tx.content)',
         \A i \in (now + 1)..now' : hive'[i].op \in Kind =>
           Founded(hive[i].op, hive[i].at, hive[i].content)',
         \A n \in Node, k \in Kind : call'[n][k] # NoCall =>
           \/ call[n][k] # NoCall /\ call'[n][k].at = call[n][k].at
              /\ call'[n][k].content = call[n][k].content
           \/ Founded(k, call[n][k].at, call[n][k].content)',
         fails' = 0 => \A n \in Node : Marked(n)'
  PROVE  FoundedInv'
<1>1. GatewayOK /\ now \in Nat /\ DOMAIN hive = 1..now
  BY HiveIs DEF FoundedInv
<1>2. now' \in Nat /\ DOMAIN hive' = 1..now'
  BY DEF GatewayOK, now
<1>3. auth'.keys = ElectedBy(auth.at)'
  <2>1. CASE auth' = auth
    <3>1. PICK h \in 0..now : h = auth.at
      BY <1>1 DEF GatewayOK
    <3>2. ElectedBy(h)' = ElectedBy(h)
      BY <1>1, ElectedStays
    <3>3. auth.keys = ElectedBy(h)
      BY <3>1 DEF FoundedInv
    <3>4. ElectedBy(auth.at)' = ElectedBy(h)'
      BY <2>1, <3>1
    <3> QED
      BY <2>1, <3>2, <3>3, <3>4
  <2> QED
    BY <2>1
<1>4. ASSUME NEW tx \in sent' PROVE Founded(tx.op, tx.at, tx.content)'
  <2>1. CASE tx \in sent
    <3>1. Founded(tx.op, tx.at, tx.content) /\ tx.at \in 1..now
      BY <1>1, <2>1 DEF FoundedInv, GatewayOK, SentOK
    <3> QED
      BY <1>1, <3>1, FoundedStays
  <2> QED
    BY <1>4, <2>1
<1>5. ASSUME NEW i \in DOMAIN hive', hive'[i].op \in Kind
      PROVE  Founded(hive[i].op, hive[i].at, hive[i].content)'
  <2>1. CASE i \in 1..now
    <3>1. PICK op : op = hive[i] /\ op = hive'[i]
      BY <2>1
    <3>2. Founded(op.op, op.at, op.content) /\ op.at \in 1..now
      BY <1>1, <1>5, <2>1, <3>1 DEF FoundedInv, GatewayOK, OnHiveOK
    <3>3. Founded(op.op, op.at, op.content)'
      BY <1>1, <3>2, FoundedStays
    <3> QED
      BY <3>1, <3>3
  <2>2. CASE i \notin 1..now
    <3>1. i \in (now + 1)..now'
      BY <1>1, <1>2, <2>2
    <3> QED
      BY <1>5, <3>1
  <2> QED
    BY <2>1, <2>2
<1>6. ASSUME NEW n \in Node, NEW k \in Kind, call'[n][k] # NoCall
      PROVE  Founded(k, call[n][k].at, call[n][k].content)'
  <2>1. CASE call[n][k] # NoCall /\ call'[n][k].at = call[n][k].at
             /\ call'[n][k].content = call[n][k].content
    <3>1. PICK at, content : /\ at = call[n][k].at /\ content = call[n][k].content
                             /\ at = call'[n][k].at /\ content = call'[n][k].content
      BY <2>1
    <3>2. Founded(k, at, content) /\ at \in 1..now
      BY <1>1, <2>1, <3>1 DEF FoundedInv, GatewayOK, CallOK
    <3>3. Founded(k, at, content)'
      BY <1>1, <3>2, FoundedStays
    <3> QED
      BY <3>1, <3>3
  <2> QED
    BY <1>6, <2>1
<1> QED
  BY <1>3, <1>4, <1>5, <1>6 DEF FoundedInv

\* A node that has marked the batches it parsed has marked them still.
LEMMA MarkedStays ==
  ASSUME GatewayOK, NEW n \in Node, Marked(n), \A i \in 1..now : hive'[i] = hive[i],
         parsed'[n] =< parsed[n], parsed'[n] \in Nat, withdrawals' = withdrawals
  PROVE  Marked(n)'
<1>1. now \in Nat /\ parsed[n] \in Nat /\ parsed[n] =< now
  BY HiveIs DEF GatewayOK
<1>2. ASSUME NEW i \in 1..parsed'[n] PROVE i \in 1..parsed[n] /\ hive'[i] = hive[i]
  BY <1>1
<1> QED
  BY <1>2 DEF Marked

\* A Hive block without a multisig transaction keeps the invariant.
LEMMA OtherBlockFounded ==
  ASSUME FoundedInv, GatewayOK', NEW op \in Op, op.op \notin Kind, OtherBlock(op), fails' = fails
  PROVE  FoundedInv'
<1>1. HiveBlock(op) /\ sent' \subseteq sent /\ auth' = auth /\ GatewayOK /\ now \in Nat
  BY HiveIs DEF OtherBlock, FoundedInv
<1>2. /\ now' = now + 1 /\ \A i \in 1..now : hive'[i] = hive[i]
      /\ hive'[now + 1] = op
      /\ \A n \in Node, k \in Kind : call'[n][k] # NoCall => call'[n][k] = call[n][k]
      /\ parsed' = parsed /\ withdrawals' = withdrawals
  BY <1>1, HiveGoesOn
<1>3. \A i \in (now + 1)..now' : hive'[i].op \notin Kind
  BY <1>1, <1>2
<1>4. ASSUME fails' = 0, NEW n \in Node PROVE Marked(n)'
  <2>1. Marked(n) /\ parsed[n] \in Nat
    BY <1>4 DEF FoundedInv, GatewayOK
  <2> QED
    BY <1>1, <1>2, <2>1, MarkedStays
<1> QED
  BY <1>1, <1>2, <1>3, <1>4, FoundedGoesOn

\* So does a block with one: it was founded when it was sent.
LEMMA MultisigBlockFounded ==
  ASSUME FoundedInv, GatewayOK', NEW tx \in sent,
         HiveBlock([op |-> tx.op, at |-> tx.at, content |-> tx.content]),
         auth' = IF tx.op = "rotate" THEN [keys |-> tx.content, at |-> tx.at] ELSE auth,
         sent' \subseteq sent, UNCHANGED counters
  PROVE  FoundedInv'
<1>1. GatewayOK /\ now \in Nat /\ SentOK(tx) /\ Founded(tx.op, tx.at, tx.content) /\ fails' = fails
  BY HiveIs DEF FoundedInv, GatewayOK, counters
<1>2. PICK op \in Op : op = [op |-> tx.op, at |-> tx.at, content |-> tx.content]
  BY <1>1 DEF SentOK, Op, Tx, Contents, Kind
<1>3. /\ now' = now + 1 /\ \A i \in 1..now : hive'[i] = hive[i]
      /\ hive'[now + 1] = op
      /\ \A n \in Node, k \in Kind : call'[n][k] # NoCall => call'[n][k] = call[n][k]
      /\ parsed' = parsed /\ withdrawals' = withdrawals
  BY <1>1, <1>2, HiveGoesOn
<1>4. Founded(tx.op, tx.at, tx.content)' /\ tx.at \in 1..now
  BY <1>1, <1>3, FoundedStays DEF SentOK
<1>5. ASSUME NEW i \in (now + 1)..now'
      PROVE  Founded(hive[i].op, hive[i].at, hive[i].content)'
  <2>1. hive'[i] = op /\ op.op = tx.op /\ op.at = tx.at /\ op.content = tx.content
    BY <1>1, <1>2, <1>3
  <2> QED
    BY <1>4, <2>1
<1>6. auth' = auth \/ auth'.keys = ElectedBy(auth.at)'
  <2>1. CASE tx.op = "rotate"
    <3>1. auth'.keys = tx.content /\ auth'.at = tx.at
      BY <2>1
    <3>2. tx.content = ElectedBy(tx.at)'
      BY <1>4, <2>1 DEF Founded
    <3> QED
      BY <3>1, <3>2
  <2> QED
    BY <2>1
<1>7. ASSUME fails' = 0, NEW n \in Node PROVE Marked(n)'
  <2>1. Marked(n) /\ parsed[n] \in Nat
    BY <1>1, <1>7 DEF FoundedInv, GatewayOK
  <2> QED
    BY <1>1, <1>3, <2>1, MarkedStays
<1> QED
  BY <1>1, <1>3, <1>5, <1>6, <1>7, FoundedGoesOn

\* So does a parsed block: what the new calls hold is founded at its height.
LEMMA ParseFounded ==
  ASSUME FoundedInv, GatewayOK', NEW n \in Node, Parse(n)
  PROVE  FoundedInv'
<1>1. PICK h : h = parsed[n] + 1
  OBVIOUS
<1>2. GatewayOK
  BY DEF FoundedInv
<1>3. /\ h \in 1..now /\ now \in Nat
      /\ \A m \in Node \ {n}, k \in Kind : call'[m][k] = call[m][k]
      /\ \A k \in Kind : call'[n][k] = call[n][k] \/ call'[n][k] = NewCall(n, k, h)
  BY <1>1, <1>2, CallsAre
<1>4. /\ hive' = hive /\ auth' = auth /\ sent' = sent
      /\ parsed' = [parsed EXCEPT ![n] = h]
      /\ \/ Apply(n, hive[h]) /\ fails' = fails
         \/ fails' = fails + 1 /\ UNCHANGED withdrawals
  BY <1>1 DEF Parse
<1>5. now' = now /\ fails \in Nat /\ parsed \in [Node -> Nat] /\ parsed[n] =< seen[n] /\ parsed[n] =< now
  BY <1>2, <1>4, Constants DEF now, GatewayOK
<1>6. fails' = 0 => fails = 0 /\ Apply(n, hive[h])
  BY <1>4, <1>5
<1>7. hive[h] \in Op
  BY <1>2, <1>3, HiveIs
<1>8. ASSUME NEW k \in Kind PROVE Founded(k, h, Build(n, k, h))
  <2>1. Elected(n, h) = ElectedBy(h)
    <3>1. h \in Nat /\ h =< seen[n] + 1
      BY <1>1, <1>2, <1>3, <1>5 DEF GatewayOK
    <3> QED
      BY <1>2, <3>1, ElectedIs
  <2>2. ASSUME fails = 0, NEW i \in 1..(h - 1), hive[i].op = "batch"
        PROVE  hive[i].content \cap Pending(n) = {}
    <3>1. Marked(n) /\ i \in 1..parsed[n]
      BY <1>1, <1>5, <2>2 DEF FoundedInv
    <3> QED
      BY <2>2, <3>1 DEF Marked, Pending
  <2> QED
    BY <2>1, <2>2 DEF Founded, Build, Kind
<1>9. ASSUME NEW m \in Node, NEW k \in Kind, call'[m][k] # call[m][k]
      PROVE  Founded(k, call[m][k].at, call[m][k].content)'
  <2>1. m = n /\ call'[m][k] = NewCall(n, k, h)
    BY <1>3, <1>9
  <2>2. PICK content : content = Build(n, k, h)
    OBVIOUS
  <2>3. call'[m][k].at = h /\ call'[m][k].content = content
    BY <2>1, <2>2 DEF NewCall
  <2>4. Founded(k, h, content)'
    BY <1>2, <1>3, <1>4, <1>5, <1>6, <1>8, <2>2, FoundedStays
  <2> QED
    BY <2>3, <2>4
<1>10. ASSUME fails' = 0, NEW m \in Node PROVE Marked(m)'
  <2>1. fails = 0 /\ Apply(n, hive[h]) /\ Marked(m)
    BY <1>6, <1>10 DEF FoundedInv
  <2>2. /\ \A w \in Withdrawal : w \in DOMAIN withdrawals[m] /\ withdrawals[m][w] = "COMPLETE" =>
             w \in DOMAIN withdrawals'[m] /\ withdrawals'[m][w] = "COMPLETE"
        /\ hive[h].op = "batch" =>
             \A w \in hive[h].content : w \in DOMAIN withdrawals'[n] /\ withdrawals'[n][w] = "COMPLETE"
    BY <1>2, <1>7, <2>1, WithdrawalsAfter
  <2>3. ASSUME NEW i \in 1..parsed'[m], hive[i].op = "batch", NEW w \in hive[i].content
        PROVE  w \in DOMAIN withdrawals'[m] /\ withdrawals'[m][w] = "COMPLETE"
    <3>1. CASE i \in 1..parsed[m]
      <4>1. i \in 1..now
        <5>1. parsed[m] \in Nat /\ parsed[m] =< now
          BY <1>2 DEF GatewayOK
        <5> QED
          BY <1>3, <3>1, <5>1
      <4>2. w \in Withdrawal
        BY <1>2, <2>3, <4>1, HiveIs DEF Op, Nothing, Tx
      <4> QED
        BY <2>1, <2>2, <2>3, <3>1, <4>2 DEF Marked
    <3>2. CASE i \notin 1..parsed[m]
      <4>1. m = n /\ i = h
        BY <1>1, <1>4, <1>5, <2>3, <3>2
      <4> QED
        BY <2>2, <2>3, <4>1
    <3> QED
      BY <3>1, <3>2
  <2> QED
    BY <1>4, <2>3 DEF Marked
<1>11. ASSUME NEW m \in Node, NEW k \in Kind, call'[m][k] # NoCall
       PROVE  \/ call[m][k] # NoCall /\ call'[m][k].at = call[m][k].at
                 /\ call'[m][k].content = call[m][k].content
              \/ Founded(k, call[m][k].at, call[m][k].content)'
  BY <1>9, <1>11
<1>12. (\A i \in 1..now : hive'[i] = hive[i]) /\ (\A i \in (now + 1)..now' : FALSE) /\ now' >= now
  BY <1>3, <1>4, <1>5
<1> QED
  BY <1>4, <1>6, <1>10, <1>11, <1>12, FoundedGoesOn

\* So does a restart, which drops calls and goes back to a saved height.
LEMMA RestartFounded == ASSUME FoundedInv, GatewayOK', NEW n \in Node, Restart(n) PROVE FoundedInv'
<1>1. /\ hive' = hive /\ auth' = auth /\ sent' = sent /\ withdrawals' = withdrawals /\ fails' = fails
      /\ call' = [call EXCEPT ![n] = [k \in Kind |-> NoCall]]
  BY DEF Restart
<1>2. GatewayOK /\ now' = now /\ now \in Nat
  BY <1>1, HiveIs DEF now, FoundedInv
<1>3. \A m \in Node, k \in Kind : call'[m][k] # NoCall => call'[m][k] = call[m][k]
  BY <1>1, <1>2 DEF GatewayOK
<1>4. \A m \in Node : parsed'[m] =< parsed[m] /\ parsed'[m] \in Nat
  <2>1. parsed' = parsed \/ parsed' = [parsed EXCEPT ![n] = IF parsed[n] > 0 THEN parsed[n] - 1 ELSE 0]
    BY DEF Restart
  <2>2. parsed \in [Node -> Nat]
    BY <1>2 DEF GatewayOK
  <2>3. CASE parsed' = parsed
    BY <2>2, <2>3
  <2>4. CASE parsed' = [parsed EXCEPT ![n] = IF parsed[n] > 0 THEN parsed[n] - 1 ELSE 0]
    <3>1. PICK p \in Nat : p = (IF parsed[n] > 0 THEN parsed[n] - 1 ELSE 0) /\ p =< parsed[n]
      BY <2>2
    <3> QED
      BY <2>2, <2>4, <3>1
  <2> QED
    BY <2>1, <2>3, <2>4
<1>5. ASSUME fails' = 0, NEW m \in Node PROVE Marked(m)'
  BY <1>1, <1>2, <1>4, <1>5, MarkedStays DEF FoundedInv
<1>6. (\A i \in 1..now : hive'[i] = hive[i]) /\ (\A i \in (now + 1)..now' : FALSE) /\ now' >= now
  BY <1>1, <1>2
<1> QED
  BY <1>1, <1>3, <1>5, <1>6, FoundedGoesOn

\* So does an answer, which sends what its call already held.
LEMMA AnswerFounded ==
  ASSUME FoundedInv, GatewayOK', NEW m \in Node, NEW n \in Node, NEW kind \in Kind, Answer(m, n, kind)
  PROVE  FoundedInv'
<1>1. GatewayOK
  BY DEF FoundedInv
<1>2. /\ hive' = hive /\ auth' = auth /\ parsed' = parsed /\ withdrawals' = withdrawals
      /\ fails' = fails
  BY <1>1, AnswerIs DEF counters
<1>3. now' = now /\ now \in Nat
  BY <1>1, <1>2, HiveIs DEF now
<1>4. PICK c : c = call[n][kind]
  OBVIOUS
<1>5. c # NoCall /\ CallOK(c, kind) /\ Founded(kind, c.at, c.content)
  <2>1. call[n][kind] # NoCall
    BY <1>1, AnswerIs
  <2> QED
    BY <1>1, <1>4, <2>1 DEF FoundedInv, GatewayOK
<1>6. Founded(kind, c.at, c.content)'
  <2>1. c.at \in 1..now
    BY <1>5 DEF CallOK
  <2> QED
    BY <1>1, <1>2, <1>3, <1>5, <2>1, FoundedStays
<1>7. ASSUME NEW tx \in sent', tx \notin sent PROVE Founded(tx.op, tx.at, tx.content)'
  <2>1. \/ tx \in sent
        \/ /\ tx.op = kind /\ tx.at = call[n][kind].at /\ tx.content = call[n][kind].content
           /\ tx.signed = call[n][kind].signed \cup {m}
    BY <1>1, <1>7, AnswerIs
  <2>2. tx.op = kind /\ tx.at = c.at /\ tx.content = c.content
    BY <1>4, <1>7, <2>1
  <2> QED
    BY <1>6, <2>2
<1>8. ASSUME NEW i \in Node, NEW k \in Kind, call'[i][k] # NoCall
      PROVE  call[i][k] # NoCall /\ call'[i][k].at = call[i][k].at
             /\ call'[i][k].content = call[i][k].content
  <2>1. \/ call'[i][k] = call[i][k] \/ call'[i][k] = NoCall
        \/ i = n /\ k = kind /\ HeardBy(c, m, call'[n][kind])
    BY <1>1, <1>4, AnswerIs
  <2>2. HeardBy(c, m, call'[n][kind]) =>
          call'[n][kind].at = c.at /\ call'[n][kind].content = c.content
    BY <1>5 DEF HeardBy, Heard, CallOK
  <2> QED
    BY <1>4, <1>5, <1>8, <2>1, <2>2
<1>9. ASSUME fails' = 0, NEW i \in Node PROVE Marked(i)'
  <2>1. Marked(i) /\ parsed[i] \in Nat
    BY <1>1, <1>2, <1>9 DEF FoundedInv, GatewayOK
  <2> QED
    BY <1>1, <1>2, <2>1, MarkedStays
<1>10. (\A i \in 1..now : hive'[i] = hive[i]) /\ (\A i \in (now + 1)..now' : FALSE) /\ now' >= now
  BY <1>2, <1>3
<1> QED
  BY <1>2, <1>7, <1>8, <1>9, <1>10, FoundedGoesOn

\* Every step keeps the invariant.
LEMMA FoundedStep == FoundedInv /\ [Next]_vars => FoundedInv'
<1> SUFFICES ASSUME FoundedInv, [Next]_vars PROVE FoundedInv'
  OBVIOUS
<1>1. GatewayOK /\ GatewayOK'
  BY GatewayStep DEF FoundedInv
<1>2. CASE EmptyBlock \/ IndexBlock \/ ElectionBlock
  BY <1>1, <1>2, BlockIs, OtherBlockFounded
<1>3. CASE MultisigBlock
  <2>1. PICK tx \in sent :
          /\ HiveBlock([op |-> tx.op, at |-> tx.at, content |-> tx.content])
          /\ auth' = IF tx.op = "rotate" THEN [keys |-> tx.content, at |-> tx.at] ELSE auth
          /\ sent' \subseteq sent /\ UNCHANGED counters
    BY <1>3 DEF MultisigBlock
  <2> QED
    BY <1>1, <2>1, MultisigBlockFounded
<1>4. CASE UNCHANGED vars
  <2>1. ElectedBy(auth.at)' = ElectedBy(auth.at) /\ \A i : ElectedBy(i)' = ElectedBy(i)
    BY <1>4 DEF vars, ElectedBy, MembersAt
  <2> QED
    BY <1>1, <1>4, <2>1 DEF vars, counters, FoundedInv, Founded, Marked
<1> QED
  BY <1>1, <1>2, <1>3, <1>4, ParseFounded, RestartFounded, AnswerFounded DEF Next

-------------------------------------------------------------------------------
(* What follows. *)

\* The account has the keys of the election that was valid at the height of
\* its last rotation, whoever has taken part in it, however far behind: the
\* key rotation of MultisigSystem for any nodes, elections and schedule.
THEOREM KeysAreElectedAlways == Spec => []KeysAreElected
<1>1. FoundedInv => KeysAreElected
  BY DEF FoundedInv, KeysAreElected, ElectedBy, MembersAt
<1> QED
  BY <1>1, FoundedInit, FoundedStep, PTL DEF Spec

\* Of two heights at which something is due, the later one is due as many
\* blocks later, at least.
LEMMA DueApart ==
  ASSUME NEW E \in Nat \ {0}, NEW a \in Nat, NEW b \in Nat, a % E = 0, b % E = 0, a < b
  PROVE  a + E =< b
<1> DEFINE p == a \div E
           q == b \div E
<1>1. p \in Nat /\ q \in Nat /\ a = E * p /\ b = E * q
  <2>1. p \in Nat /\ q \in Nat /\ a = E * p + (a % E) /\ b = E * q + (b % E)
    OBVIOUS
  <2> QED
    BY <2>1
<1> HIDE DEF p, q
<1>2. p + 1 =< q
  <2>1. ASSUME q =< p PROVE FALSE
    <3>1. E * q =< E * p
      BY <1>1, <2>1
    <3> QED
      BY <1>1, <3>1
  <2> QED
    BY <1>1, <2>1
<1>3. E * (p + 1) =< E * q /\ E * (p + 1) = E * p + E
  BY <1>1, <1>2
<1> QED
  BY <1>1, <1>3

\* No withdrawal is in the batches of two heights while every node fetches
\* the blocks and batches it parses: handleTxTick has marked the one before
\* the other is built, for any schedule, lag, restarts and signatures.
THEOREM BatchesPayOnce == Spec => [](fails = 0 => PaidOnce)
<1>1. FoundedInv => (fails = 0 => PaidOnce)
  <2>1. ASSUME FoundedInv, fails = 0, NEW i \in Paying, NEW j \in Paying, hive[i].at < hive[j].at
        PROVE  hive[i].content \cap hive[j].content = {}
    <3>1. GatewayOK /\ now \in Nat /\ DOMAIN hive = 1..now
      BY <2>1, HiveIs DEF FoundedInv
    <3>2. /\ i \in DOMAIN hive /\ j \in DOMAIN hive /\ hive[i].op = "batch" /\ hive[j].op = "batch"
          /\ "batch" \in Kind
      BY DEF Paying, Kind
    <3>3. OnHiveOK(i) /\ OnHiveOK(j) /\ Founded("batch", hive[j].at, hive[j].content)
      BY <2>1, <3>1, <3>2 DEF FoundedInv, GatewayOK
    <3>4. PICK a, b : a = hive[i].at /\ b = hive[j].at
      OBVIOUS
    <3>5. /\ a \in 1..(i - 1) /\ b \in 1..(j - 1) /\ a < b
          /\ a % Every["batch"] = 0 /\ b % Every["batch"] = 0 /\ i =< a + Life["batch"]
      BY <2>1, <3>2, <3>3, <3>4 DEF OnHiveOK
    <3>6. Every["batch"] \in Nat \ {0} /\ Life["batch"] \in Nat /\ Life["batch"] < Every["batch"]
      BY <3>2, Constants
    <3>7. a \in Nat /\ b \in Nat /\ i \in Nat
      BY <3>1, <3>2, <3>5
    <3>8. a + Every["batch"] =< b
      BY <3>5, <3>6, <3>7, DueApart
    <3>9. i \in 1..(b - 1)
      BY <3>1, <3>2, <3>5, <3>6, <3>7, <3>8
    <3> QED
      BY <2>1, <3>2, <3>3, <3>4, <3>9 DEF Founded
  <2>2. SUFFICES ASSUME FoundedInv, fails = 0, NEW i \in Paying, NEW j \in Paying,
                        hive[i].content \cap hive[j].content # {}
                 PROVE  hive[i].at = hive[j].at
    BY DEF PaidOnce
  <2>3. hive[i].at \in Nat /\ hive[j].at \in Nat
    <3>1. GatewayOK /\ now \in Nat /\ DOMAIN hive = 1..now
      BY <2>2, HiveIs DEF FoundedInv
    <3> QED
      BY <3>1 DEF GatewayOK, OnHiveOK, Paying, Kind
  <2>4. ~(hive[i].at < hive[j].at) /\ ~(hive[j].at < hive[i].at)
    BY <2>1, <2>2
  <2> QED
    BY <2>3, <2>4
<1> QED
  BY <1>1, FoundedInit, FoundedStep, PTL DEF Spec

\* The keys are never put back to those of an earlier rotation: it has expired
\* when the later one is on Hive.
THEOREM KeysOnlyMoveOn == Spec => KeysMoveOn
<1>1. ASSUME GatewayOK, [Next]_vars PROVE [auth'.at >= auth.at]_vars
  <2>1. CASE MultisigBlock
    <3>1. PICK tx \in sent :
            /\ Accepts(tx, now + 1)
            /\ auth' = IF tx.op = "rotate" THEN [keys |-> tx.content, at |-> tx.at] ELSE auth
      BY <2>1 DEF MultisigBlock
    <3>2. CASE tx.op = "rotate"
      <4>1. PICK a, b, E, L : a = tx.at /\ b = auth.at /\ E = Every["rotate"] /\ L = Life["rotate"]
        OBVIOUS
      <4>2. E \in Nat \ {0} /\ L \in Nat /\ L < E /\ now \in Nat
        BY <1>1, <4>1, Constants, HiveIs DEF Kind
      <4>3. a \in Nat /\ a % E = 0 /\ now + 1 =< a + L
        BY <1>1, <3>1, <3>2, <4>1, <4>2 DEF GatewayOK, SentOK, Accepts, Unexpired
      <4>4. b \in Nat /\ b =< now /\ b % E = 0
        BY <1>1, <4>1, <4>2 DEF GatewayOK
      <4>5. ~(a < b)
        <5>1. ASSUME a < b PROVE FALSE
          <6>1. a + E =< b
            BY <4>2, <4>3, <4>4, <5>1, DueApart
          <6> QED
            BY <4>2, <4>3, <4>4, <6>1
        <5> QED
          BY <5>1
      <4>6. auth'.at = a
        BY <3>1, <3>2, <4>1
      <4> QED
        BY <4>1, <4>3, <4>4, <4>5, <4>6
    <3>3. CASE tx.op # "rotate"
      BY <1>1, <3>1, <3>3 DEF GatewayOK
    <3> QED
      BY <3>2, <3>3
  <2>2. ASSUME auth' = auth PROVE auth'.at >= auth.at
    BY <1>1, <2>2 DEF GatewayOK
  <2>3. CASE EmptyBlock \/ IndexBlock \/ ElectionBlock
    <3>1. auth' = auth
      BY <2>3 DEF EmptyBlock, IndexBlock, ElectionBlock, OtherBlock
    <3> QED
      BY <2>2, <3>1
  <2>4. CASE \E n \in Node : Parse(n) \/ Restart(n)
    <3>1. auth' = auth
      BY <2>4 DEF Parse, Restart
    <3> QED
      BY <2>2, <3>1
  <2>5. CASE \E m, n \in Node, kind \in Kind : Answer(m, n, kind)
    <3>1. auth' = auth
      BY <2>5 DEF Answer
    <3> QED
      BY <2>2, <3>1
  <2>6. CASE UNCHANGED vars
    BY <2>6
  <2> QED
    BY <1>1, <2>1, <2>3, <2>4, <2>5, <2>6 DEF Next
<1> QED
  BY <1>1, GatewayInit, GatewayStep, PTL DEF Spec, KeysMoveOn

===============================================================================
