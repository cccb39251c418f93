------------------------------ MODULE MCPartsLive -----------------------------
(***************************************************************************)
(* Model-checking instances of the parts that must come to an end, each on *)
(* its own: those of Upkeep,                                               *)
(*   upload  - FileUpload of one peer;                                     *)
(*   upgrade - IndexReset: three releases;                                 *)
(* and two more:                                                           *)
(*   used    - TxPool at one node: two transactions of one nonce;          *)
(*   spread  - TxPool at two nodes: one transaction.                       *)
(***************************************************************************)
EXTENDS Upkeep, TLC

CONSTANTS n1, n2, t1, t2

VARIABLES chain, pool, nonce, filter, old, hears, takes, at, part, cleans

ofPool == <<chain, pool, nonce, filter, old, hears, takes, at, part, cleans>>
vars == <<upkeepVars, ofPool>>

-------------------------------------------------------------------------------
One == {n1}
Two == {n1, n2}
OneTx == {t1}
SameNonce == {t1, t2}
MCNonceOf == [t \in SameNonce |-> 0]

\* Two block resets, the second to a lower height than the first.
MCUpgrades ==
  <<[index |-> 1, block |-> 0, keep |-> <<>>],
    [index |-> 2, block |-> 1, keep |-> <<6>>],
    [index |-> 3, block |-> 2, keep |-> <<6, 5>>]>>

\* A block reset that is taken back, and with it another index reset.
MCDecrement ==
  <<[index |-> 1, block |-> 1, keep |-> <<6>>], [index |-> 2, block |-> 0, keep |-> <<6>>]>>

Used == INSTANCE TxPool WITH
  Node <- One, Tx <- SameNonce, NonceOf <- MCNonceOf, Alike <- OneTx, MaxBlocks <- 1
Spread == INSTANCE TxPool WITH
  Node <- Two, Tx <- OneTx, NonceOf <- MCNonceOf, Alike <- {}, MaxBlocks <- 1

ASSUME PoolsAssumption == Used!PoolAssumption /\ Spread!PoolAssumption

-------------------------------------------------------------------------------
NoPool ==
  /\ chain = <<>> /\ pool = <<>> /\ nonce = <<>> /\ filter = <<>> /\ old = <<>>
  /\ hears = <<>> /\ takes = <<>> /\ at = <<>> /\ part = <<>> /\ cleans = <<>>

MCInit ==
  \/ UpkeepInit /\ NoPool
  \/ service = "used" /\ Used!Init /\ NoUpload /\ NoUpgrade
  \/ service = "spread" /\ Spread!Init /\ NoUpload /\ NoUpgrade

MCNext ==
  \/ UpkeepNext /\ UNCHANGED ofPool
  \/ service = "used" /\ Used!Next /\ UNCHANGED upkeepVars
  \/ service = "spread" /\ Spread!Next /\ UNCHANGED upkeepVars

\* The fairness of each module, see there.
UsedFairness ==
  LET now == service = "used" /\ UNCHANGED upkeepVars IN
  /\ WF_vars(now /\ Used!Index(n1)) /\ WF_vars(now /\ Used!CleanList(n1))
  /\ WF_vars(now /\ (Used!CleanNonce(n1) \/ Used!CleanOne(n1)))
  /\ \A t \in SameNonce : WF_vars(now /\ Used!Handle(n1, t)) /\ SF_vars(now /\ Used!Age(n1, t))
SpreadFairness ==
  LET now == service = "spread" /\ UNCHANGED upkeepVars IN
  \A n \in Two :
    /\ WF_vars(now /\ Spread!Index(n))
    /\ WF_vars(now /\ Spread!Handle(n, t1)) /\ SF_vars(now /\ Spread!Hear(n, t1))
UploadFairness ==
  LET now == service = "upload" /\ UNCHANGED <<service, ofPool, ofUpgrade>> IN
  /\ WF_vars(now /\ \E t \in timers : Upload!Expire(t))
  /\ WF_vars(now /\ \E h \in handlers : Upload!Work(h))
UpgradeFairness ==
  LET now == service = "upgrade" /\ UNCHANGED <<service, ofPool, ofUpload>> IN
  /\ WF_vars(now /\ Upgrade!InitSteps) /\ WF_vars(now /\ Upgrade!Store)
  /\ WF_vars(now /\ Upgrade!First) /\ WF_vars(now /\ Upgrade!Parse)
  /\ WF_vars(now /\ Upgrade!SaveProcessed)

MCSpec ==
  /\ MCInit /\ [][MCNext]_vars
  /\ UsedFairness /\ SpreadFairness /\ UploadFairness /\ UpgradeFairness

\* Upgrades alone (the run that expects a violation).
BackSpec ==
  /\ service = "upgrade" /\ UpkeepInit /\ NoPool
  /\ [][MCNext]_vars /\ UpgradeFairness

-------------------------------------------------------------------------------
\* Used transactions leave the pool, one that a node has reaches the other, and
\* no request of an upload is held for ever.
PartsSettle ==
  /\ \A t \in SameNonce : []<>(service = "used" => Used!PoolTypeOK /\ ~Used!LeftOver(n1, t))
  /\ \A n, m \in Two :
       []<>(service = "spread" => Spread!PoolTypeOK /\ ~Spread!Missing(n, m, t1))
  /\ \A p \in Peer : []<>(service = "upload" => requests[p] = Null)

\* After any number of upgrades the node parses up to the head.
CatchesUp == service = "upgrade" => Upgrade!CatchesUp

\* A node started with a block reset id that was decremented, "when trying a
\* previous block reset", still stores and parses all blocks in the end.
PreviousResetWorks == service = "upgrade" => Upgrade!CatchesUp
===============================================================================
