--------------------------- MODULE ContractRegistry ---------------------------
(***************************************************************************)
(* The contracts a node knows: ContractEngineV2.blockParser of             *)
(* contractEngineV2.ts, with what ChainBridgeV2 does to a contract when it *)
(* indexes an output and what VmContext.init reads when a call is run.     *)
(*                                                                         *)
(* The parser handles the operations of Hive's transactions one after the  *)
(* other.  A contract's code must be kept by members of the network, who   *)
(* sign a proof; proof and code are fetched from IPFS, which may fail.     *)
(* After a restart transactions are handled again.                         *)
(***************************************************************************)
EXTENDS Integers, Sequences

CONSTANTS
  Txs,        \* Hive's transactions in order: [at, ops]
  ProofFrom,  \* CONTRACT_DATA_AVAILABILITY_PROOF_REQUIRED_HEIGHT
  Nobody,     \* the owner of a contract that is given none
  EmptyState, \* the state of a new contract
  MaxFaults,  \* bound: faults of IPFS
  MaxCrashes  \* bound: restarts

(* An operation is [kind, by, code, owner, proof, id, state]:              *)
(*   create - by makes a contract of code for owner, with a proof;         *)
(*   update - by gives the contract id a code, with a proof;               *)
(*   output - a VSC block records a state of the contract id;              *)
(*   broken - a payload that cannot be parsed.                             *)
(* The proof is "none", "signed" by members for this code, "other", signed *)
(* for another code, or "unsigned".                                        *)

\* An operation is known by its transaction and its index.
Places == UNION {{t} \X DOMAIN Txs[t].ops : t \in DOMAIN Txs}
OpAt(p) == Txs[p[1]].ops[p[2]]
Earlier(p, q) == p[1] < q[1] \/ (p[1] = q[1] /\ p[2] < q[2])

\* What the constants must be.  An id is a hash of the transaction that made the
\* contract, so an update names an earlier one; a VSC block has one output of a
\* contract, and a block of Hive one VSC block that is indexed.
RegistryAssumption ==
  /\ DOMAIN Txs = 1..Len(Txs) /\ Len(Txs) \in Nat
  /\ \A t \in DOMAIN Txs :
       /\ Txs[t].at \in Nat
       /\ DOMAIN Txs[t].ops = 1..Len(Txs[t].ops) /\ Len(Txs[t].ops) \in Nat
  /\ \A t, u \in DOMAIN Txs : t < u => Txs[t].at =< Txs[u].at
  /\ \A p \in Places : OpAt(p).kind = "update" /\ OpAt(p).id \in Places => Earlier(OpAt(p).id, p)
  /\ \A p, q \in Places :
       OpAt(p).kind = "output" /\ OpAt(q).kind = "output" /\ OpAt(p).id = OpAt(q).id
         /\ Txs[p[1]].at = Txs[q[1]].at => p = q
  /\ ProofFrom \in Nat /\ MaxFaults \in Nat /\ MaxCrashes \in Nat

VARIABLES
  contracts, \* the contracts collection: by where the operation is that made it
  versions,  \* contract_versions: [id, at, place, code]
  outputs,   \* contract_outputs: places of the outputs indexed
  saved,     \* transactions handled, by last_hb_processed
  tx, op,    \* the operation handled next
  pc,        \* next, pin, record or version: steps of a create
  reached,   \* the last transaction begun by any process
  faults, crashes

vars == <<contracts, versions, outputs, saved, tx, op, pc, reached, faults, crashes>>

None == [p \in {} |-> 0]

Init ==
  /\ contracts = None /\ versions = {} /\ outputs = {}
  /\ saved = 0 /\ tx = 1 /\ op = 1 /\ pc = "next" /\ reached = 0
  /\ faults = 0 /\ crashes = 0

-------------------------------------------------------------------------------
Here == <<tx, op>>
This == Txs[tx].ops[op]
At == Txs[tx].at
Handling(kind) ==
  pc = "next" /\ tx \in DOMAIN Txs /\ op \in DOMAIN Txs[tx].ops /\ This.kind = kind

Continue == op' = op + 1 /\ pc' = "next" /\ UNCHANGED tx

\* An exception ends the parser's work on the transaction.
Abort == op' = Len(Txs[tx].ops) + 1 /\ pc' = "next" /\ UNCHANGED tx

Fault == faults < MaxFaults /\ faults' = faults + 1

\* A proof that is signed, and of this code.
Proved(o) == o.proof = "signed"

\* Up to the check of the proof; what is caught there goes on with the next
\* operation.
Create ==
  /\ Handling("create")
  /\ \/ /\ At < ProofFrom \/ Proved(This)
        /\ pc' = "pin" /\ UNCHANGED <<tx, op, faults>>
     \/ At >= ProofFrom /\ ~Proved(This) /\ Continue /\ UNCHANGED faults
     \/ At >= ProofFrom /\ Fault /\ Continue
  /\ UNCHANGED <<contracts, versions, outputs, saved, crashes>>

\* What is thrown here is not caught before the stream.
Pin ==
  /\ pc = "pin"
  /\ \/ pc' = "record" /\ UNCHANGED <<tx, op, faults>>
     \/ Fault /\ Abort
  /\ UNCHANGED <<contracts, versions, outputs, saved, crashes>>

\* The id is a hash of the transaction's id and the operation's index.
Id == Here

\* An upsert: the contract is as new again.
Record ==
  /\ pc = "record" /\ pc' = "version"
  /\ contracts' =
       [c \in DOMAIN contracts \cup {Id} |->
          IF c = Id THEN [code |-> This.code, creator |-> This.by, owner |-> This.owner,
                          state |-> EmptyState]
          ELSE contracts[c]]
  /\ UNCHANGED <<versions, outputs, saved, tx, op, faults, crashes>>

\* The version is looked for by contract and height: any of the block's.
FirstVersion ==
  /\ pc = "version" /\ Continue
  /\ LET same == {v \in versions : v.id = Id /\ v.at = At}
     IN IF same = {}
        THEN versions' = versions \cup
               {[id |-> Id, at |-> At, place |-> <<>>, code |-> This.code, by |-> This.by]}
        ELSE \E v \in same :
               versions' = (versions \ {v}) \cup {[v EXCEPT !.code = This.code]}
  /\ UNCHANGED <<contracts, outputs, saved, faults, crashes>>

MayUpdate(o) == o.id \in DOMAIN contracts /\ contracts[o.id].owner = o.by

\* The contract's own record keeps its code.
Update ==
  /\ Handling("update") /\ Continue
  /\ \/ /\ Proved(This) /\ MayUpdate(This)
        /\ versions' =
             {v \in versions : ~(v.id = This.id /\ v.at = At /\ v.place = Here)} \cup
               {[id |-> This.id, at |-> At, place |-> Here, code |-> This.code, by |-> This.by]}
        /\ UNCHANGED faults
     \/ ~(Proved(This) /\ MayUpdate(This)) /\ UNCHANGED <<versions, faults>>
     \/ Fault /\ UNCHANGED versions
  /\ UNCHANGED <<contracts, outputs, saved, crashes>>

\* JSON.parse.
Broken ==
  /\ Handling("broken") /\ Abort
  /\ UNCHANGED <<contracts, versions, outputs, saved, faults, crashes>>

\* A VSC block is indexed once, so is its output.
Output ==
  /\ Handling("output") /\ Continue
  /\ IF Here \in outputs THEN UNCHANGED <<contracts, outputs>>
     ELSE /\ outputs' = outputs \cup {Here}
          /\ contracts' = IF This.id \in DOMAIN contracts
                          THEN [contracts EXCEPT ![This.id].state = This.state]
                          ELSE contracts
  /\ UNCHANGED <<versions, saved, faults, crashes>>

EndTx ==
  /\ pc = "next" /\ tx \in DOMAIN Txs /\ op > Len(Txs[tx].ops)
  /\ tx' = tx + 1 /\ op' = 1
  /\ UNCHANGED <<contracts, versions, outputs, saved, pc, faults, crashes>>

AtBlockEnd ==
  op = 1 /\ pc = "next" /\ (tx - 1 \in DOMAIN Txs /\ tx \in DOMAIN Txs => At > Txs[tx - 1].at)

Save ==
  /\ AtBlockEnd /\ saved # tx - 1 /\ saved' = tx - 1
  /\ UNCHANGED <<contracts, versions, outputs, tx, op, pc, reached, faults, crashes>>

Crash ==
  /\ crashes < MaxCrashes /\ crashes' = crashes + 1
  /\ tx' = saved + 1 /\ op' = 1 /\ pc' = "next"
  /\ UNCHANGED <<contracts, versions, outputs, saved, reached, faults>>

Handle == Create \/ Pin \/ Record \/ FirstVersion \/ Update \/ Broken \/ Output \/ EndTx

Next == (Handle /\ reached' = IF reached < tx THEN tx ELSE reached) \/ Save \/ Crash

Spec == Init /\ [][Next]_vars

-------------------------------------------------------------------------------
\* Mutant: the state a contract's own record has.
StateForOfRecord(id) == contracts[id].state

\* VmContext.init: the last output's state, or that of the contract.
StateFor(id) ==
  LET of == {p \in outputs : OpAt(p).id = id}
      last == CHOOSE p \in of : \A q \in of : Txs[q[1]].at =< Txs[p[1]].at
  IN IF of = {} THEN contracts[id].state ELSE OpAt(last).state

RegistryTypeOK ==
  /\ DOMAIN contracts \cup outputs \subseteq Places
  /\ \A v \in versions : v.id \in DOMAIN contracts /\ v.place \in Places \cup {<<>>}
  /\ saved \in 0..reached /\ tx \in 1..(Len(Txs) + 1) /\ pc \in {"next", "pin", "record", "version"}

\* Operations that are not cut off by a broken one before them.
Live(p) == \A k \in 1..p[2] : OpAt(<<p[1], k>>).kind # "broken"

\* What Hive's transactions up to a place say, read at once.
ContractsOf(n) ==
  {p \in Places : /\ p[1] =< n /\ Live(p) /\ OpAt(p).kind = "create"
                  /\ Txs[p[1]].at < ProofFrom \/ OpAt(p).proof = "signed"}
UpdatesOf(n) ==
  {p \in Places : /\ p[1] =< n /\ Live(p) /\ OpAt(p).kind = "update" /\ OpAt(p).proof = "signed"
                  /\ \E c \in ContractsOf(n) :
                       c = OpAt(p).id /\ Earlier(c, p) /\ OpAt(c).owner = OpAt(p).by}

\* Without faults, a node between two blocks knows the contracts and the versions
\* which Hive's transactions say, as often as it was restarted, and whatever of
\* them came in one block.
FollowsHive ==
  faults = 0 /\ AtBlockEnd /\ tx - 1 = reached =>
    /\ DOMAIN contracts = ContractsOf(reached)
    /\ \A c \in DOMAIN contracts :
         contracts[c].code = OpAt(c).code /\ contracts[c].owner = OpAt(c).owner
    /\ {<<v.id, v.place, v.code>> : v \in versions} =
         {<<c, <<>>, OpAt(c).code>> : c \in ContractsOf(reached)} \cup
         {<<OpAt(p).id, p, OpAt(p).code>> : p \in UpdatesOf(reached)}

\* With faults: no code that nobody keeps, and none by others than the owner.
OnlyProvedCode ==
  /\ \A c \in DOMAIN contracts : Txs[c[1]].at < ProofFrom \/ OpAt(c).proof = "signed"
  /\ \A v \in versions :
       v.place # <<>> => OpAt(v.place).proof = "signed" /\ v.by = OpAt(v.id).owner

\* A call sees the state the last output left, also after its contract's
\* creation was handled again.
StateSurvivesReplay ==
  \A p \in outputs :
    OpAt(p).id \in DOMAIN contracts /\ (\A q \in outputs : OpAt(q).id = OpAt(p).id => ~Earlier(p, q))
      => StateFor(OpAt(p).id) = OpAt(p).state
===============================================================================
