--------------------------------- MODULE Parts ---------------------------------
(***************************************************************************)
(* Smaller parts of a node, each on its own: what happens in a behaviour   *)
(* is that of one part, which the first state chooses.                     *)
(*   witnesses - WitnessRegistry: accounts' announcements;                 *)
(*   contracts - ContractRegistry: contracts and their versions;           *)
(*   schedule  - WitnessSchedule: schedules and who asks for them;         *)
(*   pool      - TxPool: transactions before they are in a block;          *)
(*   channel   - PeerChannel: calls and what answers them.                 *)
(* The variables of the others then are not used.                          *)
(***************************************************************************)
EXTENDS Integers, Sequences

CONSTANTS
  Account, Keys, NoKeys, MaxAge, MaxHeight, MaxRestarts,
  Txs, ProofFrom, Nobody, EmptyState, MaxFaults, MaxReplays,
  RoundLength, TotalRounds, Elections, Start, Top, MaxCrashes,
  Pooler, Tx, NonceOf, Alike, MaxBlocks,
  Node, Call, CallerOf, Type, Single, Timed, Loopback, MaxItems, MaxLost

VARIABLES
  scenario,
  hive, parsed, pc, toggles, signed, nets, auths, restarts,
  contracts, versions, outputs, saved, tx, op, step, reached, faults, replays,
  seed, indexed, block, parsing, cache, call, answer, crashes,
  chain, pool, nonce, filter, old, hears, takes, at, part, cleans,
  net, state, result, handler, pushed, sent, lost

ofWitnesses == <<hive, parsed, pc, toggles, signed, nets, auths, restarts>>
ofContracts ==
  <<contracts, versions, outputs, saved, tx, op, step, reached, faults, replays>>
ofSchedule == <<seed, indexed, block, parsing, cache, call, answer, crashes>>
ofPool == <<chain, pool, nonce, filter, old, hears, takes, at, part, cleans>>
ofChannel == <<net, state, result, handler, pushed, sent, lost>>
vars == <<scenario, ofWitnesses, ofContracts, ofSchedule, ofPool, ofChannel>>

Witnesses == INSTANCE WitnessRegistry
Contracts == INSTANCE ContractRegistry WITH
  MaxCrashes <- MaxReplays, pc <- step, crashes <- replays
Schedule == INSTANCE WitnessSchedule WITH parsed <- block
Pool == INSTANCE TxPool WITH Node <- Pooler
Channel == INSTANCE PeerChannel WITH Caller <- CallerOf

ASSUME PartsAssumption ==
  /\ Witnesses!RegistryAssumption /\ Contracts!RegistryAssumption
  /\ Schedule!ScheduleAssumption /\ Pool!PoolAssumption /\ Channel!ChannelAssumption

-------------------------------------------------------------------------------
NoWitnesses ==
  /\ hive = <<>> /\ parsed = 0 /\ pc = "none" /\ toggles = <<>> /\ signed = <<>>
  /\ nets = <<>> /\ auths = <<>> /\ restarts = 0
NoContracts ==
  /\ contracts = <<>> /\ versions = {} /\ outputs = {} /\ saved = 0 /\ tx = 0 /\ op = 0
  /\ step = "none" /\ reached = 0 /\ faults = 0 /\ replays = 0
NoSchedule ==
  /\ seed = <<>> /\ indexed = {} /\ block = 0 /\ parsing = FALSE /\ cache = <<>>
  /\ call = <<>> /\ answer = <<>> /\ crashes = 0
NoPool ==
  /\ chain = <<>> /\ pool = <<>> /\ nonce = <<>> /\ filter = <<>> /\ old = <<>>
  /\ hears = <<>> /\ takes = <<>> /\ at = <<>> /\ part = <<>> /\ cleans = <<>>
NoChannel ==
  /\ net = {} /\ state = <<>> /\ result = <<>> /\ handler = <<>> /\ pushed = <<>>
  /\ sent = <<>> /\ lost = 0

PartsInit ==
  \/ /\ scenario = "witnesses" /\ Witnesses!Init
     /\ NoContracts /\ NoSchedule /\ NoPool /\ NoChannel
  \/ /\ scenario = "contracts" /\ Contracts!Init
     /\ NoWitnesses /\ NoSchedule /\ NoPool /\ NoChannel
  \/ /\ scenario = "schedule" /\ Schedule!Init
     /\ NoWitnesses /\ NoContracts /\ NoPool /\ NoChannel
  \/ /\ scenario = "pool" /\ Pool!Init
     /\ NoWitnesses /\ NoContracts /\ NoSchedule /\ NoChannel
  \/ /\ scenario = "channel" /\ Channel!Init
     /\ NoWitnesses /\ NoContracts /\ NoSchedule /\ NoPool

PartsNext ==
  /\ UNCHANGED scenario
  /\ \/ /\ scenario = "witnesses" /\ Witnesses!Next
        /\ UNCHANGED <<ofContracts, ofSchedule, ofPool, ofChannel>>
     \/ /\ scenario = "contracts" /\ Contracts!Next
        /\ UNCHANGED <<ofWitnesses, ofSchedule, ofPool, ofChannel>>
     \/ /\ scenario = "schedule" /\ Schedule!Next
        /\ UNCHANGED <<ofWitnesses, ofContracts, ofPool, ofChannel>>
     \/ /\ scenario = "pool" /\ Pool!Next
        /\ UNCHANGED <<ofWitnesses, ofContracts, ofSchedule, ofChannel>>
     \/ /\ scenario = "channel" /\ Channel!Next
        /\ UNCHANGED <<ofWitnesses, ofContracts, ofSchedule, ofPool>>

PartsSpec == PartsInit /\ [][PartsNext]_vars

-------------------------------------------------------------------------------
(* The properties are those of the modules, each with its type invariant. *)

\* Through restarts inside an update, the witnesses and keys of the next block
\* are those of the last announcements.
WitnessesFollowHive ==
  scenario = "witnesses" =>
    Witnesses!RegistryTypeOK /\ Witnesses!LatestAnnouncementCounts

\* The keys of a block that was parsed never change, and who took part in one
\* since the toggle was last changed stays as well.
PastStays == Witnesses!KeysOfPastStay /\ Witnesses!ToggleStaysSinceChange

\* Contracts and versions are what Hive says, however often it is read again,
\* none has code without a proof or a version by another than its owner, and a
\* call sees the last output, also after the contract was recorded anew.
ContractsFollowHive ==
  scenario = "contracts" =>
    /\ Contracts!RegistryTypeOK /\ Contracts!FollowsHive
    /\ Contracts!OnlyProvedCode /\ Contracts!StateSurvivesReplay

\* Schedules are what Hive says, with a cache and two callers that wait.
HiveDecides == scenario = "schedule" => Schedule!ScheduleTypeOK /\ Schedule!HiveDecides

\* No member has two slots of a round more than another, and a slot has one
\* proposer.
SlotsAreShared == scenario = "schedule" => Schedule!FairShares /\ Schedule!OneProposer

\* No transaction whose nonce is still to come is dropped from the pool or kept
\* out of it.
UnusedIsWelcome ==
  /\ [](scenario = "pool" => Pool!PoolTypeOK)
  /\ [][scenario = "pool" => Pool!UnusedStays]_vars

\* A call gathers answers given to it, each once and none of its own node where
\* it asked for none, until it is closed (Gathering).
GathersItsOwn ==
  /\ scenario = "channel" => Channel!Gather!Init
  /\ [](scenario = "channel" =>
          Channel!ChannelTypeOK /\ Channel!OwnAnswers /\ Channel!NoneTwice)
  /\ [][scenario = "channel" => Channel!GatherStep]_vars
===============================================================================
