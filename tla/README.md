# TLA+ verification of vsc-node

vsc-node is one node of the VSC network, a side chain whose blocks and
transactions are ordered by Hive. Every node reads Hive block by block, keeps
its view of VSC in MongoDB, and, when it is a witness, builds, signs and
broadcasts VSC blocks. Nodes exchange messages by libp2p and content by IPFS.
This directory holds TLA+ models of the parts of the node that carry this
logic, TLC configurations that check them on small instances, and TLAPS proofs.

All paths below are relative to the repository; `new/` stands for
`src/services/new/`.

## The system

| part | source | state | operations | what is hard about it |
|---|---|---|---|---|
| Hive block fetcher | `src/utils.ts` (`fastStream`, `liveHiveBlocks`) | expected height, `blockMap`, request queue, live loop's `last_block` | load sets in parallel, poll the head, fetch ranges, emit in order | answers in any order, sets that fail, two sources of blocks that hand over to each other |
| Block pipeline | `new/utils/streamUtils.ts` (`StreamParser`) | `events`, checkpoints `last_hb` and `last_hb_processed`, parse cursor | store a block, read a batch, run block and transaction parsers, checkpoint | a crash at any step; two loops on one collection |
| Watchdog | `new/chainBridgeV2.ts` (`start`) | samples of the lags | sample, exit the process | a stalled fetcher is only cured by it |
| VSC block indexer | `new/chainBridgeV2.ts` (`vsc.propose_block`) | `block_headers`, contract state, statuses, nonces | accept or reject a block, index header, inputs, outputs, events, nonces | every node must do the same; several writes per block, none atomic; IPFS fetches fail |
| VSC block production | `new/witness/index.ts` | proposals awaiting signatures | build, propose, sign, broadcast | members build from their own database at their own time; a proposer waits while Hive goes on |
| Schedule | `new/witness/schedule.ts` | cache by round and epoch | compute the witness of each slot | two callers share the cache across waits; must be the same on every node |
| Transaction pool | `new/transactionPool.ts` | `transaction_pool`, `nonce_map`, reject filter | announce, take from a client, rebroadcast, clean up | checks and writes with waits between them, next to the parser |
| Ledger | `new/witness/balanceKeeper.ts`, `TxContext` | `bridge_ledger`, `bridge_balances`, `bridge_withdrawals` | deposit, snapshot, execute, process events, mark as paid | replays; balances derived from two collections; partial writes |
| Gateway: withdrawal batches and key rotation | `balanceKeeper.ts`, `new/witness/multisig.ts` | signatures asked for; keys of the multisig account on Hive | build a Hive transaction, gather signatures, broadcast | a batch paid twice; keys put back; signers with different views |
| Elections | `new/witness/electionManager.ts` | election results by epoch | hold, sign, index an election | falling vote threshold; electorate read before and after waiting |
| Witness registry | `chainBridgeV2.ts` (`account_update`) | witnesses, toggles and keys with validity ranges | update; who was a witness at a block | historical queries must keep their answers across replays |
| Contract registry | `new/contractEngineV2.ts` | contracts, versions, outputs | create, update, output | replayed creations; IPFS fails half way |
| Contract VM | `new/contractEngineV2.ts`, `new/vm/` | state cache, ledger stack, intents of a child process | call with a timeout, draw, revert, finish | a late answer after a timeout; calls that share one process |
| Peer channels | `new/p2pService.ts` (`PeerChannel`) | open calls, listeners, handlers | call, answer, end | several answers, loss, timeouts |
| File upload | `new/fileUploadManager.ts` | one request per peer, with a timer | announce, send, sign, expire | an old timer and a new request |
| Versions | `new/witness/versionManager.ts` | reset ids in `stream_state` | delete what a new release writes differently | a stop between any two deletions; skipped releases; a reset taken back |
| Typed data | `new/utils/cbor/cbor_to_eip712_converter.ts` | none | types of a message for wallets to sign | types pieced together from leaves |
| The rest | `new/index.ts`, `modules/api`, `contracts`, `src/scripts`, `src/ipfs-utils`, `src/transactions`, identity | | start-up, read-only queries, tools | |

How they interact: the fetcher feeds the pipeline; the pipeline calls, for each
Hive block, first the parsers of blocks (production, elections, withdrawal
batches, key rotation) and then those of its operations (registries, pool,
ledger, block indexer, elections). Production reads what the indexer, the pool
and the ledger wrote. A VSC block, an election result, a batch or a rotation
goes from its proposer through other members' signatures (peer channels) to
Hive and comes back to every node through the pipeline.

What makes the parts correct: the pipeline runs parsers on every block in order
whatever crashes (so that indexing is a function of Hive); indexing has the same
result on all nodes; VSC blocks follow each other without gap; nothing is
executed twice and no nonce is used twice; the ledger adds up to what the
multisig account holds; a withdrawal is paid once and in the end; nodes elect
the same, with a majority of the electorate before; a contract call takes
effect as a whole or not at all; every block is eventually parsed.
`PROJECT.json` lists under `hazards` the places in the code where one of these
could go wrong, with the properties that would show it.

## Modules

| module | models | built on |
|---|---|---|
| `FastStream` | the fetcher: one action per request sent or answered, poll, range, block yielded | |
| `StreamParser` | the pipeline, its crashes and restarts, the watchdog | `FastStream` |
| `BlockFeed` | abstract: what parsers may rely on | |
| `StreamParserProofs` | proofs | `StreamParser` |
| `VscIndex` | per node: pool and block indexer | the feed of `BlockFeed` |
| `VscBlock` | witnesses: building, proposing, signing, broadcasting; Hive | `VscIndex` |
| `ReplicatedLog` | abstract: one log of VSC blocks and its copies | |
| `VscBlockProofs` | proofs | `VscBlock`, `SumTheorems` |
| `Ledger` | one node's ledger: deposits, execution, events, balances, withdrawals | |
| `LedgerProofs` | proofs | `Ledger`, `SumTheorems` |
| `VoteThreshold` | the votes an election needs | |
| `Elections` | holding, signing and indexing elections at all nodes | `VoteThreshold` |
| `ElectionsProofs` | proofs, also about the votes needed | `Elections`, `SumTheorems` |
| `Gateway` | withdrawal batches and key rotations, at all nodes and on Hive | |
| `GatewayProofs` | proofs | `Gateway` |
| `VmRunner` | the process that runs contract calls | |
| `ContractVm` | the node's side of a block's calls | `VmRunner` |
| `AtomicCalls` | abstract: calls one after another, each whole or not at all | |
| `ContractVmProofs` | proofs | `ContractVm`, `SumTheorems` |
| `ContractRegistry` | contracts, versions and outputs through replays | |
| `WitnessRegistry` | an account's announcements and the past they leave | |
| `WitnessSchedule` | shuffle, cache and its two callers | |
| `TxPool` | announcements, a client, the parser and the cleaner at the pool | |
| `PeerChannel` | calls over a channel, with loss and reordering | |
| `Gathering` | abstract: what a call gathers | |
| `FileUpload` | requests, timers and handlers of one node | |
| `IndexReset` | what a restart with another release deletes | |
| `TypedData` | the types of a message, leaf by leaf | |
| `Parts` | five of these modules, of which a behaviour has one | `WitnessRegistry`, `ContractRegistry`, `WitnessSchedule`, `TxPool`, `PeerChannel` |
| `Upkeep` | two more of these modules, of which a behaviour has one | `FileUpload`, `IndexReset` |
| `PartsProofs` | proofs | `Parts`, `Upkeep`, `SumTheorems` |
| `SumTheorems` | lemmas about sums over finite sets, which the proofs share | |
| `MC*` | instances for TLC | |

Several runs check more than one instance: the first state picks a `scenario`,
each with an instance (`INSTANCE ... WITH`) of a module, and every step is one
of that instance; for `parts` it is the module `Parts` that chooses, for two of the
scenarios of `parts_live` the module `Upkeep`. The variables of the others keep a fixed value. So what a
scenario shows is what the module shows with those constants.

### FastStream, StreamParser, BlockFeed

A block is its height. `parserHeight`, `blockMap`, `lastBlock`, `bh` and
`startBlock` are the fields of the same names; `streamOut` is the stream the
pipeline consumes, `pending` the range `liveHiveBlocks` is yielding. `Deliver`
is the body of `startStream`'s loops. In `StreamParser`, `events` and the two
checkpoints persist and everything else is lost by `Crash`, which is enabled
between any two steps; `ParseBlock`, `ParseTxs` and `SaveProcessed` are the
three stretches of `processEventStream` between which a crash matters.
`handled` is a history variable. `Feed` maps the pipeline to `BlockFeed`: the
position of the feed is the cursor, or where a restart would go on.

The head of Hive only grows: the code follows `head_block_number` and has no
notion of a fork.

### VscIndex, VscBlock, ReplicatedLog

Each node has its own copy of every collection, as functions on `Node`. Its
place in Hive is `parsed` (blocks) and `handled` (operations of the next
block); `indexing` is the entry of the VSC block at hand. Hive operations are
transactions (`vsc.tx`) or VSC blocks with their proposer and signers. The
actions of `VscIndex` follow the branch of `chainBridgeV2.ts`: `RejectBlock`,
`IndexHeader`, one action per kind of entry, `IndexNonces`; a restart or a
failing fetch can come between any two. `VscBlock` has `Tick` and `Propose`
(the `witness` block parser, which runs before the operations of the slot's
block), `Sign` (a member builds the block itself and signs if it is the same),
`EndProposal` (the proposer stops waiting and perhaps broadcasts). A block is
compared as a value, since in the code its identity is a content hash, from which the
signature is taken out first (`chainBridgeV2.ts:347`, `:388`): a block is not indexed twice,
whoever signed it (`SameId`). Contract state
is the sequence of calls executed to reach it, which tells apart any two
executions. Where the database returns two transactions of the same anchor in
no particular order, `ToExecute` is the set of both orders.

Elections and schedules are constants here (`Weight`, `Schedule`);
`Elections` and `WitnessSchedule` say why nodes have the same ones.

The slot a block counts for is that of the Hive block it gets into, and its end is the slot it was
made for; nothing compares the two. Slots are 10 Hive blocks, a transaction of
Hive's client lives for 20, and a proposal may be up to 28 blocks old when it gets into
Hive (lag, signatures, expiry). A round shuffles 120 slots over the members (`schedule.ts:66-76`),
so that a witness has another slot that soon in practically every round, and a late block of
its own is then indexed under that one. It covers what the blocks in between have covered, with their
nonces and transactions, which is what is then wrong with the ranges and with what is
executed; that all nodes index the same, and one log, is not affected. The
properties of blocks therefore speak of histories up to the first block indexed under another slot
than its own (`InOwnSlots`); without that condition TLC finds ranges that overlap.
`NodesAgree` and `LogSpec` do not have it, and are checked with late blocks (scenario `late`).

What a node's database says of blocks holds only while no node has crashed in the
middle of a block and no fetch has failed either, and the properties say so
(`AllWell`: `crashes = 0`, `fetchErrors = 0` and `InOwnSlots`). A crash between a header and the entries of its block
leaves the rest unwritten, since a block whose header is there is not indexed again:
nonces are lost and used again, and the inputs with them. With two crashes of a
majority of the weight a transaction at the border of two blocks is executed twice.
After a failed fetch of a block's events, the inputs of that block that the events
fail at the other nodes (finding 1) stay INCLUDED at this one. If it is the next proposer, its block
executes them, and what was FAILED becomes CONFIRMED (`StatusFinal` without its
guard is violated by this). A node whose fetch failed may hold another block for a slot.

`Log` maps the headers to `ReplicatedLog`: the log (`Decided`) is what a node that
handled all of Hive would have indexed, a node's copy is what it has. The proposer
broadcasts above 67% of the weight; the indexer accepts from two thirds
(`witness/index.ts:1017`, `chainBridgeV2.ts`), so what is broadcast is accepted.

### Ledger

Hive has one relevant operation per block. `Deposit`, `Include` and `Complete`
are what the node does with each; `Build` is `createBlock` with `TxContext`
executing the transactions in the window against `Snapshots`; `StartIndex`,
`ProcessEvent`, `RecordBalance`, `EndIndex` are `processEvents` and the status
update, event by event; `Restart` goes back to any earlier block. HIVE and HBD
are treated alike and separately by the code, so one token is modelled. How a
batch of withdrawals comes to be signed is the subject of `Gateway`: here
`HiveBatch` pays any set of pending withdrawals the account can pay, once the
node has caught up.

`spoilt` records two things the code does not survive, so that the other
properties can be stated beside them: a restart in the middle of indexing (the
header is already there, so the remaining events are never written), and a
transaction at the border of two VSC blocks that restarts make both execute.

`SpendsWhatItHas` counts from the snapshots a block was built from, whatever these
are: as they count entries twice (finding 3), a snapshot itself can be below zero.
What the property says is that no debit in the block takes its sender below
zero, in the order of the block's events. Sums are of any sign: `executeTx` only compares
the sum with the sender's balance (`witness/index.ts:236-243`, `:341`, `:383`), and the
pool stores payloads as they come (`transactionPool.ts:562-587`). A transfer of a negative sum is
executed, and takes from the account it is sent to, below zero perhaps; the property
promises nothing to that one. The run has such a transfer, and `LedgerOK` holds with it.

### Elections, VoteThreshold

A result is what a node makes up at a slot: the epoch, and the candidates that
the release tag on GitHub decides (`Roll`, `Share`), which may change while an
election is held. A holder reads the election before its slot (`StartHold`), asks its peers for
signatures (`Sign`) and 20 seconds later takes those of the members as it then knows them,
with the weights of the election it has read before (`FinishHold`); the
indexer judges what is on Hive against those of the slot and of the result's
block (`Indexes`). Signers are places in a list of members, as in the code's bit
vector, so reading them against another list is visible. There is no schedule
before the first election: epoch 0 is given.

`MinVotes` is `minimalRequiredElectionVotes` in whole numbers: what it rounds is
the fraction the code computes.

### Gateway

`hive` is the chain, of withdrawals credited, elections, batches and rotations;
`auth` the account's owner keys. A batch is built from what is PENDING in the
builder's database; a signature fits if the signer has built the same (`Fits`). A request
comes once, and is answered when it comes or never (`Answer`, `waiting`). One for a
batch is dropped by a signer whose fetcher is not past the height
(`balanceKeeper.ts:611`); one for a rotation is not. A
rotation is built from the election valid at its height. Both expire (30
seconds and 30 minutes; a comment at `multisig.ts:79` gives 300 seconds for the
latter). `Complete` upserts: it marks a withdrawal also at a node that has not
credited it yet.

`PaidOnce` speaks of batches of different heights. A proposer that restarts
inside the block of a batch builds a second one for the same height, from what it has
by then, and both can be paid; and with a lost `bridge_ref` at one node and
another lagging by a batch interval, two of three signers can pay a withdrawal
again. So `PaidOnce` is checked with nodes that lag as far as `MaxLag` and miss
no reference. The threshold of the owner keys is a rounded 6/11 of them, which
is exactly half for 4, 6 and 8 keys.

`PromptlyPaid` needs that the parsers are a block behind the fetchers (`Trail`). A
proposer asks as soon as its parser is at the height; if the signers' fetchers are at the same
block, all of them drop the request, nobody repeats it, and the same happens at the next
height: with `Trail = 0` TLC finds that nothing is ever paid.

### ContractVm, VmRunner, AtomicCalls

`VmRunner` is the child process: one thread (`Free`), messages handled as soon as
it is free, also while a call waits for IPFS. `cache` and `temp` are the state
cache and the operation's part of it, `ledger` the stack of transfers, `intent`
and `seen` what the call may draw and the balances asked for. A call moves what the contract asks for:
`hive.draw` from any account into one of the contract's, whoever signed the call; `hive.transfer` and
`hive.withdraw` from one of the contract's; in amounts of either sign, which no system call looks at
(`vm-runner.ts:701-884`). Amounts are whole numbers of one asset. `ContractVm` is the
node: it sends a call, waits for an answer or its timer, and takes whatever answer
comes for that of the call it waits for, as the code does not compare `reqId`.

What this shows of the code: the second query of a balance within a block throws
(`balance.tokens` is not there), and `totalAmountDrawn` looks for fields the stack
does not have and is always 0, so that the limit is one of each draw: the accidental
exception is what keeps a call within its intent for an account. As nothing says whose account
that is, a call may take the limit from each of several, and a negative amount
takes from the account it is moved to, for which nothing asks for an intent or funds.
`DrawsAreCovered` is therefore about each account by itself, and about what is sent from it. With timeouts calls overlap in the process, one can draw under
the other's intents, and what a call that is recorded as failed has written is in
the output: so `PromptAreAtomic` and the limits on draws speak of calls answered
in time. A call that never returns makes `finish` wait for ever (`vm/utils.ts:356` has no
timer). An empty string is not written (`vm-runner.ts:128`), and a read of
IPFS that fails is cached as a deletion and carried out at the end.

### The registries and the schedule

`WitnessRegistry` has the five writes of an account update as actions of their
own, with restarts between them, and asks who was a witness at which block.
`ContractRegistry` handles the operations of transactions with the failures of
IPFS inside them; an update writes a version that no call reads
(`VmContext.init` takes the code of the contract's record). `WitnessSchedule`
computes schedules in the steps between the code's waits. Its callers only ask
for rounds at or behind the parser, which is why a cache keyed by round and epoch
is enough, and why `VscIndex` may take the schedule as given. `ContractsFollowHive`
leaves out one failure: that of creating the state's empty object between the
checks and the record of a contract.

### TxPool, PeerChannel, FileUpload, IndexReset, TypedData

`TxPool` splits `onTxAnnounce`, `ingestTx` and the cleaner at their waits. The
cleaner can delete a transaction INCLUDED after the cleaner's list was read
(`transactionPool.ts:508`); nothing promises the contrary. `PeerChannel` is the
channel the node uses (multicast); direct channels are not created and peers are
not announced by `P2PService.start`. `FileUpload` shows that a handler may remove a newer
request than its own (`fileUploadManager.ts:121`); what holds is that a request always has
a timer. False positives of the reject filter are not in the run's instance of `TxPool`
(`Alike` is empty where two nodes are).
`IndexReset` interleaves the writes of `VersionManager.init` with stops. A reset of the index
empties the collections the parsers write, but for `contract_versions` (`Kept`;
`versionManager.ts:147-160`): entries of earlier releases stay in it beside the new ones, and
`IndexIsWhole` says of it only that those of the present release are all there. `transaction_pool`
is emptied of what is not UNCONFIRMED; what remains is not what the parsers wrote. The ids of releases are
constants without assumptions. That they only grow (`ReleasesGrow`) is a condition of
`IndexIsWhole`, and what the comment at `versionManager.ts:13` says in its first half; for its second half
see finding 2.
`TypedData` takes the leaves of a message in the decoder's order. A nested map
whose first field is a list with elements, such as the payload `{args: ["x"]}`, gets
the type of an array or makes the conversion throw
(`cbor_to_eip712_converter.ts:354-365`), so such a message cannot be signed as typed
data; `EveryFieldIsTyped` leaves these out. Booleans and big integers get types
EIP-712 does not know.

## Runs

| run | checks | shows |
|---|---|---|
| `fast_stream` | `EmittedInOrder`, `CatchesUp` | the consumer gets the chain once and in order in every interleaving of two parallel requests, their failures and the live loop; the stream catches up unless its live loop has passed by the expected block |
| `stream_parser` | `ParserTypeOK`, `EventsGapFree`, `CheckpointCoversHandled`, `ReplayBounded`, `ParsedInSequence`, `FeedSpec`, `EveryBlockParsed` | two crashes at any steps: no hole in what is stored, no block skipped by the parsers, a bounded replay; the pipeline implements `BlockFeed`; watchdog and supervisor overcome the fetcher's stall |
| `vsc_block` | `RangesContiguous`, `NodesAgree`, `NothingTwice`, `StatusFinal`, `LogSpec` | two members: off-chain calls of one nonce; a transfer and a call on Hive; an invalid one; a block that comes in another slot of its witness; a crash; a failing fetch |
| `ledger` | `LedgerOK`, `SpendsWhatItHas`, `PaidStaysPaid` | two VSC blocks, four Hive operations, two restarts; a transfer of a negative sum |
| `elections` | `SameElections`, `HeldIsAccepted`, `MajorityBehind`, `PromptlyElected` | three nodes of unequal weight; nodes that lag, or that keep up with one of them down |
| `gateway` | `KeysAreElected`, `PaidOnce`, `KeysMoveOn`, `PromptlyPaid` | batches, and rotations, with nodes that lag; both with nodes whose parsers stay a block behind, restart or lose a reference |
| `contract_vm` | `DrawsAreCovered`, `PromptAreAtomic`, `LateBlockEnds` | two calls of three system calls in time, on the state or on the accounts of two users and the contract; or up to three of one that may all be late |
| `parts` | `WitnessesFollowHive`, `PastStays`, `ContractsFollowHive`, `HiveDecides`, `SlotsAreShared`, `UnusedIsWelcome`, `GathersItsOwn`, `EveryFieldIsTyped` | safety of `WitnessRegistry`, `ContractRegistry`, `WitnessSchedule`, `TxPool`, `PeerChannel`, `TypedData`, one to a behaviour |
| `parts_live` | `PartsSettle`, `UploadsAreKept`, `IndexIsWhole`, `CatchesUp` | progress and safety of `TxPool`, `FileUpload`, `IndexReset`, one to a behaviour |
| `vsc_block_fails` | `OnlyInvalidFail` is violated | finding 1 |
| `upgrade_back` | `PreviousResetWorks` is violated | finding 2 |
| `ledger_snapshot` | `RecordsLedgerSum` is violated | finding 3 |

The type invariant of each module is a conjunct of a property its run checks, except
those of `Gateway` and `VscBlock`, which are proved (`GatewayTypeCorrect`,
`BlocksAreTyped`).
Each property of a passing run comes with a mutant, a definition beside the one
it replaces (marked "Mutant"), under which TLC finds the property violated.

Refinements: `FeedSpec` (the pipeline implements `BlockFeed`), `LogSpec` (the nodes'
headers implement `ReplicatedLog`), `PromptAreAtomic` (calls answered in time
implement `AtomicCalls`), `GathersItsOwn` (calls over a channel implement
`Gathering`).

### Findings

1. The "Fail check if no event has been dispatched" (`chainBridgeV2.ts:591`) also fails
   transactions that were never executed: inputs the same block has just included, and
   transactions in the slot's own Hive block, which the proposer builds before
   handling. No later block executes them.
2. `index_block_reset_id` "should only be increased, but it can be decremented when trying a
   previous block reset" (`versionManager.ts:13`). A node that has recorded the higher id
   takes `last_block_to_keep.slice(index)` from there on (`:109-110`), which is empty if the
   list ends there; `Math.min` of nothing is `Infinity`, nothing is deleted, and `last_hb` becomes
   `Infinity`: the stream starts above every block, and none is stored any more.
3. `getSnapshot` adds the recorded balance to the sum of all ledger entries, so
   the second record of an account counts its earlier entries twice
   (`balanceKeeper.ts:96`).

Besides these, the fetcher's stall is described under `CatchesUp`: when the
first head polled is one above the start block, only that head is fetched and the
start block never is (`utils.ts:362`). The watchdog exists for such cases. Behaviour
the properties had to leave out is named with each module above and in the notes of
the hazards.

### Bounds

* `fast_stream`: sets of 2, end block 6, chain of 8. Enough for three sets of which
  two run at a time, an incomplete last one, and ranges after it.
* `stream_parser`: chain of 5, batches of 2, checkpoints every 3 and within 1 of the
  head, 2 crashes: a crash during the replay that follows a crash, replays across a
  batch border, checkpoints of both kinds. The last block is not promised to be
  parsed, because the chain of the model stops growing.
* `vsc_block*`: rounds of 2 Hive blocks and 5 blocks (6 in scenario `late`), slots that are
  alternately bob's and alice's, and one operation to a Hive block. Alice
  reaches the majority alone, bob needs her: so proposals that pass
  with one and with two signatures and proposals that fail. `Patience`
  and `Expiry` count Hive blocks and are 2, a slot each (`Expiry` is 1 in `vsc_block_fails`): a block gets into its own slot, into that of
  the other, where it is rejected, or, with 6 blocks, into the next one of its witness. The crash and the failing
  fetch of the run are there for `NodesAgree`, `LogSpec` and the actions themselves up
  to the moment they happen; what may break after them is said under `VscBlock`.
  `MaxLag` is the code's 5.
* `ledger`: two accounts, deposits of 1 and 2, transfers of -1 and 1 and a withdrawal, of which each Hive
  chain of 4 operations has a choice, 2 VSC blocks, 2 restarts.
* `elections`: three nodes, weights 3, 2, 2 (and 4, 3 under the other tag), so that early
  after an election any two are needed and later the largest is not; two elections,
  a slot owned by two nodes, one change of the tag, one failing fetch and one restart.
* `gateway`: three or four nodes, two withdrawals; batches every 3 blocks that live 2, which
  keeps the code's order of interval and lifetime (20 and 10); rotations every 3 that
  live 2, one election; one restart, one lost reference. In scenario `prompt` the parsers stay one
  block behind (`Trail`), and each request is answered before the next Hive block.
* `contract_vm`: `prompt`, two calls of three system calls on two keys, with one fault of
  IPFS; `drawing`, two of three on the accounts of two users and the contract, in amounts of -1 and 2, with limits
  below and at 2; `late`, three of one on the state, and `mixed`, two of one on both, which may
  time out.
* `parts`: one account and 4 blocks of announcements; five transactions of contract
  operations, among them a replayed one after 2 restarts; 2 rounds of 3 slots and three
  elections, one of them in a round; 3 transactions of 2 nonces and 2 blocks; two calls
  with 2 answers of each node and one lost message; messages of two fields, two deep.
* `parts_live`: two transactions of one nonce, or two nodes with one; three requests and two
  files of one peer; three releases with 2 restarts at any step, one collection that resets empty and one they do not.

### Fairness

`FairSpec` and `PFairSpec` of the pipeline assume weak fairness of each loop and timer: the
generator `liveHiveBlocks` and its head updater poll without end, the request
queue runs what it has been given (an answer or a failure, so a set may fail
every time), the timers of `init` and `startStream` fire, `processEventStream`
never returns, the watchdog samples every minute. Hive is assumed to
produce blocks. Nothing is assumed about crashes. The watchdog samples when the
node is quiet: a minute is long enough for what the node has got.

`elections` and `gateway` assume that something goes on as long as anything can (weak
fairness of the next step) in a scenario where nodes keep up with Hive (the parsers of
`gateway` one block behind it) and Hive takes
a transaction up before it expires; without that no such promise can hold, and the
safety properties are checked without it. `contract_vm` assumes the node and the process
go on, and lets timers fire at any time. `parts_live` assumes that handlers which have
started go on, that timers fire, that a transaction announced every five minutes is
heard at last (strong fairness of `Hear`) and an hour passes (`Age`), and that a node
that was stopped is started. The other scenarios state safety only and assume none.

`CHECK_DEADLOCK FALSE` is set everywhere because the bounded histories end.

## Proofs

Each theorem holds for every value of the constants the module's assumptions allow: any
number of nodes, accounts and transactions, any weights, schedules and bounds. The
inductive invariants were checked with TLC first, on the instances of the runs, except
those which say that there is a history behind a state (`OneRun`, `OnLog`, `SoundRun`): of these
TLC has checked the consequences.

| module | theorem | says |
|---|---|---|
| `StreamParserProofs` | `StreamParserTypeCorrect` | `PSpec => []ParserTypeOK` |
| | `EventsAreGapFree` | `PSpec => []EventsGapFree` |
| | `CheckpointsCoverHandled` | `PSpec => []CheckpointCoversHandled` |
| | `ParserSequence` | `PSpec => ParsedInSequence` |
| | `RestartsReplayLittle` | `PSpec => []ReplayBounded` |
| | `ImplementsFeed` | `PSpec => FeedSpec` |
| | `StreamIsInOrder` | `Spec => []EmittedInOrder`, of the fetcher alone |
| `VscBlockProofs` | `BlocksAreTyped` | `Spec => []BlockTypeOK`, through crashes and failing fetches |
| | `NodesHaveOneDatabase` | `Spec => []NodesAgree` |
| | `IndexingIsALog` | `Spec => LogSpec` |
| | `BlocksFollow` | `Spec => []RangesContiguous` |
| | `NothingHappensTwice` | `Spec => []NothingTwice` |
| | `ConfirmedForGood` | `Spec => StatusFinal` |
| `LedgerProofs` | `LedgerAddsUp` | `Spec => []LedgerOK` |
| | `BlocksSpendWhatIsThere` | `Spec => []SpendsWhatItHas` |
| | `PaidForGood` | `Spec => PaidStaysPaid` |
| `ElectionsProofs` | `ThresholdIsMajority` | an election needs more than half the weight, and at most two thirds rounded up |
| | `ThresholdFalls` | the votes needed never rise with time |
| | `NodesAgreeOnElections` | `Spec => []SameElections` |
| | `HeldIsAcceptedByAll` | `Spec => []HeldIsAccepted` |
| | `MajorityBehindElections` | `Spec => []MajorityBehind` |
| `GatewayProofs` | `GatewayTypeCorrect` | `Spec => []GatewayTypeOK` |
| | `KeysAreElectedAlways` | `Spec => []KeysAreElected` |
| | `BatchesPayOnce` | `Spec => [](fails = 0 => PaidOnce)` |
| | `KeysOnlyMoveOn` | `Spec => KeysMoveOn` |
| `PartsProofs` | `RegistryFollows` | `PartsSpec => []WitnessesFollowHive` |
| | `RegistryPast` | `PartsSpec => PastStays` |
| | `CallsGatherTheirOwn` | `PartsSpec => GathersItsOwn`: `PeerChannel` implements `Gathering` |
| | `SchedulesAreOfHive` | `PartsSpec => []HiveDecides` |
| | `SlotsAreFair` | `PartsSpec => []SlotsAreShared` |
| | `PoolKeepsUnused` | `PartsSpec => UnusedIsWelcome` |
| | `ContractsAreOfHive` | `PartsSpec => []ContractsFollowHive` |
| | `UploadsStayKept` | `UpkeepSpec => []UploadsAreKept` |
| | `IndexStaysWhole` | `ReleasesGrow` and `UpkeepSpec` give `[]IndexIsWhole` |
| `ContractVmProofs` | `VmTypeCorrect` | `Spec => []VmTypeOK` |
| | `DrawsAlwaysCovered` | `Spec => []DrawsAreCovered` |
| | `PromptCallsAreAtomic` | `NothingEmpty` gives `Spec => CallsAreAtomic`: calls answered in time implement `AtomicCalls` |
| `SumTheorems` | `MajoritiesMeet` | two sets with more than half the weight each have a member in common |

### The arguments

**Pipeline.** That a checkpoint covers what was handled needs that the cursor does, which
needs that the batch is the stretch right after the cursor (`BatchInv`), which needs
that the stored blocks have no hole (`StoredInv`), which needs that the stream's queue
continues what is stored (`QueueInv`). `PipelineInv` is the conjunction; the
refinement uses it to show that a step of the parse loop is a `Handle`, a restart a
`Rewind` and everything else a stutter. For the replay, `ReplayInv` says that
since the last checkpoint the cursor has come by no height at which one is due; two
such heights are at most `SaveEvery` apart. The fetcher alone needs only that its
queue is a stretch of the chain from the start block on (`Queued`).

**Indexing.** Nodes are at different places at the same time, so what they share is
said of the run they are all on. `NodesHaveOneDatabase`: there is one sequence of places in
Hive with a database at each (`OneRun`), every node is at one of them with that
database, and each next one is what `Move`, the step of a node as a function of its place,
makes of the one before. The induction prolongs the run when the foremost node goes on. The
statuses of transactions that only the pool has heard of (NONE and UNCONFIRMED) are
taken for the same. `IndexingIsALog`: there is a function that says for every Hive block
what the log was after it (`OnLog`), and each node's headers are the part of it that
the operations it has seen make up; after a crash a node has seen more
than it has handled. The refinement theorem reads off that
`Decided` is that function at the head, that only `IndexHeader` writes headers, and that
what it writes is the log's next entry.

**Blocks.** While all is well (`AllWell`), the same run carries three theorems (`BuildInv`). Along it
each database is `Good`: its blocks end at their slots and start after the block before
them, the nonces rise along the blocks, and what has been executed is CONFIRMED, hence
in no later block. A block on its way to Hive, while proposed, signed or broadcast, was made
from the run's database at its slot (`BlockSound`), because a proposer and a signer both build from
their own. Until it may be accepted under its slot nothing that it was made from has
gone on (`Undisturbed`): only a block of that slot could change it, and there is at most one
of those in the log. That it is not accepted under another slot is what `AllWell` says of the step
(`Punctual`), and the point from which on nothing is claimed. So each
`Move` takes a `Good` database to a `Good` one (`MoveGood`), and the properties are read
off what `Good` says. `ConfirmedForGood` needs in addition that a block's outputs
set only transactions the block was to execute, and those are INCLUDED, hence neither CONFIRMED nor
FAILED. `BlocksAreTyped` stands apart: its invariant (`TypeInv`) speaks of each variable and of
what is in a header or a proposal, whatever fails.

**Ledger.** `LedgerInv` separates what is in the ledger by its id: the deposits, one for each
deposit on Hive that was handled, and the events, whose ids begin with a transaction. `Whole` says
that the entries and debts that events made add up to what the block
being indexed has written so far (`Written`), and that the batches have paid disjoint
sets of withdrawals, which are complete when the batch has been handled. A block's events
add up to nothing because a transaction's debit and credit do; that is shown along the
execution (`Sound`), together with what each debit leaves its sender (`Fair`), for sums of any sign. That an
event's id is new, so that nothing is counted twice and nothing paid is written again, is where
the window of a block matters: an id in the ledger belongs to a transaction at or below the
end of the last block, a block's transactions are at or above it, and one that is at the border
and was executed is what `spoilt` records.

**Elections.** Nodes parse at their own pace and restarts take them back, so the
invariant speaks of how far each has once come: there is a `top` such that what a node
has stored is, of every block up to its top, what any other node has stored
(`ElectionsInv`). What a
holder has made up, or counted as a majority, is then judged against the same election by
everybody (`HeldIsAcceptedByAll`), with a threshold that has fallen since
(`ThresholdFalls`), and what is stored was signed by a majority of the electorate before
(`ThresholdIsMajority`).

**Gateway.** `FoundedInv`: whatever is proposed, signed, sent or on Hive was built from all Hive
held below its height; a rotation to the keys of the election valid there, a batch to
pay nothing that was paid before. A batch at height `h` is on Hive before `h` plus its
lifetime or not at all, and the next one is not due until later, so its builder has marked
what the first one paid. Who answers when does not matter to this. `BatchesPayOnce` is proved for histories in which no fetch
fails; TLC checks `PaidOnce` also with a lost reference among nodes that keep up.

**Parts.** `PartsSpec` chooses one part to a behaviour and keeps the others still, so that a
property of it is one of the part's own specification. The registry: of every account each history
(keys, toggles, authorities) is what Hive says up to a height of its own; a restart takes the parser back
any number of blocks but none of the heights, and what is parsed again below them finds
what it writes already there. That is why what a block's readers saw stays (`RegistryPast`).
The channel: what a call has gathered was published for it, by its handlers' index, and
is on its way no more (`ChannelInv`); that says that it comes once and the abstract
`seen` is what has arrived. The schedule: a height is asked for only when
everything its round reads is indexed, and what the cache or a waiting
caller has is the schedule of its round under its epoch; two elections within a round have
different epochs, so the cache tells them apart (`ScheduleInv`). Its slots are fair because
the keys left after each draw are distinct and none of those drawn (`KeysLeft`), so that the shuffle is a permutation
(`ShuffledPermutes`), and what is shuffled goes round the members (`TurnsAreFair`). The pool: the nonces
rise along the blocks, so a node's nonce only rises (`After`), and what the filter has, and
the limit the cleaner has read before it deletes, is not above it (`UsedOK`).
The contracts: whatever fails, what is stored comes from an operation whose code was
proved to be kept (`ContractsOK`, `VersionOK`). Without faults nothing is missing up to the place where the
parser is (`NothingMissing`); a restart moves that place back and finds what it
writes already there. What is read again below that place may for a while put the code of a
contract's creation into the version of an update in the same block, until the update is read again
too: so the invariant claims an update's code only once the place has passed it.

**Upkeep.** `UpkeepSpec` chooses between uploads and upgrades likewise. The uploads: requests,
timers and handlers have numbers of their own, a handler that goes on has matched a request
of its peer, and one whose answer is out has pinned before it (`UploadInv`); who
deletes whose request then does not matter. The upgrade: the blocks stored have no gap and
those of each recorded reset lie after the height it kept (`BlocksInv`), up to where `init` stopped
the last time; while the reset of a release is due, what that release keeps is still
there. The reset of the index is recorded only when the blocks are those of the release
(`IndexInv`), so that from then on each collection holds, up to some height, what
this release's parsers write of the blocks, and nothing else but what no reset empties (`WholeTo`); a checkpoint is never above
that height. A stop in between leaves a database whose record does not name the release, and
`init` deletes everything again.

**Contract calls.** Two invariants, since one of the properties holds whatever calls time out. `OnceInv`
follows each transfer through the ledger stack, the answers on their way and the results:
it is in one of them, under the number of the system call that made it, and those numbers only grow
(`Counted`). The others need that calls come one after another, which `Turn`
says stage by stage (`Idle`, `Asked`, `Executing`, `Replied`, then `Ending` and `Ended`) and which holds
until the first timer fires (`InTurn`). In `Executing` a call has asked for each account
once, and what it takes is from accounts no earlier call has taken from: both because a second
question for a balance throws, and because the accounts on either side of what was moved count as asked for.
So a total from an account is one movement or none (`TotalBounded`), each within intent and
funds if it is above zero. The atomicity reads off `Turn` which step is a call's end: `Return` is `Succeed`, an exception
`Fail`, `Exit` `Finish`, and everything else changes neither the answers nor the state
(`AtomicSilence`). `Kept` says that `finish` writes what the cache has.
That takes that no call writes the empty string (`NothingEmpty`), which `finish` would not write.

**Sums.** The library states nothing about `MapThenSumSet`. `SumTheorems` shows that it is a sum:
it does not depend on the order in which `CHOOSE` takes elements, it splits along subsets, it is
a whole number. There is no induction rule to instantiate, so these and the
facts about recursive functions (a block's execution, the log after each Hive block) are
proved from a least counterexample, which well-foundedness gives.

### Assumptions

`IndexStaysWhole` has a hypothesis of its own, `ReleasesGrow`: the ids of releases only
grow, that of the blocks never without that of the index, and what they keep is a height the node
had stored. The comment at `versionManager.ts:12-15` demands the second; of the first it says "should
only be increased, but it can be decremented when trying a previous block reset", and finding 2 shows what
then happens. `PromptCallsAreAtomic` has `NothingEmpty`.

`BlocksFollow`, `NothingHappensTwice` and `ConfirmedForGood` hold for any schedule and any delays, and
speak of a behaviour up to the first crash, failed fetch, or block indexed under another slot than
its own. The last is no rarity (see VscBlock); that ends what can be said of the
ranges, because a block is not bound to its slot in the code.

Beside the types of the constants: `Node` and `Tx` of `VscIndex` are finite; an epoch
has at least two blocks (7200 in the code), a result is on Hive within it or never, and early
enough for the next to be held (`Settle`, `Elections`); a rotation or a batch lives less long than the interval at which it is made
(`Gateway`; the code has 10 of 20 and 600 of 1200 blocks); no account is called
`#withdraw` and no transaction `hive` (`Ledger`; accounts are prefixed, and transactions hashes);
elections come in the order of their epochs, and each has members, none of them twice, as the witnesses
they are drawn from are one record of an account (`WitnessSchedule`); an update names a contract that an
earlier transaction has created, and a Hive block has one output of a contract
(`ContractRegistry`; an id is a hash of the transaction, and a block indexes one VSC block).
TLC evaluates the assumptions in the runs.

### Only model-checked

* Liveness, and what uses `ENABLED`: `CatchesUp` (both), `EveryBlockParsed`, `PromptlyElected`,
  `PromptlyPaid`, `LateBlockEnds`, `PartsSettle`.
* `PaidOnce` after a failed fetch.
* `EveryFieldIsTyped` of `parts` (its module is recursive over a message's data).
* That two calls which overlap after a timeout are covered and atomic: they are not (see ContractVm).
* `OnlyInvalidFail`, `PreviousResetWorks` and `RecordsLedgerSum` are false, see Findings.

## Not modelled, and the plan

Left out of the modelled parts: contents of Hive operations other than those named,
several nonce keys, BLS signatures (sets of signers), forks of Hive, IPFS fetches
that hang, parsing of memos, reads of another contract's state, gas, how the
candidates of an election are chosen and weighted, rollback to an earlier release and the
releases of databases without an entry (`IndexReset`), announcements of peers and direct channels
(which `P2PService.start` does not use), assembling a proof of availability (the
client does). Parts not modelled at all are in `PROJECT.json` with the reason. Of the repository's
lines two files of exported records, `src/vsc-new.transaction_pool-full.ts` and
`-part.ts`, are 60000: data that only a test (`createBlock.test.ts`) reads. Two more parts are
code of other projects (`utils/cbor/cborg_utils`, `src/ipfs-utils`).
`contracts/btc-relay.ts` and `btc-token.ts` are written for an earlier
virtual machine, which ran JavaScript; the present one runs WebAssembly.

Next, in this order:

1. What remains of `RangesContiguous` and `NothingTwice` after a crash or a failed fetch, if the
   header is written last.
2. `RangesContiguous` and `NothingTwice` without `InOwnSlots`, if the indexer compares a block's end with
   the slot it lands in.
