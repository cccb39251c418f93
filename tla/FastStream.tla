------------------------------ MODULE FastStream ------------------------------
(***************************************************************************)
(* The Hive block fetcher: class fastStream and generator liveHiveBlocks   *)
(* of src/utils.ts.  A stream is built for a start block, optionally loads *)
(* sets of blocks in parallel up to an end block, then follows the head of *)
(* the Hive chain, and hands blocks to its consumer through streamOut.     *)
(*                                                                         *)
(* A block is its height: Hive is taken to be one chain, and what a block  *)
(* holds is of no interest here.                                           *)
(***************************************************************************)
EXTENDS Integers, Sequences, FiniteSets

CONSTANTS
  Genesis,      \* networks.ts genesisDay, the first block ever streamed
  MaxHead,      \* bound: the Hive chain stops growing at this height
  EndBlock,     \* streamOpts.endBlock as given to the constructor, 0 if absent
  SetSize,      \* blocks per parallel request (setSize, 50 in the code)
  Concurrency,  \* of the request queue (PQueue, 2 in the code)
  RangeMax      \* blocks per request of liveHiveBlocks (100 in the code)

ASSUME StreamAssumption ==
  /\ Genesis \in Nat \ {0} /\ MaxHead \in Nat /\ EndBlock \in Nat
  /\ SetSize \in Nat \ {0} /\ Concurrency \in Nat \ {0} /\ RangeMax \in Nat \ {0, 1}
  /\ Genesis =< MaxHead

VARIABLES
  head,         \* the height of Hive's head block
  startBlock,   \* where this stream was told to start
  parserHeight, \* the next height to emit
  blockMap,     \* heights fetched ahead of parserHeight
  streamOut,    \* heights emitted and not yet taken by the consumer
  phase,        \* "batch" while parallel requests are made, then "live"
  nextSet,      \* the next set of blocks the request queue will start on
  running,      \* the sets being requested
  lastBlock,    \* liveHiveBlocks: last_block
  bh,           \* liveHiveBlocks: the head block number last polled
  pending       \* liveHiveBlocks: <<first, last>> of a range not yet yielded

fetchVars == <<startBlock, parserHeight, blockMap, streamOut, phase, nextSet,
               running, lastBlock, bh, pending>>
streamVars == <<head, startBlock, parserHeight, blockMap, streamOut, phase,
                nextSet, running, lastBlock, bh, pending>>

Height == Nat
NoBlock == 0             \* bh before the first poll
Drained == <<1, 0>>      \* no range is being yielded

-------------------------------------------------------------------------------
(* Parallel loading: only a stream given an end block more than one set    *)
(* away loads in parallel; set x holds SetSize blocks.                     *)

LoadsInParallel(s) == EndBlock - s > SetSize
EndSet(s) == (EndBlock - s) \div SetSize
FirstOf(x) == startBlock + x * SetSize
LastOf(x)  == FirstOf(x) + SetSize - 1

\* The heights from..to in order.
Run(from, to) == [i \in 1..(to - from + 1) |-> from + i - 1]

(* Mutant: whatever arrives is emitted, early or not. *)
DeliverAtOnce(lo, hi) ==
  IF lo > hi
  THEN UNCHANGED <<streamOut, parserHeight, blockMap>>
  ELSE /\ streamOut' = streamOut \o Run(lo, hi)
       /\ parserHeight' = hi + 1
       /\ UNCHANGED blockMap

(* The blocks lo..hi reach startStream in order.  Those below parserHeight *)
(* are dropped; once the expected one is met it and all that follow are    *)
(* emitted; a range that starts beyond it is kept for later.               *)
Deliver(lo, hi) ==
  IF lo =< parserHeight /\ parserHeight =< hi
  THEN /\ streamOut' = streamOut \o Run(parserHeight, hi)
       /\ parserHeight' = hi + 1
       /\ UNCHANGED blockMap
  ELSE /\ blockMap' = IF lo > parserHeight THEN blockMap \cup lo..hi ELSE blockMap
       /\ UNCHANGED <<streamOut, parserHeight>>

-------------------------------------------------------------------------------
(* A stream fresh from its constructor.                                    *)
Fresh(s) ==
  /\ startBlock = s
  /\ parserHeight = s
  /\ blockMap = {}
  /\ streamOut = <<>>
  /\ phase = IF LoadsInParallel(s) THEN "batch" ELSE "live"
  /\ nextSet = 0
  /\ running = {}
  /\ lastBlock = s
  /\ bh = NoBlock
  /\ pending = Drained

Rebuild(s) ==
  /\ startBlock' = s
  /\ parserHeight' = s
  /\ blockMap' = {}
  /\ streamOut' = <<>>
  /\ phase' = IF LoadsInParallel(s) THEN "batch" ELSE "live"
  /\ nextSet' = 0
  /\ running' = {}
  /\ lastBlock' = s
  /\ bh' = NoBlock
  /\ pending' = Drained

Init == head \in Genesis..MaxHead /\ Fresh(Genesis)

(* Hive produces a block. *)
HiveBlock ==
  /\ head < MaxHead
  /\ head' = head + 1
  /\ UNCHANGED fetchVars

(* The request queue starts on the next set, Concurrency at a time. *)
StartSet ==
  /\ phase = "batch"
  /\ nextSet =< EndSet(startBlock)
  /\ Cardinality(running) < Concurrency
  /\ running' = running \cup {nextSet}
  /\ nextSet' = nextSet + 1
  /\ UNCHANGED <<head, startBlock, parserHeight, blockMap, streamOut, phase, lastBlock, bh, pending>>

(* The blocks of a set arrive: those Hive has by now. *)
SetArrives(x) ==
  /\ x \in running
  /\ running' = running \ {x}
  /\ Deliver(FirstOf(x), IF LastOf(x) < head THEN LastOf(x) ELSE head)
  /\ UNCHANGED <<head, startBlock, phase, nextSet, lastBlock, bh, pending>>

(* streamHiveBlocks gives up after five attempts; the rejection is only    *)
(* logged and the set is left out.                                         *)
SetFails(x) ==
  /\ x \in running
  /\ running' = running \ {x}
  /\ UNCHANGED <<head, startBlock, parserHeight, blockMap, streamOut, phase, nextSet,
                 lastBlock, bh, pending>>

(* The queue is idle: follow the chain from the height expected now. *)
GoLive ==
  /\ phase = "batch"
  /\ nextSet > EndSet(startBlock)
  /\ running = {}
  /\ phase' = "live"
  /\ lastBlock' = parserHeight
  /\ UNCHANGED <<head, startBlock, parserHeight, blockMap, streamOut, nextSet, running, bh, pending>>

(* The eventQueue timer: emit the expected block if it is in the map, then *)
(* forget what the stream has moved past.                                  *)
DrainMap ==
  /\ blockMap # {}
  /\ IF parserHeight \in blockMap
     THEN /\ streamOut' = Append(streamOut, parserHeight)
          /\ parserHeight' = parserHeight + 1
     ELSE UNCHANGED <<streamOut, parserHeight>>
  /\ blockMap' = {k \in blockMap : k >= parserHeight'}
  /\ UNCHANGED <<head, startBlock, phase, nextSet, running, lastBlock, bh, pending>>

(* liveHiveBlocks' head updater. *)
PollHead ==
  /\ phase = "live"
  /\ bh' = head
  /\ UNCHANGED <<head, startBlock, parserHeight, blockMap, streamOut, phase, nextSet,
                 running, lastBlock, pending>>

(* More than one block behind: ask for a range that starts at last_block.  *)
(* A request that fails is tried again and changes nothing.                *)
FetchRange ==
  /\ phase = "live"
  /\ pending = Drained
  /\ bh > lastBlock + 1
  /\ LET count == IF bh - lastBlock > RangeMax THEN RangeMax ELSE bh - lastBlock
     IN  pending' = <<lastBlock, lastBlock + count - 1>>
  /\ UNCHANGED <<head, startBlock, parserHeight, blockMap, streamOut, phase, nextSet,
                 running, lastBlock, bh>>

(* Mutant: last_block stays behind the blocks yielded. *)
YieldWithoutAdvance ==
  /\ pending # Drained
  /\ pending' = IF pending[1] = pending[2] THEN Drained ELSE <<pending[1] + 1, pending[2]>>
  /\ Deliver(pending[1], pending[1])
  /\ UNCHANGED <<head, startBlock, phase, nextSet, running, lastBlock, bh>>

(* Yield the next block of the range to startStream. *)
YieldBlock ==
  /\ pending # Drained
  /\ lastBlock' = pending[1]
  /\ pending' = IF pending[1] = pending[2] THEN Drained ELSE <<pending[1] + 1, pending[2]>>
  /\ Deliver(pending[1], pending[1])
  /\ UNCHANGED <<head, startBlock, phase, nextSet, running, bh>>

(* Exactly one block behind: fetch the head block itself. *)
FetchHead ==
  /\ phase = "live"
  /\ pending = Drained
  /\ bh = lastBlock + 1
  /\ lastBlock' = bh
  /\ Deliver(bh, bh)
  /\ UNCHANGED <<head, startBlock, phase, nextSet, running, bh, pending>>

Fetch ==
  \/ StartSet
  \/ \E x \in running : SetArrives(x)
  \/ \E x \in running : SetFails(x)
  \/ GoLive
  \/ DrainMap
  \/ PollHead
  \/ FetchRange
  \/ YieldBlock
  \/ FetchHead

Next == HiveBlock \/ Fetch

Spec == Init /\ [][Next]_streamVars

(* The timers, the request queue and the generator loop keep running.  A   *)
(* set whose requests keep failing is not excluded.                        *)
FetchFairness ==
  /\ WF_streamVars(StartSet)
  /\ WF_streamVars(\E x \in running : SetArrives(x) \/ SetFails(x))
  /\ WF_streamVars(GoLive)
  /\ WF_streamVars(DrainMap)
  /\ WF_streamVars(PollHead)
  /\ WF_streamVars(FetchRange)
  /\ WF_streamVars(YieldBlock)
  /\ WF_streamVars(FetchHead)

FairSpec == Spec /\ WF_streamVars(HiveBlock) /\ FetchFairness

-------------------------------------------------------------------------------
(* Types of the fetcher's state. *)
StreamTypeOK ==
  /\ head \in Nat
  /\ startBlock \in Nat \ {0}
  /\ parserHeight \in Nat
  /\ blockMap \subseteq Nat
  /\ streamOut \in Seq(Nat)
  /\ phase \in {"batch", "live"}
  /\ nextSet \in Nat
  /\ running \subseteq 0..EndSet(startBlock) /\ Cardinality(running) =< Concurrency
  /\ lastBlock \in Nat
  /\ bh \in Nat
  /\ pending \in Nat \X Nat

(* What the consumer of startStream sees is the chain from startBlock on,  *)
(* each height once and in order, however the parallel requests and the    *)
(* live loop interleave and whichever of them fail (nothing is taken from  *)
(* streamOut in this module).                                              *)
EmittedInOrder ==
  /\ \A i \in 1..Len(streamOut) : streamOut[i] = startBlock + i - 1
  /\ parserHeight = startBlock + Len(streamOut)

(* The stream catches up with Hive, except in one case: the live loop has  *)
(* gone past the block that is expected next, which happens when the first *)
(* head it polls is exactly one ahead of its start (utils.ts:359 fetches   *)
(* that head and nothing fetches the start).  From then on every block     *)
(* only lands in blockMap.  (The chain of the model stops at MaxHead, so   *)
(* a loop that starts there waits for a block that never comes.)           *)
PassedBy == lastBlock > parserHeight
CatchesUp == <>[](parserHeight >= MaxHead \/ PassedBy)
===============================================================================
