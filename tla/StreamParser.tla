----------------------------- MODULE StreamParser -----------------------------
(***************************************************************************)
(* The block pipeline of a node: class StreamParser of                     *)
(* src/services/new/utils/streamUtils.ts over the fetcher of FastStream,   *)
(* with the watchdog of ChainBridgeV2.start.                               *)
(*                                                                         *)
(* Blocks that leave the fetcher are stored in the events collection; a    *)
(* second loop reads events and runs the registered parsers on each block. *)
(* Two checkpoints survive a restart: last_hb, the last block stored, and  *)
(* last_hb_processed, the last block whose parsers have run.  The process  *)
(* may stop between any two steps and is then started again by its         *)
(* supervisor (docker-compose.yml, "restart: always").                     *)
(***************************************************************************)
EXTENDS FastStream

CONSTANTS
  BatchLimit,   \* blocks per query of processEventStream (1000 in the code)
  SaveEvery,    \* a checkpoint at every multiple of it (100 in the code)
  HeadSlack,    \* and at every block this close to the head (20 in the code)
  StuckLag,     \* the watchdog's threshold, in blocks (40 in the code)
  Window,       \* lags the watchdog looks back on (5 in the code)
  MaxCrashes    \* bound: how often the process stops by itself

ASSUME ParserAssumption ==
  /\ BatchLimit \in Nat \ {0} /\ SaveEvery \in Nat \ {0} /\ HeadSlack \in Nat
  /\ StuckLag \in Nat /\ Window \in Nat \ {0} /\ MaxCrashes \in Nat

VARIABLES
  \* persistent
  events,          \* heights stored in the events collection
  lastHb,          \* stream_state last_hb, None if absent
  lastHbProcessed, \* stream_state last_hb_processed, None if absent
  \* volatile
  lastBlk,         \* the block last stored by this process
  cursor,          \* processEventStream: lastBlock
  lastParsed,
  headHeight,      \* fastStream's headTracker, None before its first answer
  batch,           \* blocks read from events and not yet parsed
  pc,              \* "next": between blocks, "txs": block parsers have run,
                   \* "save": the checkpoint is being written
  lags,            \* the watchdog's samples
  \* history
  handled,         \* blocks all parsers have been run on, by any process
  crashes

dbVars     == <<events, lastHb, lastHbProcessed>>
ingestVars == <<lastHb, lastBlk>>
parseVars  == <<lastHbProcessed, cursor, lastParsed, batch, pc, handled>>
vars == <<streamVars, events, lastHb, lastHbProcessed, lastBlk, cursor,
          lastParsed, headHeight, batch, pc, lags, handled, crashes>>

None == 0          \* no height; blocks are numbered from Genesis > 0
NoLag == -1        \* parseLag and blockLag before a block was emitted

-------------------------------------------------------------------------------
ParserInit ==
  /\ events = {}
  /\ lastHb = None
  /\ lastHbProcessed = None
  /\ lastBlk = None
  /\ cursor = None
  /\ lastParsed = None
  /\ headHeight = None
  /\ batch = {}
  /\ pc = "next"
  /\ lags = <<>>
  /\ handled = {}
  /\ crashes = 0

PInit == Init /\ ParserInit

(* Hive and the fetcher take their steps on their own. *)
Streams ==
  /\ Next
  /\ UNCHANGED <<events, lastHb, lastHbProcessed, lastBlk, cursor, lastParsed,
                 headHeight, batch, pc, lags, handled, crashes>>

-------------------------------------------------------------------------------
(* Storing blocks. *)

(* init's loop takes a block from the stream and _processBlock upserts it. *)
Ingest ==
  /\ streamOut # <<>>
  /\ events' = events \cup {Head(streamOut)}
  /\ lastBlk' = Head(streamOut)
  /\ streamOut' = Tail(streamOut)
  /\ UNCHANGED <<head, startBlock, parserHeight, blockMap, phase, nextSet, running,
                 lastBlock, bh, pending>>
  /\ UNCHANGED <<lastHb, headHeight, lags, crashes, parseVars>>

(* Mutant: the checkpoint is the last block emitted, not the last stored. *)
SaveLastHbEmitted ==
  /\ lastBlk # None
  /\ lastHb' = parserHeight - 1
  /\ UNCHANGED <<streamVars, events, lastBlk, headHeight, lags, crashes, parseVars>>

(* The one-second timer of init. *)
SaveLastHb ==
  /\ lastBlk # None
  /\ lastHb' = lastBlk
  /\ UNCHANGED <<streamVars, events, lastBlk, headHeight, lags, crashes, parseVars>>

(* startStream's headTracker. *)
TrackHead ==
  /\ headHeight' = head
  /\ UNCHANGED <<streamVars, events, ingestVars, lags, crashes, parseVars>>

-------------------------------------------------------------------------------
(* Parsing blocks: processEventStream. *)

(* Where to go on from: the checkpoint or, without one, the first block    *)
(* stored, which the parsers are not run on.                               *)
StartParsing ==
  /\ cursor = None
  /\ IF lastHbProcessed # None
     THEN cursor' = lastHbProcessed /\ lastParsed' = lastHbProcessed
     ELSE /\ \E first \in events : (\A k \in events : first =< k) /\ cursor' = first
          /\ UNCHANGED lastParsed
  /\ UNCHANGED <<streamVars, events, ingestVars, headHeight, lags, crashes,
                 lastHbProcessed, batch, pc, handled>>

(* Mutant: the query forgets its lower bound. *)
UnparsedFromStart == {k \in events : k >= Genesis}

(* The stored blocks after the cursor, in order, BatchLimit at most. *)
Unparsed == {k \in events : k > cursor}

ReadEvents ==
  /\ cursor # None /\ batch = {} /\ pc = "next"
  /\ Unparsed # {}
  /\ batch' = {k \in Unparsed : Cardinality({j \in Unparsed : j < k}) < BatchLimit}
  /\ UNCHANGED <<streamVars, events, ingestVars, headHeight, lags, crashes,
                 lastHbProcessed, cursor, lastParsed, pc, handled>>

(* Mutant: the checkpoint is taken when a block is begun. *)
ParseBlockCheckpointed ==
  /\ batch # {} /\ pc = "next"
  /\ pc' = "txs"
  /\ \E blk \in batch : (\A k \in batch : blk =< k) /\ lastHbProcessed' = blk
  /\ UNCHANGED <<streamVars, events, ingestVars, headHeight, lags, crashes,
                 cursor, lastParsed, batch, handled>>

(* Run the block parsers on the next block. *)
ParseBlock ==
  /\ batch # {} /\ pc = "next"
  /\ pc' = "txs"
  /\ UNCHANGED <<streamVars, events, ingestVars, headHeight, lags, crashes,
                 lastHbProcessed, cursor, lastParsed, batch, handled>>

(* Mutant: checkpoints only near the head. *)
SavesNearHeadOnly(blk) == headHeight # None /\ blk + HeadSlack > headHeight

(* The checkpoint is written at multiples of SaveEvery and near the head.  *)
(* headHeight is undefined, and the comparison false, before its first     *)
(* answer.                                                                 *)
SavesCheckpoint(blk) ==
  \/ blk % SaveEvery = 0
  \/ headHeight # None /\ blk + HeadSlack > headHeight

(* Mutant: the query result is not sorted. *)
ParseTxsUnsorted ==
  /\ pc = "txs"
  /\ \E blk \in batch :
       /\ cursor' = blk
       /\ lastParsed' = blk
       /\ batch' = batch \ {blk}
       /\ handled' = handled \cup {blk}
       /\ pc' = IF SavesCheckpoint(blk) THEN "save" ELSE "next"
  /\ UNCHANGED <<streamVars, events, ingestVars, headHeight, lags, crashes, lastHbProcessed>>

(* Run the transaction parsers on its transactions and move on. *)
ParseTxs ==
  /\ pc = "txs"
  /\ \E blk \in batch :
       /\ \A k \in batch : blk =< k
       /\ cursor' = blk
       /\ lastParsed' = blk
       /\ batch' = batch \ {blk}
       /\ handled' = handled \cup {blk}
       /\ pc' = IF SavesCheckpoint(blk) THEN "save" ELSE "next"
  /\ UNCHANGED <<streamVars, events, ingestVars, headHeight, lags, crashes, lastHbProcessed>>

SaveProcessed ==
  /\ pc = "save"
  /\ lastHbProcessed' = cursor
  /\ pc' = "next"
  /\ UNCHANGED <<streamVars, events, ingestVars, headHeight, lags, crashes,
                 cursor, lastParsed, batch, handled>>

-------------------------------------------------------------------------------
(* Stopping and starting again. *)

(* The state of a process just started; StreamParser.init streams from     *)
(* last_hb, or from genesisDay.                                            *)
StartProcess ==
  /\ Rebuild(IF lastHb # None THEN lastHb ELSE Genesis)
  /\ lastBlk' = None
  /\ cursor' = None
  /\ lastParsed' = None
  /\ headHeight' = None
  /\ batch' = {}
  /\ pc' = "next"
  /\ lags' = <<>>
  /\ UNCHANGED <<head, events, lastHb, lastHbProcessed, handled>>

Crash ==
  /\ crashes < MaxCrashes
  /\ crashes' = crashes + 1
  /\ StartProcess

(* The node has done all it can with what it has; the minute between two   *)
(* samples of the watchdog is taken to be long enough for that.            *)
Quiet ==
  /\ phase = "live" /\ bh = head /\ bh <= lastBlock /\ pending = Drained
  /\ parserHeight \notin blockMap
  /\ streamOut = <<>>
  /\ headHeight = head
  /\ lastBlk \in {None, lastHb}
  /\ batch = {} /\ pc = "next"
  /\ cursor # None => Unparsed = {}
  /\ cursor = None => lastHbProcessed = None /\ events = {}

(* calcHeight extrapolates the head from the last block emitted. *)
Emitted  == parserHeight > startBlock
ParseLag == IF Emitted THEN head - lastParsed ELSE NoLag
BlockLag == IF Emitted THEN head - (parserHeight - 1) ELSE NoLag
Exceeds(lag, limit) == lag = NoLag \/ lag >= limit

(* Mutant: only a growing lag counts as stuck. *)
StuckIfGrowing(samples) ==
  LET oldest == samples[1]
      newest == samples[Len(samples)]
  IN  /\ Len(samples) = Window
      /\ newest.parsed
      /\ Exceeds(newest.parseLag, StuckLag)
      /\ oldest.parsed /\ newest.parseLag > oldest.parseLag

(* exitIfStuck on the oldest and the newest of Window samples.  Without a  *)
(* parsed block the lag is not a number and no comparison holds.           *)
Stuck(samples) ==
  LET oldest == samples[1]
      newest == samples[Len(samples)]
  IN  /\ Len(samples) = Window
      /\ newest.parsed
      /\ Exceeds(newest.parseLag, StuckLag)
      /\ \/ oldest.parsed /\ oldest.parseLag = newest.parseLag
         \/ /\ newest.parseLag # NoLag /\ newest.blockLag # NoLag
            /\ newest.parseLag - newest.blockLag >= StuckLag
            /\ oldest.parsed /\ oldest.parseLag # NoLag
            /\ newest.parseLag > oldest.parseLag

(* Mutant: old samples are never dropped. *)
AllSamples ==
  Append(lags, [parsed   |-> ~Emitted \/ lastParsed # None,
                parseLag |-> ParseLag, blockLag |-> BlockLag])

NewSamples ==
  LET sample == [parsed   |-> ~Emitted \/ lastParsed # None,
                 parseLag |-> ParseLag, blockLag |-> BlockLag]
      all    == Append(lags, sample)
  IN  IF Len(all) > Window THEN Tail(all) ELSE all

SampleLags ==
  /\ Quiet
  /\ ~Stuck(NewSamples)
  /\ lags' = NewSamples
  /\ UNCHANGED <<streamVars, events, ingestVars, headHeight, crashes, parseVars>>

WatchdogExit ==
  /\ Quiet
  /\ Stuck(NewSamples)
  /\ StartProcess
  /\ UNCHANGED crashes

-------------------------------------------------------------------------------
Parse == StartParsing \/ ReadEvents \/ ParseBlock \/ ParseTxs \/ SaveProcessed

PNext ==
  \/ Streams
  \/ Ingest \/ SaveLastHb \/ TrackHead
  \/ Parse
  \/ Crash
  \/ SampleLags \/ WatchdogExit

PSpec == PInit /\ [][PNext]_vars

(* Hive keeps producing blocks, the timers fire, the two loops run, and    *)
(* the watchdog samples.  Nothing obliges the process to crash.            *)
PFairness ==
  /\ WF_streamVars(HiveBlock)
  /\ FetchFairness
  /\ WF_vars(Ingest) /\ WF_vars(SaveLastHb) /\ WF_vars(TrackHead)
  /\ WF_vars(Parse)
  /\ WF_vars(SampleLags) /\ WF_vars(WatchdogExit)

PFairSpec == PSpec /\ PFairness

-------------------------------------------------------------------------------
(* Types of the node's state. *)
ParserTypeOK ==
  /\ StreamTypeOK
  /\ events \subseteq Nat
  /\ lastHb \in Nat /\ lastHbProcessed \in Nat
  /\ lastBlk \in Nat /\ cursor \in Nat /\ lastParsed \in Nat /\ headHeight \in Nat
  /\ batch \subseteq Nat
  /\ pc \in {"next", "txs", "save"}
  /\ lags \in Seq([parsed : BOOLEAN, parseLag : Int, blockLag : Int]) /\ Len(lags) =< Window
  /\ handled \subseteq Nat
  /\ crashes \in Nat

(* The events collection is the chain without holes: whatever was lost     *)
(* with the stream's queue at a crash is fetched again, because last_hb    *)
(* never runs ahead of what is stored.                                     *)
EventsGapFree == \A k \in events : Genesis..k \subseteq events

(* Where the parsers of a process started now would go on. *)
Resume == IF lastHbProcessed # None THEN lastHbProcessed ELSE Genesis

(* Everything up to the position the parsers go on from after a restart    *)
(* has been run through all of them: no crash makes a block skip them.     *)
CheckpointCoversHandled == (Genesis + 1)..Resume \subseteq handled

(* A restart runs the parsers again on at most SaveEvery blocks, whatever  *)
(* the distance to the head when the process stopped.                      *)
ReplayBounded == \A h \in handled : h =< Resume + SaveEvery

(* Within one process the parsers see each block once and the next one     *)
(* next: rereading events never turns the cursor back or makes it jump.    *)
ParsedInSequence == [][(cursor # None /\ cursor' # None) => cursor' \in {cursor, cursor + 1}]_vars

(* The pipeline as its parsers see it implements BlockFeed: in order,      *)
(* nothing skipped, and repetition only by going back to a checkpoint.     *)
Feed == INSTANCE BlockFeed WITH Base <- Genesis,
          position <- IF cursor # None THEN cursor ELSE Resume
FeedSpec == Feed!Spec

(* The inductive invariant behind the four safety properties above. *)

\* The height init's loop will store next.
NextIn == IF lastBlk # None THEN lastBlk + 1 ELSE startBlock

\* What is queued continues what is stored, in order and without a hole.
QueueInv ==
  /\ \A i \in 1..Len(streamOut) : streamOut[i] = NextIn + i - 1
  /\ parserHeight = NextIn + Len(streamOut)
  /\ startBlock = Genesis \/ startBlock \in events

StoredInv ==
  /\ EventsGapFree
  /\ \A k \in events : k >= Genesis
  /\ {lastBlk, lastHb, lastHbProcessed, cursor} \subseteq events \cup {None}

\* The batch is the stretch of stored blocks right after the cursor.
BatchInv ==
  /\ batch \subseteq events
  /\ \A k \in batch : k > cursor /\ (cursor + 1)..k \subseteq batch
  /\ batch # {} => cursor # None
  /\ pc # "next" => cursor # None

HandledInv ==
  /\ CheckpointCoversHandled
  /\ cursor # None => /\ (Genesis + 1)..cursor \subseteq handled
                      /\ Resume =< cursor

PipelineInv == ParserTypeOK /\ QueueInv /\ StoredInv /\ BatchInv /\ HandledInv

(* Every block is eventually parsed, crashes and the stall of the fetcher  *)
(* notwithstanding: the watchdog ends a process whose stream has passed by *)
(* its start block, and the next one finds the head far enough ahead.  (A  *)
(* process started one block below MaxHead never sees a later head: the    *)
(* last block of the bounded chain is not promised.)                       *)
EveryBlockParsed == \A h \in (Genesis + 1)..(MaxHead - 1) : <>(h \in handled)
===============================================================================
