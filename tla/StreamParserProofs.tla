--------------------------- MODULE StreamParserProofs ---------------------------
(***************************************************************************)
(* Proofs about StreamParser for every value of its constants.             *)
(***************************************************************************)
EXTENDS StreamParser, FiniteSetTheorems, SequenceTheorems, TLAPS

-------------------------------------------------------------------------------
(* Type correctness. *)

(* What Deliver leaves behind is well typed. *)
LEMMA DeliverType ==
  ASSUME NEW lo \in Int, NEW hi \in Int, lo >= 0,
         streamOut \in Seq(Nat), parserHeight \in Nat, blockMap \subseteq Nat,
         Deliver(lo, hi)
  PROVE  /\ streamOut' \in Seq(Nat)
         /\ parserHeight' \in Nat
         /\ blockMap' \subseteq Nat
<1>1. CASE lo =< parserHeight /\ parserHeight =< hi
  <2>1. hi - parserHeight + 1 \in Nat
    BY <1>1
  <2>2. Run(parserHeight, hi) \in Seq(Nat)
    BY <2>1 DEF Run
  <2>3. streamOut \o Run(parserHeight, hi) \in Seq(Nat)
    BY <2>2, ConcatProperties
  <2>4. streamOut' = streamOut \o Run(parserHeight, hi) /\ parserHeight' = hi + 1 /\ blockMap' = blockMap
    BY <1>1, Zenon DEF Deliver
  <2>5. hi + 1 \in Nat
    BY <1>1
  <2> QED
    BY <2>3, <2>4, <2>5
<1>2. CASE ~(lo =< parserHeight /\ parserHeight =< hi)
  <2>1. lo..hi \subseteq Nat
    OBVIOUS
  <2> QED
    BY <1>2, <2>1 DEF Deliver
<1> QED
  BY <1>1, <1>2

(* The request queue never runs more than Concurrency sets at a time. *)
LEMMA RunningGrows ==
  ASSUME NEW n \in Nat, NEW e \in Int, n =< e,
         running \subseteq 0..e, Cardinality(running) < Concurrency, Concurrency \in Nat
  PROVE  /\ running \cup {n} \subseteq 0..e
         /\ Cardinality(running \cup {n}) =< Concurrency
<1>1. IsFiniteSet(running)
  BY FS_Interval, FS_Subset, 0 \in Int
<1>2. Cardinality(running) \in Nat
  BY <1>1, FS_CardinalityType
<1>3. Cardinality(running \cup {n}) \in {Cardinality(running), Cardinality(running) + 1}
  BY <1>1, FS_AddElement
<1> QED
  BY <1>2, <1>3

\* A fetch that ends leaves no more of them running.
LEMMA RunningShrinks ==
  ASSUME NEW x, NEW e \in Int,
         running \subseteq 0..e, Cardinality(running) =< Concurrency, Concurrency \in Nat
  PROVE  /\ running \ {x} \subseteq 0..e
         /\ Cardinality(running \ {x}) =< Concurrency
<1>1. IsFiniteSet(running)
  BY FS_Interval, FS_Subset, 0 \in Int
<1>2. Cardinality(running) \in Nat /\ Cardinality(running \ {x}) \in Nat
  BY <1>1, FS_CardinalityType, FS_Subset
<1>3. Cardinality(running \ {x}) =< Cardinality(running)
  BY <1>1, FS_Subset, running \ {x} \subseteq running
<1> DEFINE c == Cardinality(running)
           d == Cardinality(running \ {x})
<1>4. d =< Concurrency
  <2> c \in Nat /\ d \in Nat /\ d =< c /\ c =< Concurrency
    BY <1>2, <1>3
  <2> HIDE DEF c, d
  <2> QED
    OBVIOUS
<1> QED
  BY <1>4

(* Every step of Hive and of the fetcher keeps the fetcher well typed. *)
LEMMA StreamTypeStep ==
  ASSUME StreamTypeOK, Next
  PROVE  StreamTypeOK'
<1> USE StreamAssumption
<1>0. EndSet(startBlock) \in Int
  BY DEF EndSet, StreamTypeOK
<1>1. CASE HiveBlock
  BY <1>1 DEF HiveBlock, fetchVars, StreamTypeOK, EndSet
<1>2. CASE StartSet
  <2>1. /\ running' \subseteq 0..EndSet(startBlock)
        /\ Cardinality(running') =< Concurrency
    BY <1>0, <1>2, RunningGrows DEF StartSet, StreamTypeOK
  <2> QED
    BY <1>2, <2>1 DEF StartSet, StreamTypeOK, EndSet
<1>3. ASSUME NEW x \in running, SetArrives(x) PROVE StreamTypeOK'
  <2>1. /\ running' \subseteq 0..EndSet(startBlock)
        /\ Cardinality(running') =< Concurrency
    BY <1>0, <1>3, RunningShrinks DEF SetArrives, StreamTypeOK
  <2>2. x \in Nat
    BY <1>0 DEF StreamTypeOK
  <2>3. x * SetSize \in Nat
    BY <2>2
  <2>4. FirstOf(x) \in Int /\ FirstOf(x) >= 0 /\ LastOf(x) \in Int
    BY <2>3 DEF FirstOf, LastOf, StreamTypeOK
  <2> DEFINE hi == IF LastOf(x) < head THEN LastOf(x) ELSE head
  <2>5. hi \in Int
    BY <2>4 DEF StreamTypeOK
  <2>6. Deliver(FirstOf(x), hi)
    BY <1>3 DEF SetArrives
  <2> HIDE DEF hi
  <2>7. streamOut' \in Seq(Nat) /\ parserHeight' \in Nat /\ blockMap' \subseteq Nat
    BY <2>4, <2>5, <2>6, DeliverType DEF StreamTypeOK
  <2> QED
    BY <1>3, <2>1, <2>7 DEF SetArrives, StreamTypeOK, EndSet
<1>4. ASSUME NEW x \in running, SetFails(x) PROVE StreamTypeOK'
  <2>1. /\ running' \subseteq 0..EndSet(startBlock)
        /\ Cardinality(running') =< Concurrency
    BY <1>0, <1>4, RunningShrinks DEF SetFails, StreamTypeOK
  <2> QED
    BY <1>4, <2>1 DEF SetFails, StreamTypeOK, EndSet
<1>5. CASE GoLive
  BY <1>5 DEF GoLive, StreamTypeOK, EndSet
<1>6. CASE DrainMap
  <2>1. streamOut' \in Seq(Nat) /\ parserHeight' \in Nat
    <3>1. CASE parserHeight \in blockMap
      <4>1. streamOut' = Append(streamOut, parserHeight) /\ parserHeight' = parserHeight + 1
        BY <1>6, <3>1, Zenon DEF DrainMap
      <4> QED
        BY <4>1, AppendProperties DEF StreamTypeOK
    <3>2. CASE parserHeight \notin blockMap
      BY <1>6, <3>2 DEF DrainMap, StreamTypeOK
    <3> QED
      BY <3>1, <3>2
  <2>2. blockMap' \subseteq Nat
    BY <1>6 DEF DrainMap, StreamTypeOK
  <2> QED
    BY <1>6, <2>1, <2>2 DEF DrainMap, StreamTypeOK, EndSet
<1>7. CASE PollHead
  BY <1>7 DEF PollHead, StreamTypeOK, EndSet
<1>8. CASE FetchRange
  <2>1. pending' \in Nat \X Nat
    BY <1>8 DEF FetchRange, StreamTypeOK
  <2> QED
    BY <1>8, <2>1 DEF FetchRange, StreamTypeOK, EndSet
<1>9. CASE YieldBlock
  <2>1. pending[1] \in Nat /\ pending[2] \in Nat
    BY DEF StreamTypeOK
  <2>2. pending' \in Nat \X Nat
    BY <1>9, <2>1 DEF YieldBlock, Drained
  <2>3. streamOut' \in Seq(Nat) /\ parserHeight' \in Nat /\ blockMap' \subseteq Nat
    BY <1>9, <2>1, DeliverType DEF YieldBlock, StreamTypeOK
  <2> QED
    BY <1>9, <2>1, <2>2, <2>3 DEF YieldBlock, StreamTypeOK, EndSet
<1>10. CASE FetchHead
  <2>1. streamOut' \in Seq(Nat) /\ parserHeight' \in Nat /\ blockMap' \subseteq Nat
    BY <1>10, DeliverType DEF FetchHead, StreamTypeOK
  <2> QED
    BY <1>10, <2>1 DEF FetchHead, StreamTypeOK, EndSet
<1> QED
  BY <1>1, <1>2, <1>3, <1>4, <1>5, <1>6, <1>7, <1>8, <1>9, <1>10 DEF Next, Fetch

(* A process just started is well typed. *)
LEMMA StartTypeStep ==
  ASSUME ParserTypeOK, StartProcess, crashes' \in Nat
  PROVE  ParserTypeOK'
<1> USE StreamAssumption, ParserAssumption
<1> DEFINE s == IF lastHb # None THEN lastHb ELSE Genesis
<1>1. s \in Nat \ {0}
  BY DEF ParserTypeOK, None
<1>2. Rebuild(s)
  BY DEF StartProcess
<1> HIDE DEF s
<1>3. Cardinality({}) =< Concurrency
  BY FS_EmptySet
<1>4. StreamTypeOK'
  BY <1>1, <1>2, <1>3 DEF Rebuild, StartProcess, StreamTypeOK, ParserTypeOK, NoBlock, Drained
<1>5. lags' \in Seq([parsed : BOOLEAN, parseLag : Int, blockLag : Int]) /\ Len(lags') =< Window
  BY EmptySeq DEF StartProcess
<1> QED
  BY <1>4, <1>5 DEF StartProcess, ParserTypeOK, None

(* The watchdog keeps Window samples at most. *)
LEMMA SamplesType ==
  ASSUME ParserTypeOK
  PROVE  /\ NewSamples \in Seq([parsed : BOOLEAN, parseLag : Int, blockLag : Int])
         /\ Len(NewSamples) =< Window
<1> USE StreamAssumption, ParserAssumption
<1> DEFINE Sample == [parsed : BOOLEAN, parseLag : Int, blockLag : Int]
           sample == [parsed   |-> ~Emitted \/ lastParsed # None,
                      parseLag |-> ParseLag, blockLag |-> BlockLag]
           all    == Append(lags, sample)
<1>1. ParseLag \in Int /\ BlockLag \in Int
  BY DEF ParserTypeOK, StreamTypeOK, ParseLag, BlockLag, NoLag
<1>2. sample \in Sample
  BY <1>1
<1>3. lags \in Seq(Sample) /\ Len(lags) =< Window
  BY DEF ParserTypeOK
<1>4. NewSamples = IF Len(all) > Window THEN Tail(all) ELSE all
  BY DEF NewSamples
<1> HIDE DEF sample, Sample
<1>5. all \in Seq(Sample) /\ Len(all) = Len(lags) + 1
  BY <1>2, <1>3, AppendProperties
<1>6. Len(lags) \in Nat /\ Window \in Nat
  BY <1>3, LenProperties
<1>7. all # <<>>
  BY <1>5, <1>6, EmptySeq
<1> HIDE DEF all
<1>8. Tail(all) \in Seq(Sample) /\ Len(Tail(all)) = Len(all) - 1
  BY <1>5, <1>7, HeadTailProperties
<1>9. NewSamples \in Seq(Sample) /\ Len(NewSamples) =< Window
  BY <1>3, <1>4, <1>5, <1>6, <1>8
<1> QED
  BY <1>9 DEF Sample

\* Every step keeps the types.
LEMMA ParserTypeStep ==
  ASSUME ParserTypeOK, [PNext]_vars
  PROVE  ParserTypeOK'
<1> USE StreamAssumption, ParserAssumption DEF None
<1>1. CASE Streams
  <2>1. StreamTypeOK'
    BY <1>1, StreamTypeStep DEF Streams, ParserTypeOK
  <2> QED
    BY <1>1, <2>1 DEF Streams, ParserTypeOK
<1>2. CASE Ingest
  <2>1. streamOut \in Seq(Nat) /\ streamOut # <<>>
    BY <1>2 DEF Ingest, ParserTypeOK, StreamTypeOK
  <2>2. Head(streamOut) \in Nat /\ Tail(streamOut) \in Seq(Nat)
    BY <2>1, HeadTailProperties
  <2> QED
    BY <1>2, <2>2 DEF Ingest, parseVars, ParserTypeOK, StreamTypeOK, EndSet
<1>3. CASE SaveLastHb
  BY <1>3 DEF SaveLastHb, streamVars, parseVars, ParserTypeOK, StreamTypeOK, EndSet
<1>4. CASE TrackHead
  BY <1>4 DEF TrackHead, streamVars, parseVars, ingestVars, ParserTypeOK, StreamTypeOK, EndSet
<1>5. CASE StartParsing
  BY <1>5 DEF StartParsing, streamVars, ingestVars, ParserTypeOK, StreamTypeOK, EndSet
<1>6. CASE ReadEvents
  BY <1>6 DEF ReadEvents, Unparsed, streamVars, ingestVars, ParserTypeOK, StreamTypeOK, EndSet
<1>7. CASE ParseBlock
  BY <1>7 DEF ParseBlock, streamVars, ingestVars, ParserTypeOK, StreamTypeOK, EndSet
<1>8. CASE ParseTxs
  BY <1>8 DEF ParseTxs, streamVars, ingestVars, ParserTypeOK, StreamTypeOK, EndSet
<1>9. CASE SaveProcessed
  BY <1>9 DEF SaveProcessed, streamVars, ingestVars, ParserTypeOK, StreamTypeOK, EndSet
<1>10. CASE Crash
  <2>1. crashes' \in Nat
    BY <1>10 DEF Crash, ParserTypeOK
  <2> QED
    BY <1>10, <2>1, StartTypeStep DEF Crash
<1>11. CASE SampleLags
  <2>1. lags' = NewSamples
    BY <1>11 DEF SampleLags
  <2> QED
    BY <1>11, <2>1, SamplesType
    DEF SampleLags, streamVars, parseVars, ingestVars, ParserTypeOK, StreamTypeOK, EndSet
<1>12. CASE WatchdogExit
  <2>1. crashes' \in Nat
    BY <1>12 DEF WatchdogExit, ParserTypeOK
  <2> QED
    BY <1>12, <2>1, StartTypeStep DEF WatchdogExit
<1>13. CASE UNCHANGED vars
  BY <1>13 DEF vars, streamVars, ParserTypeOK, StreamTypeOK, EndSet
<1> QED
  BY <1>1, <1>2, <1>3, <1>4, <1>5, <1>6, <1>7, <1>8, <1>9, <1>10, <1>11, <1>12, <1>13
  DEF PNext, Parse

\* The initial state is typed.
LEMMA ParserTypeInit == PInit => ParserTypeOK
<1> SUFFICES ASSUME PInit PROVE ParserTypeOK
  OBVIOUS
<1> USE StreamAssumption, ParserAssumption DEF None
<1>1. Cardinality({}) =< Concurrency
  BY FS_EmptySet
<1>2. StreamTypeOK
  BY <1>1, EmptySeq DEF PInit, Init, Fresh, StreamTypeOK, NoBlock, Drained
<1>3. lags \in Seq([parsed : BOOLEAN, parseLag : Int, blockLag : Int]) /\ Len(lags) =< Window
  BY EmptySeq DEF PInit, ParserInit
<1> QED
  BY <1>2, <1>3 DEF PInit, ParserInit, ParserTypeOK

(* Every reachable state of the pipeline is well typed: in particular the  *)
(* request queue and the watchdog's window stay within their limits.       *)
THEOREM StreamParserTypeCorrect == PSpec => []ParserTypeOK
<1>1. PInit => ParserTypeOK
  BY ParserTypeInit
<1>2. ParserTypeOK /\ [PNext]_vars => ParserTypeOK'
  BY ParserTypeStep
<1> QED
  BY <1>1, <1>2, PTL DEF PSpec
-------------------------------------------------------------------------------
(* The inductive invariant PipelineInv.  QueueInv and StoredInv carry the  *)
(* storing of blocks, BatchInv and HandledInv their parsing.               *)

(* The queue is the stretch of the chain from a height on, and goes on at  *)
(* parserHeight.                                                           *)
Queued(from) ==
  /\ \A i \in 1..Len(streamOut) : streamOut[i] = from + i - 1
  /\ parserHeight = from + Len(streamOut)

(* Delivering blocks keeps it one. *)
LEMMA DeliverQueue ==
  ASSUME NEW lo \in Int, NEW hi \in Int, Deliver(lo, hi),
         NEW from \in Nat, StreamTypeOK, Queued(from)
  PROVE  Queued(from)'
<1>1. streamOut \in Seq(Nat) /\ parserHeight \in Nat
  BY DEF StreamTypeOK
<1>2. CASE lo =< parserHeight /\ parserHeight =< hi
  <2> DEFINE n == hi - parserHeight + 1
             new == Run(parserHeight, hi)
  <2>1. n \in Nat
    BY <1>1, <1>2
  <2>2. new \in Seq(Nat) /\ Len(new) = n /\ \A i \in 1..n : new[i] = parserHeight + i - 1
    BY <1>1, <2>1 DEF Run
  <2>3. streamOut' = streamOut \o new /\ parserHeight' = hi + 1
    BY <1>2, Zenon DEF Deliver
  <2> HIDE DEF new
  <2>4. /\ Len(streamOut') = Len(streamOut) + n
        /\ \A i \in 1..(Len(streamOut) + n) :
             streamOut'[i] = IF i <= Len(streamOut) THEN streamOut[i] ELSE new[i - Len(streamOut)]
    <3>1. /\ Len(streamOut \o new) = Len(streamOut) + Len(new)
          /\ \A i \in 1..(Len(streamOut) + Len(new)) :
               (streamOut \o new)[i] = IF i <= Len(streamOut) THEN streamOut[i]
                                       ELSE new[i - Len(streamOut)]
      BY <1>1, <2>2, ConcatProperties
    <3> HIDE DEF n
    <3> QED
      BY <2>2, <2>3, <3>1, Zenon
  <2>5. Len(streamOut) \in Nat /\ parserHeight = from + Len(streamOut)
    BY <1>1, LenProperties DEF Queued
  <2>6. ASSUME NEW i \in 1..Len(streamOut') PROVE streamOut'[i] = from + i - 1
    <3>1. CASE i <= Len(streamOut)
      BY <2>4, <2>5, <3>1 DEF Queued
    <3>2. CASE i > Len(streamOut)
      <4>1. i - Len(streamOut) \in 1..n
        BY <2>1, <2>4, <2>5, <3>2
      <4>2. streamOut'[i] = new[i - Len(streamOut)]
        BY <2>4, <2>5, <3>2
      <4> QED
        BY <2>2, <2>5, <4>1, <4>2
    <3> QED
      BY <2>5, <3>1, <3>2
  <2>7. parserHeight' = from + Len(streamOut')
    BY <2>3, <2>4, <2>5
  <2> QED
    BY <2>6, <2>7 DEF Queued
<1>3. CASE ~(lo =< parserHeight /\ parserHeight =< hi)
  BY <1>3 DEF Deliver, Queued
<1> QED
  BY <1>2, <1>3

(* However the parallel requests and the live loop interleave. *)
LEMMA StreamsQueue ==
  ASSUME StreamTypeOK, Next, NEW from \in Nat, Queued(from)
  PROVE  Queued(from)'
<1>1. CASE HiveBlock \/ StartSet \/ GoLive \/ PollHead \/ FetchRange
  BY <1>1
  DEF HiveBlock, StartSet, GoLive, PollHead, FetchRange, fetchVars, Queued
<1>2. ASSUME NEW x \in running, SetArrives(x) PROVE Queued(from)'
  <2>1. x \in Nat
    BY DEF StreamTypeOK
  <2>2. x * SetSize \in Nat
    BY <2>1, StreamAssumption
  <2>3. FirstOf(x) \in Int /\ LastOf(x) \in Int
    BY <2>2, StreamAssumption DEF FirstOf, LastOf, StreamTypeOK
  <2> DEFINE hi == IF LastOf(x) < head THEN LastOf(x) ELSE head
  <2>4. hi \in Int
    BY <2>3 DEF StreamTypeOK
  <2>5. Deliver(FirstOf(x), hi)
    BY <1>2 DEF SetArrives
  <2> HIDE DEF hi
  <2> QED
    BY <2>3, <2>4, <2>5, DeliverQueue
<1>3. ASSUME NEW x \in running, SetFails(x) PROVE Queued(from)'
  BY <1>3 DEF SetFails, Queued
<1>4. CASE DrainMap
  <2>0. streamOut \in Seq(Nat) /\ parserHeight \in Nat
    BY <1>4 DEF StreamTypeOK, DrainMap
  <2>1. CASE parserHeight \in blockMap
    <3>1. streamOut' = Append(streamOut, parserHeight) /\ parserHeight' = parserHeight + 1
      BY <1>4, <2>1, Zenon DEF DrainMap
    <3>2. /\ Len(streamOut) \in Nat
          /\ Len(streamOut') = Len(streamOut) + 1
          /\ \A i \in 1..Len(streamOut) : streamOut'[i] = streamOut[i]
          /\ streamOut'[Len(streamOut) + 1] = parserHeight
      BY <2>0, <3>1, AppendProperties, LenProperties
    <3>3. parserHeight = from + Len(streamOut)
      BY DEF Queued
    <3>4. ASSUME NEW i \in 1..Len(streamOut') PROVE streamOut'[i] = from + i - 1
      <4>1. CASE i =< Len(streamOut)
        BY <3>2, <4>1 DEF Queued
      <4>2. CASE i = Len(streamOut) + 1
        BY <2>0, <3>2, <3>3, <4>2
      <4> QED
        BY <3>2, <4>1, <4>2
    <3>5. parserHeight' = from + Len(streamOut')
      BY <2>0, <3>1, <3>2, <3>3
    <3> QED
      BY <1>4, <2>0, <3>4, <3>5 DEF Queued, DrainMap
  <2>2. CASE parserHeight \notin blockMap
    BY <1>4, <2>0, <2>2 DEF Queued, DrainMap
  <2> QED
    BY <2>1, <2>2
<1>5. CASE YieldBlock
  <2>1. pending[1] \in Int
    BY DEF StreamTypeOK
  <2>2. Deliver(pending[1], pending[1])
    BY <1>5 DEF YieldBlock
  <2> QED
    BY <2>1, <2>2, DeliverQueue
<1>6. CASE FetchHead
  <2>1. bh \in Int /\ Deliver(bh, bh)
    BY <1>6 DEF FetchHead, StreamTypeOK
  <2> QED
    BY <2>1, DeliverQueue
<1> QED
  BY <1>1, <1>2, <1>3, <1>4, <1>5, <1>6 DEF Next, Fetch

(* Storing the head of the queue extends the stored chain by one block. *)
LEMMA IngestStep ==
  ASSUME PipelineInv, Ingest
  PROVE  QueueInv' /\ StoredInv'
<1> USE StreamAssumption DEF None
<1>1. /\ streamOut \in Seq(Nat) /\ streamOut # <<>> /\ NextIn \in Nat
      /\ startBlock \in Nat \ {0} /\ lastBlk \in Nat
  BY DEF PipelineInv, ParserTypeOK, StreamTypeOK, Ingest, NextIn
<1>2. /\ Len(streamOut) \in Nat \ {0}
      /\ Len(Tail(streamOut)) = Len(streamOut) - 1
      /\ \A i \in 1..(Len(streamOut) - 1) : Tail(streamOut)[i] = streamOut[i + 1]
      /\ Head(streamOut) = streamOut[1]
  BY <1>1, EmptySeq, LenProperties, HeadTailProperties
<1>3. Head(streamOut) = NextIn
  BY <1>1, <1>2 DEF PipelineInv, QueueInv
<1>4. lastBlk' = NextIn /\ events' = events \cup {NextIn} /\ streamOut' = Tail(streamOut)
      /\ UNCHANGED <<startBlock, parserHeight>>
  BY <1>3 DEF Ingest
<1>5. NextIn # 0 /\ NextIn' = NextIn + 1
  BY <1>1, <1>4 DEF NextIn
<1>6. QueueInv'
  <2>1. ASSUME NEW i \in 1..Len(streamOut') PROVE streamOut'[i] = NextIn' + i - 1
    <3>1. i \in 1..(Len(streamOut) - 1) /\ i + 1 \in 1..Len(streamOut)
      BY <1>2, <1>4
    <3>2. streamOut'[i] = streamOut[i + 1]
      BY <1>2, <1>4, <3>1
    <3> QED
      BY <1>1, <1>5, <3>1, <3>2 DEF PipelineInv, QueueInv
  <2>2. parserHeight' = NextIn' + Len(streamOut')
    BY <1>1, <1>2, <1>4, <1>5 DEF PipelineInv, QueueInv
  <2> QED
    BY <1>4, <2>1, <2>2 DEF PipelineInv, QueueInv
<1>7. NextIn = Genesis \/ NextIn - 1 \in events \/ NextIn \in events
  BY <1>1 DEF PipelineInv, QueueInv, StoredInv, NextIn
<1>8. events \subseteq Nat
  BY DEF PipelineInv, ParserTypeOK
<1>9. Genesis..NextIn \subseteq events'
  BY <1>1, <1>4, <1>7, <1>8 DEF PipelineInv, StoredInv, EventsGapFree
<1>10. EventsGapFree'
  BY <1>4, <1>9 DEF PipelineInv, StoredInv, EventsGapFree
<1>11. NextIn >= Genesis
  BY <1>1, <1>7, <1>8 DEF PipelineInv, StoredInv
<1>12. {lastBlk', lastHb', lastHbProcessed', cursor'} \subseteq events' \cup {None}
  BY <1>4 DEF Ingest, parseVars, PipelineInv, StoredInv
<1> QED
  BY <1>4, <1>6, <1>10, <1>11, <1>12 DEF PipelineInv, StoredInv

(* A process just started streams from a stored block, or from genesis. *)
LEMMA StartStep ==
  ASSUME PipelineInv, StartProcess
  PROVE  QueueInv' /\ StoredInv' /\ BatchInv' /\ HandledInv'
<1> USE StreamAssumption DEF None
<1> DEFINE s == IF lastHb # None THEN lastHb ELSE Genesis
<1>1. s \in Nat /\ (s = Genesis \/ s \in events)
  BY DEF PipelineInv, ParserTypeOK, StoredInv
<1>2. /\ startBlock' = s /\ parserHeight' = s /\ streamOut' = <<>> /\ lastBlk' = 0
      /\ cursor' = 0 /\ batch' = {} /\ pc' = "next"
      /\ UNCHANGED <<events, lastHb, lastHbProcessed, handled>>
  BY DEF StartProcess, Rebuild
<1> HIDE DEF s
<1>3. Len(streamOut') = 0
  BY <1>2, EmptySeq
<1>4. QueueInv'
  BY <1>1, <1>2, <1>3 DEF QueueInv, NextIn
<1>5. StoredInv'
  BY <1>2 DEF PipelineInv, StoredInv, EventsGapFree
<1>6. BatchInv'
  BY <1>2 DEF BatchInv
<1>7. HandledInv'
  BY <1>2 DEF PipelineInv, HandledInv, CheckpointCoversHandled, Resume
<1> QED
  BY <1>4, <1>5, <1>6, <1>7

(* Without a checkpoint parsing starts from genesis, with one from there. *)
LEMMA FirstPosition ==
  ASSUME PipelineInv, StartParsing
  PROVE  cursor' = Resume /\ cursor' \in events
<1> USE StreamAssumption DEF None
<1>1. CASE lastHbProcessed # None
  BY <1>1 DEF StartParsing, PipelineInv, StoredInv, Resume
<1>2. CASE lastHbProcessed = None
  <2>1. PICK first \in events : (\A k \in events : first =< k) /\ cursor' = first
    BY <1>2 DEF StartParsing
  <2>2. first \in Nat /\ first >= Genesis
    BY <2>1 DEF PipelineInv, ParserTypeOK, StoredInv
  <2>3. Genesis \in events
    BY <2>1, <2>2 DEF PipelineInv, StoredInv, EventsGapFree
  <2>4. first = Genesis
    BY <2>1, <2>2, <2>3
  <2> QED
    BY <1>2, <2>1, <2>4 DEF Resume
<1> QED
  BY <1>1, <1>2

(* The block taken from a batch is the one after the cursor. *)
LEMMA NextOfBatch ==
  ASSUME PipelineInv, NEW blk \in batch, \A k \in batch : blk =< k
  PROVE  blk = cursor + 1
<1>1. blk \in Nat /\ cursor \in Nat /\ blk > cursor
  BY DEF PipelineInv, ParserTypeOK, BatchInv
<1>2. cursor + 1 \in (cursor + 1)..blk
  BY <1>1
<1>3. cursor + 1 \in batch
  BY <1>2 DEF PipelineInv, BatchInv
<1> QED
  BY <1>1, <1>3

(* How many elements of a set of heights lie below a height grows with it. *)
LEMMA CountBelow ==
  ASSUME NEW S \in SUBSET Nat, NEW j \in Nat, NEW k \in Nat, j =< k
  PROVE  /\ Cardinality({i \in S : i < j}) \in Nat
         /\ Cardinality({i \in S : i < k}) \in Nat
         /\ Cardinality({i \in S : i < j}) <= Cardinality({i \in S : i < k})
<1>1. {i \in S : i < k} \subseteq 0..k /\ {i \in S : i < j} \subseteq {i \in S : i < k}
  <2>1. ASSUME NEW i \in S PROVE i \in Nat /\ (i < k => i \in 0..k) /\ (i < j => i < k)
    OBVIOUS
  <2> QED
    BY <2>1
<1>2. IsFiniteSet(0..k)
  BY FS_Interval, 0 \in Int
<1>3. IsFiniteSet({i \in S : i < k})
  BY <1>1, <1>2, FS_Subset
<1> QED
  BY <1>1, <1>3, FS_Subset, FS_CardinalityType

(* A query returns the blocks right after the cursor: a stored block that  *)
(* is left out by the limit has every later one left out too.              *)
LEMMA ReadStep ==
  ASSUME PipelineInv, ReadEvents
  PROVE  BatchInv'
<1> USE StreamAssumption, ParserAssumption DEF None
<1>1. /\ cursor \in Nat /\ cursor # 0 /\ cursor >= Genesis /\ events \subseteq Nat
  BY DEF PipelineInv, ParserTypeOK, StoredInv, ReadEvents
<1>2. batch' = {k \in Unparsed : Cardinality({i \in Unparsed : i < k}) < BatchLimit}
  BY DEF ReadEvents
<1>3. Unparsed \in SUBSET Nat /\ \A k : k \in Unparsed <=> k \in events /\ k > cursor
  BY <1>1 DEF Unparsed
<1>4. ASSUME NEW k, k \in batch', NEW j \in (cursor + 1)..k PROVE j \in batch'
  <2>1. k \in Unparsed /\ k \in Nat /\ Cardinality({i \in Unparsed : i < k}) < BatchLimit
    BY <1>2, <1>3, <1>4
  <2>2. j \in Genesis..k /\ j \in Nat /\ j =< k /\ j > cursor
    BY <1>1, <1>4, <2>1
  <2>3. j \in Unparsed
    BY <1>3, <2>1, <2>2 DEF PipelineInv, StoredInv, EventsGapFree
  <2> DEFINE a == Cardinality({i \in Unparsed : i < j})
             b == Cardinality({i \in Unparsed : i < k})
  <2>4. a \in Nat /\ b \in Nat /\ a <= b /\ b < BatchLimit
    BY <1>3, <2>1, <2>2, CountBelow
  <2>5. a < BatchLimit
    <3> HIDE DEF a, b
    <3> QED
      BY <2>4
  <2> QED
    BY <1>2, <2>3, <2>5
<1>5. \A k \in batch' : k \in events /\ k > cursor
  BY <1>2, <1>3
<1>6. UNCHANGED <<events, cursor, pc>> /\ pc = "next" /\ cursor # None
  BY DEF ReadEvents
<1>7. \A k \in batch' : (cursor + 1)..k \subseteq batch'
  BY <1>4
<1> QED
  BY <1>5, <1>6, <1>7 DEF BatchInv

(* Parsing a block moves the cursor to it and adds it to those handled. *)
LEMMA ParseStep ==
  ASSUME PipelineInv, ParseTxs
  PROVE  /\ cursor # None /\ cursor' = cursor + 1 /\ cursor' \in events
         /\ handled' = handled \cup {cursor + 1}
         /\ BatchInv' /\ HandledInv'
<1> USE StreamAssumption DEF None
<1>1. PICK blk \in batch :
        /\ \A k \in batch : blk =< k
        /\ cursor' = blk
        /\ batch' = batch \ {blk}
        /\ handled' = handled \cup {blk}
  BY DEF ParseTxs
<1>2. blk = cursor + 1
  BY <1>1, NextOfBatch
<1>3. cursor \in Nat /\ cursor # 0 /\ batch \subseteq events /\ events \subseteq Nat
      /\ UNCHANGED <<events, lastHbProcessed>>
  BY <1>1 DEF PipelineInv, ParserTypeOK, BatchInv, ParseTxs
<1>4. BatchInv'
  <2>1. ASSUME NEW k \in batch' PROVE k > cursor' /\ (cursor' + 1)..k \subseteq batch'
    BY <1>1, <1>2, <1>3 DEF PipelineInv, BatchInv
  <2> QED
    BY <1>1, <1>2, <1>3, <2>1 DEF BatchInv
<1>5. HandledInv'
  <2>1. /\ (Genesis + 1)..Resume \subseteq handled
        /\ (Genesis + 1)..cursor \subseteq handled
        /\ Resume =< cursor /\ Resume' = Resume /\ Resume \in Nat
    BY <1>3 DEF PipelineInv, ParserTypeOK, HandledInv, CheckpointCoversHandled, Resume
  <2>2. (Genesis + 1)..cursor' \subseteq handled'
    BY <1>1, <1>2, <1>3, <2>1
  <2> QED
    BY <1>1, <1>2, <1>3, <2>1, <2>2 DEF HandledInv, CheckpointCoversHandled
<1> QED
  BY <1>1, <1>2, <1>3, <1>4, <1>5

(* Steps that store nothing, parse nothing and start no process. *)
LEMMA OtherSteps ==
  ASSUME PipelineInv,
         Streams \/ SaveLastHb \/ TrackHead \/ ParseBlock \/ SampleLags
  PROVE  StoredInv' /\ BatchInv' /\ HandledInv'
<1> USE DEF None, StoredInv, EventsGapFree, BatchInv, HandledInv, CheckpointCoversHandled,
            Resume, PipelineInv
<1>1. CASE Streams
  BY <1>1 DEF Streams
<1>2. CASE SaveLastHb
  BY <1>2 DEF SaveLastHb, parseVars
<1>3. CASE TrackHead
  BY <1>3 DEF TrackHead, ingestVars, parseVars
<1>4. CASE ParseBlock
  BY <1>4 DEF ParseBlock, ingestVars
<1>5. CASE SampleLags
  BY <1>5 DEF SampleLags, ingestVars, parseVars
<1> QED
  BY <1>1, <1>2, <1>3, <1>4, <1>5

\* Every step keeps the inductive invariant.
LEMMA PipelineStep ==
  ASSUME PipelineInv, [PNext]_vars
  PROVE  PipelineInv'
<1> USE StreamAssumption DEF None
<1>0. ParserTypeOK'
  BY ParserTypeStep DEF PipelineInv
<1>1. CASE Streams
  <2>1. NextIn \in Nat /\ Queued(NextIn) /\ StreamTypeOK /\ Next
    BY <1>1 DEF PipelineInv, ParserTypeOK, StreamTypeOK, QueueInv, NextIn, Queued, Streams
  <2>2. Next => UNCHANGED startBlock
    BY DEF Next, Fetch, HiveBlock, fetchVars, StartSet, SetArrives, SetFails, GoLive, DrainMap,
           PollHead, FetchRange, YieldBlock, FetchHead
  <2>3. NextIn' = NextIn /\ UNCHANGED <<startBlock, events>>
    BY <1>1, <2>1, <2>2 DEF NextIn, Streams
  <2>4. ASSUME NEW from \in Nat, from = NextIn PROVE Queued(from)'
    BY <2>1, <2>4, StreamsQueue
  <2>5. QueueInv'
    BY <2>1, <2>3, <2>4 DEF PipelineInv, QueueInv, Queued
  <2> QED
    BY <1>0, <1>1, <2>5, OtherSteps DEF PipelineInv
<1>2. CASE Ingest
  <2>1. QueueInv' /\ StoredInv'
    BY <1>2, IngestStep
  <2>2. BatchInv' /\ HandledInv'
    BY <1>2 DEF Ingest, parseVars, PipelineInv, BatchInv, HandledInv, CheckpointCoversHandled, Resume
  <2> QED
    BY <1>0, <2>1, <2>2 DEF PipelineInv
<1>3. CASE SaveLastHb \/ TrackHead \/ ParseBlock \/ SampleLags
  <2>1. QueueInv'
    BY <1>3 DEF SaveLastHb, TrackHead, ParseBlock, SampleLags, streamVars, ingestVars, parseVars,
                PipelineInv, QueueInv, NextIn
  <2> QED
    BY <1>0, <1>3, <2>1, OtherSteps DEF PipelineInv
<1>4. CASE StartParsing
  <2>1. cursor' = Resume /\ cursor' \in events /\ Resume' = Resume
    BY <1>4, FirstPosition DEF StartParsing, Resume
  <2>2. QueueInv' /\ StoredInv'
    BY <1>4, <2>1 DEF StartParsing, streamVars, ingestVars, PipelineInv, QueueInv, NextIn,
                      StoredInv, EventsGapFree
  <2>3. batch = {} /\ pc = "next"
    BY <1>4 DEF StartParsing, PipelineInv, BatchInv
  <2>4. BatchInv'
    BY <1>4, <2>3 DEF StartParsing, BatchInv
  <2>5. HandledInv'
    BY <1>4, <2>1 DEF StartParsing, PipelineInv, ParserTypeOK, HandledInv, CheckpointCoversHandled, Resume
  <2> QED
    BY <1>0, <2>2, <2>4, <2>5 DEF PipelineInv
<1>5. CASE ReadEvents
  <2>1. QueueInv' /\ StoredInv' /\ HandledInv'
    BY <1>5 DEF ReadEvents, streamVars, ingestVars, PipelineInv, QueueInv, NextIn,
                StoredInv, EventsGapFree, HandledInv, CheckpointCoversHandled, Resume
  <2> QED
    BY <1>0, <1>5, <2>1, ReadStep DEF PipelineInv
<1>6. CASE ParseTxs
  <2>1. cursor' \in events /\ BatchInv' /\ HandledInv'
    BY <1>6, ParseStep
  <2>2. QueueInv' /\ StoredInv'
    BY <1>6, <2>1 DEF ParseTxs, streamVars, ingestVars, PipelineInv, QueueInv, NextIn,
                      StoredInv, EventsGapFree
  <2> QED
    BY <1>0, <2>1, <2>2 DEF PipelineInv
<1>7. CASE SaveProcessed
  <2>1. QueueInv' /\ StoredInv' /\ BatchInv'
    BY <1>7 DEF SaveProcessed, streamVars, ingestVars, PipelineInv, QueueInv, NextIn,
                StoredInv, EventsGapFree, BatchInv
  <2>2. cursor # None /\ lastHbProcessed' = cursor /\ UNCHANGED <<cursor, handled>>
    BY <1>7 DEF SaveProcessed, PipelineInv, BatchInv
  <2>3. HandledInv'
    BY <2>2 DEF PipelineInv, ParserTypeOK, HandledInv, CheckpointCoversHandled, Resume
  <2> QED
    BY <1>0, <2>1, <2>3 DEF PipelineInv
<1>8. CASE Crash \/ WatchdogExit
  <2>1. StartProcess
    BY <1>8 DEF Crash, WatchdogExit
  <2> QED
    BY <1>0, <2>1, StartStep DEF PipelineInv
<1>9. CASE UNCHANGED vars
  BY <1>0, <1>9 DEF vars, streamVars, PipelineInv, QueueInv, NextIn, StoredInv, EventsGapFree,
                    BatchInv, HandledInv, CheckpointCoversHandled, Resume
<1> QED
  BY <1>1, <1>2, <1>3, <1>4, <1>5, <1>6, <1>7, <1>8, <1>9 DEF PNext, Parse

\* It holds at the start.
LEMMA PipelineInit == PInit => PipelineInv
<1> SUFFICES ASSUME PInit PROVE PipelineInv
  OBVIOUS
<1> USE StreamAssumption DEF None
<1>1. ParserTypeOK
  BY ParserTypeInit
<1>2. Len(streamOut) = 0 /\ lastBlk = 0 /\ parserHeight = startBlock /\ startBlock = Genesis
  BY EmptySeq DEF PInit, Init, Fresh, ParserInit
<1>3. QueueInv
  BY <1>2 DEF QueueInv, NextIn
<1> QED
  BY <1>1, <1>3 DEF PInit, ParserInit, PipelineInv, StoredInv, EventsGapFree, BatchInv,
                    HandledInv, CheckpointCoversHandled, Resume

\* So it always holds.
LEMMA PipelineInvariant == PSpec => []PipelineInv
<1>1. PInit => PipelineInv
  BY PipelineInit
<1>2. PipelineInv /\ [PNext]_vars => PipelineInv'
  BY PipelineStep
<1> QED
  BY <1>1, <1>2, PTL DEF PSpec

-------------------------------------------------------------------------------
(* What the pipeline promises. *)

(* The stored chain never has a hole: blocks in flight at a crash are      *)
(* fetched again, as last_hb is never ahead of what is stored.             *)
THEOREM EventsAreGapFree == PSpec => []EventsGapFree
<1>1. PipelineInv => EventsGapFree
  BY DEF PipelineInv, StoredInv
<1> QED
  BY <1>1, PipelineInvariant, PTL

(* The blocks up to the position a restarted process goes on from have all *)
(* been through all parsers.                                               *)
THEOREM CheckpointsCoverHandled == PSpec => []CheckpointCoversHandled
<1>1. PipelineInv => CheckpointCoversHandled
  BY DEF PipelineInv, HandledInv
<1> QED
  BY <1>1, PipelineInvariant, PTL

(* Within a process the cursor stays or advances by one block. *)
THEOREM ParserSequence == PSpec => ParsedInSequence
<1>1. PipelineInv /\ [PNext]_vars =>
        [(cursor # None /\ cursor' # None) => cursor' \in {cursor, cursor + 1}]_vars
  <2> SUFFICES ASSUME PipelineInv, PNext, cursor # None, cursor' # None
               PROVE  cursor' \in {cursor, cursor + 1}
    OBVIOUS
  <2>1. CASE ParseTxs
    BY <2>1, ParseStep
  <2>2. CASE Crash \/ WatchdogExit
    BY <2>2 DEF Crash, WatchdogExit, StartProcess
  <2>3. CASE Streams \/ Ingest \/ SaveLastHb \/ TrackHead \/ StartParsing \/ ReadEvents
             \/ ParseBlock \/ SaveProcessed \/ SampleLags
    BY <2>3 DEF Streams, Ingest, SaveLastHb, TrackHead, StartParsing, ReadEvents, ParseBlock,
                SaveProcessed, SampleLags, parseVars
  <2> QED
    BY <2>1, <2>2, <2>3 DEF PNext, Parse
<1> QED
  BY <1>1, PipelineInvariant, PTL DEF PSpec, ParsedInSequence

(* The pipeline implements BlockFeed: parsing a block is Handle, starting  *)
(* a process is Rewind, and every other step is a stutter.                 *)
THEOREM ImplementsFeed == PSpec => FeedSpec
<1> DEFINE position == IF cursor # None THEN cursor ELSE Resume
<1>1. PInit => Feed!Init
  BY DEF PInit, ParserInit, Feed!Init, Resume
<1>2. PipelineInv /\ [PNext]_vars => [Feed!Next]_<<position, handled>>
  <2> SUFFICES ASSUME PipelineInv, [PNext]_vars
               PROVE  Feed!Next \/ UNCHANGED <<position, handled>>
    OBVIOUS
  <2> USE StreamAssumption DEF None
  <2>1. CASE ParseTxs
    <3>1. cursor # None /\ cursor' = cursor + 1 /\ handled' = handled \cup {cursor + 1}
      BY <2>1, ParseStep
    <3>2. cursor' # None
      BY <3>1 DEF PipelineInv, ParserTypeOK
    <3> QED
      BY <3>1, <3>2 DEF Feed!Next, Feed!Handle
  <2>2. CASE Crash \/ WatchdogExit
    <3>1. cursor' = None /\ UNCHANGED <<lastHbProcessed, handled>>
      BY <2>2 DEF Crash, WatchdogExit, StartProcess
    <3>2. position' = Resume
      BY <3>1 DEF Resume
    <3>3. Resume \in Nat /\ position \in Nat /\ Genesis =< Resume /\ Resume =< position
      BY DEF PipelineInv, ParserTypeOK, StoredInv, HandledInv, Resume
    <3> QED
      BY <3>1, <3>2, <3>3 DEF Feed!Next, Feed!Rewind
  <2>3. CASE StartParsing
    <3>1. cursor' = Resume /\ cursor' \in events /\ cursor = None /\ UNCHANGED handled
      BY <2>3, FirstPosition DEF StartParsing
    <3>2. cursor' # None /\ Resume' = Resume
      BY <2>3, <3>1 DEF PipelineInv, StoredInv, StartParsing, Resume
    <3> QED
      BY <3>1, <3>2
  <2>4. CASE SaveProcessed
    <3>1. cursor # None /\ UNCHANGED <<cursor, handled>>
      BY <2>4 DEF SaveProcessed, PipelineInv, BatchInv
    <3> QED
      BY <3>1
  <2>5. CASE Streams \/ Ingest \/ SaveLastHb \/ TrackHead \/ ReadEvents
             \/ ParseBlock \/ SampleLags \/ UNCHANGED vars
    BY <2>5 DEF Streams, Ingest, SaveLastHb, TrackHead, ReadEvents, ParseBlock,
                SampleLags, parseVars, vars, Resume
  <2> QED
    BY <2>1, <2>2, <2>3, <2>4, <2>5 DEF PNext, Parse
<1> QED
  BY <1>1, <1>2, PipelineInvariant, PTL DEF PSpec, FeedSpec, Feed!Spec

-------------------------------------------------------------------------------
(* What a restart repeats. *)

(* Since the checkpoint the parsers have come by no height at which one is *)
(* due, but the one that is just being written.                            *)
Due(k) == k % SaveEvery = 0

ReplayInv ==
  /\ PipelineInv
  /\ ReplayBounded
  /\ \A k \in (Resume + 1)..cursor : Due(k) => k = cursor /\ pc = "save"

(* A checkpoint is due within SaveEvery blocks. *)
LEMMA NextDue ==
  ASSUME NEW r \in Nat
  PROVE  \E k \in (r + 1)..(r + SaveEvery) : Due(k)
<1> DEFINE S == SaveEvery
           d == r \div S
           k == S * d + S
<1>1. S \in Nat \ {0}
  BY ParserAssumption
<1>2. d \in Nat /\ r = S * d + (r % S) /\ r % S \in 0..(S - 1) /\ S * d \in Nat
  BY <1>1
<1>3. k \in (r + 1)..(r + S)
  BY <1>1, <1>2
<1>4. k % S = 0
  <2>1. k = S * (d + 1)
    BY <1>1, <1>2
  <2>2. (S * (d + 1)) % S = 0
    BY <1>1, <1>2
  <2> QED
    BY <2>1, <2>2
<1> QED
  BY <1>3, <1>4 DEF Due

\* Every step keeps what a restart may replay.
LEMMA ReplayStep == ReplayInv /\ [PNext]_vars => ReplayInv'
<1> SUFFICES ASSUME ReplayInv, [PNext]_vars PROVE ReplayInv'
  OBVIOUS
<1>1. PipelineInv /\ PipelineInv'
  BY PipelineStep DEF ReplayInv
<1>2. /\ cursor \in Nat /\ Resume \in Nat /\ handled \subseteq Nat /\ SaveEvery \in Nat \ {0}
      /\ cursor # None => Resume =< cursor
  BY <1>1, StreamAssumption, ParserAssumption DEF PipelineInv, ParserTypeOK, HandledInv, Resume
<1>3. CASE ParseTxs
  <2>1. /\ cursor # None /\ cursor' = cursor + 1 /\ handled' = handled \cup {cursor + 1}
        /\ Resume' = Resume /\ pc = "txs"
    BY <1>1, <1>3, ParseStep DEF ParseTxs, Resume
  <2>2. PICK k \in (Resume + 1)..(Resume + SaveEvery) : Due(k)
    BY <1>2, NextDue
  <2>3. ~(k =< cursor)
    BY <1>2, <2>1, <2>2 DEF ReplayInv
  <2>4. cursor + 1 =< Resume + SaveEvery
    BY <1>2, <2>2, <2>3
  <2>5. ReplayBounded'
    BY <1>2, <2>1, <2>4 DEF ReplayInv, ReplayBounded
  <2>6. ASSUME NEW i \in (Resume + 1)..cursor', Due(i) PROVE i = cursor' /\ pc' = "save"
    <3>1. i = cursor'
      BY <1>2, <2>1, <2>6 DEF ReplayInv
    <3>2. SavesCheckpoint(i)
      BY <2>6 DEF SavesCheckpoint, Due
    <3> QED
      BY <1>3, <3>1, <3>2 DEF ParseTxs
  <2> QED
    BY <1>1, <2>1, <2>5, <2>6 DEF ReplayInv
<1>4. CASE SaveProcessed
  <2>1. cursor # None /\ lastHbProcessed' = cursor /\ UNCHANGED <<cursor, handled>>
    BY <1>1, <1>4 DEF SaveProcessed, PipelineInv, BatchInv
  <2>2. Resume' = cursor /\ Resume =< cursor
    BY <1>2, <2>1 DEF Resume
  <2>3. ReplayBounded'
    BY <1>2, <2>1, <2>2 DEF ReplayInv, ReplayBounded
  <2> QED
    BY <1>1, <1>2, <2>1, <2>2, <2>3 DEF ReplayInv
<1>5. CASE StartParsing
  <2>1. cursor' = Resume /\ UNCHANGED <<lastHbProcessed, handled>>
    BY <1>1, <1>5, FirstPosition DEF StartParsing
  <2>2. Resume' = Resume
    BY <2>1 DEF Resume
  <2> QED
    BY <1>1, <1>2, <2>1, <2>2 DEF ReplayInv, ReplayBounded
<1>6. CASE Crash \/ WatchdogExit
  <2>1. cursor' = None /\ UNCHANGED <<lastHbProcessed, handled>>
    BY <1>6 DEF Crash, WatchdogExit, StartProcess
  <2>2. Resume' = Resume
    BY <2>1 DEF Resume
  <2>3. \A k \in (Resume + 1)..0 : FALSE
    BY <1>2
  <2> QED
    BY <1>1, <2>1, <2>2, <2>3 DEF ReplayInv, ReplayBounded, None
<1>7. CASE \/ Streams \/ Ingest \/ SaveLastHb \/ TrackHead \/ ReadEvents \/ ParseBlock
           \/ SampleLags \/ UNCHANGED vars
  <2>1. UNCHANGED <<lastHbProcessed, handled, cursor>>
    BY <1>7 DEF Streams, Ingest, SaveLastHb, TrackHead, ReadEvents, ParseBlock, SampleLags,
                parseVars, vars
  <2>2. Resume' = Resume
    BY <2>1 DEF Resume
  <2>3. pc = "save" => pc' = "save"
    BY <1>7 DEF Streams, Ingest, SaveLastHb, TrackHead, ReadEvents, ParseBlock, SampleLags,
                parseVars, vars
  <2> QED
    BY <1>1, <2>1, <2>2, <2>3 DEF ReplayInv, ReplayBounded
<1> QED
  BY <1>3, <1>4, <1>5, <1>6, <1>7 DEF PNext, Parse

(* A restart runs the parsers again on at most SaveEvery blocks, however   *)
(* often the process has stopped and however far it was from the head: the *)
(* checkpoints of processEventStream.                                      *)
THEOREM RestartsReplayLittle == PSpec => []ReplayBounded
<1>1. PInit => ReplayInv
  <2> SUFFICES ASSUME PInit PROVE ReplayInv
    OBVIOUS
  <2>1. cursor = 0 /\ handled = {} /\ Resume \in Nat
    BY StreamAssumption DEF PInit, ParserInit, Resume, None
  <2> QED
    BY <2>1, PipelineInit DEF ReplayInv, ReplayBounded
<1>2. ReplayInv => ReplayBounded
  BY DEF ReplayInv
<1> QED
  BY <1>1, <1>2, ReplayStep, PTL DEF PSpec

-------------------------------------------------------------------------------
(* The fetcher alone. *)

(* What startStream emits is the chain from the start block on, each       *)
(* height once and in order, whatever sets of blocks arrive when, fail, or *)
(* reach it again through the live loop.                                   *)
THEOREM StreamIsInOrder == Spec => []EmittedInOrder
<1> DEFINE Inv == StreamTypeOK /\ Queued(startBlock)
<1>1. Init => Inv
  <2> SUFFICES ASSUME Init PROVE Inv
    OBVIOUS
  <2>1. /\ head \in Nat /\ startBlock = Genesis /\ parserHeight = Genesis /\ streamOut = <<>>
        /\ blockMap = {} /\ phase \in {"batch", "live"} /\ nextSet = 0 /\ running = {}
        /\ lastBlock = Genesis /\ bh = 0 /\ pending = <<1, 0>>
    BY StreamAssumption DEF Init, Fresh, NoBlock, Drained
  <2>2. Cardinality(running) = 0
    BY <2>1, FS_EmptySet
  <2> QED
    BY <2>1, <2>2, StreamAssumption DEF StreamTypeOK, Queued
<1>2. Inv /\ [Next]_streamVars => Inv'
  <2> SUFFICES ASSUME Inv, [Next]_streamVars PROVE Inv'
    OBVIOUS
  <2>1. CASE Next
    <3>1. startBlock' = startBlock
      BY <2>1 DEF Next, Fetch, HiveBlock, fetchVars, StartSet, SetArrives, SetFails, GoLive,
                  DrainMap, PollHead, FetchRange, YieldBlock, FetchHead
    <3>2. ASSUME NEW from \in Nat, from = startBlock PROVE Queued(from)'
      BY <2>1, <3>2, StreamsQueue
    <3>3. Queued(startBlock)'
      BY <3>1, <3>2 DEF StreamTypeOK, Queued
    <3> QED
      BY <2>1, <3>3, StreamTypeStep
  <2>2. CASE UNCHANGED streamVars
    BY <2>2 DEF streamVars, StreamTypeOK, Queued, EndSet
  <2> QED
    BY <2>1, <2>2
<1>3. Inv => EmittedInOrder
  BY DEF Queued, EmittedInOrder
<1> QED
  BY <1>1, <1>2, <1>3, PTL DEF Spec

===============================================================================
