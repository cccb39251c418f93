------------------------------ MODULE IndexReset ------------------------------
(***************************************************************************)
(* What a node keeps of its database when it is started with another       *)
(* release: VersionManager.init of witness/versionManager.ts, between the  *)
(* storing and the parsing of blocks (StreamParser), which go on from what *)
(* init leaves.                                                            *)
(*                                                                         *)
(* A release has two numbers.  A new index_reset_id says that its parsers  *)
(* write something else: what they have written is deleted, but for one    *)
(* collection, and parsed again.  A new index_block_reset_id says that it  *)
(* stores something else of a block: blocks after a given height are       *)
(* fetched again.  init is a sequence of writes, and the process may stop  *)
(* after each.                                                             *)
(***************************************************************************)
EXTENDS Integers, Sequences, FiniteSets, FiniteSetsExt

CONSTANTS
  Genesis, Top,  \* the first block of the network, and bound: the last one
  Release,        \* releases in order: [index, block, keep], of VersionConfig
  Collection,     \* the collections the parsers write
  Kept,           \* those that no reset empties: contract_versions
  Synced,         \* another release is started when this block is stored
  MaxStarts       \* bound: how often the process is started again

\* The ids of releases only grow, the one of blocks never without the other; a
\* release knows the earlier resets; what they keep is stored when it is started.
\* This is not assumed: VersionConfig says of the id of blocks that it "can be
\* decremented when trying a previous block reset".
ReleasesGrow ==
  /\ \A r \in DOMAIN Release : \A i \in DOMAIN Release[r].keep :
       Release[r].keep[i] \in Genesis..Synced
  /\ \A q, r \in DOMAIN Release : q =< r =>
       /\ Release[q].index =< Release[r].index /\ Release[q].block =< Release[r].block
       /\ Release[q].index = Release[r].index => Release[q].block = Release[r].block
       /\ \A i \in 1..Release[q].block : Release[q].keep[i] = Release[r].keep[i]

\* What the constants must be.
ResetAssumption ==
  /\ Genesis \in Nat \ {0} /\ Top \in Nat /\ Genesis =< Top
  /\ Release \in Seq([index : Nat, block : Nat, keep : Seq(Nat)]) /\ Release # <<>>
  /\ \A r \in DOMAIN Release : Len(Release[r].keep) >= Release[r].block
  /\ Kept \subseteq Collection /\ Synced \in Nat /\ MaxStarts \in Nat

VARIABLES
  \* the database
  events,     \* the blocks stored: height to the block reset id they were stored by
  lastHb,     \* stream_state's last_hb, index_block_reset, index_reset and
  blockReset, \* last_hb_processed
  indexReset,
  processed,
  content,    \* of each collection: what the parsers have written there
  \* the process
  release,    \* the release it runs
  pc,         \* where init is, or "run"
  todo,       \* collections init has still to empty
  keep,       \* init: lastBlockToKeep
  next,       \* the height to be stored next
  cursor,     \* the block parsed last
  starts

db == <<events, lastHb, blockReset, indexReset, processed, content>>
vars == <<db, release, pc, todo, keep, next, cursor, starts>>

None == 0             \* no entry; heights start at Genesis > 0
Infinity == Top + 1  \* Math.min of nothing, above every height

This == Release[release]
NoEvents == [h \in {} |-> 0]

Init ==
  /\ events = NoEvents /\ lastHb = None /\ blockReset = <<>> /\ indexReset = <<>>
  /\ processed = None /\ content = [c \in Collection |-> {}]
  /\ release = 1 /\ pc = "blocks" /\ todo = {} /\ keep = None
  /\ next = None /\ cursor = None /\ starts = 0

-------------------------------------------------------------------------------
(* init: the blocks. *)

MissingGenesis == events = NoEvents \/ Min(DOMAIN events) # Genesis

\* Mutant: the resets missed are counted from one too far.
KeepOfLater ==
  IF MissingGenesis THEN Genesis - 1
  ELSE Min({This.keep[i] : i \in (blockReset[1] + 2)..Len(This.keep)} \cup {Infinity})

\* The lowest block of all resets since the one recorded.
Keep ==
  IF MissingGenesis THEN Genesis - 1
  ELSE Min({This.keep[i] : i \in (blockReset[1] + 1)..Len(This.keep)} \cup {Infinity})

\* A database without an entry is left alone, unless blocks are missing.
CheckBlocks ==
  /\ pc = "blocks"
  /\ IF MissingGenesis \/ (blockReset # <<>> /\ blockReset # <<This.block>>)
     THEN pc' = "events" /\ keep' = Keep
     ELSE pc' = "index" /\ UNCHANGED keep
  /\ UNCHANGED <<db, release, todo, next, cursor, starts>>

DeleteEvents ==
  /\ pc = "events" /\ pc' = "lastHb"
  /\ events' = [h \in {i \in DOMAIN events : i =< keep} |-> events[h]]
  /\ UNCHANGED <<lastHb, blockReset, indexReset, processed, content>>
  /\ UNCHANGED <<release, todo, keep, next, cursor, starts>>

\* An update, which does not make the entry.
ResetLastHb ==
  /\ pc = "lastHb" /\ pc' = "blockId"
  /\ lastHb' = IF lastHb = None THEN None ELSE keep
  /\ UNCHANGED <<events, blockReset, indexReset, processed, content>>
  /\ UNCHANGED <<release, todo, keep, next, cursor, starts>>

SetBlockReset ==
  /\ pc = "blockId" /\ pc' = "index"
  /\ blockReset' = <<This.block>>
  /\ UNCHANGED <<events, lastHb, indexReset, processed, content>>
  /\ UNCHANGED <<release, todo, keep, next, cursor, starts>>

-------------------------------------------------------------------------------
(* init: what was parsed. *)

\* Mutant: the new id is recorded before the collections are emptied.
CheckIndexSetting ==
  /\ pc = "index"
  /\ IF indexReset = <<This.index>>
     THEN pc' = "start" /\ UNCHANGED <<todo, indexReset>>
     ELSE pc' = "empty" /\ todo' = Collection \ Kept /\ indexReset' = <<This.index>>
  /\ UNCHANGED <<events, lastHb, blockReset, processed, content>>
  /\ UNCHANGED <<release, keep, next, cursor, starts>>

CheckIndex ==
  /\ pc = "index"
  /\ IF indexReset = <<This.index>>
     THEN pc' = "start" /\ UNCHANGED todo
     ELSE pc' = "empty" /\ todo' = Collection \ Kept
  /\ UNCHANGED <<db, release, keep, next, cursor, starts>>

\* In the code in a fixed order.
Empty(c) ==
  /\ pc = "empty" /\ c \in todo
  /\ content' = [content EXCEPT ![c] = {}]
  /\ todo' = todo \ {c}
  /\ UNCHANGED <<events, lastHb, blockReset, indexReset, processed>>
  /\ UNCHANGED <<release, pc, keep, next, cursor, starts>>

DeleteProcessed ==
  /\ pc = "empty" /\ todo = {} /\ pc' = "indexId"
  /\ processed' = None
  /\ UNCHANGED <<events, lastHb, blockReset, indexReset, content>>
  /\ UNCHANGED <<release, todo, keep, next, cursor, starts>>

SetIndexReset ==
  /\ pc = "indexId" /\ pc' = "start"
  /\ indexReset' = <<This.index>>
  /\ UNCHANGED <<events, lastHb, blockReset, processed, content>>
  /\ UNCHANGED <<release, todo, keep, next, cursor, starts>>

-------------------------------------------------------------------------------
(* The stream and the parsers, from what init has left. *)

Start ==
  /\ pc = "start" /\ pc' = "run"
  /\ next' = IF lastHb = None THEN Genesis ELSE lastHb
  /\ cursor' = processed
  /\ UNCHANGED <<db, release, todo, keep, starts>>

\* _processBlock: a block is stored, again perhaps.
Store ==
  /\ pc = "run" /\ next =< Top /\ next' = next + 1
  /\ events' = [h \in DOMAIN events \cup {next} |->
                  IF h = next THEN This.block ELSE events[h]]
  /\ UNCHANGED <<lastHb, blockReset, indexReset, processed, content>>
  /\ UNCHANGED <<release, pc, todo, keep, cursor, starts>>

\* The timer, once a block was stored.
SaveLastHb ==
  /\ pc = "run" /\ next > Genesis /\ next - 1 \in DOMAIN events /\ lastHb # next - 1
  /\ next > lastHb
  /\ lastHb' = next - 1
  /\ UNCHANGED <<events, blockReset, indexReset, processed, content>>
  /\ UNCHANGED <<release, pc, todo, keep, next, cursor, starts>>

\* processEventStream: the first block stored is where it starts from.
First ==
  /\ pc = "run" /\ cursor = None /\ events # NoEvents
  /\ cursor' = Min(DOMAIN events)
  /\ UNCHANGED <<db, release, pc, todo, keep, next, starts>>

\* An entry that another release has written stays beside the new one unless they
\* are of one key.
Written(h) == [index |-> This.index, at |-> h, stored |-> events[h]]

Parse ==
  /\ pc = "run" /\ cursor # None
  /\ LET ahead == {h \in DOMAIN events : h > cursor}
     IN /\ ahead # {} /\ cursor' = Min(ahead)
        /\ content' = [c \in Collection |-> content[c] \cup {Written(Min(ahead))}]
  /\ UNCHANGED <<events, lastHb, blockReset, indexReset, processed>>
  /\ UNCHANGED <<release, pc, todo, keep, next, starts>>

SaveProcessed ==
  /\ pc = "run" /\ cursor # None /\ cursor > Genesis /\ processed # cursor
  /\ processed' = cursor
  /\ UNCHANGED <<events, lastHb, blockReset, indexReset, content>>
  /\ UNCHANGED <<release, pc, todo, keep, next, cursor, starts>>

\* The process stops wherever it is and is started with the same release or a
\* later one.
Restart ==
  /\ starts < MaxStarts /\ starts' = starts + 1
  /\ release' \in release..Len(Release)
  /\ release' = release \/ Synced \in DOMAIN events
  /\ pc' = "blocks" /\ todo' = {} /\ keep' = None /\ next' = None /\ cursor' = None
  /\ UNCHANGED db

-------------------------------------------------------------------------------
InitSteps ==
  \/ CheckBlocks \/ DeleteEvents \/ ResetLastHb \/ SetBlockReset
  \/ CheckIndex \/ (\E c \in Collection : Empty(c)) \/ DeleteProcessed \/ SetIndexReset
  \/ Start

Next == InitSteps \/ Store \/ SaveLastHb \/ First \/ Parse \/ SaveProcessed \/ Restart

Spec == Init /\ [][Next]_vars

\* init is awaited, the stream and the parser go on while the process runs.
FairSpec ==
  Spec /\ WF_vars(InitSteps) /\ WF_vars(Store) /\ WF_vars(First) /\ WF_vars(Parse)
       /\ WF_vars(SaveProcessed)

-------------------------------------------------------------------------------
Heights == (Genesis - 1)..Top

ResetTypeOK ==
  /\ DOMAIN events \subseteq Heights /\ lastHb \in {None} \cup Heights
  /\ processed \in {None} \cup Heights /\ cursor \in {None} \cup Heights
  /\ \A c \in Collection : \A w \in content[c] : w.at \in Heights
  /\ pc \in {"blocks", "events", "lastHb", "blockId", "index", "empty", "indexId", "start", "run"}
  /\ pc = "empty" \/ todo = {}

\* The resets which a block stored by this release is to be stored after.
Due(h) == {i \in 1..This.block : h > This.keep[i]}

OfThis(c) == {w \in content[c] : w.index = This.index}

\* index_block_reset_id "requires index_reset_id to be updated to trigger a
\* reindex of the new block data": while a node runs, every collection holds
\* what this release's parsers write of the blocks as far as they have got,
\* without a gap, and none of a block stored before a reset that it fell under.
\* The collections that a reset empties hold no entry of an earlier release.
IndexIsWhole ==
  pc = "run" =>
    \A c \in Collection :
      /\ c \notin Kept => content[c] = OfThis(c)
      /\ \A w \in OfThis(c) : \A i \in Due(w.at) : w.stored >= i
      /\ LET last == Max({w.at : w \in OfThis(c)} \cup {processed, Genesis})
         IN {w.at : w \in OfThis(c)} = (Genesis + 1)..last

\* What was parsed is stored: the parser never is ahead of the blocks.
ParsedIsStored == pc = "run" /\ processed # None => processed \in DOMAIN events

\* However often a node is stopped and upgraded, in the end all blocks are parsed.
CatchesUp == <>[](pc = "run" /\ processed = Top)
===============================================================================
