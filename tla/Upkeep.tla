-------------------------------- MODULE Upkeep --------------------------------
(***************************************************************************)
(* Two more parts of a node, each on its own, of which the first state     *)
(* chooses one:                                                            *)
(*   upload  - FileUpload: files that peers ask a node to keep;            *)
(*   upgrade - IndexReset: a node that is started with another release.    *)
(* The variables of the other then are not used.                           *)
(***************************************************************************)
EXTENDS Integers, Sequences

CONSTANTS
  Peer, File, Null, MaxRequests, MaxFiles, MaxErrors,
  Genesis, LastBlock, Release, Collection, Kept, Synced, MaxStarts

VARIABLES
  service,
  requests, timers, handlers, pinned, answers, asked, made, came, errors,
  events, lastHb, blockReset, indexReset, processed, content, release, stage, todo, keep,
  next, cursor, starts

ofUpload == <<requests, timers, handlers, pinned, answers, asked, made, came, errors>>
ofUpgrade ==
  <<events, lastHb, blockReset, indexReset, processed, content, release, stage, todo, keep,
    next, cursor, starts>>
upkeepVars == <<service, ofUpload, ofUpgrade>>

Upload == INSTANCE FileUpload WITH MaxFaults <- MaxErrors, faults <- errors
Upgrade == INSTANCE IndexReset WITH Top <- LastBlock, pc <- stage

ASSUME UpkeepAssumption == Upload!UploadAssumption /\ Upgrade!ResetAssumption

-------------------------------------------------------------------------------
NoUpload ==
  /\ requests = <<>> /\ timers = {} /\ handlers = {} /\ pinned = {} /\ answers = {}
  /\ asked = {} /\ made = 0 /\ came = 0 /\ errors = 0
NoUpgrade ==
  /\ events = <<>> /\ lastHb = 0 /\ blockReset = <<>> /\ indexReset = <<>> /\ processed = 0
  /\ content = <<>> /\ release = 0 /\ stage = "none" /\ todo = {} /\ keep = 0 /\ next = 0
  /\ cursor = 0 /\ starts = 0

UpkeepInit ==
  \/ service = "upload" /\ Upload!Init /\ NoUpgrade
  \/ service = "upgrade" /\ Upgrade!Init /\ NoUpload

UpkeepNext ==
  \/ service = "upload" /\ Upload!Next /\ UNCHANGED <<service, ofUpgrade>>
  \/ service = "upgrade" /\ Upgrade!Next /\ UNCHANGED <<service, ofUpload>>

UpkeepSpec == UpkeepInit /\ [][UpkeepNext]_upkeepVars

-------------------------------------------------------------------------------
(* The properties are those of the modules, with their type invariants. *)

\* What is answered with success is pinned and was asked for, and no request is
\* without its timer.
UploadsAreKept ==
  service = "upload" =>
    Upload!UploadTypeOK /\ Upload!SuccessIsKept /\ Upload!RequestsHaveTimers

\* While a node runs its collections hold the blocks parsed by its release, those
\* a reset empties nothing else, and the parser is never ahead of the blocks.
IndexIsWhole ==
  service = "upgrade" =>
    Upgrade!ResetTypeOK /\ Upgrade!IndexIsWhole /\ Upgrade!ParsedIsStored
===============================================================================
