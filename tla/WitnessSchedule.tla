---------------------------- MODULE WitnessSchedule ----------------------------
(***************************************************************************)
(* Who may propose a block in which slot: witness/schedule.ts.             *)
(*                                                                         *)
(* A round is TotalRounds slots of RoundLength Hive blocks.  Its slots are *)
(* shared out among the members elected last before the height that is     *)
(* asked for and shuffled with the id of the last Hive block before the    *)
(* round.  A node keeps the schedule it has computed last; the parser of   *)
(* blocks and the handler of proposals ask for schedules and wait for the  *)
(* database in between, while elections are indexed.                       *)
(***************************************************************************)
EXTENDS Integers, Sequences, FiniteSets, SequencesExt

CONSTANTS
  RoundLength, TotalRounds, \* of networks.ts
  Elections,    \* the results on Hive in order: [at, epoch, members]
  Start, Top,   \* the height the node starts from, and bound: the last one
  MaxCrashes    \* bound: restarts of the node

\* What the constants must be.
ScheduleAssumption ==
  /\ RoundLength \in Nat \ {0} /\ TotalRounds \in Nat \ {0}
  /\ DOMAIN Elections = 1..Len(Elections) /\ Len(Elections) \in Nat
  /\ \A i \in DOMAIN Elections :
       /\ Elections[i].at \in Nat /\ Elections[i].epoch \in Nat
       /\ DOMAIN Elections[i].members = 1..Len(Elections[i].members)
       /\ Len(Elections[i].members) \in Nat \ {0} /\ IsInjective(Elections[i].members)
  /\ \A i, j \in DOMAIN Elections :
       i < j => Elections[i].at < Elections[j].at /\ Elections[i].epoch < Elections[j].epoch
  /\ Start \in Nat /\ Top \in Nat /\ Start =< Top /\ MaxCrashes \in Nat

-------------------------------------------------------------------------------
(* calculateConsensusRound, weightedSchedule and shuffle. *)

PastRound(h) == h - (h % (RoundLength * TotalRounds))

\* Mutant: a key that was drawn stays among the keys.
ShuffledKeeping(arr, draws) == [i \in DOMAIN arr |-> arr[(draws[i] % Len(arr)) + 1]]

\* The keys are drawn one after the other; draws are the numbers the generator
\* gives for a seed.
Shuffled(arr, draws) ==
  LET keys[i \in 0..Len(arr)] ==
        IF i = 0 THEN [k \in DOMAIN arr |-> k]
        ELSE RemoveAt(keys[i - 1], (draws[i] % Len(keys[i - 1])) + 1)
  IN [i \in DOMAIN arr |-> arr[keys[i - 1][(draws[i] % Len(keys[i - 1])) + 1]]]

\* The slots go round the members.
Shares(members) == [x \in 1..TotalRounds |-> members[((x - 1) % Len(members)) + 1]]

\* applyBNSchedule.
Numbered(schedule, round) ==
  [i \in DOMAIN schedule |-> [account |-> schedule[i], bn |-> round + (i - 1) * RoundLength]]

Scheduled(members, draws, round) == Numbered(Shuffled(Shares(members), draws), round)

-------------------------------------------------------------------------------
Rounds == {PastRound(h) : h \in Start..Top}
Caller == {"parser", "handler"}

VARIABLES
  seed,     \* what the generator draws for the Hive block before each round
  indexed,  \* the election results in the database
  parsed,   \* the block parsed last
  parsing,  \* whether the next block is being parsed
  cache,    \* witnessSchedule: [round, epoch, schedule], or empty
  call,     \* of each caller: the height it has asked for and the epoch it has
            \* read, or empty
  answer,   \* of each caller: the height and the schedule it got last, or empty
  crashes

vars == <<seed, indexed, parsed, parsing, cache, call, answer, crashes>>

Draws == {d \in [1..TotalRounds -> 0..(TotalRounds - 1)] :
            \A i \in 1..TotalRounds : d[i] =< TotalRounds - i}

Init ==
  /\ seed \in [Rounds -> Draws]
  /\ indexed = {i \in DOMAIN Elections : Elections[i].at < Start}
  /\ parsed = Start - 1 /\ parsing = FALSE
  /\ cache = <<>> /\ call = [c \in Caller |-> <<>>] /\ answer = [c \in Caller |-> <<>>]
  /\ crashes = 0

\* getValidElectionOfblock and getMembersOfBlock: those before a block.
Before(known, h) == {i \in known : Elections[i].at < h}

ValidElection(known, h) ==
  Elections[CHOOSE i \in Before(known, h) : \A j \in Before(known, h) : j =< i]

-------------------------------------------------------------------------------
(* The blocks. *)

BeginBlock ==
  /\ ~parsing /\ parsed < Top /\ parsing' = TRUE
  /\ UNCHANGED <<seed, indexed, parsed, cache, call, answer, crashes>>

\* The block's election result, again perhaps.
Index ==
  /\ parsing /\ call["parser"] = <<>>
  /\ \E i \in DOMAIN Elections :
       Elections[i].at = parsed + 1 /\ i \notin indexed /\ indexed' = indexed \cup {i}
  /\ UNCHANGED <<seed, parsed, parsing, cache, call, answer, crashes>>

EndBlock ==
  /\ parsing /\ call["parser"] = <<>>
  /\ \A i \in DOMAIN Elections : Elections[i].at = parsed + 1 => i \in indexed
  /\ parsing' = FALSE /\ parsed' = parsed + 1
  /\ UNCHANGED <<seed, indexed, cache, call, answer, crashes>>

-------------------------------------------------------------------------------
(* getBlockSchedule. *)

\* The parser asks for the block it parses; the handler of a proposal waits
\* until the slot is parsed, and slots of long ago are turned down.
MayAsk(c, h) ==
  IF c = "parser" THEN parsing /\ h = parsed + 1
  ELSE h % RoundLength = 0 /\ h =< parsed /\ h > parsed - 2 * RoundLength

\* Mutant: the cache is told by the round alone.
HitsAnyEpoch(h, epoch) == cache # <<>> /\ cache.round = PastRound(h)

Hits(h, epoch) == cache # <<>> /\ cache.round = PastRound(h) /\ cache.epoch = epoch

\* Up to the second wait.
Ask(c, h) ==
  /\ call[c] = <<>> /\ MayAsk(c, h)
  /\ Before(indexed, h) # {}
  /\ LET epoch == ValidElection(indexed, h).epoch
     IN IF Hits(h, epoch)
        THEN /\ answer' = [answer EXCEPT ![c] = [at |-> h, schedule |-> cache.schedule]]
             /\ UNCHANGED call
        ELSE /\ call' = [call EXCEPT ![c] = [at |-> h, epoch |-> epoch]]
             /\ UNCHANGED answer
  /\ UNCHANGED <<seed, indexed, parsed, parsing, cache, crashes>>

\* The members are read anew.
Compute(c) ==
  /\ call[c] # <<>> /\ call' = [call EXCEPT ![c] = <<>>]
  /\ LET h == call[c].at
         round == PastRound(h)
         schedule == Scheduled(ValidElection(indexed, h).members, seed[round], round)
     IN /\ cache' = [round |-> round, epoch |-> call[c].epoch, schedule |-> schedule]
        /\ answer' = [answer EXCEPT ![c] = [at |-> h, schedule |-> schedule]]
  /\ UNCHANGED <<seed, indexed, parsed, parsing, crashes>>

\* Parsing goes on from some earlier block; the database is kept.
Crash ==
  /\ crashes < MaxCrashes /\ crashes' = crashes + 1
  /\ parsed' \in (Start - 1)..parsed /\ parsing' = FALSE
  /\ cache' = <<>> /\ call' = [c \in Caller |-> <<>>] /\ answer' = [c \in Caller |-> <<>>]
  /\ UNCHANGED <<seed, indexed>>

Next ==
  \/ BeginBlock \/ Index \/ EndBlock \/ Crash
  \/ \E c \in Caller : Compute(c) \/ \E h \in Start..Top : Ask(c, h)

Spec == Init /\ [][Next]_vars

-------------------------------------------------------------------------------
Answers == {answer[c] : c \in {d \in Caller : answer[d] # <<>>}}

ScheduleTypeOK ==
  /\ indexed \subseteq DOMAIN Elections /\ parsed \in (Start - 1)..Top /\ parsing \in BOOLEAN
  /\ cache # <<>> =>
       cache.round \in Rounds /\ \E i \in indexed : cache.epoch = Elections[i].epoch
  /\ \A a \in Answers : a.at \in Start..Top /\ Len(a.schedule) = TotalRounds

\* What a node answers is what Hive's blocks say: the members of the last
\* election before the height, whichever of the callers asked, whatever is in
\* the cache and however far the node has got.  All nodes agree on the proposer
\* of a slot.
HiveDecides ==
  \A a \in Answers :
    a.schedule = Scheduled(ValidElection(DOMAIN Elections, a.at).members,
                           seed[PastRound(a.at)], PastRound(a.at))

SlotsOf(schedule, m) == Cardinality({i \in DOMAIN schedule : schedule[i].account = m})

\* Whatever the shuffle, no member has two slots more than another one.
FairShares ==
  \A a \in Answers :
    LET members == Range(ValidElection(DOMAIN Elections, a.at).members)
    IN \A m1, m2 \in members : SlotsOf(a.schedule, m1) =< SlotsOf(a.schedule, m2) + 1

\* A schedule asked for a block has exactly one proposer for its slot.
OneProposer ==
  \A a \in Answers :
    Cardinality({i \in DOMAIN a.schedule : a.schedule[i].bn = a.at - (a.at % RoundLength)}) = 1
===============================================================================
