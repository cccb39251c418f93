----------------------------- MODULE VoteThreshold -----------------------------
(***************************************************************************)
(* How much of the last election's weight must sign the next one:          *)
(* minimalRequiredElectionVotes of witness/electionManager.ts.  Two thirds *)
(* right after an election, falling with time to one half and one, so that *)
(* a network that lost a third of its weight can still elect.              *)
(***************************************************************************)
EXTENDS Integers

CONSTANTS
  MinSince,  \* MIN_BLOCKS_SINCE_LAST_ELECTION (1200 in the code)
  MaxSince   \* MAX_BLOCKS_SINCE_LAST_ELECTION (403200 in the code)

ASSUME SinceAssumption == MinSince \in Nat /\ MaxSince \in Nat \ {0} /\ MinSince =< MaxSince

MinMembers(w) == w \div 2 + 1
MaxMembers(w) == (2 * w + 2) \div 3

\* The function throws too early after an election, and on a weight so small
\* that there is nothing between the two limits (class Range).
Throws(since, w) == since < MinSince \/ MaxMembers(w) =< MinMembers(w)

\* What is left of the time in which the threshold falls.
Left(since) == IF since < MaxSince THEN MaxSince - since ELSE 0

\* Mutant: the drift is not inverted, so that the threshold rises.
MinVotesRising(since, w) ==
  LET span == (MaxSince - Left(since)) * (MaxMembers(w) - MinMembers(w))
  IN (2 * (MinMembers(w) * MaxSince + span) + MaxSince) \div (2 * MaxSince)

\* Mutant: the lower limit is half the weight.
MinVotesHalf(since, w) ==
  LET span == Left(since) * (MaxMembers(w) - w \div 2)
  IN (2 * ((w \div 2) * MaxSince + span) + MaxSince) \div (2 * MaxSince)

\* Mutant: two thirds at all times.
MinVotesFixed(since, w) == MaxMembers(w)

\* Math.round of a fraction: half and more is rounded up.
MinVotes(since, w) ==
  LET span == Left(since) * (MaxMembers(w) - MinMembers(w))
  IN (2 * (MinMembers(w) * MaxSince + span) + MaxSince) \div (2 * MaxSince)
===============================================================================
