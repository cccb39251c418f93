------------------------------ MODULE MCVscBlock ------------------------------
(***************************************************************************)
(* Model-checking instances of VscBlock: two members, of which alice has   *)
(* the majority alone and bob needs her signature.  The first state        *)
(* chooses what is sent and what fails:                                    *)
(*   pool    - two off-chain calls of one nonce;                           *)
(*   hive    - a transfer and a call on Hive;                              *)
(*   invalid - a transfer and an invalid one on Hive;                      *)
(*   late    - a call on Hive, and blocks that get into Hive so late that  *)
(*             it is another slot of their witness;                        *)
(*   crash   - a call on Hive, and nodes that crash;                       *)
(*   fetch   - a call on Hive, and a fetch that fails.                     *)
(***************************************************************************)
EXTENDS VscBlock

CONSTANTS alice, bob,  \* members
          pay, call, bad, off, alt, \* transactions
          Turns, \* the slots, counted from 0, that are alice's
          ShortHead \* MaxHead of the scenarios but "late"

MCWeight == [n \in Node |-> IF n = alice THEN 3 ELSE 1]
MCNonce == [t \in Tx \ HiveTx |-> 0]
ScheduleTo(head) ==
  [h \in 0..head |-> IF h \div RoundLength \in Turns THEN alice ELSE bob]
MCSchedule == ScheduleTo(MaxHead)
ShortSchedule == ScheduleTo(ShortHead)

OfPool == {off, alt}
PoolNonce == [t \in OfPool |-> 0]
OfHive == {pay, call}
PayAndBad == {pay, bad}
NoNonce == [t \in {} |-> 0]
OneCall == {call}
OneBad == {bad}

VARIABLE scenario

Pooled == INSTANCE VscBlock WITH
  Tx <- OfPool, HiveTx <- {}, Call <- OfPool, Invalid <- {}, NonceOf <- PoolNonce,
  MaxCrashes <- 0, MaxFetchErrors <- 0, MaxHead <- ShortHead, Schedule <- ShortSchedule
Sent == INSTANCE VscBlock WITH
  Tx <- OfHive, HiveTx <- OfHive, Call <- OneCall, Invalid <- {}, NonceOf <- NoNonce,
  MaxCrashes <- 0, MaxFetchErrors <- 0, MaxHead <- ShortHead, Schedule <- ShortSchedule
Failing == INSTANCE VscBlock WITH
  Tx <- PayAndBad, HiveTx <- PayAndBad, Call <- {}, Invalid <- OneBad, NonceOf <- NoNonce,
  MaxCrashes <- 0, MaxFetchErrors <- 0, MaxHead <- ShortHead, Schedule <- ShortSchedule
Late == INSTANCE VscBlock WITH
  Tx <- OneCall, HiveTx <- OneCall, Call <- OneCall, Invalid <- {}, NonceOf <- NoNonce,
  MaxCrashes <- 0, MaxFetchErrors <- 0
Crashing == INSTANCE VscBlock WITH
  Tx <- OneCall, HiveTx <- OneCall, Call <- OneCall, Invalid <- {}, NonceOf <- NoNonce,
  MaxFetchErrors <- 0, MaxHead <- ShortHead, Schedule <- ShortSchedule
Fetching == INSTANCE VscBlock WITH
  Tx <- OneCall, HiveTx <- OneCall, Call <- OneCall, Invalid <- {}, NonceOf <- NoNonce,
  MaxCrashes <- 0, MaxHead <- ShortHead, Schedule <- ShortSchedule

MCInit ==
  \/ scenario = "pool" /\ Pooled!Init
  \/ scenario = "hive" /\ Sent!Init
  \/ scenario = "invalid" /\ Failing!Init
  \/ scenario = "late" /\ Late!Init
  \/ scenario = "crash" /\ Crashing!Init
  \/ scenario = "fetch" /\ Fetching!Init

InPool == scenario = "pool" /\ Pooled!Next /\ UNCHANGED scenario
InHive == scenario = "hive" /\ Sent!Next /\ UNCHANGED scenario
InInvalid == scenario = "invalid" /\ Failing!Next /\ UNCHANGED scenario
InLate == scenario = "late" /\ Late!Next /\ UNCHANGED scenario
InCrash == scenario = "crash" /\ Crashing!Next /\ UNCHANGED scenario
InFetch == scenario = "fetch" /\ Fetching!Next /\ UNCHANGED scenario

MCSpec ==
  MCInit /\ [][InPool \/ InHive \/ InInvalid \/ InLate \/ InCrash \/ InFetch]_<<vars, scenario>>

\* Any of the transactions, and all that may fail (the run that expects a
\* violation).
FreeSpec ==
  /\ scenario = "free" /\ Init
  /\ [][Next /\ UNCHANGED scenario]_<<vars, scenario>>
===============================================================================
