----------------------------- MODULE MCContractVm -----------------------------
(***************************************************************************)
(* Model-checking instances of ContractVm.  The first state chooses:       *)
(*   prompt  - two calls of up to three system calls on the state, which   *)
(*             are answered in time or run for ever; IPFS may fail once;   *)
(*   drawing - two calls of up to three system calls on the accounts of    *)
(*             two users and the contract;                                 *)
(*   late    - three calls of one system call on the state, which may all  *)
(*             take longer than their timers;                              *)
(*   mixed   - two such calls on the state and the accounts.               *)
(***************************************************************************)
EXTENDS ContractVm, TLC

CONSTANTS user, other, self, null, k1, v, v1, v2

MCFunds == (user :> 2) @@ (other :> 2) @@ (self :> 1)
MCLimit == [c \in 1..NumCalls |-> IF c = 1 THEN 1 ELSE 2]
MCWrites == [c \in 1..NumCalls |-> IF c = 1 THEN {v1} ELSE {v2}]
MCInitState == [k \in Key |-> IF k = k1 THEN v ELSE null]

MCAmounts == {-1, 2}
NoAmounts == {}
OneAmount == {1}
TwoLimit == [c \in 1..2 |-> MCLimit[c]]
TwoWrites == [c \in 1..2 |-> MCWrites[c]]
OneKey == {k1}
OneState == [k \in OneKey |-> v]
NoKeys == {}
NoState == [k \in NoKeys |-> v]

VARIABLE scenario

Prompt == INSTANCE ContractVm WITH
  NumCalls <- 2, Limit <- TwoLimit, Writes <- TwoWrites, Amounts <- NoAmounts, MaxTimeouts <- 0
Drawing == INSTANCE ContractVm WITH
  Key <- NoKeys, InitState <- NoState, NumCalls <- 2, Limit <- TwoLimit, Writes <- TwoWrites,
  MaxTimeouts <- 0, MaxFaults <- 0, Loops <- FALSE
Late == INSTANCE ContractVm WITH
  Key <- OneKey, InitState <- OneState, Amounts <- NoAmounts,
  MaxOps <- 1, MaxFaults <- 0, Loops <- FALSE
Mixed == INSTANCE ContractVm WITH
  Key <- OneKey, InitState <- OneState, NumCalls <- 2, Limit <- TwoLimit, Writes <- TwoWrites,
  Amounts <- OneAmount, MaxOps <- 1, MaxFaults <- 0, Loops <- FALSE

ASSUME CallsAssumption ==
  /\ Prompt!RunnerAssumption /\ Drawing!RunnerAssumption
  /\ Late!RunnerAssumption /\ Mixed!RunnerAssumption

MCInit ==
  \/ scenario = "prompt" /\ Prompt!Init
  \/ scenario = "drawing" /\ Drawing!Init
  \/ scenario = "late" /\ Late!Init
  \/ scenario = "mixed" /\ Mixed!Init

InPrompt == scenario = "prompt" /\ Prompt!Next /\ UNCHANGED scenario
InDrawing == scenario = "drawing" /\ Drawing!Next /\ UNCHANGED scenario
InLate == scenario = "late" /\ Late!Next /\ UNCHANGED scenario
InMixed == scenario = "mixed" /\ Mixed!Next /\ UNCHANGED scenario
HostInLate == scenario = "late" /\ Late!Host /\ UNCHANGED scenario
RunnerInLate == scenario = "late" /\ Late!RunnerStep /\ UNCHANGED scenario

MCSpec ==
  /\ MCInit /\ [][InPrompt \/ InDrawing \/ InLate \/ InMixed]_<<vars, scenario>>
  /\ WF_<<vars, scenario>>(HostInLate) /\ WF_<<vars, scenario>>(RunnerInLate)

\* VmTypeOK of each instance.
TypesOK ==
  /\ scenario = "prompt" => Prompt!VmTypeOK
  /\ scenario = "drawing" => Drawing!VmTypeOK
  /\ scenario = "late" => Late!VmTypeOK
  /\ scenario = "mixed" => Mixed!VmTypeOK

\* CallsAreAtomic of the calls on the state that are answered in time, in states of
\* their types.
PromptAreAtomic ==
  /\ []TypesOK
  /\ scenario = "prompt" => Prompt!Atomic!Init
  /\ [][scenario = "prompt" => Prompt!AtomicStep]_<<vars, scenario>>

\* A block whose calls time out ends, as long as none of them runs for ever.
LateBlockEnds == scenario = "late" => BlockEnds
===============================================================================
