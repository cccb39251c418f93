------------------------------- MODULE Gathering -------------------------------
(***************************************************************************)
(* What a call over a channel promises who makes it: answers that nodes    *)
(* have given to this very call, each once, until the call is closed; from *)
(* then on what it has gathered stays as it is.                            *)
(***************************************************************************)
CONSTANTS Call, Answer

VARIABLES state,   \* of each call: none, open or closed
          offered, \* of each call: the answers given to it
          result   \* of each call: those it has gathered

Init ==
  /\ state = [c \in Call |-> "none"]
  /\ offered = [c \in Call |-> {}] /\ result = [c \in Call |-> {}]

Open(c) ==
  /\ state[c] = "none" /\ state' = [state EXCEPT ![c] = "open"]
  /\ UNCHANGED <<offered, result>>

Offer(c, a) ==
  /\ state[c] # "none" /\ a \notin offered[c]
  /\ offered' = [offered EXCEPT ![c] = @ \cup {a}]
  /\ UNCHANGED <<state, result>>

Take(c, a) ==
  /\ state[c] = "open" /\ a \in offered[c] \ result[c]
  /\ result' = [result EXCEPT ![c] = @ \cup {a}]
  /\ UNCHANGED <<state, offered>>

Close(c) ==
  /\ state[c] = "open" /\ state' = [state EXCEPT ![c] = "closed"]
  /\ UNCHANGED <<offered, result>>

Next ==
  \E c \in Call : Open(c) \/ Close(c) \/ \E a \in Answer : Offer(c, a) \/ Take(c, a)

Spec == Init /\ [][Next]_<<state, offered, result>>
===============================================================================
