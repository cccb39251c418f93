------------------------------ MODULE PeerChannel ------------------------------
(***************************************************************************)
(* Calls of all nodes that listen to a channel: class PeerChannel of       *)
(* p2pService.ts, with multicast, as the block, withdrawal, election and   *)
(* key rotation rounds and the transaction pool use it.                    *)
(*                                                                         *)
(* A call publishes an init message with an id of its own.  A node that    *)
(* has a handler of the message's type starts it and publishes what the    *)
(* handler pushes under that id, and an end after the last one.  Who calls *)
(* gathers what comes with the id until its timer closes the call or, when *)
(* it wants the answer of a single node, the first end.  Messages arrive   *)
(* in any order or not at all.                                             *)
(***************************************************************************)
EXTENDS Integers, Sequences, FiniteSets, TLC

CONSTANTS
  Node, Call,
  Caller,   \* of each call: who makes it
  Type,     \* of each call: its message type
  Single,   \* calls that want the answer of a single node
  Timed,    \* calls with a streamTimeout
  Loopback, \* whether a node's handlers take its own calls
  MaxItems, \* bound: answers a handler gives
  MaxLost   \* bound: messages lost

\* What the constants must be.
ChannelAssumption ==
  /\ Caller \in [Call -> Node] /\ Single \subseteq Call /\ Timed \subseteq Call
  /\ Loopback \in BOOLEAN /\ MaxItems \in Nat /\ MaxLost \in Nat

VARIABLES
  net,     \* messages on their way: [to, call, type, from, kind, nr]
  state,   \* of each call: none, open or closed (drain.end())
  result,  \* of each call: what its drain was given, in order
  handler, \* of each node and call: none, run, thrown, ended or over
  pushed,  \* of each node and call: answers given by the handler,
  sent,    \* and published
  lost

vars == <<net, state, result, handler, pushed, sent, lost>>

Init ==
  /\ net = {} /\ state = [c \in Call |-> "none"] /\ result = [c \in Call |-> <<>>]
  /\ handler = [n \in Node |-> [c \in Call |-> "none"]]
  /\ pushed = [n \in Node |-> [c \in Call |-> 0]]
  /\ sent = [n \in Node |-> [c \in Call |-> 0]]
  /\ lost = 0

-------------------------------------------------------------------------------
(* Who calls. *)

\* What is published reaches every node; of answers, those who wait for them.
Msg(to, c, from, kind, nr) ==
  [to |-> to, call |-> c, type |-> Type[c], from |-> from, kind |-> kind, nr |-> nr]

Makes(c) ==
  /\ state[c] = "none" /\ state' = [state EXCEPT ![c] = "open"]
  /\ net' = net \cup {Msg(n, c, Caller[c], "init", 0) : n \in Node}
  /\ UNCHANGED <<result, handler, pushed, sent, lost>>

\* Mutant: answers are told by their type.
ForType(m, c) == m.type = Type[c] /\ m.to = Caller[c]

\* The listener of a call takes messages with its id.
For(m, c) == m.call = c /\ m.to = Caller[c]

\* A drain that has ended takes nothing more.
Taken(m, c) ==
  IF For(m, c) /\ m.kind = "item" /\ state[c] = "open"
  THEN Append(result[c], <<m.from, m.nr>>) ELSE result[c]

Closes(m, c) == For(m, c) /\ m.kind = "end" /\ c \in Single /\ state[c] = "open"

Hears(m) ==
  /\ m \in net /\ m.kind # "init" /\ net' = net \ {m}
  /\ result' = [c \in Call |-> Taken(m, c)]
  /\ state' = [c \in Call |-> IF Closes(m, c) THEN "closed" ELSE state[c]]
  /\ UNCHANGED <<handler, pushed, sent, lost>>

Timer(c) ==
  /\ c \in Timed /\ state[c] = "open"
  /\ state' = [state EXCEPT ![c] = "closed"]
  /\ UNCHANGED <<net, result, handler, pushed, sent, lost>>

-------------------------------------------------------------------------------
(* Who answers. *)

\* A node ignores what it has published itself, unless told otherwise.
Begins(m) ==
  /\ m \in net /\ m.kind = "init" /\ net' = net \ {m}
  /\ handler' = IF m.from = m.to /\ ~Loopback THEN handler
                ELSE [handler EXCEPT ![m.to][m.call] = "run"]
  /\ UNCHANGED <<state, result, pushed, sent, lost>>

Pushes(n, c) ==
  /\ handler[n][c] = "run" /\ pushed[n][c] < MaxItems
  /\ pushed' = [pushed EXCEPT ![n][c] = @ + 1]
  /\ UNCHANGED <<net, state, result, handler, sent, lost>>

\* The handler returns, or throws, and then its drain stays open.
Leaves(n, c) ==
  /\ handler[n][c] = "run"
  /\ \E how \in {"ended", "thrown"} : handler' = [handler EXCEPT ![n][c] = how]
  /\ UNCHANGED <<net, state, result, pushed, sent, lost>>

Publishes(n, c) ==
  /\ sent[n][c] < pushed[n][c] /\ sent' = [sent EXCEPT ![n][c] = @ + 1]
  /\ net' = net \cup {Msg(Caller[c], c, n, "item", sent[n][c] + 1)}
  /\ UNCHANGED <<state, result, handler, pushed, lost>>

\* No end without an answer.
Ends(n, c) ==
  /\ handler[n][c] = "ended" /\ sent[n][c] = pushed[n][c]
  /\ handler' = [handler EXCEPT ![n][c] = "over"]
  /\ net' = IF sent[n][c] = 0 THEN net ELSE net \cup {Msg(Caller[c], c, n, "end", 0)}
  /\ UNCHANGED <<state, result, pushed, sent, lost>>

Loses(m) ==
  /\ m \in net /\ lost < MaxLost /\ lost' = lost + 1 /\ net' = net \ {m}
  /\ UNCHANGED <<state, result, handler, pushed, sent>>

-------------------------------------------------------------------------------
Next ==
  \/ \E c \in Call : Makes(c) \/ Timer(c)
  \/ \E m \in net : Hears(m) \/ Begins(m) \/ Loses(m)
  \/ \E n \in Node, c \in Call : Pushes(n, c) \/ Leaves(n, c) \/ Publishes(n, c) \/ Ends(n, c)

Spec == Init /\ [][Next]_vars

-------------------------------------------------------------------------------
Answers == Node \X (1..MaxItems)

ChannelTypeOK ==
  /\ state \in [Call -> {"none", "open", "closed"}]
  /\ \A c \in Call : \A i \in DOMAIN result[c] : result[c][i] \in Answers
  /\ \A n \in Node, c \in Call :
       handler[n][c] \in {"none", "run", "thrown", "ended", "over"}
         /\ sent[n][c] =< pushed[n][c] /\ pushed[n][c] =< MaxItems

Elements(s) == {s[i] : i \in DOMAIN s}

Offered == [c \in Call |-> {a \in Answers : a[2] =< pushed[a[1]][c]}]
Gathered == [c \in Call |-> Elements(result[c])]

Gather == INSTANCE Gathering WITH
  Answer <- Answers, offered <- Offered, result <- Gathered

\* Calls gather the answers given to them.
GatherStep == [Gather!Next]_<<state, Offered, Gathered>>
GathersItsOwn == Gather!Init /\ [][GatherStep]_vars

\* No answer is gathered twice, whatever of the calls overlap.
NoneTwice ==
  \A c \in Call : Len(result[c]) = Cardinality(Elements(result[c]))

\* A node's own handler answers its calls if it is told to, and only then.
OwnAnswers ==
  ~Loopback => \A c \in Call : \A a \in Elements(result[c]) : a[1] # Caller[c]
===============================================================================
