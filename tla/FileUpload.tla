------------------------------ MODULE FileUpload ------------------------------
(***************************************************************************)
(* Uploads of files to the nodes: FileUploadManager.start of               *)
(* fileUploadManager.ts, at one node.                                      *)
(*                                                                         *)
(* A peer announces the cid of a file, then sends the file; the node signs *)
(* that it keeps the file, pins it and answers.  The node holds one        *)
(* request of each peer, with a timer.  Requests, files and timers come at *)
(* any time, also while a file that came before is being worked on.        *)
(***************************************************************************)
EXTENDS Integers, FiniteSets, TLC

CONSTANTS
  Peer, File,  \* who uploads, and what; a file stands for its cid as well
  Null,
  MaxRequests, \* bound: requests made
  MaxFiles,    \* bound: files sent
  MaxFaults    \* bound: calls of IPFS that fail

\* What the constants must be.
UploadAssumption ==
  Null \notin File /\ MaxRequests \in Nat /\ MaxFiles \in Nat /\ MaxFaults \in Nat

VARIABLES
  requests, \* of each peer: [file, timer], or Null
  timers,   \* timers that run: [peer, timer]
  handlers, \* files being worked on: [id, peer, request, file, pc]
  pinned,   \* files this node keeps
  answers,  \* what was published: [of, type, file]
  asked,    \* requests that were made: [peer, file]
  made, came, faults

vars == <<requests, timers, handlers, pinned, answers, asked, made, came, faults>>

Init ==
  /\ requests = [p \in Peer |-> Null] /\ timers = {} /\ handlers = {}
  /\ pinned = {} /\ answers = {} /\ asked = {} /\ made = 0 /\ came = 0 /\ faults = 0

-------------------------------------------------------------------------------
\* Step 1.  The timer of a request that is replaced runs on.
Request(p, f) ==
  /\ made < MaxRequests /\ made' = made + 1
  /\ requests' = [requests EXCEPT ![p] = [file |-> f, timer |-> made]]
  /\ timers' = timers \cup {[peer |-> p, timer |-> made]}
  /\ asked' = asked \cup {[peer |-> p, file |-> f]}
  /\ UNCHANGED <<handlers, pinned, answers, came, faults>>

\* A timer removes the request of its peer, whichever it is then.
Expire(t) ==
  /\ t \in timers /\ timers' = timers \ {t}
  /\ requests' = [requests EXCEPT ![t.peer] = Null]
  /\ UNCHANGED <<handlers, pinned, answers, asked, made, came, faults>>

-------------------------------------------------------------------------------
(* Step 2: the handler of a file, between its waits. *)

\* The request of the peer that sends the file.
Of(p) == {requests[p]} \ {Null}

Receive(p, f) ==
  /\ came < MaxFiles /\ came' = came + 1
  /\ IF Of(p) = {} THEN UNCHANGED handlers
     ELSE \E r \in Of(p) :
            handlers' = handlers \cup
              {[id |-> came, peer |-> p, request |-> r, file |-> f, pc |-> "hash"]}
  /\ UNCHANGED <<requests, timers, pinned, answers, asked, made, faults>>

Goto(h, pc) == handlers' = (handlers \ {h}) \cup {[h EXCEPT !.pc = pc]}

\* Mutant: the node answers before it pins.
MatchAnswering(h) ==
  /\ h.pc = "hash"
  /\ Goto(h, IF h.file = h.request.file THEN "answer" ELSE "refuse")
  /\ UNCHANGED <<requests, timers, pinned, answers, asked, made, came, faults>>

Match(h) ==
  /\ h.pc = "hash"
  /\ Goto(h, IF h.file = h.request.file THEN "sign" ELSE "refuse")
  /\ UNCHANGED <<requests, timers, pinned, answers, asked, made, came, faults>>

Sign(h) ==
  /\ h.pc = "sign" /\ Goto(h, "pin")
  /\ UNCHANGED <<requests, timers, pinned, answers, asked, made, came, faults>>

Pin(h) ==
  /\ h.pc = "pin" /\ Goto(h, "answer")
  /\ pinned' = pinned \cup {h.file}
  /\ UNCHANGED <<requests, timers, answers, asked, made, came, faults>>

Answer(h) ==
  /\ h.pc \in {"answer", "refuse"} /\ Goto(h, "clean")
  /\ answers' = answers \cup
       {[of |-> h.id, peer |-> h.peer, file |-> h.request.file,
         type |-> IF h.pc = "answer" THEN "success" ELSE "error"]}
  /\ UNCHANGED <<requests, timers, pinned, asked, made, came, faults>>

\* The timer of the request it was, and the request there is.
Clean(h) ==
  /\ h.pc = "clean" /\ handlers' = handlers \ {h}
  /\ timers' = timers \ {[peer |-> h.peer, timer |-> h.request.timer]}
  /\ requests' = [requests EXCEPT ![h.peer] = Null]
  /\ UNCHANGED <<pinned, answers, asked, made, came, faults>>

\* A call of IPFS throws: the handler ends there, the timer goes on.
Fail(h) ==
  /\ h.pc # "clean" /\ faults < MaxFaults /\ faults' = faults + 1
  /\ handlers' = handlers \ {h}
  /\ UNCHANGED <<requests, timers, pinned, answers, asked, made, came>>

Work(h) == Match(h) \/ Sign(h) \/ Pin(h) \/ Answer(h) \/ Clean(h)

Next ==
  \/ \E p \in Peer, f \in File : Request(p, f) \/ Receive(p, f)
  \/ \E t \in timers : Expire(t)
  \/ \E h \in handlers : Work(h) \/ Fail(h)

Spec == Init /\ [][Next]_vars

\* Timers fire; the calls of IPFS end, which are the handlers' waits.
FairSpec ==
  Spec /\ WF_vars(\E t \in timers : Expire(t)) /\ WF_vars(\E h \in handlers : Work(h))

-------------------------------------------------------------------------------
UploadTypeOK ==
  /\ \A p \in Peer : requests[p] # Null =>
       requests[p].file \in File /\ requests[p].timer \in 0..(made - 1)
  /\ pinned \subseteq File
  /\ \A h \in handlers :
       h.request # Null /\ h.pc \in {"hash", "sign", "pin", "answer", "refuse", "clean"}
  /\ Cardinality(answers) =< came

\* What a node says it keeps it keeps, and the peer it says so to has asked for it.
SuccessIsKept ==
  \A a \in answers : a.type = "success" =>
    a.file \in pinned /\ [peer |-> a.peer, file |-> a.file] \in asked

\* No request is held without a timer of its own that will remove it.
RequestsHaveTimers ==
  \A p \in Peer : requests[p] # Null =>
    [peer |-> p, timer |-> requests[p].timer] \in timers
===============================================================================
