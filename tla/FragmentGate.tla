----------------------------- MODULE FragmentGate -----------------------------
(* fragment/gate.ts: the semaphore that fragment requests pass. At most Limit of
   them run, the rest wait in order. Cancellation only owns the wait.

   A call resumes in a promise reaction, so between the hand-over of a permit and
   the continuation that uses it the call is "granted", and its signal can still
   be aborted. The queue is kept as the order in which the calls joined it. *)
EXTENDS Integers, FiniteSets

CONSTANTS
  Calls,     \* the calls of the gate, one for each boundary request
  Signals,   \* the abort signals; the calls of one batch share one
  SignalOf,  \* the signal each call was made with
  Limit      \* maxConcurrent

ASSUME GateAssumption ==
  /\ IsFiniteSet(Calls)
  /\ SignalOf \in [Calls -> Signals]
  /\ Limit \in Nat \ {0}

VARIABLES
  active,   \* permits given out
  phase,    \* where each call is
  joined,   \* the place of each call in the queue's order
  joins,    \* how many have joined the queue so far
  aborted   \* which signals are

gateVars == <<active, phase, joined, joins, aborted>>

Phases == {"idle", "waiting", "granted", "running", "done", "refused"}

GateTypeOK ==
  /\ active \in Nat
  /\ phase \in [Calls -> Phases]
  /\ joined \in [Calls -> Nat]
  /\ joins \in Nat
  /\ aborted \in [Signals -> BOOLEAN]

Aborted(c) == aborted[SignalOf[c]]
In(ps) == {c \in Calls : phase[c] \in ps}
Waiting == In({"waiting"})
Holders == In({"granted", "running"})

GateInit ==
  /\ active = 0
  /\ phase = [c \in Calls |-> "idle"]
  /\ joined = [c \in Calls |-> 0]
  /\ joins = 0
  /\ aborted = [s \in Signals |-> FALSE]

---------------------------------------------------------------------------
First(w) == \A other \in Waiting : joined[w] <= joined[other]

(* release: the permit passes straight to the first waiter. *)
Release(c, next) ==
  \/ /\ Waiting = {}
     /\ active' = active - 1
     /\ phase' = [phase EXCEPT ![c] = next]
  \/ \E w \in Waiting :
       /\ First(w)
       /\ phase' = [phase EXCEPT ![c] = next, ![w] = "granted"]
       /\ UNCHANGED active

MutHasPermit == active <= Limit
HasPermit == active < Limit

(* A call: refused when its signal is already aborted, run when there is a
   permit, queued otherwise. *)
Call(c) ==
  /\ phase[c] = "idle"
  /\ \/ /\ Aborted(c)
        /\ phase' = [phase EXCEPT ![c] = "refused"]
        /\ UNCHANGED <<active, joined, joins>>
     \/ /\ ~Aborted(c) /\ HasPermit
        /\ active' = active + 1
        /\ phase' = [phase EXCEPT ![c] = "running"]
        /\ UNCHANGED <<joined, joins>>
     \/ /\ ~Aborted(c) /\ ~HasPermit
        /\ phase' = [phase EXCEPT ![c] = "waiting"]
        /\ joins' = joins + 1
        /\ joined' = [joined EXCEPT ![c] = joins']
        /\ UNCHANGED active
  /\ UNCHANGED aborted

\* A waiting call leaves the queue; one past the queue is left alone.
AfterAbort(c, s) == IF SignalOf[c] = s /\ phase[c] = "waiting" THEN "refused" ELSE phase[c]

(* The signal aborts: its listeners in the queue run before anything else does. *)
Abort(s) ==
  /\ ~aborted[s]
  /\ aborted' = [aborted EXCEPT ![s] = TRUE]
  /\ phase' = [c \in Calls |-> AfterAbort(c, s)]
  /\ UNCHANGED <<active, joined, joins>>

(* The continuation of a waiter: it gives the permit back if its signal was
   aborted in between. *)
Wake(c) ==
  /\ phase[c] = "granted"
  /\ \/ /\ Aborted(c)
        /\ Release(c, "refused")
     \/ /\ ~Aborted(c)
        /\ phase' = [phase EXCEPT ![c] = "running"]
        /\ UNCHANGED active
  /\ UNCHANGED <<joined, joins, aborted>>

\* The job settles, in whichever way.
Finish(c) ==
  /\ phase[c] = "running"
  /\ Release(c, "done")
  /\ UNCHANGED <<joined, joins, aborted>>

GateNext ==
  \/ \E c \in Calls : Call(c) \/ Wake(c) \/ Finish(c)
  \/ \E s \in Signals : Abort(s)

GateSpec == GateInit /\ [][GateNext]_gateVars

---------------------------------------------------------------------------
(* Safety *)

(* At most Limit requests run at once, though a call may arrive between the
   hand-over of a permit and the waiter that takes it. *)
AtMostLimit == Cardinality(In({"running"})) <= Limit

(* Every permit given out is held by exactly one call, so none is lost to a
   signal aborted at any moment. *)
PermitsAreHeld == active = Cardinality(Holders)

(* Nobody waits while a permit is free. *)
NoIdlePermit == Waiting # {} => active = Limit

(* A call aborted before its job started never starts it. *)
AbortedNeverStarts ==
  [][\A c \in Calls : phase[c] # "running" /\ phase'[c] = "running" => ~Aborted(c)]_gateVars

(* The queue is served in order: a call that was queued first is never passed by
   a later one that is still waiting when it runs. *)
ServedInOrder ==
  [][\A c, d \in Waiting :
       joined[c] < joined[d] /\ phase'[d] = "granted" => phase'[c] # "waiting"]_gateVars

=============================================================================
