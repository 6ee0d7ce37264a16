---------------------------- MODULE EventEmitter ----------------------------
(* events/emitter.ts: one event of a client's emitter. Handlers run one after
   the other, each awaited, so the buckets change while an emission is under way
   and two emissions of the event can overlap. *)
EXTENDS Integers, FiniteSetsExt, Functions

CONSTANTS
  Handlers,   \* the handlers that can be registered
  Emissions,  \* the emissions of the event
  None

VARIABLES
  regular,    \* the bucket of `on`
  once,       \* the bucket of `once`
  emission    \* each emission: its part, the snapshot left, the handler awaited

emitterVars == <<regular, once, emission>>

---------------------------------------------------------------------------
(* A bucket, like any set and map of the code, keeps the order of insertion: it is
   a function from its members to their places. *)
IsBucket(bucket, members) ==
  /\ DOMAIN bucket \subseteq members
  /\ bucket \in [DOMAIN bucket -> Nat \ {0}]

Empty == [h \in {} |-> 1]

Added(bucket, h) ==
  [x \in DOMAIN bucket \cup {h} |->
     IF x \in DOMAIN bucket THEN bucket[x] ELSE 1 + Max(Range(bucket) \cup {0})]

Without(bucket, hs) == [x \in DOMAIN bucket \ hs |-> bucket[x]]

\* The member that was inserted before the others.
IsFirst(bucket, h) == h \in DOMAIN bucket /\ \A x \in DOMAIN bucket : bucket[h] <= bucket[x]

---------------------------------------------------------------------------
EmitterTypeOK ==
  /\ IsBucket(regular, Handlers)
  /\ IsBucket(once, Handlers)
  /\ DOMAIN emission = Emissions
  /\ \A e \in Emissions :
       /\ emission[e] = [part |-> emission[e].part, left |-> emission[e].left, runs |-> emission[e].runs]
       /\ emission[e].part \in {"idle", "regular", "once", "done"}
       /\ IsBucket(emission[e].left, Handlers)
       /\ emission[e].runs \in Handlers \cup {None}

EmitterInit ==
  /\ regular = Empty
  /\ once = Empty
  /\ emission = [e \in Emissions |-> [part |-> "idle", left |-> Empty, runs |-> None]]

Between(e, part) ==
  /\ emission[e].part = part
  /\ emission[e].runs = None

\* emit and emitWhile: a snapshot of the regular handlers.
Emit(e) ==
  /\ emission[e].part = "idle"
  /\ emission' = [emission EXCEPT ![e].part = "regular", ![e].left = regular]
  /\ UNCHANGED <<regular, once>>

\* The next handler of the snapshot starts.
Invoke(e, h) ==
  /\ emission[e].runs = None
  /\ IsFirst(emission[e].left, h)
  /\ emission' = [emission EXCEPT ![e].runs = h, ![e].left = Without(@, {h})]

\* It returns or throws; what it throws is reported and the emission goes on.
Returns(e) ==
  /\ emission[e].runs # None
  /\ emission' = [emission EXCEPT ![e].runs = None]
  /\ UNCHANGED <<regular, once>>

MutTakeOnce(e) ==
  /\ Between(e, "regular") /\ emission[e].left = Empty
  /\ emission' = [emission EXCEPT ![e].part = "once", ![e].left = once]
  /\ UNCHANGED <<regular, once>>
\* Then the once handlers, whose bucket is emptied before the first one runs.
TakeOnce(e) ==
  /\ Between(e, "regular") /\ emission[e].left = Empty
  /\ emission' = [emission EXCEPT ![e].part = "once", ![e].left = once]
  /\ once' = Empty
  /\ UNCHANGED regular

EmissionEnds(e) ==
  /\ Between(e, "once") /\ emission[e].left = Empty
  /\ emission' = [emission EXCEPT ![e].part = "done"]
  /\ UNCHANGED <<regular, once>>

\* emitWhile: what the emission is about is no longer current.
EmissionStops(e) ==
  /\ emission[e].part \in {"regular", "once"}
  /\ emission[e].runs = None
  /\ emission' = [emission EXCEPT ![e].part = "done", ![e].left = Empty]
  /\ UNCHANGED <<regular, once>>
=============================================================================
