------------------------------- MODULE Semaphore -------------------------------
(* What the gate of fragment/gate.ts promises, whatever queue it keeps: a call
   enters once, only while fewer than Limit are inside, and leaves once; one that
   is turned away never enters. *)
EXTENDS Integers, FiniteSets

CONSTANTS Calls, Limit

VARIABLES
  inside,  \* the calls whose job runs
  over     \* the calls that left, or were turned away

semaphoreVars == <<inside, over>>

Outside == Calls \ (inside \cup over)

SemaphoreInit == inside = {} /\ over = {}

Enter(c) ==
  /\ c \in Outside
  /\ Cardinality(inside) < Limit
  /\ inside' = inside \cup {c}
  /\ UNCHANGED over

Leave(c) ==
  /\ c \in inside
  /\ inside' = inside \ {c}
  /\ over' = over \cup {c}

\* Cancellation turns away any number of waiting calls at once.
TurnAway(cs) ==
  /\ cs \subseteq Outside
  /\ over' = over \cup cs
  /\ UNCHANGED inside

SemaphoreNext ==
  \/ \E c \in Calls : Enter(c) \/ Leave(c)
  \/ \E cs \in SUBSET Calls : TurnAway(cs)

SemaphoreSpec == SemaphoreInit /\ [][SemaphoreNext]_semaphoreVars
=============================================================================
