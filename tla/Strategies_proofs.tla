-------------------------- MODULE Strategies_proofs --------------------------
(* Proofs about the server strategies: FragmentGate and FragmentRequests, for every
   finite set of elements, every split of them into batches and boundaries, and every
   limit; and StrategyRunner, which drives them, for every page and any number of
   revisions. The gate keeps its count and its order and implements Semaphore, the
   requests use it as it is meant, and each is shared by the elements it was made
   for; a revision completes exactly when its work ends, and nothing edited is
   forgotten on the way. *)
EXTENDS FragmentRequests, StrategyRunner, FiniteSetTheorems, TLAPS

---------------------------------------------------------------------------
(* The gate on its own *)

(* The inductive invariant of the gate. The type of `active` needs the count of the holders:
   only that shows that a release never goes below zero. *)
IInv ==
  /\ GateTypeOK
  /\ PermitsAreHeld
  /\ active <= Limit
  /\ NoIdlePermit

\* A set of calls is finite, whatever its phases are.
LEMMA InIsFinite ==
  ASSUME NEW ps
  PROVE  IsFiniteSet(In(ps))
<1>1. In(ps) \in SUBSET Calls
  BY DEF In
<1>2. QED
  BY <1>1, GateAssumption, FS_Subset

(* A release takes the permit from its holder, and gives it to a waiter if there
   is one: the permits stay counted, and nobody waits while one is free. *)
LEMMA ReleaseKeepsTheCount ==
  ASSUME IInv, NEW c \in Calls, phase[c] \in {"granted", "running"},
         NEW next \in {"done", "refused"}, Release(c, next),
         UNCHANGED <<joined, joins, aborted>>
  PROVE  IInv'
<1> USE DEF IInv
<1>1. IsFiniteSet(Holders) /\ IsFiniteSet(Holders \ {c})
  BY InIsFinite, FS_RemoveElement DEF Holders
<1>2. c \in Holders
  BY DEF Holders, In
<1>3. Cardinality(Holders \ {c}) = active - 1
  BY <1>1, <1>2, FS_RemoveElement DEF PermitsAreHeld
<1>4. CASE Waiting = {} /\ active' = active - 1 /\ phase' = [phase EXCEPT ![c] = next]
  <2>1. phase' \in [Calls -> Phases]
    BY <1>4 DEF GateTypeOK, Phases
  <2>2. Holders' = Holders \ {c}
    BY <1>4 DEF Holders, In, GateTypeOK, Phases
  <2>3. Waiting' = {}
    BY <1>4 DEF Waiting, In, GateTypeOK, Phases
  <2>4. Cardinality(Holders \ {c}) \in Nat
    BY <1>1, FS_CardinalityType
  <2>5. active' = Cardinality(Holders') /\ active' \in Nat
    BY <1>3, <1>4, <2>2, <2>4
  <2>6. active' <= Limit
    BY <1>4, GateAssumption DEF GateTypeOK
  <2>7. QED
    BY <2>1, <2>3, <2>5, <2>6 DEF GateTypeOK, PermitsAreHeld, NoIdlePermit
<1>5. ASSUME NEW w \in Waiting, phase' = [phase EXCEPT ![c] = next, ![w] = "granted"],
             UNCHANGED active
      PROVE  IInv'
  <2>1. phase[w] = "waiting" /\ w # c /\ w \in Calls
    BY <1>5 DEF Waiting, In
  <2>2. phase' \in [Calls -> Phases]
    BY <1>5 DEF GateTypeOK, Phases
  <2>3. Holders' = (Holders \ {c}) \cup {w}
    BY <1>5, <2>1 DEF Holders, In, GateTypeOK, Phases
  <2>4. w \notin Holders \ {c}
    BY <2>1 DEF Holders, In
  <2>5. Cardinality(Holders') = (active - 1) + 1
    BY <1>1, <1>3, <2>3, <2>4, FS_AddElement
  <2>6. active = Limit
    BY <1>5 DEF NoIdlePermit
  <2>7. QED
    BY <1>5, <2>2, <2>5, <2>6 DEF GateTypeOK, PermitsAreHeld, NoIdlePermit
<1>6. QED
  BY <1>4, <1>5 DEF Release

(* The invariant is inductive. *)
LEMMA IInvIsInductive == IInv /\ [GateNext]_gateVars => IInv'
<1> SUFFICES ASSUME IInv, [GateNext]_gateVars PROVE IInv'
  OBVIOUS
<1> USE DEF IInv
<1>1. ASSUME NEW c \in Calls, Call(c) PROVE IInv'
  <2>1. IsFiniteSet(Holders) /\ c \notin Holders /\ c \notin Waiting
    BY <1>1, InIsFinite DEF Call, Holders, Waiting, In
  <2>2. CASE Aborted(c) /\ phase' = [phase EXCEPT ![c] = "refused"]
             /\ UNCHANGED <<active, joined, joins>>
    <3>1. Holders' = Holders /\ Waiting' = Waiting
      BY <1>1, <2>2 DEF Call, Holders, Waiting, In, GateTypeOK, Phases
    <3>2. GateTypeOK'
      BY <1>1, <2>2 DEF Call, GateTypeOK, Phases
    <3>3. QED
      BY <2>2, <3>1, <3>2 DEF PermitsAreHeld, NoIdlePermit
  <2>3. CASE HasPermit /\ active' = active + 1 /\ phase' = [phase EXCEPT ![c] = "running"]
             /\ UNCHANGED <<joined, joins>>
    <3>1. Holders' = Holders \cup {c} /\ Waiting' = Waiting
      BY <1>1, <2>3 DEF Call, Holders, Waiting, In, GateTypeOK, Phases
    <3>2. Cardinality(Holders') = active + 1
      BY <2>1, <3>1, FS_AddElement DEF PermitsAreHeld
    <3>3. active' <= Limit /\ active < Limit
      BY <2>3, GateAssumption DEF HasPermit, GateTypeOK
    <3>4. Waiting = {}
      BY <3>3, GateAssumption DEF NoIdlePermit, GateTypeOK
    <3>5. GateTypeOK'
      BY <1>1, <2>3 DEF Call, GateTypeOK, Phases
    <3>6. QED
      BY <2>3, <3>1, <3>2, <3>3, <3>4, <3>5 DEF PermitsAreHeld, NoIdlePermit
  <2>4. CASE ~HasPermit /\ phase' = [phase EXCEPT ![c] = "waiting"] /\ joins' = joins + 1
             /\ joined' = [joined EXCEPT ![c] = joins'] /\ UNCHANGED active
    <3>1. Holders' = Holders
      BY <1>1, <2>4 DEF Call, Holders, In, GateTypeOK, Phases
    <3>2. active = Limit
      BY <2>4, GateAssumption DEF HasPermit, GateTypeOK
    <3>3. GateTypeOK'
      BY <1>1, <2>4 DEF Call, GateTypeOK, Phases
    <3>4. QED
      BY <2>4, <3>1, <3>2, <3>3 DEF PermitsAreHeld, NoIdlePermit
  <2>5. QED
    BY <1>1, <2>2, <2>3, <2>4 DEF Call
<1>2. ASSUME NEW s \in Signals, Abort(s) PROVE IInv'
  <2>1. Holders' = Holders
    BY <1>2 DEF Abort, AfterAbort, Holders, In, GateTypeOK, Phases
  <2>2. Waiting' \subseteq Waiting
    BY <1>2 DEF Abort, AfterAbort, Waiting, In, GateTypeOK, Phases
  <2>3. GateTypeOK'
    BY <1>2 DEF Abort, AfterAbort, GateTypeOK, Phases
  <2>4. QED
    BY <1>2, <2>1, <2>2, <2>3 DEF Abort, PermitsAreHeld, NoIdlePermit
<1>3. ASSUME NEW c \in Calls, Wake(c) PROVE IInv'
  <2>1. CASE Release(c, "refused")
    BY <1>3, <2>1, ReleaseKeepsTheCount DEF Wake
  <2>2. CASE phase' = [phase EXCEPT ![c] = "running"] /\ UNCHANGED active
    <3>1. Holders' = Holders /\ Waiting' = Waiting
      BY <1>3, <2>2 DEF Wake, Holders, Waiting, In, GateTypeOK, Phases
    <3>2. GateTypeOK'
      BY <1>3, <2>2 DEF Wake, GateTypeOK, Phases
    <3>3. QED
      BY <2>2, <3>1, <3>2 DEF PermitsAreHeld, NoIdlePermit
  <2>3. QED
    BY <1>3, <2>1, <2>2 DEF Wake
<1>4. ASSUME NEW c \in Calls, Finish(c) PROVE IInv'
  BY <1>4, ReleaseKeepsTheCount DEF Finish
<1>5. CASE UNCHANGED gateVars
  BY <1>5 DEF gateVars, GateTypeOK, PermitsAreHeld, NoIdlePermit, Holders, Waiting, In
<1>6. QED
  BY <1>1, <1>2, <1>3, <1>4, <1>5 DEF GateNext

(* The gate of gate.ts keeps its count of permits: each is held by one call, and
   nobody waits for one that is free. *)
THEOREM IInvHolds == GateSpec => []IInv
<1>1. GateInit => IInv
  <2> SUFFICES ASSUME GateInit PROVE IInv
    OBVIOUS
  <2>1. Holders = {} /\ Waiting = {}
    BY DEF GateInit, Holders, Waiting, In
  <2>2. QED
    BY <2>1, FS_EmptySet, GateAssumption
       DEF GateInit, IInv, GateTypeOK, Phases, PermitsAreHeld, NoIdlePermit
<1>2. QED
  BY <1>1, IInvIsInductive, PTL DEF GateSpec

(* The type invariant of the gate. *)
THEOREM TypeCorrect == GateSpec => []GateTypeOK
<1>1. IInv => GateTypeOK
  BY DEF IInv
<1>2. QED
  BY <1>1, IInvHolds, PTL

(* No permit of the gate is lost, whenever a signal is aborted. *)
THEOREM PermitsHeld == GateSpec => []PermitsAreHeld
<1>1. IInv => PermitsAreHeld
  BY DEF IInv
<1>2. QED
  BY <1>1, IInvHolds, PTL

(* Nobody waits in the gate's queue while a permit is free. *)
THEOREM PermitsUsed == GateSpec => []NoIdlePermit
<1>1. IInv => NoIdlePermit
  BY DEF IInv
<1>2. QED
  BY <1>1, IInvHolds, PTL

(* At most Limit requests run at once. *)
THEOREM LimitHolds == GateSpec => []AtMostLimit
<1>1. ASSUME IInv PROVE AtMostLimit
  <2>1. In({"running"}) \in SUBSET Holders /\ IsFiniteSet(Holders)
    BY InIsFinite DEF Holders, In
  <2>2. Cardinality(In({"running"})) <= Cardinality(Holders)
    BY <2>1, FS_Subset
  <2>3. Cardinality(In({"running"})) \in Nat /\ Cardinality(Holders) \in Nat
    BY InIsFinite, FS_CardinalityType DEF Holders
  <2>4. Cardinality(Holders) <= Limit
    BY <1>1 DEF IInv, PermitsAreHeld
  <2>5. QED
    BY <2>2, <2>3, <2>4, GateAssumption DEF AtMostLimit
<1>2. QED
  BY <1>1, IInvHolds, PTL

(* A call whose signal was aborted before its job started never starts it, at
   whatever point between the queue and its continuation that happened. *)
THEOREM AbortedCallsStayOut == GateSpec => AbortedNeverStarts
<1>1. ASSUME GateTypeOK, [GateNext]_gateVars, NEW c \in Calls, phase[c] # "running", phase'[c] = "running"
      PROVE  ~Aborted(c)
  <2>1. ASSUME NEW d \in Calls, Call(d) PROVE ~Aborted(c)
    BY <1>1, <2>1 DEF Call, GateTypeOK
  <2>2. ASSUME NEW s \in Signals, Abort(s) PROVE FALSE
    BY <1>1, <2>2 DEF Abort, AfterAbort, GateTypeOK
  <2>3. ASSUME NEW d \in Calls, NEW next \in {"done", "refused"}, Release(d, next) PROVE FALSE
    BY <1>1, <2>3 DEF Release, GateTypeOK, Waiting, In
  <2>4. ASSUME NEW d \in Calls, Wake(d) PROVE ~Aborted(c)
    BY <1>1, <2>3, <2>4 DEF Wake, GateTypeOK
  <2>5. ASSUME NEW d \in Calls, Finish(d) PROVE FALSE
    BY <2>3, <2>5 DEF Finish
  <2>6. CASE UNCHANGED gateVars
    BY <1>1, <2>6 DEF gateVars
  <2>7. QED
    BY <1>1, <2>1, <2>2, <2>4, <2>5, <2>6 DEF GateNext
<1>2. GateTypeOK /\ [GateNext]_gateVars =>
        [\A c \in Calls : phase[c] # "running" /\ phase'[c] = "running" => ~Aborted(c)]_gateVars
  BY <1>1
<1>3. QED
  BY <1>2, TypeCorrect, PTL DEF GateSpec, AbortedNeverStarts

(* The gate's queue is served in the order in which the calls joined it. *)
THEOREM QueueInOrder == GateSpec => ServedInOrder
<1>1. ASSUME GateTypeOK, [GateNext]_gateVars, NEW c \in Waiting, NEW d \in Waiting,
             joined[c] < joined[d], phase'[d] = "granted"
      PROVE  phase'[c] # "waiting"
  <2>1. /\ c \in Calls /\ d \in Calls /\ phase[d] = "waiting"
        /\ joined[c] \in Nat /\ joined[d] \in Nat /\ ~(joined[d] <= joined[c])
        /\ phase \in [Calls -> Phases]
    BY <1>1 DEF GateTypeOK, Waiting, In
  <2>2. ASSUME NEW h \in Calls, NEW next \in {"done", "refused"}, Release(h, next) PROVE FALSE
    <3>1. CASE phase' = [phase EXCEPT ![h] = next]
      BY <1>1, <2>1, <3>1
    <3>2. ASSUME NEW w \in Waiting, First(w), phase' = [phase EXCEPT ![h] = next, ![w] = "granted"]
          PROVE  FALSE
      <4>1. d = w
        BY <1>1, <2>1, <3>2
      <4>2. QED
        BY <1>1, <2>1, <3>2, <4>1 DEF First
    <3>3. QED
      BY <2>2, <3>1, <3>2 DEF Release
  <2>3. ASSUME NEW h \in Calls, Call(h) PROVE FALSE
    BY <1>1, <2>1, <2>3 DEF Call, GateTypeOK
  <2>4. ASSUME NEW s \in Signals, Abort(s) PROVE FALSE
    BY <1>1, <2>1, <2>4 DEF Abort, AfterAbort, GateTypeOK
  <2>5. ASSUME NEW h \in Calls, Wake(h) PROVE FALSE
    BY <1>1, <2>1, <2>2, <2>5 DEF Wake, GateTypeOK
  <2>6. ASSUME NEW h \in Calls, Finish(h) PROVE FALSE
    BY <2>2, <2>6 DEF Finish
  <2>7. CASE UNCHANGED gateVars
    BY <1>1, <2>1, <2>7 DEF gateVars
  <2>8. QED
    BY <1>1, <2>3, <2>4, <2>5, <2>6, <2>7 DEF GateNext
<1>2. GateTypeOK /\ [GateNext]_gateVars =>
        [\A c, d \in Waiting :
           joined[c] < joined[d] /\ phase'[d] = "granted" => phase'[c] # "waiting"]_gateVars
  BY <1>1
<1>3. QED
  BY <1>2, TypeCorrect, PTL DEF GateSpec, ServedInOrder
---------------------------------------------------------------------------
Running == In({"running"})
Over == In({"done", "refused"})

---------------------------------------------------------------------------
(* The requests and the gate *)

\* A call that settles finishes at the gate.
LEMMA SettlesIsFinish ==
  ASSUME NEW c \in Calls, NEW result, Settles(c, result)
  PROVE  Finish(c)
BY DEF Settles

\* Whatever a batch, a request or an element does is a step of the gate or none.
LEMMA StepOfTheGate ==
  ASSUME [Next]_vars
  PROVE  [GateNext]_gateVars
<1>1. ASSUME NEW s \in Signals, Open(s) \/ Cancel(s)
      PROVE  [GateNext]_gateVars
  BY <1>1 DEF Open, Cancel, Aborts, GateNext
<1>2. ASSUME NEW c \in Calls, Ask(c)
      PROVE  [GateNext]_gateVars
  BY <1>2 DEF Ask, GateNext
<1>3. ASSUME NEW c \in Calls, Wakes(c)
      PROVE  [GateNext]_gateVars
  BY <1>3 DEF Wakes, GateNext
<1>4. ASSUME NEW c \in Calls, Responds(c) \/ Reads(c) \/ Rejects(c)
      PROVE  [GateNext]_gateVars
  BY <1>4, SettlesIsFinish DEF Responds, Reads, Rejects, GateNext
<1>5. ASSUME NEW c \in Calls, TimesOut(c)
      PROVE  [GateNext]_gateVars
  BY <1>5 DEF TimesOut
<1>6. ASSUME NEW e \in Calls, Reacts(e)
      PROVE  [GateNext]_gateVars
  <2>1. UNCHANGED gateVars \/ Abort(SignalOf[e])
    BY <1>6 DEF Reacts, Aborts
  <2>2. SignalOf[e] \in Signals
    BY GateAssumption
  <2> QED BY <2>1, <2>2 DEF GateNext
<1>7. CASE UNCHANGED vars
  BY <1>7 DEF vars
<1> QED BY <1>1, <1>2, <1>3, <1>4, <1>5, <1>6, <1>7 DEF Next

\* The requests drive the gate only as its own specification allows.
THEOREM UsesTheGate == Spec => GateSpec
<1>1. Init => GateInit
  BY DEF Init
<1>2. [Next]_vars => [GateNext]_gateVars
  BY StepOfTheGate
<1> QED BY <1>1, <1>2, PTL DEF Spec, GateSpec

---------------------------------------------------------------------------
(* The gate and the semaphore *)

\* Fewer than Limit calls run while one more of them holds or can get a permit.
LEMMA RoomToEnter ==
  ASSUME IInv, NEW c \in Calls, phase[c] # "running",
         active < Limit \/ c \in Holders
  PROVE  Cardinality(Running) < Limit
<1>1. IsFiniteSet(Running) /\ IsFiniteSet(Holders) /\ Running \subseteq Holders \ {c}
  BY InIsFinite DEF Running, Holders, In
<1>2. /\ Cardinality(Holders) = active /\ active \in Nat /\ active <= Limit /\ Limit \in Nat
      /\ Cardinality(Running) \in Nat
  BY <1>1, GateAssumption, FS_CardinalityType DEF IInv, PermitsAreHeld, GateTypeOK
<1>3. CASE active < Limit
  <2>1. Cardinality(Running) <= Cardinality(Holders)
    BY <1>1, FS_Subset
  <2> QED BY <1>2, <1>3, <2>1
<1>4. CASE c \in Holders
  <2>1. IsFiniteSet(Holders \ {c}) /\ Cardinality(Holders \ {c}) = Cardinality(Holders) - 1
    BY <1>1, <1>4, FS_RemoveElement
  <2>2. Cardinality(Running) <= Cardinality(Holders \ {c})
    BY <1>1, <2>1, FS_Subset
  <2> QED BY <1>2, <2>1, <2>2
<1> QED BY <1>3, <1>4

\* A release ends the call that had the permit, and whoever gets it does not run yet.
LEMMA ReleaseEnds ==
  ASSUME IInv, NEW c \in Calls, NEW next \in {"done", "refused"}, Release(c, next),
         phase[c] \in {"granted", "running"}
  PROVE  Running' = Running \ {c} /\ Over' = Over \cup {c}
<1>1. phase \in [Calls -> Phases]
  BY DEF IInv, GateTypeOK
<1>2. CASE phase' = [phase EXCEPT ![c] = next]
  BY <1>1, <1>2 DEF Running, Over, In
<1>3. ASSUME NEW w \in Waiting, phase' = [phase EXCEPT ![c] = next, ![w] = "granted"]
      PROVE  Running' = Running \ {c} /\ Over' = Over \cup {c}
  <2>1. w \in Calls /\ phase[w] = "waiting" /\ w # c
    BY DEF Waiting, In
  <2> QED BY <1>1, <1>3, <2>1 DEF Running, Over, In
<1> QED BY <1>2, <1>3 DEF Release

\* The steps of the semaphore, by what they do to the running and the ended calls.
LEMMA EnterStep ==
  ASSUME NEW c \in Calls, Running' = Running \cup {c}, Over' = Over, c \notin Running \cup Over,
         Cardinality(Running) < Limit
  PROVE  Semaphores!SemaphoreNext
<1>1. Semaphores!Enter(c)
  <2>1. c \in Semaphores!Outside
    BY DEF Running, Over, Semaphores!Outside
  <2>2. /\ Cardinality(In({"running"})) < Limit
        /\ In({"running"})' = In({"running"}) \cup {c}
        /\ In({"done", "refused"})' = In({"done", "refused"})
    BY DEF Running, Over
  <2>3. Semaphores!Cardinality(In({"running"})) = Cardinality(In({"running"}))
    BY DEF Semaphores!Cardinality, Cardinality
  <2> QED BY <2>1, <2>2, <2>3 DEF Semaphores!Enter
<1> QED BY <1>1 DEF Semaphores!SemaphoreNext

LEMMA TurnAwayStep ==
  ASSUME NEW cs \in SUBSET Calls, Running' = Running, Over' = Over \cup cs,
         cs \subseteq Calls \ (Running \cup Over)
  PROVE  Semaphores!SemaphoreNext
<1>1. Semaphores!TurnAway(cs)
  BY DEF Running, Over, Semaphores!TurnAway, Semaphores!Outside
<1> QED BY <1>1 DEF Semaphores!SemaphoreNext

\* A step of the gate is a step of the semaphore or none.
LEMMA StepOfTheSemaphore ==
  ASSUME IInv, [GateNext]_gateVars
  PROVE  [Semaphores!SemaphoreNext]_(Semaphores!semaphoreVars)
<1> DEFINE Goal == Semaphores!SemaphoreNext \/ (Running' = Running /\ Over' = Over)
<1>0. phase \in [Calls -> Phases]
  BY DEF IInv, GateTypeOK
<1>1. ASSUME NEW c \in Calls, Call(c)
      PROVE  Goal
  <2>1. CASE phase' = [phase EXCEPT ![c] = "refused"]
    <3>1. Running' = Running /\ Over' = Over \cup {c} /\ c \notin Running \cup Over
      BY <1>0, <1>1, <2>1 DEF Call, Running, Over, In
    <3>2. {c} \in SUBSET Calls /\ {c} \subseteq Calls \ (Running \cup Over)
      BY <3>1
    <3> QED BY <3>1, <3>2, TurnAwayStep
  <2>2. CASE HasPermit /\ phase' = [phase EXCEPT ![c] = "running"]
    <3>1. Running' = Running \cup {c} /\ Over' = Over /\ c \notin Running \cup Over
      BY <1>0, <1>1, <2>2 DEF Call, Running, Over, In
    <3>2. Cardinality(Running) < Limit
      BY <1>1, <2>2, RoomToEnter DEF HasPermit, Call
    <3> QED BY <3>1, <3>2, EnterStep
  <2>3. CASE phase' = [phase EXCEPT ![c] = "waiting"]
    BY <1>0, <1>1, <2>3 DEF Call, Running, Over, In
  <2> QED BY <1>1, <2>1, <2>2, <2>3 DEF Call
<1>2. ASSUME NEW s \in Signals, Abort(s)
      PROVE  Goal
  <2> DEFINE cs == {c \in Waiting : SignalOf[c] = s}
  <2>1. phase' = [c \in Calls |-> IF SignalOf[c] = s /\ phase[c] = "waiting" THEN "refused" ELSE phase[c]]
    BY <1>2 DEF Abort, AfterAbort
  <2>2. Running' = Running /\ Over' = Over \cup cs /\ cs \in SUBSET Calls
    BY <1>0, <2>1 DEF Running, Over, Waiting, In
  <2>3. cs \subseteq Calls \ (Running \cup Over)
    BY DEF Running, Over, Waiting, In
  <2> QED BY <2>2, <2>3, TurnAwayStep
<1>3. ASSUME NEW c \in Calls, Wake(c)
      PROVE  Goal
  <2>1. CASE Release(c, "refused")
    <3>1. Running' = Running \ {c} /\ Over' = Over \cup {c} /\ c \notin Running \cup Over
      BY <1>3, <2>1, ReleaseEnds DEF Wake, Running, Over, In
    <3>2. {c} \in SUBSET Calls /\ {c} \subseteq Calls \ (Running \cup Over) /\ Running \ {c} = Running
      BY <3>1
    <3> QED BY <3>1, <3>2, TurnAwayStep
  <2>2. CASE phase' = [phase EXCEPT ![c] = "running"]
    <3>1. Running' = Running \cup {c} /\ Over' = Over /\ c \notin Running \cup Over
      BY <1>0, <1>3, <2>2 DEF Wake, Running, Over, In
    <3>2. Cardinality(Running) < Limit
      BY <1>3, RoomToEnter DEF Wake, Holders, In
    <3> QED BY <3>1, <3>2, EnterStep
  <2> QED BY <1>3, <2>1, <2>2 DEF Wake
<1>4. ASSUME NEW c \in Calls, Finish(c)
      PROVE  Goal
  <2>1. Running' = Running \ {c} /\ Over' = Over \cup {c} /\ c \in Running
    BY <1>4, ReleaseEnds DEF Finish, Running, In
  <2> QED BY <2>1 DEF Running, Over, Semaphores!SemaphoreNext, Semaphores!Leave
<1>5. ASSUME UNCHANGED gateVars
      PROVE  Goal
  <2>1. Running' = Running /\ Over' = Over
    BY <1>5 DEF gateVars, Running, Over, In
  <2> QED BY <2>1
<1> HIDE DEF Goal
<1>6. Goal
  BY <1>1, <1>2, <1>3, <1>4, <1>5 DEF GateNext
<1> QED BY <1>6 DEF Goal, Running, Over, Semaphores!semaphoreVars

(* The gate is a semaphore: a call enters once, only while fewer than Limit are
   inside, and leaves once, whatever is aborted in between. *)
THEOREM GateIsASemaphore == GateSpec => PassesTheGate
<1>1. GateInit => Semaphores!SemaphoreInit
  BY DEF GateInit, Semaphores!SemaphoreInit, In
<1>2. IInv /\ [GateNext]_gateVars => [Semaphores!SemaphoreNext]_(Semaphores!semaphoreVars)
  BY StepOfTheSemaphore
<1> QED BY <1>1, <1>2, IInvHolds, PTL DEF GateSpec, PassesTheGate, Semaphores!SemaphoreSpec

\* And so at most Limit requests are out at once, each of them once.
THEOREM RequestsPassTheGate == Spec => PassesTheGate
BY UsesTheGate, GateIsASemaphore, PTL

---------------------------------------------------------------------------
(* The elements and the requests they share *)

(* Whom an element waits for was asked for its batch and its boundary, and what
   is known of a promise and an element has its type. *)
Shared ==
  /\ inFlight \subseteq Calls
  /\ leader \in [Calls -> Calls]
  /\ outcome \in [Calls -> Outcomes \cup {"none"}]
  /\ shown \in [Calls -> {"idle", "asked", "reported"} \cup Outcomes]
  /\ \A e \in Calls : /\ SignalOf[leader[e]] = SignalOf[e]
                      /\ BoundaryOf[leader[e]] = BoundaryOf[e]

LEMMA SharedInit == Init => Shared
BY DEF Init, Shared

\* Asking shares a request under the same key, or makes one.
LEMMA AskKeepsShared ==
  ASSUME Shared, NEW e \in Calls, Ask(e)
  PROVE  Shared'
<1>1. shown' \in [Calls -> {"idle", "asked", "reported"} \cup Outcomes] /\ outcome' = outcome
  BY DEF Ask, Shared
<1>2. ASSUME NEW c \in SharedBy(e), leader' = [leader EXCEPT ![e] = c], UNCHANGED inFlight
      PROVE  Shared'
  <2>1. c \in Calls /\ SignalOf[c] = SignalOf[e] /\ BoundaryOf[c] = BoundaryOf[e]
    BY <1>2 DEF SharedBy, Key, Shared
  <2> QED BY <1>1, <1>2, <2>1 DEF Shared
<1>3. CASE inFlight' = inFlight \cup {e} /\ UNCHANGED leader
  BY <1>1, <1>3 DEF Shared
<1> QED BY <1>2, <1>3 DEF Ask

\* Promises that settle, and elements that react, leave the sharing alone.
LEMMA SettlingKeepsShared ==
  ASSUME Shared, UNCHANGED leader, inFlight' \subseteq inFlight,
         outcome' \in [Calls -> Outcomes \cup {"none"}],
         shown' \in [Calls -> {"idle", "asked", "reported"} \cup Outcomes]
  PROVE  Shared'
BY DEF Shared

LEMMA RefusedType ==
  ASSUME Shared, Refused
  PROVE  outcome' \in [Calls -> Outcomes \cup {"none"}]
BY DEF Shared, Refused, Outcomes

LEMMA StepKeepsShared ==
  ASSUME Shared, [Next]_vars
  PROVE  Shared'
<1>1. ASSUME NEW s \in Signals, Open(s) \/ Cancel(s)
      PROVE  Shared'
  <2>1. CASE Open(s)
    BY <2>1 DEF Open, Shared
  <2>2. CASE Cancel(s)
    BY <2>2, RefusedType, SettlingKeepsShared DEF Cancel, Aborts, Forgotten, Shared
  <2> QED BY <1>1, <2>1, <2>2
<1>2. ASSUME NEW c \in Calls, Ask(c)
      PROVE  Shared'
  BY <1>2, AskKeepsShared
<1>3. ASSUME NEW c \in Calls, Wakes(c)
      PROVE  Shared'
  BY <1>3, RefusedType, SettlingKeepsShared DEF Wakes, Forgotten, Shared
<1>4. ASSUME NEW c \in Calls, NEW result \in Outcomes, Settles(c, result)
      PROVE  Shared'
  <2>1. outcome' \in [Calls -> Outcomes \cup {"none"}]
    BY <1>4 DEF Settles, Shared
  <2> QED BY <1>4, <2>1, SettlingKeepsShared DEF Settles, Forgotten, Shared
<1>5. ASSUME NEW c \in Calls, Responds(c) \/ Reads(c) \/ Rejects(c)
      PROVE  Shared'
  <2>1. (\E result \in Outcomes : Settles(c, result)) \/ UNCHANGED <<batchVars, outcome>>
    BY <1>5 DEF Responds, Reads, Rejects, Cause, Outcomes
  <2> QED BY <1>4, <2>1 DEF Shared, batchVars
<1>6. ASSUME NEW c \in Calls, TimesOut(c)
      PROVE  Shared'
  BY <1>6 DEF TimesOut, Shared, batchVars
<1>7. ASSUME NEW e \in Calls, Reacts(e)
      PROVE  Shared'
  <2>1. outcome[leader[e]] \in Outcomes /\ UNCHANGED leader
    BY <1>7 DEF Reacts, Shared
  <2>2. shown' \in [Calls -> {"idle", "asked", "reported"} \cup Outcomes]
    BY <1>7, <2>1 DEF Reacts, Becomes, Shared, Outcomes
  <2>3. inFlight' \subseteq inFlight /\ outcome' \in [Calls -> Outcomes \cup {"none"}]
    BY <1>7, RefusedType DEF Reacts, Aborts, Forgotten, Shared
  <2> QED BY <2>1, <2>2, <2>3, SettlingKeepsShared
<1>8. CASE UNCHANGED vars
  BY <1>8 DEF vars, batchVars, Shared
<1> QED BY <1>1, <1>2, <1>3, <1>5, <1>6, <1>7, <1>8 DEF Next

LEMMA SharedHolds == Spec => []Shared
BY SharedInit, StepKeepsShared, PTL DEF Spec

(* The elements of a batch ask in one turn: until the turn is over, every request
   of its batch is in flight, so the next element finds the one of its boundary. *)
OneTurn ==
  /\ \A c \in turn : c \in Calls /\ SignalOf[c] \in opened
  /\ \A c, d \in turn : SignalOf[c] = SignalOf[d]
  /\ \A c \in Calls : phase[c] # "idle" => SignalOf[c] \in opened
  /\ \A c \in Calls, d \in turn :
       phase[c] # "idle" /\ SignalOf[c] = SignalOf[d] => c \in inFlight

Once == OneTurn /\ RequestedOnce

\* The steps of the gate but a call: nobody becomes idle or stops being it.
LEMMA NobodyCalls ==
  ASSUME GateTypeOK, NEW d \in Calls,
         \/ \E s \in Signals : Abort(s)
         \/ \E c \in Calls : Wake(c) \/ Finish(c)
         \/ UNCHANGED gateVars
  PROVE  phase'[d] = "idle" <=> phase[d] = "idle"
<1>1. ASSUME NEW s \in Signals, Abort(s)
      PROVE  phase'[d] = "idle" <=> phase[d] = "idle"
  BY <1>1 DEF Abort, AfterAbort
<1>2. ASSUME NEW c \in Calls, NEW next \in {"done", "refused"}, phase[c] # "idle", Release(c, next)
      PROVE  phase'[d] = "idle" <=> phase[d] = "idle"
  <2>1. CASE phase' = [phase EXCEPT ![c] = next]
    BY <1>2, <2>1 DEF GateTypeOK
  <2>2. ASSUME NEW w \in Waiting, phase' = [phase EXCEPT ![c] = next, ![w] = "granted"]
        PROVE  phase'[d] = "idle" <=> phase[d] = "idle"
    BY <1>2, <2>2 DEF GateTypeOK, Waiting, In
  <2> QED BY <1>2, <2>1, <2>2 DEF Release
<1>3. ASSUME NEW c \in Calls, Wake(c)
      PROVE  phase'[d] = "idle" <=> phase[d] = "idle"
  <2>1. CASE Release(c, "refused")
    BY <1>2, <1>3, <2>1 DEF Wake
  <2>2. CASE phase' = [phase EXCEPT ![c] = "running"]
    BY <1>3, <2>2 DEF Wake, GateTypeOK
  <2> QED BY <1>3, <2>1, <2>2 DEF Wake
<1>4. ASSUME NEW c \in Calls, Finish(c)
      PROVE  phase'[d] = "idle" <=> phase[d] = "idle"
  BY <1>2, <1>4 DEF Finish
<1>5. CASE UNCHANGED gateVars
  BY <1>5 DEF gateVars
<1> QED BY <1>1, <1>3, <1>4, <1>5

\* Between two turns no request is made.
LEMMA QuietKeepsOnce ==
  ASSUME Once, turn = {}, turn' = {}, opened' = opened,
         \A d \in Calls : phase'[d] = "idle" <=> phase[d] = "idle"
  PROVE  Once'
BY DEF Once, OneTurn, RequestedOnce

\* A batch is rendered once: none of its elements has asked before.
LEMMA OpenKeepsOnce ==
  ASSUME Once, NEW s \in Signals, Open(s)
  PROVE  Once'
<1>1. /\ s \notin opened /\ opened' = opened \cup {s} /\ phase' = phase
      /\ turn' = {e \in Calls : SignalOf[e] = s}
  BY DEF Open, gateVars
<1>2. RequestedOnce'
  BY <1>1 DEF Once, RequestedOnce
<1>3. OneTurn'
  BY <1>1 DEF Once, OneTurn
<1> QED BY <1>2, <1>3 DEF Once

\* An element that makes a call found no request of its boundary in flight.
LEMMA AskKeepsOnce ==
  ASSUME Once, GateTypeOK, NEW e \in Calls, Ask(e)
  PROVE  Once'
<1>1. e \in turn /\ turn' = turn \ {e} /\ opened' = opened
  BY DEF Ask
<1>2. CASE UNCHANGED <<gateVars, inFlight>>
  <2>1. phase' = phase
    BY <1>2 DEF gateVars
  <2>2. RequestedOnce'
    BY <2>1 DEF Once, RequestedOnce
  <2>3. OneTurn'
    BY <1>1, <1>2, <2>1 DEF Once, OneTurn
  <2> QED BY <2>2, <2>3 DEF Once
<1>3. CASE SharedBy(e) = {} /\ Call(e) /\ inFlight' = inFlight \cup {e}
  <2>1. \A c \in Calls : c # e => phase'[c] = phase[c]
    BY <1>3 DEF Call, GateTypeOK
  <2>2. \A c \in Calls :
          phase[c] # "idle" /\ SignalOf[c] = SignalOf[e] => BoundaryOf[c] # BoundaryOf[e]
    BY <1>1, <1>3 DEF Once, OneTurn, SharedBy, Key
  <2>3. RequestedOnce'
    BY <2>1, <2>2 DEF Once, RequestedOnce
  <2>4. OneTurn'
    BY <1>1, <1>3, <2>1 DEF Once, OneTurn
  <2> QED BY <2>3, <2>4 DEF Once
<1> QED BY <1>2, <1>3 DEF Ask

LEMMA StepKeepsOnce ==
  ASSUME Once, GateTypeOK, [Next]_vars
  PROVE  Once'
<1>1. ASSUME NEW s \in Signals, Open(s)
      PROVE  Once'
  BY <1>1, OpenKeepsOnce
<1>2. ASSUME NEW c \in Calls, Ask(c)
      PROVE  Once'
  BY <1>2, AskKeepsOnce
<1>3. ASSUME turn = {}, turn' = {}, opened' = opened,
             \/ \E s \in Signals : Abort(s)
             \/ \E c \in Calls : Wake(c) \/ Finish(c)
             \/ UNCHANGED gateVars
      PROVE  Once'
  <2>1. \A d \in Calls : phase'[d] = "idle" <=> phase[d] = "idle"
    BY <1>3, NobodyCalls
  <2> QED BY <1>3, <2>1, QuietKeepsOnce
<1>4. ASSUME NEW s \in Signals, Cancel(s)
      PROVE  Once'
  BY <1>3, <1>4 DEF Cancel, Aborts
<1>5. ASSUME NEW c \in Calls, Wakes(c)
      PROVE  Once'
  BY <1>3, <1>5 DEF Wakes
<1>6. ASSUME NEW c \in Calls, Responds(c) \/ Reads(c) \/ Rejects(c) \/ TimesOut(c)
      PROVE  Once'
  <2>1. turn = {} /\ turn' = {} /\ opened' = opened /\ (Finish(c) \/ UNCHANGED gateVars)
    BY <1>6 DEF Responds, Reads, Rejects, TimesOut, Settles, batchVars
  <2> QED BY <1>3, <2>1
<1>7. ASSUME NEW e \in Calls, Reacts(e)
      PROVE  Once'
  <2>1. turn = {} /\ turn' = {} /\ opened' = opened /\ (Abort(SignalOf[e]) \/ UNCHANGED gateVars)
    BY <1>7 DEF Reacts, Aborts
  <2>2. SignalOf[e] \in Signals
    BY GateAssumption
  <2> QED BY <1>3, <2>1, <2>2
<1>8. CASE UNCHANGED vars
  BY <1>8 DEF vars, gateVars, batchVars, Once, OneTurn, RequestedOnce
<1> QED BY <1>1, <1>2, <1>4, <1>5, <1>6, <1>7, <1>8 DEF Next

LEMMA OnceHolds == Spec => []Once
<1>1. Init => Once
  BY DEF Init, GateInit, Once, OneTurn, RequestedOnce
<1> QED BY <1>1, StepKeepsOnce, UsesTheGate, TypeCorrect, PTL DEF Spec

(* A request is shared by the elements that name its boundary in its own batch,
   by all of them, and made once, in whatever order requests of any number of
   batches are queued, aborted and answered. *)
THEOREM SharedRightly == Spec => []SharesRightly
<1>1. Shared /\ Once => SharesRightly
  BY DEF Shared, Once, SharesRightly, AnswersAreItsOwn
<1> QED BY <1>1, SharedHolds, OnceHolds, PTL

\* What an element becomes in one step, its batch allowed.
LEMMA ShownInTime ==
  ASSUME Shared, [Next]_vars, NEW e \in Calls,
         shown'[e] # shown[e], shown'[e] \in {"rendered", "failed"}
  PROVE  ~aborted'[SignalOf[e]]
<1>1. shown \in [Calls -> {"idle", "asked", "reported"} \cup Outcomes] /\ shown' # shown
  BY DEF Shared
<1>2. ASSUME NEW c \in Calls, Ask(c)
      PROVE  FALSE
  BY <1>1, <1>2 DEF Ask
<1>3. ASSUME NEW d \in Calls, Reacts(d)
      PROVE  ~aborted'[SignalOf[e]]
  <2>1. CASE Becomes(d, "superseded") \/ Becomes(d, "reported")
    BY <1>1, <2>1 DEF Becomes
  <2>2. CASE Usable(d) /\ Becomes(d, outcome[leader[d]]) /\ UNCHANGED gateVars
    <3>1. d = e
      BY <1>1, <2>2 DEF Becomes
    <3> QED BY <2>2, <3>1 DEF Usable, Aborted, gateVars
  <2> QED BY <1>3, <2>1, <2>2 DEF Reacts
<1>4. ASSUME NEW s \in Signals, Open(s) \/ Cancel(s)
      PROVE  FALSE
  BY <1>1, <1>4 DEF Open, Cancel
<1>5. ASSUME NEW c \in Calls, Wakes(c) \/ Responds(c) \/ Reads(c) \/ Rejects(c) \/ TimesOut(c)
      PROVE  FALSE
  BY <1>1, <1>5 DEF Wakes, Responds, Reads, Rejects, TimesOut, Settles, batchVars
<1>6. CASE UNCHANGED vars
  BY <1>1, <1>6 DEF vars, batchVars
<1> QED BY <1>2, <1>3, <1>4, <1>5, <1>6 DEF Next

(* No fragment of an aborted batch is morphed and no boundary of it patched,
   though its request was answered before. *)
THEOREM NothingLate == Spec => NothingLateIsShown
<1>1. Shared /\ [Next]_vars =>
        [\A e \in Calls :
           shown'[e] # shown[e] /\ shown'[e] \in {"rendered", "failed"} => ~aborted'[SignalOf[e]]]_vars
  BY ShownInTime
<1> QED BY <1>1, SharedHolds, PTL DEF Spec, NothingLateIsShown

---------------------------------------------------------------------------
(* What a request ends as *)

LEMMA FailsInTime ==
  ASSUME Shared, [Next]_vars, NEW c \in Calls, outcome[c] = "none", outcome'[c] = "failed"
  PROVE  ~Aborted(c)
<1>1. outcome \in [Calls -> Outcomes \cup {"none"}]
  BY DEF Shared
<1>2. ~Refused /\ ~UNCHANGED outcome
  BY DEF Refused
<1>3. ASSUME NEW d \in Calls, NEW result, Settles(d, result)
      PROVE  d = c /\ result = "failed"
  BY <1>1, <1>3 DEF Settles
<1>4. ASSUME NEW d \in Calls, Responds(d) \/ Reads(d)
      PROVE  ~Aborted(c)
  <2>1. Listening(d) /\ \E result : Settles(d, result)
    BY <1>2, <1>4 DEF Responds, Reads
  <2> QED BY <1>3, <2>1 DEF Listening
<1>5. ASSUME NEW d \in Calls, Rejects(d)
      PROVE  ~Aborted(c)
  BY <1>3, <1>5 DEF Rejects, Cause
<1>6. ASSUME NEW s \in Signals, Open(s) \/ Cancel(s)
      PROVE  FALSE
  BY <1>2, <1>6 DEF Open, Cancel, Aborts
<1>7. ASSUME NEW d \in Calls, Ask(d) \/ Wakes(d) \/ TimesOut(d) \/ Reacts(d)
      PROVE  FALSE
  BY <1>2, <1>7 DEF Ask, Wakes, TimesOut, Reacts, Aborts
<1>8. CASE UNCHANGED vars
  BY <1>2, <1>8 DEF vars
<1> QED BY <1>4, <1>5, <1>6, <1>7, <1>8 DEF Next

(* A request that was superseded never ends as a failure of its endpoint, whoever
   of the batch and the deadline ended it first. *)
THEOREM SupersededFailsNot == Spec => SupersededIsNoFailure
<1>1. Shared /\ [Next]_vars =>
        [\A c \in Calls : outcome[c] = "none" /\ outcome'[c] = "failed" => ~Aborted(c)]_vars
  BY FailsInTime
<1> QED BY <1>1, SharedHolds, PTL DEF Spec, SupersededIsNoFailure

---------------------------------------------------------------------------
(* Types *)

Jobs ==
  /\ job \in [Calls -> {"none", "fetch", "body"}]
  /\ deadline \in [Calls -> {"off", "armed", "passed"}]
  /\ opened \subseteq Signals
  /\ turn \subseteq Calls

LEMMA StepKeepsJobs ==
  ASSUME Jobs, [Next]_vars
  PROVE  Jobs'
<1>1. ASSUME NEW s \in Signals, Open(s) \/ Cancel(s)
      PROVE  Jobs'
  BY <1>1 DEF Open, Cancel, jobVars, Jobs
<1>2. ASSUME NEW c \in Calls, Starts(c)
      PROVE  /\ job' \in [Calls -> {"none", "fetch", "body"}]
             /\ deadline' \in [Calls -> {"off", "armed", "passed"}]
  BY <1>2 DEF Starts, jobVars, Jobs
<1>3. ASSUME NEW c \in Calls, Ask(c)
      PROVE  Jobs'
  BY <1>2, <1>3 DEF Ask, jobVars, Jobs
<1>4. ASSUME NEW c \in Calls, Wakes(c)
      PROVE  Jobs'
  BY <1>2, <1>4 DEF Wakes, Jobs
<1>5. ASSUME NEW c \in Calls, NEW result, Settles(c, result)
      PROVE  Jobs'
  BY <1>5 DEF Settles, Disposed, Jobs
<1>6. ASSUME NEW c \in Calls, Responds(c) \/ Reads(c) \/ Rejects(c) \/ TimesOut(c)
      PROVE  Jobs'
  BY <1>5, <1>6 DEF Responds, Reads, Rejects, TimesOut, batchVars, Jobs
<1>7. ASSUME NEW c \in Calls, Reacts(c)
      PROVE  Jobs'
  BY <1>7 DEF Reacts, jobVars, Jobs
<1>8. CASE UNCHANGED vars
  BY <1>8 DEF vars, batchVars, jobVars, Jobs
<1> QED BY <1>1, <1>3, <1>4, <1>6, <1>7, <1>8 DEF Next

(* The type invariant of the requests. *)
THEOREM RequestsTyped == Spec => []TypeOK
<1>1. Init => Jobs
  BY DEF Init, Jobs
<1>2. Jobs /\ Shared /\ GateTypeOK => TypeOK
  BY DEF Jobs, Shared, TypeOK
<1> QED BY <1>1, <1>2, StepKeepsJobs, SharedHolds, UsesTheGate, TypeCorrect, PTL DEF Spec

---------------------------------------------------------------------------
(* StrategyRunner: its invariant *)

Revisions ==
  [revision : Versions, applied : BOOLEAN, trails : BOOLEAN, touched : SUBSET Areas,
   ran : SUBSET Boundaries, pending : Nat, launched : Nat, routeRefreshed : BOOLEAN,
   completed : BOOLEAN]
Batches == [id : Nat, plan : SUBSET Boundaries, left : SUBSET Boundaries]
Refreshes == [forSave : BOOLEAN, refused : BOOLEAN, since : Versions, saw : Versions]
Trailing == [forSave : BOOLEAN, due : BOOLEAN]

Typed ==
  /\ site \in Pages
  /\ tx \in Revisions
  /\ issued \in Versions
  /\ undiffed \subseteq Areas
  /\ batches \subseteq Batches
  /\ fragmentsOwed \subseteq Boundaries
  /\ routeOwed \in BOOLEAN /\ awaitsSave \in BOOLEAN /\ windowOpen \in BOOLEAN
  /\ route \in Refreshes \cup {None}
  /\ retry \in Trailing \cup {None}
  /\ buffer \subseteq Patched
  /\ identity \in [Patched -> Versions \cup {None}]
  /\ handed \in [Patched -> Versions \cup {None}]
  /\ lastEdit \in [Areas -> Versions]
  /\ refused \subseteq Unfaithful
  /\ shows \in [Patched -> Versions]
  /\ served \in [Boundaries -> Versions]
  /\ answered \in Versions /\ saved \in Versions /\ routeShows \in Versions

(* The batches of a revision are told apart, none is empty, and what they have not
   settled is what the revision counts. *)
Apart(bs) == \A x, y \in bs : x.id = y.id => x = y
Numbered(bs, n) == \A x \in bs : x.id \in 1..n /\ x.left # {} /\ x.left \subseteq x.plan
Due(bs) == {p \in bs \X Boundaries : p[2] \in p[1].left}
CountedAs(bs, n, k) ==
  /\ IsFiniteSet(bs)
  /\ Apart(bs)
  /\ Numbered(bs, n)
  /\ k = Cardinality(Due(bs))
Counting == CountedAs(batches, tx.launched, tx.pending)

\* Whatever is under way is of the newest revision, and nothing is without one.
Newest ==
  /\ tx.revision \in {0, issued}
  /\ tx.revision = 0 => ~tx.applied /\ batches = {} /\ route = None /\ retry = None
  /\ \A a \in Areas : lastEdit[a] <= issued
  /\ answered <= issued
  /\ \A a \in Patched : identity[a] # None => identity[a] <= issued

\* How far the revision is: what it has before and after its diff.
Staged ==
  /\ ~tx.applied => ~tx.routeRefreshed /\ tx.ran = {} /\ batches = {} /\ buffer = {}
  /\ ~tx.applied => retry = None /\ (route # None => route.since < issued)
  /\ tx.applied => undiffed = {}

Refreshed ==
  /\ ~HasRoute => route = None /\ retry = None /\ ~routeOwed
  /\ route # None => answered <= route.since /\ route.since <= issued
  /\ route # None => (route.refused => retry # None)

\* The work that is still to come for an area.
InBatch(a) == \E x \in batches : a \in x.left
Covered(a) == shows[a] = lastEdit[a] \/ a \in buffer \/ InBatch(a) \/ route # None

\* A binding whose applied value is the newest shows it.
IdentityIsShown == \A a \in Patched : identity[a] = lastEdit[a] => shows[a] = lastEdit[a]
PageIsCovered == tx.applied /\ ~AfterSave => \A a \in Patched \ refused : Covered(a)

WorkOrDone ==
  tx.applied /\ ~AfterSave =>
    tx.completed \/ batches # {} \/ buffer # {} \/ route # None \/ retry # None

BoundariesAreOwed ==
  ~HasRoute =>
    /\ tx.applied => fragmentsOwed = {}
    /\ \A b \in Boundaries :
         served[b] >= lastEdit[b] \/ b \in undiffed \/ b \in fragmentsOwed \/ InBatch(b)

RouteIsOwed ==
  HasRoute =>
    /\ tx.applied => ~routeOwed
    /\ ~AfterSave /\ ~Timeouts =>
         \/ answered >= lastEdit[Route]
         \/ Route \in undiffed \/ routeOwed \/ retry # None
         \/ route # None /\ ~route.refused /\ route.since >= lastEdit[Route]

StrategyInv ==
  /\ Typed /\ Counting /\ Newest /\ Staged /\ Refreshed
  /\ IdentityIsShown /\ PageIsCovered /\ WorkOrDone
  /\ BoundariesAreOwed /\ RouteIsOwed

---------------------------------------------------------------------------
(* StrategyRunner: the data *)

\* null is none of what the runner keeps.
LEMMA NullIsApart ==
  ASSUME site \in Pages
  PROVE  /\ None \notin Versions /\ None \notin Refreshes /\ None \notin Trailing
         /\ None \notin Nat
<1>1. MaxRevision \in Nat
  BY StrategyAssumption DEF IsPage, MaxRevision
<1>2. Versions \subseteq Nat
  BY <1>1 DEF Versions
<1>3. \A z \in Refreshes : z \in [forSave : BOOLEAN, refused : BOOLEAN, since : Nat, saw : Nat]
  <2> TAKE z \in Refreshes
  <2>1. PICK f \in BOOLEAN, r \in BOOLEAN, s \in Versions, w \in Versions :
          z = [forSave |-> f, refused |-> r, since |-> s, saw |-> w]
    BY DEF Refreshes
  <2>2. s \in Nat /\ w \in Nat
    BY <1>2
  <2> QED BY <2>1, <2>2
<1> QED BY <1>2, <1>3, StrategyAssumption DEF IsNull, Trailing

\* The parts of a page.
LEMMA PageParts ==
  ASSUME site \in Pages
  PROVE  /\ Boundaries \subseteq Patched /\ Patched \subseteq Areas
         /\ Bound \in Patched /\ Bound \notin Boundaries
         /\ Unfaithful \subseteq Patched
         /\ IsFiniteSet(Boundaries)
         /\ HasRoute => Route \in Areas
         /\ HasRoute \in BOOLEAN /\ AfterSave \in BOOLEAN /\ Timeouts \in BOOLEAN
         /\ MaxRevision \in Nat
         /\ Versions \subseteq Nat /\ 0 \in Versions
BY StrategyAssumption DEF IsPage, Boundaries, Patched, Areas, Unfaithful, HasRoute, AfterSave,
   Timeouts, MaxRevision, Versions

\* The page stays what it is, and so does all that is made of it.
LEMMA SamePage ==
  ASSUME site' = site
  PROVE  /\ Boundaries' = Boundaries /\ Unfaithful' = Unfaithful /\ HasRoute' = HasRoute
         /\ AfterSave' = AfterSave /\ Timeouts' = Timeouts /\ MaxRevision' = MaxRevision
         /\ Patched' = Patched /\ Areas' = Areas /\ Versions' = Versions
         /\ Revisions' = Revisions /\ Batches' = Batches /\ Refreshes' = Refreshes
BY DEF Boundaries, Unfaithful, HasRoute, AfterSave, Timeouts, MaxRevision, Patched, Areas,
   Versions, Revisions, Batches, Refreshes

---------------------------------------------------------------------------
(* StrategyRunner: what is counted *)

\* The members of two sets without a common one add up.
LEMMA ApartAddsUp ==
  ASSUME NEW S, NEW T, IsFiniteSet(S), IsFiniteSet(T), S \cap T = {}
  PROVE  /\ Cardinality(S) \in Nat /\ Cardinality(T) \in Nat
         /\ Cardinality(S \cup T) = Cardinality(S) + Cardinality(T)
<1>1. Cardinality(S) \in Nat /\ Cardinality(T) \in Nat
  BY FS_CardinalityType
<1>2. Cardinality(S \cup T) = Cardinality(S) + Cardinality(T) - Cardinality(S \cap T)
  BY FS_Union
<1>3. Cardinality(S \cap T) = 0
  BY FS_EmptySet
<1>4. Cardinality(S \cup T) = Cardinality(S) + Cardinality(T)
  BY <1>1, <1>2, <1>3
<1> QED BY <1>1, <1>4

LEMMA DueIsFinite ==
  ASSUME site \in Pages, NEW bs, IsFiniteSet(bs)
  PROVE  IsFiniteSet(Due(bs))
<1>1. IsFiniteSet(bs \X Boundaries)
  BY PageParts, FS_Product
<1>2. Due(bs) \subseteq bs \X Boundaries
  BY DEF Due
<1> QED BY <1>1, <1>2, FS_Subset

\* What one batch has not settled.
LEMMA DueOfOne ==
  ASSUME site \in Pages, NEW x \in Batches
  PROVE  /\ Due({x}) = {x} \X x.left
         /\ IsFiniteSet(x.left) /\ IsFiniteSet(Due({x}))
         /\ Cardinality(Due({x})) = Cardinality(x.left)
<1>1. x.left \subseteq Boundaries
  BY DEF Batches
<1>2. Due({x}) = {x} \X x.left
  BY <1>1 DEF Due
<1>3. IsFiniteSet(x.left) /\ Cardinality(x.left) \in Nat
  BY <1>1, PageParts, FS_Subset, FS_CardinalityType
<1>4. IsFiniteSet({x}) /\ Cardinality({x}) = 1
  BY FS_Singleton
<1>5. /\ IsFiniteSet({x} \X x.left)
      /\ Cardinality({x} \X x.left) = Cardinality({x}) * Cardinality(x.left)
  BY <1>3, <1>4, FS_Product
<1>6. Cardinality({x} \X x.left) = Cardinality(x.left)
  BY <1>3, <1>4, <1>5
<1> QED BY <1>2, <1>3, <1>5, <1>6

\* A new batch counts for what it is to render.
LEMMA LaunchCounts ==
  ASSUME site \in Pages,
         NEW bs \in SUBSET Batches, NEW n \in Nat, NEW k \in Nat, CountedAs(bs, n, k),
         NEW plan \in SUBSET Boundaries, plan # {}
  PROVE  /\ [id |-> n + 1, plan |-> plan, left |-> plan] \in Batches
         /\ Cardinality(plan) \in Nat
         /\ CountedAs(bs \cup {[id |-> n + 1, plan |-> plan, left |-> plan]}, n + 1,
                      k + Cardinality(plan))
<1> DEFINE x == [id |-> n + 1, plan |-> plan, left |-> plan]
<1>1. x \in Batches /\ x.id = n + 1 /\ x.left = plan /\ x.plan = plan
  BY DEF Batches
<1> HIDE DEF x
<1>2. \A y \in bs : y.id \in 1..n
  BY DEF CountedAs, Numbered
<1>3. \A y \in bs : y.id # x.id
  BY <1>1, <1>2
<1>4. IsFiniteSet(bs \cup {x})
  BY FS_AddElement DEF CountedAs
<1>5. Apart(bs \cup {x})
  BY <1>3 DEF Apart, CountedAs
<1>6. Numbered(bs \cup {x}, n + 1)
  <2>1. \A y \in bs : y.id \in 1..(n + 1)
    BY <1>2
  <2>2. x.id \in 1..(n + 1)
    BY <1>1
  <2> QED BY <2>1, <2>2, <1>1 DEF Numbered, CountedAs
<1>7. Due(bs \cup {x}) = Due(bs) \cup Due({x})
  BY DEF Due
<1>8. Due(bs) \cap Due({x}) = {}
  BY <1>3 DEF Due
<1>9. IsFiniteSet(Due(bs)) /\ IsFiniteSet(Due({x})) /\ Cardinality(Due({x})) = Cardinality(plan)
  BY <1>1, DueIsFinite, DueOfOne DEF CountedAs
<1>10. Cardinality(Due(bs)) = k /\ Cardinality(plan) \in Nat
  BY <1>1, <1>9, FS_CardinalityType DEF CountedAs
<1>11. Cardinality(Due(bs \cup {x})) = k + Cardinality(plan)
  BY <1>7, <1>8, <1>9, <1>10, ApartAddsUp
<1>12. CountedAs(bs \cup {x}, n + 1, k + Cardinality(plan))
  BY <1>4, <1>5, <1>6, <1>11 DEF CountedAs
<1> QED BY <1>1, <1>10, <1>12 DEF x

\* What a batch leaves unsettled is counted no longer when the batch ends.
LEMMA EndCounts ==
  ASSUME site \in Pages,
         NEW bs \in SUBSET Batches, NEW n \in Nat, NEW k \in Nat, CountedAs(bs, n, k),
         NEW x \in bs
  PROVE  /\ Cardinality(x.left) \in Nat
         /\ k - Cardinality(x.left) \in Nat
         /\ CountedAs(bs \ {x}, n, k - Cardinality(x.left))
<1>1. x \in Batches
  OBVIOUS
<1>2. Due(bs) = Due(bs \ {x}) \cup Due({x})
  BY DEF Due
<1>3. Due(bs \ {x}) \cap Due({x}) = {}
  BY DEF Due
<1>4. IsFiniteSet(bs \ {x})
  BY FS_Subset DEF CountedAs
<1>5. /\ IsFiniteSet(Due(bs \ {x})) /\ IsFiniteSet(Due({x}))
      /\ Cardinality(Due({x})) = Cardinality(x.left)
  BY <1>1, <1>4, DueIsFinite, DueOfOne
<1>6. Cardinality(Due(bs \ {x})) \in Nat /\ Cardinality(x.left) \in Nat
  BY <1>1, <1>5, DueOfOne, FS_CardinalityType
<1>7. Cardinality(Due(bs \ {x}) \cup Due({x})) = Cardinality(Due(bs \ {x})) + Cardinality(Due({x}))
  BY <1>3, <1>5, ApartAddsUp
<1>8. k = Cardinality(Due(bs \ {x})) + Cardinality(x.left)
  BY <1>2, <1>5, <1>7 DEF CountedAs
<1>9. k - Cardinality(x.left) \in Nat /\ k - Cardinality(x.left) = Cardinality(Due(bs \ {x}))
  BY <1>6, <1>8
<1>10. Apart(bs \ {x}) /\ Numbered(bs \ {x}, n)
  BY DEF Apart, Numbered, CountedAs
<1> QED BY <1>4, <1>6, <1>9, <1>10 DEF CountedAs

\* A boundary that is settled is counted no longer.
LEMMA SettleCounts ==
  ASSUME site \in Pages,
         NEW bs \in SUBSET Batches, NEW n \in Nat, NEW k \in Nat, CountedAs(bs, n, k),
         NEW x \in bs, NEW b \in x.left, x.left # {b}
  PROVE  /\ [x EXCEPT !.left = @ \ {b}] \in Batches
         /\ [x EXCEPT !.left = @ \ {b}].left = x.left \ {b}
         /\ k - 1 \in Nat
         /\ CountedAs((bs \ {x}) \cup {[x EXCEPT !.left = @ \ {b}]}, n, k - 1)
<1> DEFINE y == [x EXCEPT !.left = @ \ {b}]
<1>1. y \in Batches /\ y.id = x.id /\ y.plan = x.plan /\ y.left = x.left \ {b}
  BY DEF Batches
<1> HIDE DEF y
<1>2. IsFiniteSet(x.left) /\ IsFiniteSet(Due({y})) /\ Cardinality(Due({y})) = Cardinality(y.left)
  BY <1>1, DueOfOne
<1>3. Cardinality(y.left) = Cardinality(x.left) - 1
  <2>1. b \in x.left /\ IsFiniteSet(x.left)
    BY <1>2
  <2>2. Cardinality(x.left \ {b}) = Cardinality(x.left) - 1
    BY <2>1, FS_RemoveElement
  <2> QED BY <2>2, <1>1
<1>4. /\ Cardinality(x.left) \in Nat /\ k - Cardinality(x.left) \in Nat
      /\ CountedAs(bs \ {x}, n, k - Cardinality(x.left))
  BY EndCounts
<1>5. Cardinality(x.left) # 0
  BY <1>2, FS_EmptySet
<1>6. \A z \in bs \ {x} : z.id # y.id
  BY <1>1 DEF CountedAs, Apart
<1>7. IsFiniteSet((bs \ {x}) \cup {y})
  BY <1>4, FS_AddElement DEF CountedAs
<1>8. Apart((bs \ {x}) \cup {y})
  BY <1>6 DEF Apart, CountedAs
<1>9. Numbered((bs \ {x}) \cup {y}, n)
  BY <1>1 DEF Numbered, CountedAs
<1>10. Due((bs \ {x}) \cup {y}) = Due(bs \ {x}) \cup Due({y})
  BY DEF Due
<1>11. Due(bs \ {x}) \cap Due({y}) = {}
  BY <1>6 DEF Due
<1>12. IsFiniteSet(Due(bs \ {x})) /\ Cardinality(Due(bs \ {x})) = k - Cardinality(x.left)
  BY <1>4, DueIsFinite DEF CountedAs
<1>13. Cardinality(Due((bs \ {x}) \cup {y})) = (k - Cardinality(x.left)) + (Cardinality(x.left) - 1)
  <2>1. Cardinality(Due(bs \ {x}) \cup Due({y}))
          = Cardinality(Due(bs \ {x})) + Cardinality(Due({y}))
    BY <1>2, <1>11, <1>12, ApartAddsUp
  <2>2. Cardinality(Due((bs \ {x}) \cup {y})) = Cardinality(Due(bs \ {x})) + Cardinality(Due({y}))
    BY <2>1, <1>10
  <2> QED BY <2>2, <1>2, <1>3, <1>12
<1>14. Cardinality(Due((bs \ {x}) \cup {y})) = k - 1 /\ k - 1 \in Nat
  <2>1. k \in Nat /\ Cardinality(x.left) \in Nat /\ k - Cardinality(x.left) \in Nat
    BY <1>4
  <2> QED BY <2>1, <1>5, <1>13
<1>15. CountedAs((bs \ {x}) \cup {y}, n, k - 1)
  BY <1>7, <1>8, <1>9, <1>14 DEF CountedAs
<1> QED BY <1>1, <1>14, <1>15 DEF y

\* Without a batch nothing is counted.
LEMMA NothingCounts ==
  ASSUME NEW n \in Nat
  PROVE  CountedAs({}, n, 0)
<1>1. Due({}) = {}
  BY DEF Due
<1> QED BY <1>1, FS_EmptySet DEF CountedAs, Apart, Numbered

\* A batch is counted by the page it is on.
LEMMA CountedNext ==
  ASSUME site' = site, CountedAs(batches', tx'.launched, tx'.pending)
  PROVE  Counting'
<1>1. Boundaries' = Boundaries
  BY SamePage
<1> QED BY <1>1 DEF Counting, CountedAs, Due

---------------------------------------------------------------------------
(* StrategyRunner: asking the server *)

\* The revision as it is changed on the way.
LEMMA RevisionChanges ==
  ASSUME NEW t \in Revisions
  PROVE  /\ Refreshing(t) \in Revisions
         /\ Refreshing(t).revision = t.revision /\ Refreshing(t).applied = t.applied
         /\ Refreshing(t).pending = t.pending /\ Refreshing(t).launched = t.launched
         /\ Refreshing(t).ran = t.ran /\ Refreshing(t).completed = t.completed
BY DEF Refreshing, Revisions

\* A refresh that starts is of the revision, and one that is refused runs again.
LEMMA RunRouteStarts ==
  ASSUME Typed, issued \in Versions, saved' \in Versions,
         NEW t \in Revisions, NEW forSave \in BOOLEAN,
         NEW inTransit \in Refreshes \cup {None}, NEW armed \in Trailing \cup {None},
         NEW awaits \in BOOLEAN,
         RunRoute(t, forSave, inTransit, armed, awaits)
  PROVE  /\ tx' = t
         /\ route' \in Refreshes \cup {None} /\ retry' \in Trailing \cup {None}
         /\ windowOpen' \in BOOLEAN /\ awaitsSave' \in BOOLEAN
         /\ \/ AfterSave /\ ~forSave /\ awaitsSave' /\ route' = inTransit /\ retry' = armed
            \/ /\ ~(AfterSave /\ ~forSave)
               /\ route' # None /\ route' \in Refreshes /\ route'.since = t.revision
               /\ route'.refused => retry' # None
               /\ ~route'.refused => retry' = armed
               /\ armed # None => retry' # None
<1>1. CASE AfterSave /\ ~forSave
  BY <1>1 DEF RunRoute, Typed
<1>2. CASE ~(AfterSave /\ ~forSave)
  <2>1. /\ tx' = t
        /\ awaitsSave' = awaits
        /\ route' = [forSave |-> forSave, refused |-> windowOpen,
                     since |-> t.revision, saw |-> saved']
        /\ retry' = IF windowOpen THEN [forSave |-> forSave, due |-> FALSE] ELSE armed
        /\ windowOpen' = TRUE
    BY <1>2 DEF RunRoute
  <2>2. t.revision \in Versions /\ windowOpen \in BOOLEAN
    BY DEF Revisions, Typed
  <2>3. /\ route' \in Refreshes /\ route'.since = t.revision
        /\ route'.refused = windowOpen
    BY <2>1, <2>2 DEF Refreshes
  <2>4. [forSave |-> forSave, due |-> FALSE] \in Trailing
    BY DEF Trailing
  <2>5. site \in Pages
    BY DEF Typed
  <2>6. None \notin Refreshes /\ None \notin Trailing
    BY <2>5, NullIsApart
  <2>7. retry' \in Trailing \cup {None}
    BY <2>1, <2>4
  <2>8. windowOpen => retry' # None
    BY <2>1, <2>4, <2>6
  <2>9. ~windowOpen => retry' = armed
    BY <2>1
  <2>10. route' # None
    BY <2>3, <2>6
  <2> QED BY <1>2, <2>1, <2>3, <2>7, <2>8, <2>9, <2>10
<1> QED BY <1>1, <1>2

\* The boundaries of a plan become a batch, and the revision counts them.
LEMMA LaunchStarts ==
  ASSUME Typed, Counting, NEW t \in Revisions,
         t.launched = tx.launched, t.pending = tx.pending,
         NEW plan \in SUBSET Boundaries, plan # {}
  PROVE  /\ Launched(t, plan) \in Revisions
         /\ Launched(t, plan).revision = t.revision /\ Launched(t, plan).applied = t.applied
         /\ Launched(t, plan).ran = t.ran /\ Launched(t, plan).completed = t.completed
         /\ Launched(t, plan).routeRefreshed = t.routeRefreshed
         /\ Launch(t, plan) \subseteq Batches /\ batches \subseteq Launch(t, plan)
         /\ \A b \in plan : \E x \in Launch(t, plan) : b \in x.left
         /\ CountedAs(Launch(t, plan), Launched(t, plan).launched, Launched(t, plan).pending)
<1> DEFINE x == [id |-> t.launched + 1, plan |-> plan, left |-> plan]
<1>1. site \in Pages /\ batches \subseteq Batches /\ t.launched \in Nat /\ t.pending \in Nat
  BY DEF Typed, Revisions
<1>2. CountedAs(batches, t.launched, t.pending)
  BY DEF Counting
<1>3. /\ x \in Batches /\ Cardinality(plan) \in Nat
      /\ CountedAs(batches \cup {x}, t.launched + 1, t.pending + Cardinality(plan))
  BY <1>1, <1>2, LaunchCounts
<1>4. Launch(t, plan) = batches \cup {x}
  BY DEF Launch
<1>5. x.left = plan
  OBVIOUS
<1> HIDE DEF x
<1>6. Launched(t, plan) = [[t EXCEPT !.pending = t.pending + Cardinality(plan)]
                             EXCEPT !.launched = t.launched + 1]
  BY DEF Launched, Revisions
<1>7. t.pending + Cardinality(plan) \in Nat /\ t.launched + 1 \in Nat
  BY <1>1, <1>3
<1>8. /\ Launched(t, plan) \in Revisions
      /\ Launched(t, plan).pending = t.pending + Cardinality(plan)
      /\ Launched(t, plan).launched = t.launched + 1
      /\ Launched(t, plan).revision = t.revision /\ Launched(t, plan).applied = t.applied
      /\ Launched(t, plan).ran = t.ran /\ Launched(t, plan).completed = t.completed
      /\ Launched(t, plan).routeRefreshed = t.routeRefreshed
  BY <1>6, <1>7 DEF Revisions
<1> QED BY <1>1, <1>3, <1>4, <1>5, <1>8

\* What scheduleAllFields is called with: the revision after its diff, the refresh
\* in flight unless it has just returned, and the identities to go by.
Scheduled(t, inTransit) ==
  /\ t \in Revisions /\ t.applied /\ t.revision = tx.revision
  /\ t.launched = tx.launched /\ t.pending = tx.pending
  /\ undiffed \subseteq t.touched
  /\ undiffed \cap t.ran = {} /\ (~HasRoute => fragmentsOwed \cap t.ran = {})
  /\ HasRoute /\ (routeOwed \/ Route \in undiffed) => ~t.routeRefreshed
  /\ \/ inTransit = route /\ answered' = answered
     \/ /\ inTransit = None /\ route # None
        /\ answered' = IF route.refused THEN answered ELSE route.since

\* What a call of scheduleAllFields finds on the page and leaves alone there.
PageAsFound ==
  /\ site' = site /\ issued' = issued /\ undiffed' = {}
  /\ UNCHANGED <<lastEdit, refused, handed, served, saved>>
  /\ routeShows' \in Versions /\ shows' \in [Patched -> Versions]
  /\ identity' \in [Patched -> Versions \cup {None}]
  /\ \A a \in Patched :
       /\ identity'[a] # None => identity'[a] <= issued
       /\ identity'[a] = lastEdit[a] => shows'[a] = lastEdit[a]

\* The two things it does: ask for the route, or plan boundaries and patches.
LEMMA ScheduleAllSteps ==
  ASSUME StrategyInv, NEW t, NEW inTransit, NEW awaits \in BOOLEAN, tx.revision # 0,
         Scheduled(t, inTransit), PageAsFound, ScheduleAll(t, inTransit, retry, awaits)
  PROVE  /\ tx' \in Revisions /\ tx'.applied /\ tx'.revision = issued
         /\ batches' \subseteq Batches /\ batches \subseteq batches'
         /\ CountedAs(batches', tx'.launched, tx'.pending)
         /\ fragmentsOwed' \in SUBSET fragmentsOwed
         /\ route' \in Refreshes \cup {None} /\ retry' \in Trailing \cup {None}
         /\ routeOwed' \in BOOLEAN /\ awaitsSave' \in BOOLEAN /\ windowOpen' \in BOOLEAN
         /\ buffer' \subseteq Patched /\ buffer \subseteq buffer'
         /\ \/ /\ WantsRoute(t) /\ ~routeOwed'
               /\ \/ AfterSave /\ awaitsSave' /\ route' = inTransit /\ retry' = retry
                  \/ /\ ~AfterSave /\ route' # None /\ route' \in Refreshes /\ route'.since = issued
                     /\ route'.refused => retry' # None
                     /\ retry # None => retry' # None
            \/ /\ ~WantsRoute(t) /\ routeOwed' = routeOwed
               /\ route' = inTransit /\ retry' = retry
               /\ fragmentsOwed' = fragmentsOwed \ Plan(t)
               /\ \A b \in Plan(t) : \E x \in batches' : b \in x.left
               /\ \A a \in Patched \ Plan(t) : identity'[a] # lastEdit[a] => a \in buffer'
               /\ tx'.completed \/ batches' # {} \/ buffer' # {}
<1>1. /\ Typed /\ Counting /\ site \in Pages /\ t \in Revisions /\ t.revision = issued
      /\ t.applied /\ t.launched = tx.launched /\ t.pending = tx.pending
      /\ inTransit \in Refreshes \cup {None} /\ retry \in Trailing \cup {None}
      /\ issued \in Versions /\ saved' \in Versions
  BY DEF StrategyInv, Typed, Newest, Scheduled, PageAsFound
<1>2. CASE WantsRoute(t)
  <2>1. /\ RunRoute(Refreshing(t), FALSE, inTransit, retry, awaits)
        /\ routeOwed' = FALSE
        /\ UNCHANGED <<batches, fragmentsOwed, buffer>>
    BY <1>2 DEF ScheduleAll
  <2>2. /\ Refreshing(t) \in Revisions
        /\ Refreshing(t).revision = issued /\ Refreshing(t).applied
        /\ Refreshing(t).pending = tx.pending /\ Refreshing(t).launched = tx.launched
    BY <1>1, RevisionChanges
  <2>3. /\ tx' = Refreshing(t)
        /\ route' \in Refreshes \cup {None} /\ retry' \in Trailing \cup {None}
        /\ windowOpen' \in BOOLEAN /\ awaitsSave' \in BOOLEAN
        /\ \/ AfterSave /\ awaitsSave' /\ route' = inTransit /\ retry' = retry
           \/ /\ ~AfterSave
              /\ route' # None /\ route' \in Refreshes /\ route'.since = issued
              /\ route'.refused => retry' # None
              /\ retry # None => retry' # None
    <3> DEFINE u == Refreshing(t)
    <3>1. u \in Revisions /\ u.revision = issued /\ RunRoute(u, FALSE, inTransit, retry, awaits)
      BY <2>1, <2>2
    <3> HIDE DEF u
    <3>2. /\ tx' = u
          /\ route' \in Refreshes \cup {None} /\ retry' \in Trailing \cup {None}
          /\ windowOpen' \in BOOLEAN /\ awaitsSave' \in BOOLEAN
          /\ \/ AfterSave /\ ~FALSE /\ awaitsSave' /\ route' = inTransit /\ retry' = retry
             \/ /\ ~(AfterSave /\ ~FALSE)
                /\ route' # None /\ route' \in Refreshes /\ route'.since = u.revision
                /\ route'.refused => retry' # None
                /\ ~route'.refused => retry' = retry
                /\ retry # None => retry' # None
      BY <1>1, <3>1, RunRouteStarts
    <3>3. AfterSave \in BOOLEAN
      BY <1>1, PageParts
    <3> QED BY <3>1, <3>2, <3>3 DEF u
  <2>4. CountedAs(batches', tx'.launched, tx'.pending)
    BY <1>1, <2>1, <2>2, <2>3 DEF Counting
  <2>5. batches \subseteq Batches /\ buffer \subseteq Patched
    BY <1>1 DEF Typed
  <2> QED BY <1>2, <2>1, <2>2, <2>3, <2>4, <2>5
<1>3. CASE ~WantsRoute(t)
  <2> DEFINE plan == Plan(t)
             writes == Writes(t, plan)
             after == IF plan = {} THEN t ELSE [Launched(t, plan) EXCEPT !.ran = @ \cup plan]
             idle == writes = {} /\ buffer = {} /\ after.pending = 0
  <2>1. /\ tx' = [after EXCEPT !.completed = @ \/ idle]
        /\ batches' = IF plan = {} THEN batches ELSE Launch(t, plan)
        /\ fragmentsOwed' = fragmentsOwed \ plan
        /\ buffer' = buffer \cup writes
        /\ awaitsSave' = awaits
        /\ route' = inTransit /\ retry' = retry
        /\ UNCHANGED <<routeOwed, windowOpen>>
    BY <1>3 DEF ScheduleAll
  <2>2. plan \in SUBSET Boundaries
    BY <1>1 DEF Plan, Typed
  <2>3. /\ after \in Revisions /\ after.applied /\ after.revision = issued
        /\ batches' \subseteq Batches /\ batches \subseteq batches'
        /\ CountedAs(batches', after.launched, after.pending)
        /\ \A b \in plan : \E x \in batches' : b \in x.left
    <3>1. CASE plan = {}
      BY <1>1, <2>1, <3>1 DEF Counting, Typed
    <3>2. CASE plan # {}
      <4> DEFINE u == Launched(t, plan)
      <4>1. /\ u \in Revisions /\ u.revision = t.revision /\ u.applied = t.applied
            /\ Launch(t, plan) \subseteq Batches /\ batches \subseteq Launch(t, plan)
            /\ \A b \in plan : \E x \in Launch(t, plan) : b \in x.left
            /\ CountedAs(Launch(t, plan), u.launched, u.pending)
        BY <1>1, <2>2, <3>2, LaunchStarts
      <4>2. after = [u EXCEPT !.ran = u.ran \cup plan]
        BY <3>2
      <4> HIDE DEF u, after
      <4>3. u.ran \cup plan \in SUBSET Boundaries
        BY <2>2, <4>1 DEF Revisions
      <4>4. /\ after \in Revisions /\ after.revision = u.revision /\ after.applied = u.applied
            /\ after.launched = u.launched /\ after.pending = u.pending
        BY <4>1, <4>2, <4>3 DEF Revisions
      <4> QED BY <1>1, <2>1, <3>2, <4>1, <4>4
    <3> QED BY <3>1, <3>2
  <2> HIDE DEF after, plan
  <2>4. idle \in BOOLEAN
    OBVIOUS
  <2>5. tx' = [after EXCEPT !.completed = after.completed \/ idle]
    BY <2>1
  <2> HIDE DEF idle
  <2>6. after.completed \in BOOLEAN
    BY <2>3 DEF Revisions
  <2>7. /\ tx' \in Revisions /\ tx'.revision = after.revision /\ tx'.applied = after.applied
        /\ tx'.launched = after.launched /\ tx'.pending = after.pending
        /\ tx'.completed = (after.completed \/ idle)
    BY <2>3, <2>4, <2>5, <2>6 DEF Revisions
  <2>8. tx'.completed \/ batches' # {} \/ buffer' # {}
    <3>1. CASE writes = {} /\ buffer = {} /\ after.pending = 0
      BY <2>7, <3>1 DEF idle
    <3>2. CASE after.pending # 0
      BY <2>3, <3>2, FS_EmptySet DEF CountedAs, Due
    <3>3. CASE writes # {} \/ buffer # {}
      BY <2>1, <3>3
    <3> QED BY <3>1, <3>2, <3>3
  <2>9. \A a \in Patched \ plan : identity'[a] # lastEdit[a] => a \in buffer'
    BY <2>1 DEF Writes
  <2>10. buffer' \subseteq Patched
    BY <1>1, <2>1 DEF Writes, Typed
  <2>11. routeOwed' \in BOOLEAN /\ windowOpen' \in BOOLEAN
    BY <1>1, <2>1 DEF Typed
  <2>12. fragmentsOwed' \in SUBSET fragmentsOwed
    BY <2>1
  <2> QED BY <1>1, <1>3, <2>1, <2>3, <2>7, <2>8, <2>9, <2>10, <2>11, <2>12 DEF plan
<1> QED BY <1>2, <1>3

\* Whatever calls scheduleAllFields, the work an area needs is under way after it.
LEMMA ScheduleAllKeeps ==
  ASSUME StrategyInv, NEW t, NEW inTransit, NEW awaits \in BOOLEAN, tx.revision # 0,
         Scheduled(t, inTransit), PageAsFound, ScheduleAll(t, inTransit, retry, awaits)
  PROVE  StrategyInv'
<1>1. /\ Typed /\ site \in Pages /\ t.applied
      /\ HasRoute \in BOOLEAN /\ AfterSave \in BOOLEAN /\ Versions \subseteq Nat
      /\ Boundaries \subseteq Patched /\ Patched \subseteq Areas
      /\ HasRoute => Route \in Areas
      /\ issued \in Versions /\ answered \in Versions /\ lastEdit \in [Areas -> Versions]
      /\ route \in Refreshes \cup {None} /\ retry \in Trailing \cup {None}
  BY PageParts DEF StrategyInv, Typed, Scheduled
<1>2. site' = site
  BY DEF PageAsFound
<1>3. /\ Boundaries' = Boundaries /\ Unfaithful' = Unfaithful /\ HasRoute' = HasRoute
      /\ AfterSave' = AfterSave /\ Timeouts' = Timeouts /\ MaxRevision' = MaxRevision
      /\ Patched' = Patched /\ Areas' = Areas /\ Versions' = Versions
      /\ Revisions' = Revisions /\ Batches' = Batches /\ Refreshes' = Refreshes
  BY <1>2, SamePage
<1>4. /\ issued' = issued /\ lastEdit' = lastEdit /\ refused' = refused /\ handed' = handed
      /\ served' = served /\ saved' = saved /\ undiffed' = {}
  BY DEF PageAsFound
<1>5. /\ inTransit = route /\ answered' = answered
      \/ /\ inTransit = None /\ route # None
         /\ answered' = IF route.refused THEN answered ELSE route.since
  BY DEF Scheduled
<1>6. /\ tx' \in Revisions /\ tx'.applied /\ tx'.revision = issued
      /\ batches' \subseteq Batches /\ batches \subseteq batches'
      /\ CountedAs(batches', tx'.launched, tx'.pending)
      /\ fragmentsOwed' \in SUBSET fragmentsOwed
      /\ route' \in Refreshes \cup {None} /\ retry' \in Trailing \cup {None}
      /\ routeOwed' \in BOOLEAN /\ awaitsSave' \in BOOLEAN /\ windowOpen' \in BOOLEAN
      /\ buffer' \subseteq Patched /\ buffer \subseteq buffer'
  BY ScheduleAllSteps
<1>7. \/ /\ WantsRoute(t) /\ ~routeOwed'
         /\ \/ AfterSave /\ awaitsSave' /\ route' = inTransit /\ retry' = retry
            \/ /\ ~AfterSave /\ route' # None /\ route' \in Refreshes /\ route'.since = issued
               /\ route'.refused => retry' # None
               /\ retry # None => retry' # None
      \/ /\ ~WantsRoute(t) /\ routeOwed' = routeOwed
         /\ route' = inTransit /\ retry' = retry
         /\ fragmentsOwed' = fragmentsOwed \ Plan(t)
         /\ \A b \in Plan(t) : \E x \in batches' : b \in x.left
         /\ \A a \in Patched \ Plan(t) : identity'[a] # lastEdit[a] => a \in buffer'
         /\ tx'.completed \/ batches' # {} \/ buffer' # {}
  BY ScheduleAllSteps
<1>8. /\ route # None => route.since \in Versions /\ route.since <= issued
      /\ answered <= issued /\ answered' \in Versions /\ answered' <= issued
      /\ route # None => answered <= route.since
  BY <1>1, <1>5 DEF StrategyInv, Newest, Refreshed, Refreshes
<1>9. Typed'
  BY <1>1, <1>2, <1>3, <1>4, <1>6, <1>8 DEF Typed, PageAsFound
<1>10. Counting'
  BY <1>2, <1>6, CountedNext
<1>11. Newest'
  <2>1. tx'.revision \in {0, issued'} /\ tx'.revision # 0
    BY <1>4, <1>6 DEF StrategyInv, Newest
  <2>2. \A a \in Areas' : lastEdit'[a] <= issued'
    BY <1>3, <1>4 DEF StrategyInv, Newest
  <2>3. \A a \in Patched' : identity'[a] # None => identity'[a] <= issued'
    BY <1>3, <1>4 DEF PageAsFound
  <2> QED BY <2>1, <2>2, <2>3, <1>4, <1>8 DEF Newest
<1>12. Staged'
  BY <1>4, <1>6 DEF Staged
<1>13. ~HasRoute => route = None /\ retry = None /\ ~routeOwed /\ ~WantsRoute(t)
  BY DEF StrategyInv, Refreshed, WantsRoute
<1>14. Refreshed'
  <2>1. ~HasRoute' => route' = None /\ retry' = None /\ ~routeOwed'
    BY <1>3, <1>5, <1>7, <1>13
  <2>2. issued <= issued
    BY <1>1
  <2>3. route' # None => answered' <= route'.since /\ route'.since <= issued'
    BY <1>4, <1>5, <1>7, <1>8, <2>2
  <2>4. route' # None => (route'.refused => retry' # None)
    BY <1>5, <1>7 DEF StrategyInv, Refreshed
  <2> QED BY <2>1, <2>3, <2>4 DEF Refreshed
<1>15. IdentityIsShown'
  BY <1>3, <1>4 DEF IdentityIsShown, PageAsFound
<1>16. PageIsCovered'
  <2> SUFFICES ASSUME ~AfterSave, NEW a \in Patched \ refused
               PROVE  \/ shows'[a] = lastEdit[a] \/ a \in buffer' \/ route' # None
                      \/ \E x \in batches' : a \in x.left
    BY <1>3, <1>4 DEF PageIsCovered, Covered, InBatch
  <2>1. CASE WantsRoute(t)
    BY <1>7, <2>1
  <2>2. CASE ~WantsRoute(t) /\ a \in Plan(t)
    BY <1>7, <2>2
  <2>3. CASE ~WantsRoute(t) /\ a \notin Plan(t)
    BY <1>7, <2>3 DEF PageAsFound
  <2> QED BY <2>1, <2>2, <2>3
<1>17. WorkOrDone'
  BY <1>3, <1>7 DEF WorkOrDone
<1>18. BoundariesAreOwed'
  <2> SUFFICES ASSUME ~HasRoute
               PROVE  /\ fragmentsOwed' = {}
                      /\ \A b \in Boundaries : \/ served[b] >= lastEdit[b]
                                               \/ \E x \in batches' : b \in x.left
    BY <1>3, <1>4 DEF BoundariesAreOwed, InBatch
  <2>1. /\ fragmentsOwed \subseteq Boundaries
        /\ fragmentsOwed \cap t.ran = {} /\ undiffed \subseteq t.touched /\ undiffed \cap t.ran = {}
    BY DEF StrategyInv, Typed, Scheduled
  <2>2. /\ fragmentsOwed' = fragmentsOwed \ Plan(t)
        /\ \A b \in Plan(t) : \E x \in batches' : b \in x.left
    BY <1>7, <1>13
  <2>3. \A b \in Boundaries : b \in undiffed \/ b \in fragmentsOwed => b \in Plan(t)
    BY <2>1 DEF Plan
  <2>4. fragmentsOwed' = {}
    BY <2>1, <2>2, <2>3
  <2>5. \A b \in Boundaries : \/ served[b] >= lastEdit[b]
                              \/ b \in undiffed \/ b \in fragmentsOwed
                              \/ \E x \in batches : b \in x.left
    BY DEF StrategyInv, BoundariesAreOwed, InBatch
  <2> QED BY <1>6, <2>2, <2>3, <2>4, <2>5
<1>19. RouteIsOwed'
  <2> SUFFICES ASSUME HasRoute
               PROVE  /\ ~routeOwed'
                      /\ ~AfterSave /\ ~Timeouts =>
                           \/ answered' >= lastEdit[Route]
                           \/ retry' # None
                           \/ route' # None /\ ~route'.refused /\ route'.since >= lastEdit[Route]
    BY <1>3, <1>4 DEF RouteIsOwed
  <2>1. lastEdit[Route] \in Nat /\ lastEdit[Route] <= issued /\ issued \in Nat
    BY <1>1 DEF StrategyInv, Newest
  <2>2. issued >= lastEdit[Route]
    BY <2>1
  <2>3. CASE WantsRoute(t)
    BY <1>7, <2>2, <2>3
  <2>4. CASE ~WantsRoute(t)
    <3>1. ~t.routeRefreshed => Route \notin t.touched /\ ~routeOwed
      BY <2>4 DEF WantsRoute
    <3>2. ~routeOwed /\ Route \notin undiffed
      BY <3>1 DEF Scheduled
    <3>3. ~AfterSave /\ ~Timeouts =>
            \/ answered >= lastEdit[Route]
            \/ retry # None
            \/ route # None /\ ~route.refused /\ route.since >= lastEdit[Route]
      BY <3>2 DEF StrategyInv, RouteIsOwed
    <3>4. answered >= lastEdit[Route] => answered' >= lastEdit[Route]
      <4>1. answered' >= answered
        BY <1>1, <1>5, <1>8
      <4>2. answered \in Nat /\ answered' \in Nat
        BY <1>1, <1>8
      <4> QED BY <2>1, <4>1, <4>2
    <3>5. ~routeOwed' /\ route' = inTransit /\ retry' = retry
      BY <1>7, <2>4, <3>2
    <3> QED BY <1>5, <3>3, <3>4, <3>5
  <2> QED BY <2>3, <2>4
<1> QED BY <1>9, <1>10, <1>11, <1>12, <1>14, <1>15, <1>16, <1>17, <1>18, <1>19 DEF StrategyInv

---------------------------------------------------------------------------
(* StrategyRunner: each action keeps the invariant *)

LEMMA StrategyInitially ==
  ASSUME StrategyInit
  PROVE  StrategyInv
<1>1. site \in Pages
  BY DEF StrategyInit
<1>2. /\ Boundaries \subseteq Patched /\ Patched \subseteq Areas
      /\ Versions \subseteq Nat /\ 0 \in Versions /\ None \notin Nat
      /\ HasRoute => Route \in Areas
  BY <1>1, PageParts, NullIsApart
<1>3. Idle \in Revisions
  BY <1>2 DEF Idle, Revisions
<1>4. Typed
  BY <1>1, <1>2, <1>3 DEF StrategyInit, Typed, Nothing
<1>5. Idle.pending = 0 /\ Idle.launched = 0 /\ Idle.revision = 0 /\ ~Idle.applied
      /\ ~Idle.routeRefreshed /\ Idle.ran = {}
  BY DEF Idle
<1>6. Counting
  BY <1>5, NothingCounts DEF StrategyInit, Counting
<1>7. Newest /\ Staged /\ Refreshed
  BY <1>2, <1>5 DEF StrategyInit, Newest, Staged, Refreshed, Nothing
<1>8. IdentityIsShown /\ PageIsCovered /\ WorkOrDone
  BY <1>2, <1>5 DEF StrategyInit, IdentityIsShown, PageIsCovered, WorkOrDone, Nothing
<1>9. BoundariesAreOwed /\ RouteIsOwed
  BY <1>2, <1>5 DEF StrategyInit, BoundariesAreOwed, RouteIsOwed
<1> QED BY <1>4, <1>6, <1>7, <1>8, <1>9 DEF StrategyInv

LEMMA ApplyKeeps ==
  ASSUME StrategyInv, Apply
  PROVE  StrategyInv'
<1> DEFINE u == [tx EXCEPT !.applied = TRUE]
           t == [u EXCEPT !.touched = undiffed]
<1>1. /\ site' = site /\ issued' = issued /\ undiffed' = {}
      /\ UNCHANGED <<identity, handed, lastEdit, refused, shows, served, answered, saved,
                     routeShows>>
      /\ tx.revision # 0 /\ ~tx.applied
      /\ ScheduleAll([tx EXCEPT !.applied = TRUE, !.touched = undiffed], route, retry, awaitsSave)
  BY DEF Apply, pageVars
<1>2. Typed /\ tx \in Revisions /\ undiffed \subseteq Areas
  BY DEF StrategyInv, Typed
<1>3. [tx EXCEPT !.applied = TRUE, !.touched = undiffed] = t
  OBVIOUS
<1>4. u \in Revisions /\ u.applied /\ u.revision = tx.revision /\ u.launched = tx.launched
      /\ u.pending = tx.pending /\ u.ran = tx.ran /\ u.routeRefreshed = tx.routeRefreshed
  BY <1>2 DEF Revisions
<1> HIDE DEF u
<1>5. t \in Revisions /\ t.applied /\ t.revision = tx.revision /\ t.launched = tx.launched
      /\ t.pending = tx.pending /\ t.ran = tx.ran /\ t.routeRefreshed = tx.routeRefreshed
      /\ t.touched = undiffed
  BY <1>2, <1>4 DEF Revisions
<1> HIDE DEF t
<1>6. tx.ran = {} /\ ~tx.routeRefreshed
  BY <1>1 DEF StrategyInv, Staged
<1>7. Scheduled(t, route)
  BY <1>1, <1>5, <1>6 DEF Scheduled
<1>8. PageAsFound
  BY <1>1, <1>2 DEF PageAsFound, StrategyInv, Typed, Newest, IdentityIsShown
<1>9. awaitsSave \in BOOLEAN
  BY <1>2 DEF Typed
<1> QED BY <1>1, <1>3, <1>7, <1>8, <1>9, ScheduleAllKeeps

LEMMA RefineKeeps ==
  ASSUME StrategyInv, NEW merged \in BOOLEAN, Refine(merged)
  PROVE  StrategyInv'
<1> DEFINE u == [tx EXCEPT !.trails = FALSE]
           t == [u EXCEPT !.touched = {}]
<1>1. /\ site' = site /\ issued' = issued /\ undiffed' = undiffed
      /\ UNCHANGED <<identity, handed, lastEdit, refused, shows, served, answered, saved,
                     routeShows>>
      /\ tx.applied
  BY DEF Refine, pageVars
<1>2. Typed /\ tx \in Revisions
  BY DEF StrategyInv, Typed
<1>3. [tx EXCEPT !.trails = FALSE, !.touched = {}] = t
  OBVIOUS
<1>4. u \in Revisions /\ u.applied /\ u.revision = tx.revision /\ u.launched = tx.launched
      /\ u.pending = tx.pending /\ u.ran = tx.ran /\ u.routeRefreshed = tx.routeRefreshed
      /\ u.completed = tx.completed
  BY <1>1, <1>2 DEF Revisions
<1>5. tx.revision # 0 /\ undiffed = {} /\ (~HasRoute => fragmentsOwed = {})
      /\ (HasRoute => ~routeOwed)
  BY <1>1 DEF StrategyInv, Newest, Staged, BoundariesAreOwed, RouteIsOwed
<1>6. CASE merged
  <2>1. ScheduleAll(t, route, retry, awaitsSave)
    BY <1>3, <1>6 DEF Refine
  <2> HIDE DEF u
  <2>2. t \in Revisions /\ t.applied /\ t.revision = tx.revision /\ t.launched = tx.launched
        /\ t.pending = tx.pending
    BY <1>4 DEF Revisions
  <2> HIDE DEF t
  <2>3. Scheduled(t, route)
    BY <1>1, <1>5, <2>2 DEF Scheduled
  <2>4. PageAsFound
    BY <1>1, <1>2, <1>5 DEF PageAsFound, StrategyInv, Typed, Newest, IdentityIsShown
  <2>5. awaitsSave \in BOOLEAN
    BY <1>2 DEF Typed
  <2> QED BY <1>5, <2>1, <2>3, <2>4, <2>5, ScheduleAllKeeps
<1>7. CASE ~merged
  <2>1. tx' = u
        /\ UNCHANGED <<batches, fragmentsOwed, routeOwed, awaitsSave, route, retry, windowOpen,
                       buffer>>
    BY <1>7 DEF Refine, debts, routeVars
  <2> HIDE DEF u
  <2>2. /\ tx' \in Revisions /\ tx'.applied /\ tx'.revision = tx.revision
        /\ tx'.launched = tx.launched /\ tx'.pending = tx.pending /\ tx'.ran = tx.ran
        /\ tx'.routeRefreshed = tx.routeRefreshed /\ tx'.completed = tx.completed
    BY <1>4, <2>1
  <2>3. /\ Boundaries' = Boundaries /\ Unfaithful' = Unfaithful /\ HasRoute' = HasRoute
        /\ AfterSave' = AfterSave /\ Timeouts' = Timeouts /\ MaxRevision' = MaxRevision
        /\ Patched' = Patched /\ Areas' = Areas /\ Versions' = Versions
        /\ Revisions' = Revisions /\ Batches' = Batches /\ Refreshes' = Refreshes
    BY <1>1, SamePage
  <2>4. Typed'
    BY <1>1, <1>2, <2>1, <2>2, <2>3 DEF Typed
  <2>5. Counting'
    BY <1>1, <2>1, <2>2, CountedNext DEF StrategyInv, Counting
  <2>6. Newest' /\ Staged' /\ Refreshed' /\ IdentityIsShown' /\ WorkOrDone'
    BY <1>1, <2>1, <2>2, <2>3
    DEF StrategyInv, Newest, Staged, Refreshed, IdentityIsShown, WorkOrDone
  <2>7. PageIsCovered' /\ BoundariesAreOwed' /\ RouteIsOwed'
    BY <1>1, <2>1, <2>2, <2>3
    DEF StrategyInv, PageIsCovered, BoundariesAreOwed, RouteIsOwed, Covered, InBatch
  <2> QED BY <2>4, <2>5, <2>6, <2>7 DEF StrategyInv
<1> QED BY <1>6, <1>7

LEMMA RouteReturnsKeeps ==
  ASSUME StrategyInv, NEW landed \in BOOLEAN, NEW v \in Versions, RouteReturns(landed, v)
  PROVE  StrategyInv'
<1> DEFINE awaits == IF landed THEN ~route.forSave ELSE awaitsSave
<1>1. /\ route # None
      /\ site' = site /\ issued' = issued /\ undiffed' = undiffed
      /\ UNCHANGED <<handed, lastEdit, refused, served, saved>>
      /\ answered' = IF route.refused THEN answered ELSE route.since
      /\ routeShows' = IF landed THEN v ELSE routeShows
      /\ shows' = FreshMarkup(landed)
      /\ identity' = Identities(landed)
  BY DEF RouteReturns
<1>2. /\ Typed /\ site \in Pages /\ route \in Refreshes /\ tx \in Revisions
      /\ shows \in [Patched -> Versions] /\ identity \in [Patched -> Versions \cup {None}]
      /\ lastEdit \in [Areas -> Versions]
      /\ Patched \subseteq Areas /\ Versions \subseteq Nat /\ 0 \in Versions
      /\ None \notin Nat /\ None \notin Versions
  BY <1>1, PageParts, NullIsApart DEF StrategyInv, Typed
<1>3. awaits \in BOOLEAN
  BY <1>2 DEF Refreshes, Typed
<1> HIDE DEF awaits
<1>4. routeShows' \in Versions
  BY <1>1, <1>2 DEF Typed
<1>5. shows' \in [Patched -> Versions] /\ identity' \in [Patched -> Versions \cup {None}]
  BY <1>1, <1>2 DEF FreshMarkup, Identities, Nothing
<1>6. \A a \in Patched : identity'[a] # None => ~landed /\ identity'[a] = identity[a]
  BY <1>1 DEF Identities, Nothing
<1>7. \A a \in Patched : identity'[a] = lastEdit[a] => shows'[a] = lastEdit[a]
  <2> SUFFICES ASSUME NEW a \in Patched, identity'[a] = lastEdit[a]
               PROVE  shows'[a] = lastEdit[a]
    OBVIOUS
  <2>1. lastEdit[a] # None
    BY <1>2
  <2>2. ~landed /\ identity[a] = lastEdit[a]
    BY <1>6, <2>1
  <2> QED BY <1>1, <2>2 DEF FreshMarkup, StrategyInv, IdentityIsShown
<1>8. \A a \in Patched : identity'[a] # None => identity'[a] <= issued
  BY <1>6 DEF StrategyInv, Newest
<1>9. tx.revision # 0
  BY <1>1 DEF StrategyInv, Newest
<1>10. CASE tx.applied
  <2>1. ScheduleAll(tx, None, retry, awaits)
    BY <1>10 DEF RouteReturns, awaits
  <2>2. undiffed = {} /\ (~HasRoute => fragmentsOwed = {})
        /\ (HasRoute => ~routeOwed)
    BY <1>10 DEF StrategyInv, Staged, BoundariesAreOwed, RouteIsOwed
  <2>3. Scheduled(tx, None)
    BY <1>1, <1>2, <1>10, <2>2 DEF Scheduled
  <2>4. PageAsFound
    BY <1>1, <1>4, <1>5, <1>7, <1>8, <2>2 DEF PageAsFound
  <2> QED BY <1>3, <1>9, <2>1, <2>3, <2>4, ScheduleAllKeeps
<1>11. CASE ~tx.applied
  <2>1. /\ route' = None /\ awaitsSave' = awaits
        /\ UNCHANGED <<tx, batches, fragmentsOwed, routeOwed, retry, windowOpen, buffer>>
    BY <1>11 DEF RouteReturns, awaits
  <2>2. /\ Boundaries' = Boundaries /\ Unfaithful' = Unfaithful /\ HasRoute' = HasRoute
        /\ AfterSave' = AfterSave /\ Timeouts' = Timeouts /\ MaxRevision' = MaxRevision
        /\ Patched' = Patched /\ Areas' = Areas /\ Versions' = Versions
        /\ Revisions' = Revisions /\ Batches' = Batches /\ Refreshes' = Refreshes
    BY <1>1, SamePage
  <2>3. /\ answered' \in Versions /\ answered' <= issued /\ answered <= answered'
        /\ answered \in Nat
    <3>1. answered \in Versions /\ answered \in Nat /\ route.since \in Versions
      BY <1>2 DEF Typed, Refreshes
    <3>2. answered <= route.since /\ route.since <= issued /\ answered <= issued
      BY <1>1 DEF StrategyInv, Newest, Refreshed
    <3>3. answered <= answered
      BY <3>1
    <3> QED BY <1>1, <3>1, <3>2, <3>3
  <2>4. Typed'
    BY <1>1, <1>2, <1>3, <1>4, <1>5, <2>1, <2>2, <2>3 DEF Typed
  <2>5. Counting'
    BY <1>1, <2>1, CountedNext DEF StrategyInv, Counting
  <2>6. Newest'
    BY <1>1, <1>8, <2>1, <2>2, <2>3 DEF StrategyInv, Newest
  <2>7. Staged' /\ Refreshed' /\ PageIsCovered' /\ WorkOrDone'
    BY <1>1, <1>11, <2>1, <2>2
    DEF StrategyInv, Staged, Refreshed, PageIsCovered, WorkOrDone
  <2>8. IdentityIsShown'
    BY <1>1, <1>7, <2>2 DEF IdentityIsShown
  <2>9. BoundariesAreOwed'
    BY <1>1, <1>11, <2>1, <2>2 DEF StrategyInv, BoundariesAreOwed, InBatch
  <2>10. RouteIsOwed'
    <3> SUFFICES ASSUME HasRoute, ~AfterSave, ~Timeouts
                 PROVE  \/ answered' >= lastEdit[Route]
                        \/ Route \in undiffed \/ routeOwed \/ retry # None
      BY <1>1, <1>11, <2>1, <2>2 DEF RouteIsOwed
    <3>1. \/ answered >= lastEdit[Route]
          \/ Route \in undiffed \/ routeOwed \/ retry # None
          \/ route # None /\ ~route.refused /\ route.since >= lastEdit[Route]
      BY DEF StrategyInv, RouteIsOwed
    <3>2. Route \in Areas
      BY <1>2, PageParts
    <3>3. lastEdit[Route] \in Nat /\ answered' \in Nat
      BY <1>2, <2>3, <3>2
    <3> QED BY <1>1, <2>3, <3>1, <3>3
  <2> QED BY <2>4, <2>5, <2>6, <2>7, <2>8, <2>9, <2>10 DEF StrategyInv
<1> QED BY <1>10, <1>11

\* What a superseded revision leaves behind is owed to the one that follows.
LEMMA SupersedeOwes ==
  ASSUME StrategyInv, Supersede
  PROVE  /\ routeOwed' = (routeOwed \/ retry # None) /\ retry' = None
         /\ batches' = {} /\ fragmentsOwed' \subseteq Boundaries
         /\ fragmentsOwed \subseteq fragmentsOwed'
         /\ \A b : InBatch(b) => b \in fragmentsOwed'
<1>1. /\ routeOwed' = (routeOwed \/ retry # None) /\ retry' = None
      /\ fragmentsOwed' = fragmentsOwed \cup Unsettled /\ batches' = {}
  BY DEF Supersede, RouteDebt
<1>2. \A b : InBatch(b) <=> b \in Unsettled
  BY DEF InBatch, Unsettled
<1>3. Unsettled \subseteq Boundaries /\ fragmentsOwed \subseteq Boundaries
  BY DEF StrategyInv, Typed, Batches, Unsettled
<1> QED BY <1>1, <1>2, <1>3

\* A revision that is accepted, or none: nothing of it has begun.
LEMMA FreshTypes ==
  ASSUME site \in Pages, NEW r \in Versions, NEW trails \in BOOLEAN
  PROVE  /\ Idle \in Revisions /\ Idle.revision = 0
         /\ Fresh(r, trails) \in Revisions /\ Fresh(r, trails).revision = r
         /\ \A t \in {Idle, Fresh(r, trails)} :
              /\ t.pending = 0 /\ t.launched = 0 /\ ~t.applied
              /\ ~t.routeRefreshed /\ t.ran = {}
<1>1. 0 \in Versions
  BY PageParts
<1>2. Idle \in Revisions /\ Idle.revision = 0 /\ Idle.pending = 0 /\ Idle.launched = 0
      /\ ~Idle.applied /\ ~Idle.routeRefreshed /\ Idle.ran = {}
  BY <1>1 DEF Idle, Revisions
<1>3. Fresh(r, trails) = [[Idle EXCEPT !.revision = r] EXCEPT !.trails = trails]
  BY DEF Fresh
<1> DEFINE u == [Idle EXCEPT !.revision = r]
<1>4. u \in Revisions /\ u.revision = r /\ u.pending = 0 /\ u.launched = 0
      /\ ~u.applied /\ ~u.routeRefreshed /\ u.ran = {}
  BY <1>2 DEF Revisions
<1> HIDE DEF u
<1>5. LET w == [u EXCEPT !.trails = trails] IN
      w \in Revisions /\ w.revision = r /\ w.pending = 0 /\ w.launched = 0
      /\ ~w.applied /\ ~w.routeRefreshed /\ w.ran = {}
  BY <1>4 DEF Revisions
<1>6. Fresh(r, trails) = [u EXCEPT !.trails = trails]
  BY <1>3 DEF u
<1> QED BY <1>2, <1>5, <1>6

LEMMA MessageKeeps ==
  ASSUME StrategyInv, NEW edits \in SUBSET Areas, NEW bad \in SUBSET Unfaithful,
         NEW trails \in BOOLEAN, Message(edits, bad, trails)
  PROVE  StrategyInv'
<1>1. /\ MicrotasksDone /\ Supersede /\ issued < MaxRevision /\ issued' = issued + 1
      /\ tx' = Fresh(issued', trails)
      /\ undiffed' = undiffed \cup edits
      /\ lastEdit' = [a \in Areas |-> IF a \in edits THEN issued' ELSE lastEdit[a]]
      /\ refused' = (refused \ edits) \cup bad
      /\ buffer' = {}
      /\ site' = site
      /\ UNCHANGED <<awaitsSave, route, windowOpen, identity, handed, shows, served, answered,
                     saved, routeShows>>
  BY DEF Message
<1>2. /\ Typed /\ site \in Pages /\ issued \in Versions /\ Versions = 0..MaxRevision
      /\ lastEdit \in [Areas -> Versions] /\ identity \in [Patched -> Versions \cup {None}]
      /\ Patched \subseteq Areas /\ Boundaries \subseteq Patched
      /\ Versions \subseteq Nat /\ MaxRevision \in Nat
      /\ None \notin Nat /\ (HasRoute => Route \in Areas)
  BY PageParts, NullIsApart DEF StrategyInv, Typed, Versions
<1>3. issued' \in Versions /\ issued' # 0 /\ issued' \in Nat /\ issued \in Nat /\ issued < issued'
  BY <1>1, <1>2
<1>4. /\ tx' \in Revisions /\ tx'.revision = issued' /\ tx'.pending = 0 /\ tx'.launched = 0
      /\ ~tx'.applied /\ ~tx'.routeRefreshed /\ tx'.ran = {}
  BY <1>1, <1>2, <1>3, FreshTypes
<1>5. /\ Boundaries' = Boundaries /\ Unfaithful' = Unfaithful /\ HasRoute' = HasRoute
      /\ AfterSave' = AfterSave /\ Timeouts' = Timeouts /\ MaxRevision' = MaxRevision
      /\ Patched' = Patched /\ Areas' = Areas /\ Versions' = Versions
      /\ Revisions' = Revisions /\ Batches' = Batches /\ Refreshes' = Refreshes
  BY <1>1, SamePage
<1>6. /\ routeOwed' = (routeOwed \/ retry # None) /\ retry' = None
      /\ batches' = {} /\ fragmentsOwed' \subseteq Boundaries
      /\ fragmentsOwed \subseteq fragmentsOwed'
      /\ \A b : InBatch(b) => b \in fragmentsOwed'
  BY <1>1, SupersedeOwes
<1>7. /\ lastEdit' \in [Areas -> Versions]
      /\ \A a \in Areas : \/ a \in edits /\ lastEdit'[a] = issued'
                          \/ a \notin edits /\ lastEdit'[a] = lastEdit[a]
  BY <1>1, <1>2, <1>3
<1>8. \A a \in Areas : lastEdit[a] \in Nat /\ lastEdit[a] <= issued /\ lastEdit'[a] <= issued'
  BY <1>2, <1>3, <1>7 DEF StrategyInv, Newest
<1>9. \A a \in Patched : identity[a] # None => identity[a] <= issued /\ identity[a] \in Nat
  BY <1>2 DEF StrategyInv, Newest
<1>10. answered \in Nat /\ answered <= issued /\ (route # None => route.since \in Nat
         /\ answered <= route.since /\ route.since <= issued)
  BY <1>2 DEF StrategyInv, Newest, Refreshed, Typed, Refreshes
<1>11. Typed'
  <2>1. undiffed' \subseteq Areas /\ refused' \subseteq Unfaithful
    BY <1>1, <1>2 DEF Typed
  <2>2. routeOwed' \in BOOLEAN
    BY <1>2, <1>6 DEF Typed
  <2> QED BY <1>1, <1>2, <1>3, <1>4, <1>5, <1>6, <1>7, <2>1, <2>2 DEF Typed
<1>12. Counting'
  BY <1>1, <1>4, <1>6, NothingCounts, CountedNext
<1>13. Newest'
  <2>1. \A a \in Patched' : identity'[a] # None => identity'[a] <= issued'
    BY <1>1, <1>3, <1>5, <1>9
  <2>2. answered' <= issued'
    BY <1>1, <1>3, <1>10
  <2> QED BY <1>3, <1>4, <1>5, <1>8, <2>1, <2>2 DEF Newest
<1>14. Staged'
  <2>1. route' # None => route'.since < issued'
    BY <1>1, <1>3, <1>10
  <2> QED BY <1>1, <1>4, <1>6, <2>1 DEF Staged
<1>15. Refreshed'
  <2>1. route' # None => answered' <= route'.since /\ route'.since <= issued'
    BY <1>1, <1>3, <1>10
  <2>2. route' # None => (route'.refused => retry' # None)
    BY <1>1 DEF MicrotasksDone
  <2> QED BY <1>1, <1>5, <1>6, <2>1, <2>2 DEF StrategyInv, Refreshed
<1>16. IdentityIsShown'
  <2> SUFFICES ASSUME NEW a \in Patched, identity[a] = lastEdit'[a]
               PROVE  shows[a] = lastEdit'[a]
    BY <1>1, <1>5 DEF IdentityIsShown
  <2>1. a \in Areas /\ lastEdit'[a] \in Nat
    BY <1>2, <1>7
  <2>2. identity[a] <= issued /\ identity[a] \in Nat
    BY <1>2, <1>9, <2>1
  <2>3. lastEdit'[a] # issued'
    BY <1>3, <2>2
  <2>4. lastEdit'[a] = lastEdit[a]
    BY <1>7, <2>1, <2>3
  <2> QED BY <2>4 DEF StrategyInv, IdentityIsShown
<1>17. PageIsCovered' /\ WorkOrDone'
  BY <1>4 DEF PageIsCovered, WorkOrDone
<1>18. BoundariesAreOwed'
  <2> SUFFICES ASSUME ~HasRoute, NEW b \in Boundaries
               PROVE  served[b] >= lastEdit'[b] \/ b \in undiffed' \/ b \in fragmentsOwed'
    BY <1>1, <1>4, <1>5 DEF BoundariesAreOwed
  <2>1. served[b] >= lastEdit[b] \/ b \in undiffed \/ b \in fragmentsOwed \/ InBatch(b)
    BY DEF StrategyInv, BoundariesAreOwed
  <2>2. b \in Areas
    BY <1>2
  <2> QED BY <1>1, <1>6, <1>7, <2>1, <2>2
<1>19. RouteIsOwed'
  <2> SUFFICES ASSUME HasRoute, ~AfterSave, ~Timeouts
               PROVE  \/ answered >= lastEdit'[Route]
                      \/ Route \in undiffed' \/ routeOwed'
                      \/ route # None /\ ~route.refused /\ route.since >= lastEdit'[Route]
    BY <1>1, <1>4, <1>5 DEF RouteIsOwed
  <2>1. \/ answered >= lastEdit[Route]
        \/ Route \in undiffed \/ routeOwed \/ retry # None
        \/ route # None /\ ~route.refused /\ route.since >= lastEdit[Route]
    BY DEF StrategyInv, RouteIsOwed
  <2>2. Route \in Areas
    BY <1>2
  <2> QED BY <1>1, <1>6, <1>7, <2>1, <2>2
<1> QED BY <1>11, <1>12, <1>13, <1>14, <1>15, <1>16, <1>17, <1>18, <1>19 DEF StrategyInv

LEMMA NavigateKeeps ==
  ASSUME StrategyInv, Navigate
  PROVE  StrategyInv'
<1>1. /\ issued < MaxRevision /\ issued' = issued + 1
      /\ tx' = Fresh(issued', FALSE)
      /\ undiffed' = Areas /\ batches' = {}
      /\ fragmentsOwed' = {} /\ routeOwed' = FALSE /\ awaitsSave' = FALSE
      /\ route' = None /\ retry' = None
      /\ buffer' = {}
      /\ lastEdit' = [a \in Areas |-> issued']
      /\ identity' = [a \in Patched |-> None] /\ handed' = [a \in Patched |-> None]
      /\ shows' = [a \in Patched |-> 0]
      /\ served' = [b \in Boundaries |-> 0]
      /\ routeShows' = saved
      /\ site' = site
      /\ UNCHANGED <<windowOpen, refused, answered, saved>>
  BY DEF Navigate, Nothing
<1>2. /\ Typed /\ site \in Pages /\ issued \in Versions /\ Versions = 0..MaxRevision
      /\ Patched \subseteq Areas /\ Boundaries \subseteq Patched
      /\ Versions \subseteq Nat /\ MaxRevision \in Nat /\ 0 \in Versions
      /\ None \notin Nat /\ (HasRoute => Route \in Areas)
  BY PageParts, NullIsApart DEF StrategyInv, Typed, Versions
<1>3. issued' \in Versions /\ issued' # 0 /\ issued' \in Nat /\ issued \in Nat /\ issued <= issued'
  BY <1>1, <1>2
<1>4. /\ tx' \in Revisions /\ tx'.revision = issued' /\ tx'.pending = 0 /\ tx'.launched = 0
      /\ ~tx'.applied /\ ~tx'.routeRefreshed /\ tx'.ran = {}
  BY <1>1, <1>2, <1>3, FreshTypes
<1>5. /\ Boundaries' = Boundaries /\ Unfaithful' = Unfaithful /\ HasRoute' = HasRoute
      /\ AfterSave' = AfterSave /\ Timeouts' = Timeouts /\ MaxRevision' = MaxRevision
      /\ Patched' = Patched /\ Areas' = Areas /\ Versions' = Versions
      /\ Revisions' = Revisions /\ Batches' = Batches /\ Refreshes' = Refreshes
  BY <1>1, SamePage
<1>6. Typed'
  BY <1>1, <1>2, <1>3, <1>4, <1>5 DEF Typed
<1>7. Counting'
  BY <1>1, <1>4, NothingCounts, CountedNext
<1>8. Newest'
  <2>1. answered \in Nat /\ answered <= issued
    BY <1>2 DEF StrategyInv, Newest, Typed
  <2>2. answered' <= issued' /\ issued' <= issued'
    BY <1>1, <1>3, <2>1
  <2> QED BY <1>1, <1>3, <1>4, <1>5, <2>2 DEF Newest
<1>9. Staged' /\ Refreshed' /\ PageIsCovered' /\ WorkOrDone'
  BY <1>1, <1>4, <1>5 DEF Staged, Refreshed, PageIsCovered, WorkOrDone
<1>10. IdentityIsShown'
  BY <1>1, <1>2, <1>3, <1>5 DEF IdentityIsShown
<1>11. BoundariesAreOwed' /\ RouteIsOwed'
  BY <1>1, <1>2, <1>4, <1>5 DEF BoundariesAreOwed, RouteIsOwed
<1> QED BY <1>6, <1>7, <1>8, <1>9, <1>10, <1>11 DEF StrategyInv

LEMMA HeartbeatTimeoutKeeps ==
  ASSUME StrategyInv, HeartbeatTimeout
  PROVE  StrategyInv'
<1>1. /\ Timeouts /\ Supersede /\ tx' = Idle /\ route' = None /\ buffer' = {} /\ site' = site
      /\ UNCHANGED <<issued, undiffed, awaitsSave, windowOpen, identity, handed, lastEdit, refused,
                     shows, served, answered, saved, routeShows>>
  BY DEF HeartbeatTimeout, pageVars
<1>2. Typed /\ site \in Pages /\ issued \in Versions
  BY DEF StrategyInv, Typed
<1>3. /\ tx' \in Revisions /\ tx'.revision = 0 /\ tx'.pending = 0 /\ tx'.launched = 0
      /\ ~tx'.applied /\ ~tx'.routeRefreshed /\ tx'.ran = {}
  BY <1>1, <1>2, FreshTypes
<1>4. /\ Boundaries' = Boundaries /\ Unfaithful' = Unfaithful /\ HasRoute' = HasRoute
      /\ AfterSave' = AfterSave /\ Timeouts' = Timeouts /\ MaxRevision' = MaxRevision
      /\ Patched' = Patched /\ Areas' = Areas /\ Versions' = Versions
      /\ Revisions' = Revisions /\ Batches' = Batches /\ Refreshes' = Refreshes
  BY <1>1, SamePage
<1>5. /\ routeOwed' = (routeOwed \/ retry # None) /\ retry' = None
      /\ batches' = {} /\ fragmentsOwed' \subseteq Boundaries
      /\ fragmentsOwed \subseteq fragmentsOwed'
      /\ \A b : InBatch(b) => b \in fragmentsOwed'
  BY <1>1, SupersedeOwes
<1>6. Typed'
  <2>1. routeOwed' \in BOOLEAN
    BY <1>2, <1>5 DEF Typed
  <2> QED BY <1>1, <1>2, <1>3, <1>4, <1>5, <2>1 DEF Typed
<1>7. Counting'
  BY <1>1, <1>3, <1>5, NothingCounts, CountedNext
<1>8. Newest' /\ Staged' /\ Refreshed' /\ IdentityIsShown'
  BY <1>1, <1>3, <1>4, <1>5 DEF StrategyInv, Newest, Staged, Refreshed, IdentityIsShown
<1>9. PageIsCovered' /\ WorkOrDone'
  BY <1>3 DEF PageIsCovered, WorkOrDone
<1>10. BoundariesAreOwed' /\ RouteIsOwed'
  BY <1>1, <1>3, <1>4, <1>5 DEF StrategyInv, BoundariesAreOwed, RouteIsOwed
<1> QED BY <1>6, <1>7, <1>8, <1>9, <1>10 DEF StrategyInv

\* A boundary that is settled is done with, shown or patched.
LEMMA FragmentSettlesKeeps ==
  ASSUME StrategyInv, NEW x \in batches, NEW b \in Boundaries, NEW rendered \in BOOLEAN,
         FragmentSettles(x, b, rendered)
  PROVE  StrategyInv'
<1> DEFINE y == [x EXCEPT !.left = @ \ {b}]
           done == FragmentsDone(x, b, buffer')
<1>1. /\ b \in x.left
      /\ buffer' = IF rendered THEN buffer ELSE buffer \cup {b}
      /\ batches' = (batches \ {x}) \cup IF x.left = {b} THEN {} ELSE {y}
      /\ tx' = [tx EXCEPT !.pending = @ - 1, !.completed = @ \/ done]
      /\ shows' = IF rendered THEN [shows EXCEPT ![b] = lastEdit[b]] ELSE shows
      /\ served' = [served EXCEPT ![b] = tx.revision]
      /\ site' = site
      /\ UNCHANGED <<issued, undiffed, fragmentsOwed, routeOwed, awaitsSave, route, retry,
                     windowOpen, identity, handed, lastEdit, refused, answered, saved, routeShows>>
  BY DEF FragmentSettles, Remaining, debts, routeVars
<1>2. /\ Typed /\ site \in Pages /\ tx \in Revisions /\ batches \subseteq Batches
      /\ Boundaries \subseteq Patched /\ Patched \subseteq Areas /\ Versions \subseteq Nat
      /\ x \in Batches /\ b \in Patched /\ b \in Areas
      /\ shows \in [Patched -> Versions] /\ served \in [Boundaries -> Versions]
      /\ lastEdit \in [Areas -> Versions] /\ buffer \subseteq Patched
      /\ tx.revision \in Versions /\ tx.launched \in Nat /\ tx.pending \in Nat
      /\ tx.completed \in BOOLEAN
  BY PageParts DEF StrategyInv, Typed, Revisions
<1>3. /\ Boundaries' = Boundaries /\ Unfaithful' = Unfaithful /\ HasRoute' = HasRoute
      /\ AfterSave' = AfterSave /\ Timeouts' = Timeouts /\ MaxRevision' = MaxRevision
      /\ Patched' = Patched /\ Areas' = Areas /\ Versions' = Versions
      /\ Revisions' = Revisions /\ Batches' = Batches /\ Refreshes' = Refreshes
  BY <1>1, SamePage
<1>4. CountedAs(batches, tx.launched, tx.pending)
  BY DEF StrategyInv, Counting
<1>5. /\ tx.pending - 1 \in Nat
      /\ batches' \subseteq Batches
      /\ CountedAs(batches', tx.launched, tx.pending - 1)
      /\ \A a : a # b /\ InBatch(a) => \E z \in batches' : a \in z.left
  <2>1. CASE x.left = {b}
    <3>1. batches' = batches \ {x}
      BY <1>1, <2>1
    <3>2. Cardinality(x.left) = 1
      BY <2>1, FS_Singleton
    <3>3. /\ tx.pending - 1 \in Nat
          /\ CountedAs(batches \ {x}, tx.launched, tx.pending - 1)
      BY <1>2, <1>4, <3>2, EndCounts
    <3>4. \A a : a # b /\ InBatch(a) => \E z \in batches \ {x} : a \in z.left
      BY <2>1 DEF InBatch
    <3> QED BY <1>2, <3>1, <3>3, <3>4
  <2>2. CASE x.left # {b}
    <3>1. batches' = (batches \ {x}) \cup {y}
      BY <1>1, <2>2
    <3>2. /\ y \in Batches /\ y.left = x.left \ {b} /\ tx.pending - 1 \in Nat
          /\ CountedAs((batches \ {x}) \cup {y}, tx.launched, tx.pending - 1)
      <4>1. batches \in SUBSET Batches /\ b \in x.left /\ x.left # {b}
        BY <1>1, <1>2, <2>2
      <4>2. /\ [x EXCEPT !.left = @ \ {b}] \in Batches
            /\ [x EXCEPT !.left = @ \ {b}].left = x.left \ {b}
            /\ tx.pending - 1 \in Nat
            /\ CountedAs((batches \ {x}) \cup {[x EXCEPT !.left = @ \ {b}]}, tx.launched,
                         tx.pending - 1)
        BY <1>2, <1>4, <4>1, SettleCounts
      <4> QED BY <4>2
    <3> HIDE DEF y
    <3>3. \A a : a # b /\ InBatch(a) => \E z \in batches' : a \in z.left
      BY <3>1, <3>2 DEF InBatch
    <3> QED BY <1>2, <3>1, <3>2, <3>3
  <2> QED BY <2>1, <2>2
<1>6. /\ tx.revision = issued /\ tx.applied /\ undiffed = {}
  BY DEF StrategyInv, Newest, Staged
<1>7. done \in BOOLEAN
  BY DEF FragmentsDone
<1> HIDE DEF done
<1>8. /\ tx' \in Revisions /\ tx'.pending = tx.pending - 1
      /\ tx'.completed = (tx.completed \/ done)
      /\ tx'.revision = issued /\ tx'.applied /\ tx'.launched = tx.launched
      /\ tx'.ran = tx.ran /\ tx'.routeRefreshed = tx.routeRefreshed
  <2> DEFINE u == [tx EXCEPT !.pending = tx.pending - 1]
  <2>1. /\ u \in Revisions /\ u.pending = tx.pending - 1 /\ u.completed = tx.completed
        /\ u.revision = tx.revision /\ u.applied = tx.applied /\ u.launched = tx.launched
        /\ u.ran = tx.ran /\ u.routeRefreshed = tx.routeRefreshed
    BY <1>2, <1>5 DEF Revisions
  <2>2. tx' = [u EXCEPT !.completed = tx.completed \/ done]
    BY <1>1
  <2> HIDE DEF u
  <2> QED BY <1>2, <1>6, <1>7, <2>1, <2>2 DEF Revisions
<1>9. /\ shows' \in [Patched -> Versions]
      /\ \A a \in Patched : a # b => shows'[a] = shows[a]
      /\ rendered => shows'[b] = lastEdit[b]
      /\ ~rendered => shows'[b] = shows[b]
  BY <1>1, <1>2
<1>10. /\ served' \in [Boundaries -> Versions] /\ served'[b] = issued
       /\ \A a \in Boundaries : a # b => served'[a] = served[a]
  BY <1>1, <1>2, <1>6
<1>11. buffer' \subseteq Patched /\ buffer \subseteq buffer' /\ (~rendered => b \in buffer')
  BY <1>1, <1>2
<1>12. Typed'
  BY <1>1, <1>2, <1>3, <1>5, <1>8, <1>9, <1>10, <1>11 DEF Typed
<1>13. Counting'
  BY <1>1, <1>5, <1>8, CountedNext
<1>14. Newest'
  BY <1>1, <1>3, <1>6, <1>8 DEF StrategyInv, Newest
<1>15. Staged' /\ Refreshed'
  BY <1>1, <1>3, <1>6, <1>8 DEF StrategyInv, Staged, Refreshed
<1>16. IdentityIsShown'
  BY <1>1, <1>3, <1>9 DEF StrategyInv, IdentityIsShown
<1>17. PageIsCovered'
  <2> SUFFICES ASSUME ~AfterSave, NEW a \in Patched \ refused
               PROVE  \/ shows'[a] = lastEdit[a] \/ a \in buffer' \/ route # None
                      \/ \E z \in batches' : a \in z.left
    BY <1>1, <1>3 DEF PageIsCovered, Covered, InBatch
  <2>1. shows[a] = lastEdit[a] \/ a \in buffer \/ InBatch(a) \/ route # None
    BY <1>6 DEF StrategyInv, PageIsCovered, Covered
  <2>2. CASE a = b
    BY <1>9, <1>11, <2>2
  <2>3. CASE a # b
    BY <1>5, <1>9, <1>11, <2>1, <2>3
  <2> QED BY <2>2, <2>3
<1>18. WorkOrDone'
  <2>1. x.left # {b} => batches' # {}
    BY <1>1
  <2>2. tx.pending # 1 => batches' # {}
    <3> SUFFICES ASSUME batches' = {}
                 PROVE  tx.pending = 1
      OBVIOUS
    <3>1. CountedAs({}, tx.launched, tx.pending - 1)
      BY <1>5
    <3>2. Due({}) = {}
      BY DEF Due
    <3>3. tx.pending - 1 = 0
      BY <3>1, <3>2, FS_EmptySet DEF CountedAs
    <3> QED BY <1>2, <3>3
  <2>3. done \/ x.left # {b} \/ tx.pending # 1 \/ buffer' # {}
    BY DEF done, FragmentsDone
  <2> QED BY <1>8, <2>1, <2>2, <2>3 DEF WorkOrDone
<1>19. BoundariesAreOwed'
  <2> SUFFICES ASSUME ~HasRoute
               PROVE  /\ fragmentsOwed = {}
                      /\ \A a \in Boundaries : \/ served'[a] >= lastEdit[a]
                                               \/ \E z \in batches' : a \in z.left
    BY <1>1, <1>3 DEF BoundariesAreOwed, InBatch
  <2>1. fragmentsOwed = {}
    BY <1>6 DEF StrategyInv, BoundariesAreOwed
  <2>2. \A a \in Boundaries : served[a] >= lastEdit[a] \/ InBatch(a)
    BY <1>6, <2>1 DEF StrategyInv, BoundariesAreOwed
  <2>3. lastEdit[b] \in Nat /\ lastEdit[b] <= issued /\ issued \in Nat
    BY <1>2 DEF StrategyInv, Newest, Typed
  <2>4. served'[b] >= lastEdit[b]
    BY <1>10, <2>3
  <2> QED BY <1>5, <1>10, <2>1, <2>2, <2>4
<1>20. RouteIsOwed'
  BY <1>1, <1>3, <1>6 DEF StrategyInv, RouteIsOwed
<1> QED BY <1>12, <1>13, <1>14, <1>15, <1>16, <1>17, <1>18, <1>19, <1>20 DEF StrategyInv

\* A batch that throws is patched, and nothing of it is left.
LEMMA BatchThrowsKeeps ==
  ASSUME StrategyInv, NEW x \in batches, BatchThrows(x)
  PROVE  StrategyInv'
<1>1. /\ buffer' = buffer \cup x.plan
      /\ batches' = batches \ {x}
      /\ tx' = [tx EXCEPT !.pending = @ - Cardinality(x.left)]
      /\ served' = [b \in Boundaries |-> IF b \in x.left THEN tx.revision ELSE served[b]]
      /\ site' = site
      /\ UNCHANGED <<issued, undiffed, fragmentsOwed, routeOwed, awaitsSave, route, retry,
                     windowOpen, identity, handed, lastEdit, refused, shows, answered, saved,
                     routeShows>>
  BY DEF BatchThrows, debts, routeVars
<1>2. /\ Typed /\ site \in Pages /\ tx \in Revisions /\ batches \subseteq Batches
      /\ Boundaries \subseteq Patched /\ Patched \subseteq Areas /\ Versions \subseteq Nat
      /\ x \in Batches
      /\ served \in [Boundaries -> Versions]
      /\ lastEdit \in [Areas -> Versions] /\ buffer \subseteq Patched
      /\ tx.revision \in Versions /\ tx.launched \in Nat /\ tx.pending \in Nat
  BY PageParts DEF StrategyInv, Typed, Revisions
<1>3. /\ Boundaries' = Boundaries /\ Unfaithful' = Unfaithful /\ HasRoute' = HasRoute
      /\ AfterSave' = AfterSave /\ Timeouts' = Timeouts /\ MaxRevision' = MaxRevision
      /\ Patched' = Patched /\ Areas' = Areas /\ Versions' = Versions
      /\ Revisions' = Revisions /\ Batches' = Batches /\ Refreshes' = Refreshes
  BY <1>1, SamePage
<1>4. x.left # {} /\ x.left \subseteq x.plan /\ x.plan \subseteq Boundaries
  BY <1>2 DEF StrategyInv, Counting, CountedAs, Numbered, Batches
<1>5. /\ tx.pending - Cardinality(x.left) \in Nat
      /\ CountedAs(batches \ {x}, tx.launched, tx.pending - Cardinality(x.left))
  BY <1>2, EndCounts DEF StrategyInv, Counting
<1>6. /\ tx.revision = issued /\ tx.applied /\ undiffed = {}
  BY DEF StrategyInv, Newest, Staged
<1>7. /\ tx' \in Revisions /\ tx'.pending = tx.pending - Cardinality(x.left)
      /\ tx'.revision = issued /\ tx'.applied /\ tx'.launched = tx.launched
  BY <1>1, <1>2, <1>5, <1>6 DEF Revisions
<1>8. /\ served' \in [Boundaries -> Versions]
      /\ \A b \in Boundaries : served'[b] = IF b \in x.left THEN issued ELSE served[b]
  BY <1>1, <1>2, <1>6
<1>9. /\ buffer' \subseteq Patched /\ buffer \subseteq buffer'
      /\ x.left \subseteq buffer' /\ buffer' # {}
  BY <1>1, <1>2, <1>4
<1>10. \A a : InBatch(a) => a \in x.left \/ \E z \in batches' : a \in z.left
  BY <1>1 DEF InBatch
<1>11. Typed'
  BY <1>1, <1>2, <1>3, <1>7, <1>8, <1>9 DEF Typed
<1>12. Counting'
  BY <1>1, <1>5, <1>7, CountedNext
<1>13. Newest'
  BY <1>1, <1>3, <1>6, <1>7 DEF StrategyInv, Newest
<1>14. Staged' /\ Refreshed' /\ IdentityIsShown'
  BY <1>1, <1>3, <1>6, <1>7 DEF StrategyInv, Staged, Refreshed, IdentityIsShown
<1>15. PageIsCovered'
  <2> SUFFICES ASSUME ~AfterSave, NEW a \in Patched \ refused
               PROVE  \/ shows[a] = lastEdit[a] \/ a \in buffer' \/ route # None
                      \/ \E z \in batches' : a \in z.left
    BY <1>1, <1>3 DEF PageIsCovered, Covered, InBatch
  <2>1. shows[a] = lastEdit[a] \/ a \in buffer \/ InBatch(a) \/ route # None
    BY <1>6 DEF StrategyInv, PageIsCovered, Covered
  <2> QED BY <1>9, <1>10, <2>1
<1>16. WorkOrDone'
  BY <1>9 DEF WorkOrDone
<1>17. BoundariesAreOwed'
  <2> SUFFICES ASSUME ~HasRoute
               PROVE  /\ fragmentsOwed = {}
                      /\ \A a \in Boundaries : \/ served'[a] >= lastEdit[a]
                                               \/ \E z \in batches' : a \in z.left
    BY <1>1, <1>3 DEF BoundariesAreOwed, InBatch
  <2>1. fragmentsOwed = {}
    BY <1>6 DEF StrategyInv, BoundariesAreOwed
  <2>2. \A a \in Boundaries : served[a] >= lastEdit[a] \/ InBatch(a)
    BY <1>6, <2>1 DEF StrategyInv, BoundariesAreOwed
  <2>3. \A a \in Boundaries : lastEdit[a] \in Nat /\ lastEdit[a] <= issued /\ issued \in Nat
    BY <1>2 DEF StrategyInv, Newest, Typed
  <2>4. \A a \in Boundaries : issued >= lastEdit[a]
    BY <2>3
  <2> QED BY <1>8, <1>10, <2>1, <2>2, <2>4
<1>18. RouteIsOwed'
  BY <1>1, <1>3, <1>6 DEF StrategyInv, RouteIsOwed
<1> QED BY <1>11, <1>12, <1>13, <1>14, <1>15, <1>16, <1>17, <1>18 DEF StrategyInv

\* A refused value asks for a fragment or for the route, or for nothing.
LEMMA EscalateSteps ==
  ASSUME StrategyInv, saved' \in Versions, tx.revision # 0,
         NEW t \in Revisions, t.revision = tx.revision,
         t.launched = tx.launched, t.pending = tx.pending,
         NEW areas, Escalate(t, areas)
  PROVE  /\ tx' \in Revisions /\ tx'.revision = issued /\ tx'.applied = t.applied
         /\ tx'.completed = t.completed
         /\ batches' \subseteq Batches /\ batches \subseteq batches'
         /\ CountedAs(batches', tx'.launched, tx'.pending)
         /\ fragmentsOwed' \in SUBSET fragmentsOwed
         /\ route' \in Refreshes \cup {None} /\ retry' \in Trailing \cup {None}
         /\ awaitsSave' \in BOOLEAN /\ windowOpen' \in BOOLEAN
         /\ \/ route' = route /\ retry' = retry
            \/ /\ HasRoute /\ ~AfterSave
               /\ route' # None /\ route' \in Refreshes /\ route'.since = issued
               /\ route'.refused => retry' # None
               /\ retry # None => retry' # None
<1>1. /\ Typed /\ Counting /\ site \in Pages /\ t.revision = issued
      /\ route \in Refreshes \cup {None} /\ retry \in Trailing \cup {None}
      /\ issued \in Versions /\ awaitsSave \in BOOLEAN /\ windowOpen \in BOOLEAN
      /\ batches \subseteq Batches /\ AfterSave \in BOOLEAN
  BY PageParts DEF StrategyInv, Typed, Newest
<1>2. CASE tx' = t /\ UNCHANGED <<batches, fragmentsOwed, awaitsSave, routeVars>>
  BY <1>1, <1>2 DEF routeVars, Counting
<1>3. CASE /\ areas # {} /\ ~t.routeRefreshed /\ areas \subseteq Boundaries
           /\ tx' = Launched(t, areas)
           /\ batches' = Launch(t, areas)
           /\ fragmentsOwed' = fragmentsOwed \ areas
           /\ UNCHANGED <<awaitsSave, routeVars>>
  <2>1. areas \in SUBSET Boundaries /\ areas # {}
    BY <1>3
  <2>2. /\ Launched(t, areas) \in Revisions
        /\ Launched(t, areas).revision = t.revision /\ Launched(t, areas).applied = t.applied
        /\ Launched(t, areas).completed = t.completed
        /\ Launch(t, areas) \subseteq Batches /\ batches \subseteq Launch(t, areas)
        /\ CountedAs(Launch(t, areas), Launched(t, areas).launched, Launched(t, areas).pending)
    BY <1>1, <2>1, LaunchStarts
  <2> QED BY <1>1, <1>3, <2>2 DEF routeVars
<1>4. CASE /\ HasRoute /\ ~t.routeRefreshed /\ Bound \in areas
           /\ RunRoute(Refreshing(t), FALSE, route, retry, awaitsSave)
           /\ UNCHANGED <<batches, fragmentsOwed>>
  <2> DEFINE u == Refreshing(t)
  <2>1. /\ u \in Revisions /\ u.revision = issued /\ u.applied = t.applied
        /\ u.pending = tx.pending /\ u.launched = tx.launched /\ u.completed = t.completed
    BY <1>1, RevisionChanges
  <2>2. RunRoute(u, FALSE, route, retry, awaitsSave)
    BY <1>4
  <2> HIDE DEF u
  <2>3. /\ tx' = u
        /\ route' \in Refreshes \cup {None} /\ retry' \in Trailing \cup {None}
        /\ windowOpen' \in BOOLEAN /\ awaitsSave' \in BOOLEAN
        /\ \/ AfterSave /\ ~FALSE /\ awaitsSave' /\ route' = route /\ retry' = retry
           \/ /\ ~(AfterSave /\ ~FALSE)
              /\ route' # None /\ route' \in Refreshes /\ route'.since = u.revision
              /\ route'.refused => retry' # None
              /\ ~route'.refused => retry' = retry
              /\ retry # None => retry' # None
    BY <1>1, <2>1, <2>2, RunRouteStarts
  <2>4. CountedAs(batches', tx'.launched, tx'.pending)
    BY <1>1, <1>4, <2>1, <2>3 DEF Counting
  <2> QED BY <1>1, <1>4, <2>1, <2>3, <2>4
<1> QED BY <1>2, <1>3, <1>4 DEF Escalate

\* What is written shows the newest value, and the rest is as it was.
LEMMA FlushKeeps ==
  ASSUME StrategyInv, NEW held, NEW bare, Flush(held, bare)
  PROVE  StrategyInv'
<1> DEFINE written == buffer \ refused
           reported == Reported(buffer, held)
           t == [tx EXCEPT !.completed = @ \/ tx.pending = 0]
<1>1. /\ buffer # {}
      /\ shows' = [a \in Patched |-> IF a \in written THEN lastEdit[a] ELSE shows[a]]
      /\ identity' = [a \in Patched |-> IF a \notin written THEN identity[a]
                                        ELSE IF a \in bare THEN None ELSE lastEdit[a]]
      /\ handed' = [a \in Patched |-> IF a \in reported THEN lastEdit[a] ELSE handed[a]]
      /\ buffer' = {}
      /\ Escalate(t, reported)
      /\ site' = site
      /\ UNCHANGED <<issued, undiffed, routeOwed, lastEdit, refused, served, answered, saved,
                     routeShows>>
  BY DEF Flush
<1> HIDE DEF reported
<1>2. /\ Typed /\ site \in Pages /\ tx \in Revisions /\ tx.completed \in BOOLEAN
      /\ Boundaries \subseteq Patched /\ Patched \subseteq Areas /\ Versions \subseteq Nat
      /\ HasRoute => Route \in Areas
      /\ shows \in [Patched -> Versions] /\ identity \in [Patched -> Versions \cup {None}]
      /\ handed \in [Patched -> Versions \cup {None}]
      /\ lastEdit \in [Areas -> Versions] /\ None \notin Nat
      /\ issued \in Versions /\ saved \in Versions /\ answered \in Versions
      /\ tx.launched \in Nat /\ tx.pending \in Nat
  BY PageParts, NullIsApart DEF StrategyInv, Typed, Revisions
<1>3. /\ Boundaries' = Boundaries /\ Unfaithful' = Unfaithful /\ HasRoute' = HasRoute
      /\ AfterSave' = AfterSave /\ Timeouts' = Timeouts /\ MaxRevision' = MaxRevision
      /\ Patched' = Patched /\ Areas' = Areas /\ Versions' = Versions
      /\ Revisions' = Revisions /\ Batches' = Batches /\ Refreshes' = Refreshes
  BY <1>1, SamePage
<1>4. /\ tx.applied /\ undiffed = {} /\ tx.revision # 0
  BY <1>1 DEF StrategyInv, Staged, Newest
<1>5. /\ t \in Revisions /\ t.applied /\ t.revision = tx.revision
      /\ t.launched = tx.launched /\ t.pending = tx.pending
      /\ t.completed = (tx.completed \/ tx.pending = 0)
  BY <1>2, <1>4 DEF Revisions
<1> HIDE DEF t
<1>6. /\ tx' \in Revisions /\ tx'.revision = issued /\ tx'.applied
      /\ tx'.completed = (tx.completed \/ tx.pending = 0)
      /\ batches' \subseteq Batches /\ batches \subseteq batches'
      /\ CountedAs(batches', tx'.launched, tx'.pending)
      /\ fragmentsOwed' \in SUBSET fragmentsOwed
      /\ route' \in Refreshes \cup {None} /\ retry' \in Trailing \cup {None}
      /\ awaitsSave' \in BOOLEAN /\ windowOpen' \in BOOLEAN
      /\ \/ route' = route /\ retry' = retry
         \/ /\ HasRoute /\ ~AfterSave
            /\ route' # None /\ route' \in Refreshes /\ route'.since = issued
            /\ route'.refused => retry' # None
            /\ retry # None => retry' # None
  <2>1. saved' \in Versions
    BY <1>1, <1>2
  <2>2. /\ tx' \in Revisions /\ tx'.revision = issued /\ tx'.applied = t.applied
        /\ tx'.completed = t.completed
        /\ batches' \subseteq Batches /\ batches \subseteq batches'
        /\ CountedAs(batches', tx'.launched, tx'.pending)
        /\ fragmentsOwed' \in SUBSET fragmentsOwed
        /\ route' \in Refreshes \cup {None} /\ retry' \in Trailing \cup {None}
        /\ awaitsSave' \in BOOLEAN /\ windowOpen' \in BOOLEAN
        /\ \/ route' = route /\ retry' = retry
           \/ /\ HasRoute /\ ~AfterSave
              /\ route' # None /\ route' \in Refreshes /\ route'.since = issued
              /\ route'.refused => retry' # None
              /\ retry # None => retry' # None
    BY <1>1, <1>4, <1>5, <2>1, EscalateSteps
  <2> QED BY <1>5, <2>2
<1>7. /\ shows' \in [Patched -> Versions]
      /\ \A a \in Patched : shows'[a] = IF a \in written THEN lastEdit[a] ELSE shows[a]
  BY <1>1, <1>2
<1>8. /\ identity' \in [Patched -> Versions \cup {None}]
      /\ \A a \in Patched : \/ a \notin written /\ identity'[a] = identity[a]
                            \/ a \in written /\ identity'[a] \in {None, lastEdit[a]}
  BY <1>1, <1>2
<1>9. handed' \in [Patched -> Versions \cup {None}]
  BY <1>1, <1>2
<1>10. \A a \in Areas : lastEdit[a] \in Nat /\ lastEdit[a] <= issued /\ issued >= lastEdit[a]
  BY <1>2 DEF StrategyInv, Newest
<1>11. Typed'
  BY <1>1, <1>2, <1>3, <1>6, <1>7, <1>8, <1>9 DEF Typed
<1>12. Counting'
  BY <1>1, <1>6, CountedNext
<1>13. Newest'
  <2>1. \A a \in Patched : identity'[a] # None => identity'[a] <= issued
    BY <1>2, <1>8, <1>10 DEF StrategyInv, Newest
  <2>2. tx'.revision # 0 /\ tx'.revision = issued'
    BY <1>1, <1>4, <1>6 DEF StrategyInv, Newest
  <2> QED BY <1>1, <1>3, <2>1, <2>2 DEF StrategyInv, Newest
<1>14. Staged'
  BY <1>1, <1>4, <1>6 DEF Staged
<1>15. Refreshed'
  <2>1. ~HasRoute => route' = None /\ retry' = None /\ ~routeOwed
    BY <1>6 DEF StrategyInv, Refreshed
  <2>2. answered <= issued /\ issued <= issued
    BY <1>2 DEF StrategyInv, Newest
  <2>3. route' # None => answered <= route'.since /\ route'.since <= issued
    BY <1>6, <2>2 DEF StrategyInv, Refreshed
  <2>4. route' # None => (route'.refused => retry' # None)
    BY <1>6 DEF StrategyInv, Refreshed
  <2> QED BY <1>1, <1>3, <2>1, <2>3, <2>4 DEF Refreshed
<1>16. IdentityIsShown'
  <2> SUFFICES ASSUME NEW a \in Patched, identity'[a] = lastEdit[a]
               PROVE  shows'[a] = lastEdit[a]
    BY <1>1, <1>3 DEF IdentityIsShown
  <2>1. CASE a \in written
    BY <1>7, <2>1
  <2>2. CASE a \notin written
    BY <1>7, <1>8, <2>2 DEF StrategyInv, IdentityIsShown
  <2> QED BY <2>1, <2>2
<1>17. PageIsCovered'
  <2> SUFFICES ASSUME ~AfterSave, NEW a \in Patched \ refused
               PROVE  \/ shows'[a] = lastEdit[a] \/ route' # None
                      \/ \E x \in batches' : a \in x.left
    BY <1>1, <1>3 DEF PageIsCovered, Covered, InBatch
  <2>1. shows[a] = lastEdit[a] \/ a \in buffer \/ InBatch(a) \/ route # None
    BY <1>4 DEF StrategyInv, PageIsCovered, Covered
  <2>2. a \in buffer => shows'[a] = lastEdit[a]
    BY <1>7
  <2>3. shows[a] = lastEdit[a] => shows'[a] = lastEdit[a]
    BY <1>7
  <2> QED BY <1>6, <2>1, <2>2, <2>3 DEF InBatch
<1>18. WorkOrDone'
  <2>1. CASE tx.pending = 0
    BY <1>6, <2>1 DEF WorkOrDone
  <2>2. CASE tx.pending # 0
    <3>1. Due({}) = {}
      BY DEF Due
    <3>2. batches # {}
      BY <2>2, <3>1, FS_EmptySet DEF StrategyInv, Counting, CountedAs
    <3> QED BY <1>6, <3>2 DEF WorkOrDone
  <2> QED BY <2>1, <2>2
<1>19. BoundariesAreOwed'
  BY <1>1, <1>3, <1>4, <1>6 DEF StrategyInv, BoundariesAreOwed, InBatch
<1>20. RouteIsOwed'
  <2> SUFFICES ASSUME HasRoute
               PROVE  /\ ~routeOwed
                      /\ ~AfterSave /\ ~Timeouts =>
                           \/ answered >= lastEdit[Route]
                           \/ retry' # None
                           \/ route' # None /\ ~route'.refused /\ route'.since >= lastEdit[Route]
    BY <1>1, <1>3 DEF RouteIsOwed
  <2>1. /\ ~routeOwed
        /\ ~AfterSave /\ ~Timeouts =>
             \/ answered >= lastEdit[Route]
             \/ retry # None
             \/ route # None /\ ~route.refused /\ route.since >= lastEdit[Route]
    BY <1>4 DEF StrategyInv, RouteIsOwed
  <2>2. issued >= lastEdit[Route]
    BY <1>2, <1>10
  <2> QED BY <1>6, <2>1, <2>2
<1> QED BY <1>11, <1>12, <1>13, <1>14, <1>15, <1>16, <1>17, <1>18, <1>19, <1>20 DEF StrategyInv

LEMMA WindowClosesKeeps ==
  ASSUME StrategyInv, WindowCloses
  PROVE  StrategyInv'
<1>1. /\ windowOpen' = FALSE
      /\ retry' = IF retry = None THEN None ELSE [retry EXCEPT !.due = TRUE]
      /\ site' = site
      /\ UNCHANGED <<tx, issued, undiffed, batches, fragmentsOwed, routeOwed, awaitsSave, route,
                     buffer, identity, handed, lastEdit, refused, shows, served, answered, saved,
                     routeShows>>
  BY DEF WindowCloses, debts, pageVars
<1>2. /\ Typed /\ None \notin Trailing
  BY NullIsApart DEF StrategyInv, Typed
<1>3. retry' \in Trailing \cup {None} /\ (retry' = None <=> retry = None)
  BY <1>1, <1>2 DEF Typed, Trailing
<1>4. /\ Boundaries' = Boundaries /\ Unfaithful' = Unfaithful /\ HasRoute' = HasRoute
      /\ AfterSave' = AfterSave /\ Timeouts' = Timeouts /\ MaxRevision' = MaxRevision
      /\ Patched' = Patched /\ Areas' = Areas /\ Versions' = Versions
      /\ Revisions' = Revisions /\ Batches' = Batches /\ Refreshes' = Refreshes
  BY <1>1, SamePage
<1>5. Typed'
  BY <1>1, <1>2, <1>3, <1>4 DEF Typed
<1>6. Counting'
  BY <1>1, CountedNext DEF StrategyInv, Counting
<1>7. Newest' /\ Staged' /\ Refreshed' /\ IdentityIsShown' /\ WorkOrDone'
  BY <1>1, <1>3, <1>4 DEF StrategyInv, Newest, Staged, Refreshed, IdentityIsShown, WorkOrDone
<1>8. PageIsCovered' /\ BoundariesAreOwed' /\ RouteIsOwed'
  BY <1>1, <1>3, <1>4
  DEF StrategyInv, PageIsCovered, BoundariesAreOwed, RouteIsOwed, Covered, InBatch
<1> QED BY <1>5, <1>6, <1>7, <1>8 DEF StrategyInv

\* A refresh that starts for an applied revision takes over from the one in
\* flight and from the trailing run.
LEMMA RefreshStartsKeeps ==
  ASSUME StrategyInv, MicrotasksDone, tx.applied, HasRoute, saved' \in Versions,
         NEW forSave \in BOOLEAN, NEW armed \in {None, retry},
         RunRoute(tx, forSave, route, armed, awaitsSave),
         site' = site,
         UNCHANGED <<issued, undiffed, batches, fragmentsOwed, routeOwed, buffer, identity, handed,
                     lastEdit, refused, shows, served, answered, routeShows>>
  PROVE  StrategyInv'
<1>1. /\ Typed /\ tx \in Revisions /\ route \in Refreshes \cup {None}
      /\ armed \in Trailing \cup {None} /\ awaitsSave \in BOOLEAN /\ issued \in Versions
      /\ AfterSave \in BOOLEAN /\ Versions \subseteq Nat /\ lastEdit \in [Areas -> Versions]
      /\ Route \in Areas /\ tx.revision = issued /\ tx.revision # 0
  BY PageParts DEF StrategyInv, Typed, Newest
<1>2. /\ tx' = tx
      /\ route' \in Refreshes \cup {None} /\ retry' \in Trailing \cup {None}
      /\ windowOpen' \in BOOLEAN /\ awaitsSave' \in BOOLEAN
      /\ \/ AfterSave /\ ~forSave /\ awaitsSave' /\ route' = route /\ retry' = armed
         \/ /\ ~(AfterSave /\ ~forSave)
            /\ route' # None /\ route' \in Refreshes /\ route'.since = tx.revision
            /\ route'.refused => retry' # None
            /\ ~route'.refused => retry' = armed
            /\ armed # None => retry' # None
  BY <1>1, RunRouteStarts
<1>3. /\ Boundaries' = Boundaries /\ Unfaithful' = Unfaithful /\ HasRoute' = HasRoute
      /\ AfterSave' = AfterSave /\ Timeouts' = Timeouts /\ MaxRevision' = MaxRevision
      /\ Patched' = Patched /\ Areas' = Areas /\ Versions' = Versions
      /\ Revisions' = Revisions /\ Batches' = Batches /\ Refreshes' = Refreshes
  BY SamePage
<1>4. Typed'
  BY <1>1, <1>2, <1>3 DEF Typed
<1>5. Counting'
  BY <1>2, CountedNext DEF StrategyInv, Counting
<1>6. Newest' /\ Staged'
  BY <1>1, <1>2, <1>3 DEF StrategyInv, Newest, Staged
<1>7. Refreshed'
  <2>1. answered <= issued /\ issued <= issued
    BY <1>1 DEF StrategyInv, Newest
  <2>2. route' # None => answered <= route'.since /\ route'.since <= issued
    BY <1>1, <1>2, <2>1 DEF StrategyInv, Refreshed
  <2>3. route' # None => (route'.refused => retry' # None)
    BY <1>2 DEF MicrotasksDone
  <2> QED BY <1>2, <1>3, <2>2, <2>3 DEF StrategyInv, Refreshed
<1>8. IdentityIsShown'
  BY <1>3 DEF StrategyInv, IdentityIsShown
<1>9. PageIsCovered' /\ WorkOrDone'
  BY <1>2, <1>3 DEF PageIsCovered, WorkOrDone, Covered
<1>10. BoundariesAreOwed'
  BY <1>2, <1>3 DEF StrategyInv, BoundariesAreOwed, InBatch
<1>11. RouteIsOwed'
  <2> SUFFICES /\ ~routeOwed
               /\ ~AfterSave => \/ retry' # None
                                \/ /\ route' # None /\ ~route'.refused
                                   /\ route'.since >= lastEdit[Route]
    BY <1>2, <1>3 DEF RouteIsOwed
  <2>1. ~routeOwed
    BY DEF StrategyInv, RouteIsOwed
  <2>2. issued >= lastEdit[Route]
    BY <1>1 DEF StrategyInv, Newest
  <2> QED BY <1>1, <1>2, <2>1, <2>2
<1> QED BY <1>4, <1>5, <1>6, <1>7, <1>8, <1>9, <1>10, <1>11 DEF StrategyInv

LEMMA RetryFiresKeeps ==
  ASSUME StrategyInv, RetryFires
  PROVE  StrategyInv'
<1>1. /\ MicrotasksDone /\ retry # None
      /\ RunRoute(tx, retry.forSave, route, None, awaitsSave)
      /\ site' = site /\ saved' = saved
      /\ UNCHANGED <<issued, undiffed, batches, fragmentsOwed, routeOwed, buffer, identity, handed,
                     lastEdit, refused, shows, served, answered, routeShows>>
  BY DEF RetryFires, pageVars
<1>2. retry \in Trailing /\ saved' \in Versions
  BY <1>1 DEF StrategyInv, Typed
<1>3. retry.forSave \in BOOLEAN
  BY <1>2 DEF Trailing
<1>4. tx.applied /\ HasRoute
  BY <1>1 DEF StrategyInv, Staged, Refreshed
<1> QED BY <1>1, <1>2, <1>3, <1>4, RefreshStartsKeeps

LEMMA SaveKeeps ==
  ASSUME StrategyInv, NEW v \in Versions, Save(v)
  PROVE  StrategyInv'
<1>1. /\ MicrotasksDone /\ site' = site /\ saved' = v
      /\ UNCHANGED <<issued, undiffed, batches, fragmentsOwed, routeOwed, buffer, identity, handed,
                     lastEdit, refused, shows, served, answered, routeShows>>
  BY DEF Save
<1>2. /\ Boundaries' = Boundaries /\ Unfaithful' = Unfaithful /\ HasRoute' = HasRoute
      /\ AfterSave' = AfterSave /\ Timeouts' = Timeouts /\ MaxRevision' = MaxRevision
      /\ Patched' = Patched /\ Areas' = Areas /\ Versions' = Versions
      /\ Revisions' = Revisions /\ Batches' = Batches /\ Refreshes' = Refreshes
  BY <1>1, SamePage
<1>3. CASE HasRoute /\ awaitsSave /\ tx.applied
  <2>1. RunRoute(tx, TRUE, route, retry, awaitsSave)
    BY <1>3 DEF Save
  <2>2. retry \in {None, retry} /\ TRUE \in BOOLEAN /\ saved' \in Versions
    BY <1>1
  <2> QED BY <1>1, <1>3, <2>1, <2>2, RefreshStartsKeeps
<1>4. CASE ~(HasRoute /\ awaitsSave /\ tx.applied)
  <2>1. UNCHANGED <<tx, awaitsSave, route, retry, windowOpen>>
    BY <1>4 DEF Save, routeVars
  <2>2. Typed'
    BY <1>1, <1>2, <2>1 DEF StrategyInv, Typed
  <2>3. Counting'
    BY <1>1, <2>1, CountedNext DEF StrategyInv, Counting
  <2>4. Newest' /\ Staged' /\ Refreshed' /\ IdentityIsShown' /\ WorkOrDone'
    BY <1>1, <1>2, <2>1 DEF StrategyInv, Newest, Staged, Refreshed, IdentityIsShown, WorkOrDone
  <2>5. PageIsCovered' /\ BoundariesAreOwed' /\ RouteIsOwed'
    BY <1>1, <1>2, <2>1
    DEF StrategyInv, PageIsCovered, BoundariesAreOwed, RouteIsOwed, Covered, InBatch
  <2> QED BY <2>2, <2>3, <2>4, <2>5 DEF StrategyInv
<1> QED BY <1>3, <1>4

LEMMA StrategyStutterKeeps ==
  ASSUME StrategyInv, UNCHANGED strategyVars
  PROVE  StrategyInv'
<1>1. /\ site' = site
      /\ UNCHANGED <<tx, issued, undiffed, batches, fragmentsOwed, routeOwed, awaitsSave, route,
                     retry, windowOpen, buffer, identity, handed, lastEdit, refused, shows, served,
                     answered, saved, routeShows>>
  BY DEF strategyVars, debts, routeVars, pageVars
<1>2. /\ Boundaries' = Boundaries /\ Unfaithful' = Unfaithful /\ HasRoute' = HasRoute
      /\ AfterSave' = AfterSave /\ Timeouts' = Timeouts /\ MaxRevision' = MaxRevision
      /\ Patched' = Patched /\ Areas' = Areas /\ Versions' = Versions
      /\ Revisions' = Revisions /\ Batches' = Batches /\ Refreshes' = Refreshes
  BY <1>1, SamePage
<1>3. Typed'
  BY <1>1, <1>2 DEF StrategyInv, Typed
<1>4. Counting'
  BY <1>1, CountedNext DEF StrategyInv, Counting
<1>5. Newest' /\ Staged' /\ Refreshed' /\ IdentityIsShown' /\ WorkOrDone'
  BY <1>1, <1>2 DEF StrategyInv, Newest, Staged, Refreshed, IdentityIsShown, WorkOrDone
<1>6. PageIsCovered' /\ BoundariesAreOwed' /\ RouteIsOwed'
  BY <1>1, <1>2
  DEF StrategyInv, PageIsCovered, BoundariesAreOwed, RouteIsOwed, Covered, InBatch
<1> QED BY <1>3, <1>4, <1>5, <1>6 DEF StrategyInv

LEMMA StrategyStep ==
  ASSUME StrategyInv, [StrategyNext]_strategyVars
  PROVE  StrategyInv'
<1>1. ASSUME NEW edits \in SUBSET Areas, NEW bad \in SUBSET Unfaithful, NEW trails \in BOOLEAN,
             Message(edits, bad, trails)
      PROVE  StrategyInv'
  BY <1>1, MessageKeeps
<1>2. CASE Apply
  BY <1>2, ApplyKeeps
<1>3. ASSUME NEW merged \in BOOLEAN, Refine(merged)
      PROVE  StrategyInv'
  BY <1>3, RefineKeeps
<1>4. ASSUME NEW x \in batches, NEW b \in Boundaries, NEW rendered \in BOOLEAN,
             FragmentSettles(x, b, rendered)
      PROVE  StrategyInv'
  BY <1>4, FragmentSettlesKeeps
<1>5. ASSUME NEW x \in batches, BatchThrows(x)
      PROVE  StrategyInv'
  BY <1>5, BatchThrowsKeeps
<1>6. ASSUME NEW held, NEW bare, Flush(held, bare)
      PROVE  StrategyInv'
  BY <1>6, FlushKeeps
<1>7. ASSUME NEW landed \in BOOLEAN, NEW v \in Versions, RouteReturns(landed, v)
      PROVE  StrategyInv'
  BY <1>7, RouteReturnsKeeps
<1>8. CASE WindowCloses
  BY <1>8, WindowClosesKeeps
<1>9. CASE RetryFires
  BY <1>9, RetryFiresKeeps
<1>10. ASSUME NEW v \in Versions, Save(v)
       PROVE  StrategyInv'
  BY <1>10, SaveKeeps
<1>11. CASE Navigate
  BY <1>11, NavigateKeeps
<1>12. CASE HeartbeatTimeout
  BY <1>12, HeartbeatTimeoutKeeps
<1>13. CASE UNCHANGED strategyVars
  BY <1>13, StrategyStutterKeeps
<1> QED BY <1>1, <1>2, <1>3, <1>4, <1>5, <1>6, <1>7, <1>8, <1>9, <1>10, <1>11, <1>12, <1>13
        DEF StrategyNext

---------------------------------------------------------------------------
(* StrategyRunner: its theorems *)

(* The work of the newest revision: what it counts, what it waits for, what the
   page shows of it and what is owed to it, for every page and every number of
   revisions (strategy-runner.ts and update-pipeline.ts as a whole). *)
THEOREM StrategyInvHolds == StrategySpec => []StrategyInv
<1>1. StrategyInit => StrategyInv
  BY StrategyInitially
<1>2. StrategyInv /\ [StrategyNext]_strategyVars => StrategyInv'
  BY StrategyStep
<1> QED BY <1>1, <1>2, PTL DEF StrategySpec

LEMMA InvGivesTypes ==
  ASSUME StrategyInv
  PROVE  StrategyTypeOK
<1>1. \A x \in batches : x.id \in 1..tx.launched /\ x.left # {} /\ x.left \subseteq x.plan
                         /\ x.plan \subseteq Boundaries
  BY DEF StrategyInv, Typed, Counting, CountedAs, Numbered, Batches
<1> QED BY <1>1 DEF StrategyInv, Typed, StrategyTypeOK, Revisions, Refreshes, Trailing

(* A revision completes when its work has ended, neither early nor never: the count
   it waits on (strategiesPending) is the number of boundaries not settled, and at
   rest it has completed. *)
THEOREM CompletesExactly == StrategySpec => []CompletionIsExact
<1>1. StrategyInv => CompletionIsExact
  <2> SUFFICES ASSUME StrategyInv
               PROVE  CompletionIsExact
    OBVIOUS
  <2>1. StrategyTypeOK
    BY InvGivesTypes
  <2>2. PendingCountsBoundaries
    BY DEF StrategyInv, Counting, CountedAs, Due, PendingCountsBoundaries
  <2>3. AtRestIsComplete
    BY DEF StrategyInv, WorkOrDone, AtRest, AtRestIsComplete
  <2> QED BY <2>1, <2>2, <2>3 DEF CompletionIsExact
<1> QED BY <1>1, StrategyInvHolds, PTL

(* At rest every binding shows the newest edit its renderer takes: no patch is
   skipped for an identity that the page does not show (skipUnchanged). *)
THEOREM NewestEditsShown == StrategySpec => []PageShowsNewestEdits
<1>1. StrategyInv => PageShowsNewestEdits
  BY DEF StrategyInv, PageIsCovered, Covered, InBatch, AtRest, PageShowsNewestEdits
<1> QED BY <1>1, StrategyInvHolds, PTL

(* Every edit that the server renders is rendered: what a superseded revision had
   not settled is owed until a later one runs it (supersedeStrategies). *)
THEOREM ServerEditsRendered == StrategySpec => []EditsAreRendered
<1>1. StrategyInv => BoundariesAreServed
  BY DEF StrategyInv, Staged, BoundariesAreOwed, InBatch, AtRest, BoundariesAreServed
<1>2. StrategyInv => RouteIsAnswered
  BY DEF StrategyInv, Staged, RouteIsOwed, AtRest, RouteIsAnswered
<1>3. StrategyInv => EditsAreRendered
  BY <1>1, <1>2 DEF EditsAreRendered
<1> QED BY <1>3, StrategyInvHolds, PTL

LEMMA OwedStays ==
  ASSUME StrategyInv, [StrategyNext]_strategyVars, routeOwed, ~routeOwed'
  PROVE  route' # route \/ (AfterSave /\ awaitsSave') \/ Navigate
<1>1. /\ routeOwed \in BOOLEAN /\ issued \in Versions /\ Versions \subseteq Nat
      /\ None \notin Refreshes /\ site \in Pages /\ tx \in Revisions
      /\ route \in Refreshes \cup {None} /\ retry \in Trailing \cup {None}
      /\ awaitsSave \in BOOLEAN /\ AfterSave \in BOOLEAN /\ saved \in Versions
      /\ undiffed \subseteq Areas
  BY PageParts, NullIsApart DEF StrategyInv, Typed
<1>2. HasRoute
  BY DEF StrategyInv, Refreshed
<1>3. ASSUME NEW t \in Revisions, t.revision = tx.revision, saved' = saved,
             NEW inTransit \in Refreshes \cup {None}, NEW awaits \in BOOLEAN,
             ScheduleAll(t, inTransit, retry, awaits)
      PROVE  \/ AfterSave /\ awaitsSave'
             \/ route' # None /\ route'.since = tx.revision
  <2>1. RunRoute(Refreshing(t), FALSE, inTransit, retry, awaits)
    BY <1>3 DEF ScheduleAll
  <2> DEFINE u == Refreshing(t)
  <2>2. u \in Revisions /\ u.revision = tx.revision
    BY <1>3, RevisionChanges
  <2>3. RunRoute(u, FALSE, inTransit, retry, awaits) /\ saved' \in Versions
    BY <1>1, <1>3, <2>1
  <2> HIDE DEF u
  <2>4. Typed
    BY DEF StrategyInv
  <2>5. /\ FALSE \in BOOLEAN /\ inTransit \in Refreshes \cup {None} /\ awaits \in BOOLEAN
        /\ retry \in Trailing \cup {None} /\ issued \in Versions
    BY <1>1, <1>3
  <2>6. /\ tx' = u
        /\ route' \in Refreshes \cup {None} /\ retry' \in Trailing \cup {None}
        /\ windowOpen' \in BOOLEAN /\ awaitsSave' \in BOOLEAN
        /\ \/ AfterSave /\ ~FALSE /\ awaitsSave' /\ route' = inTransit /\ retry' = retry
           \/ /\ ~(AfterSave /\ ~FALSE)
              /\ route' # None /\ route' \in Refreshes /\ route'.since = u.revision
              /\ route'.refused => retry' # None
              /\ ~route'.refused => retry' = retry
              /\ retry # None => retry' # None
    BY <2>2, <2>3, <2>4, <2>5, RunRouteStarts
  <2> QED BY <2>2, <2>6
<1>4. CASE Apply
  <2> DEFINE u == [tx EXCEPT !.applied = TRUE]
             t == [u EXCEPT !.touched = undiffed]
  <2>1. /\ ScheduleAll([tx EXCEPT !.applied = TRUE, !.touched = undiffed], route, retry, awaitsSave)
        /\ saved' = saved /\ tx.revision # 0 /\ ~tx.applied
    BY <1>4 DEF Apply, pageVars
  <2>2. [tx EXCEPT !.applied = TRUE, !.touched = undiffed] = t
    OBVIOUS
  <2>3. u \in Revisions /\ u.revision = tx.revision
    BY <1>1 DEF Revisions
  <2> HIDE DEF u
  <2>4. t \in Revisions /\ t.revision = tx.revision
    BY <1>1, <2>3 DEF Revisions
  <2> HIDE DEF t
  <2>5. \/ AfterSave /\ awaitsSave'
        \/ route' # None /\ route'.since = tx.revision
    BY <1>1, <1>3, <2>1, <2>2, <2>4
  <2>6. tx.revision = issued /\ (route # None => route.since < issued)
    BY <2>1 DEF StrategyInv, Newest, Staged
  <2> QED BY <1>1, <2>5, <2>6
<1>5. ~tx.applied
  BY <1>2 DEF StrategyInv, RouteIsOwed
<1>6. routeOwed' # routeOwed
  OBVIOUS
<1>7. ~Supersede
  BY <1>1 DEF Supersede, RouteDebt
<1>8. ASSUME NEW edits, NEW bad, NEW trails, Message(edits, bad, trails)
      PROVE  FALSE
  BY <1>7, <1>8 DEF Message
<1>9. ASSUME NEW merged, Refine(merged)
      PROVE  FALSE
  BY <1>5, <1>9 DEF Refine
<1>10. ASSUME NEW x, NEW b, NEW rendered, FragmentSettles(x, b, rendered)
       PROVE  FALSE
  BY <1>6, <1>10 DEF FragmentSettles, debts
<1>11. ASSUME NEW x, BatchThrows(x)
       PROVE  FALSE
  BY <1>6, <1>11 DEF BatchThrows, debts
<1>12. ASSUME NEW held, NEW bare, Flush(held, bare)
       PROVE  FALSE
  BY <1>6, <1>12 DEF Flush
<1>13. ASSUME NEW landed, NEW v, RouteReturns(landed, v)
       PROVE  FALSE
  BY <1>5, <1>6, <1>13 DEF RouteReturns
<1>14. ASSUME NEW v, Save(v)
       PROVE  FALSE
  BY <1>6, <1>14 DEF Save
<1>15. ~WindowCloses /\ ~RetryFires /\ ~HeartbeatTimeout /\ ~UNCHANGED strategyVars
  BY <1>6, <1>7 DEF WindowCloses, RetryFires, HeartbeatTimeout, strategyVars, debts
<1> QED BY <1>4, <1>8, <1>9, <1>10, <1>11, <1>12, <1>13, <1>14, <1>15 DEF StrategyNext

(* The debt of a superseded refresh (routeRefreshOwed) is carried until a refresh
   runs, or waits for the save; only a navigation forgets it. *)
THEOREM DebtIsCarried == StrategySpec => OwedUntilARefreshRuns
<1>1. StrategyInv /\ [StrategyNext]_strategyVars =>
        [routeOwed /\ ~routeOwed' =>
           \/ route' # route
           \/ AfterSave /\ awaitsSave'
           \/ Navigate]_strategyVars
  BY OwedStays
<1> QED BY <1>1, StrategyInvHolds, PTL DEF StrategySpec, OwedUntilARefreshRuns
=============================================================================
