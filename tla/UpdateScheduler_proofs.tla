----------------------- MODULE UpdateScheduler_proofs -----------------------
(* Proofs about UpdateScheduler, for every set of elements and values and every
   setting of the timers. *)
EXTENDS UpdateScheduler, TLAPS

\* An entry is being flushed only while a flush is on the call stack.
BatchOnlyInFlush == ~flushing => batch = Empty

(* The inductive invariant. That no write is lost needs to know that a buffered
   entry belongs to the revision in charge, which the flush does not drop, and
   that a flush starts with an empty batch. *)
IInv ==
  /\ TypeOK
  /\ BatchOnlyInFlush
  /\ BuffersBelongToOwner
  /\ ClosedIsQuiet
  /\ PendingIsArmed
  /\ DeferredIsHidden
  /\ NoLostWrite

\* What the timer settings say, with the definition of Off expanded.
LEMMA Times ==
  /\ Debounce \in Nat /\ Debounce > 0
  /\ MaxWait \in Nat /\ MaxWait > 0
  /\ FrameFallback \in Nat /\ FrameFallback > 0
  /\ MaxRevision \in Nat
  /\ Off = -1
BY TimesAssumption, SchedulerBoundsAssumption DEF Off

\* Clearing an entry of a buffer, or all of them, leaves a buffer.
LEMMA EmptyIsSlots == Empty \in Slots
BY DEF Empty, Slots

LEMMA ClearedIsSlots ==
  ASSUME NEW s \in Slots, NEW e \in Elements
  PROVE  [s EXCEPT ![e] = NoEntry] \in Slots
BY DEF Slots

\* Every element is empty in the empty buffer, and it is the only such buffer.
LEMMA EmptyIsEmpty == \A e \in Elements : Empty[e] = NoEntry
BY DEF Empty

LEMMA OnlyEmptyIsEmpty ==
  ASSUME NEW s \in Slots, \A e \in Elements : s[e] = NoEntry
  PROVE  s = Empty
BY DEF Slots, Empty

---------------------------------------------------------------------------
(* Every action keeps the types: of the buffers, of the flags and of the numbers. *)
BuffersOK ==
  /\ pending \in Slots /\ replay \in Slots /\ batch \in Slots
  /\ shown \in Slots /\ latest \in Slots
FlagsOK ==
  /\ flushing \in BOOLEAN
  /\ cancelled \in BOOLEAN
  /\ frame \in BOOLEAN
  /\ visible \in [Elements -> BOOLEAN]
NumbersOK ==
  /\ active \in 0..MaxRevision
  /\ issued \in 0..MaxRevision
  /\ windowLeft \in 0..Debounce
  /\ debounceLeft \in Off..Debounce
  /\ deadlineLeft \in Off..MaxWait
  /\ fallbackLeft \in Off..FrameFallback

LEMMA TypeParts == TypeOK <=> BuffersOK /\ FlagsOK /\ NumbersOK
BY DEF TypeOK, BuffersOK, FlagsOK, NumbersOK

LEMMA BuffersInductive == BuffersOK /\ [Next]_vars => BuffersOK'
<1> SUFFICES ASSUME BuffersOK, [Next]_vars PROVE BuffersOK'
  OBVIOUS
<1> USE EmptyIsSlots, ClearedIsSlots DEF BuffersOK, buffers, ClearWork
<1>1. ASSUME NEW e \in Elements, NEW v \in Values, NEW r \in Revisions, Schedule(e, v, r)
      PROVE  BuffersOK'
  <2>1. [revision |-> r, value |-> v] \in Entries
    BY DEF Entries
  <2>2. QED
    BY <1>1, <2>1 DEF Schedule, Slots
<1>2. CASE AcceptRevision
  BY <1>2 DEF AcceptRevision
<1>3. CASE CancelRevision
  BY <1>3 DEF CancelRevision
<1>4. CASE Destroy
  BY <1>4 DEF Destroy
<1>5. ASSUME NEW e \in Elements, Forget(e) PROVE BuffersOK'
  BY <1>5 DEF Forget
<1>6. ASSUME NEW e \in Elements, Scroll(e) PROVE BuffersOK'
  <2>1. replay[e] # NoEntry => [shown EXCEPT ![e] = replay[e]] \in Slots
    BY DEF Slots
  <2>2. QED
    BY <1>6, <2>1 DEF Scroll
<1>7. CASE DebounceFires \/ DeadlineFires
  BY <1>7 DEF DebounceFires, DeadlineFires
<1>8. CASE AnimationFrame \/ FallbackFires
  BY <1>8 DEF AnimationFrame, FallbackFires, BeginFlush
<1>9. ASSUME NEW e \in Elements, FlushEntry(e) PROVE BuffersOK'
  <2>1. batch[e] # NoEntry => [shown EXCEPT ![e] = batch[e]] \in Slots
                              /\ [replay EXCEPT ![e] = batch[e]] \in Slots
    BY DEF Slots
  <2>2. QED
    BY <1>9, <2>1 DEF FlushEntry
<1>10. CASE EndFlush \/ Tick
  BY <1>10 DEF EndFlush, Tick
<1>11. CASE UNCHANGED vars
  BY <1>11 DEF vars
<1>12. QED
  BY <1>1, <1>2, <1>3, <1>4, <1>5, <1>6, <1>7, <1>8, <1>9, <1>10, <1>11 DEF Next

LEMMA FlagsInductive == FlagsOK /\ [Next]_vars => FlagsOK'
<1> SUFFICES ASSUME FlagsOK, [Next]_vars PROVE FlagsOK'
  OBVIOUS
<1> USE DEF FlagsOK, owner, timers, RequestFrame, KeepFrame, DropFrame, CancelScheduledWork
<1>1. CASE AcceptRevision
  BY <1>1 DEF AcceptRevision
<1>2. CASE CancelRevision
  BY <1>2 DEF CancelRevision
<1>3. CASE Destroy
  BY <1>3 DEF Destroy
<1>4. ASSUME NEW e \in Elements, Scroll(e) PROVE FlagsOK'
  BY <1>4 DEF Scroll
<1>5. CASE AnimationFrame \/ FallbackFires
  BY <1>5 DEF AnimationFrame, FallbackFires, BeginFlush
<1>6. CASE EndFlush
  BY <1>6 DEF EndFlush
<1>7. ASSUME NEW e \in Elements, Forget(e) \/ FlushEntry(e) PROVE FlagsOK'
  BY <1>7 DEF Forget, FlushEntry
<1>8. ASSUME NEW e \in Elements, NEW v \in Values, NEW r \in Revisions, Schedule(e, v, r)
      PROVE  FlagsOK'
  BY <1>8 DEF Schedule, ArmDebounce
<1>9. CASE DebounceFires \/ DeadlineFires
  BY <1>9 DEF DebounceFires, DeadlineFires, WakeForPending
<1>10. CASE Tick
  BY <1>10 DEF Tick
<1>11. CASE UNCHANGED vars
  BY <1>11 DEF vars
<1>12. QED
  BY <1>1, <1>2, <1>3, <1>4, <1>5, <1>6, <1>7, <1>8, <1>9, <1>10, <1>11 DEF Next

LEMMA NumbersInductive == NumbersOK /\ [Next]_vars => NumbersOK'
<1> SUFFICES ASSUME NumbersOK, [Next]_vars PROVE NumbersOK'
  OBVIOUS
<1> USE Times DEF NumbersOK, owner, timers
\* What the helpers do to the timers, without the flags.
<1>1. ArmDebounce =>
        /\ windowLeft' = Debounce
        /\ debounceLeft' \in {debounceLeft, Debounce}
        /\ deadlineLeft' \in {deadlineLeft, MaxWait}
        /\ fallbackLeft' \in {fallbackLeft, FrameFallback}
  BY DEF ArmDebounce, RequestFrame, KeepFrame
<1>2. CancelScheduledWork =>
        debounceLeft' = Off /\ deadlineLeft' = Off /\ fallbackLeft' = Off
  BY DEF CancelScheduledWork, DropFrame
<1>3. WakeForPending => fallbackLeft' \in {fallbackLeft, FrameFallback}
  BY DEF WakeForPending, RequestFrame, KeepFrame
<1>4. BeginFlush => fallbackLeft' = Off /\ deadlineLeft' = Off
                    /\ UNCHANGED <<owner, windowLeft, debounceLeft>>
  BY DEF BeginFlush, DropFrame
<1>5. CASE \E e \in Elements, v \in Values, r \in Revisions : Schedule(e, v, r)
  <2>1. ArmDebounce /\ UNCHANGED owner
    BY <1>5 DEF Schedule
  <2>2. QED
    BY <1>1, <2>1
<1>6. CASE AcceptRevision
  <2>1. CancelScheduledWork /\ issued' \in 0..MaxRevision
        /\ active' = issued' /\ windowLeft' = windowLeft
    BY <1>6, SchedulerBoundsAssumption DEF AcceptRevision
  <2>2. QED
    BY <1>2, <2>1
<1>7. CASE CancelRevision \/ Destroy
  <2>1. CancelScheduledWork /\ issued' = issued
        /\ active' \in {0, active} /\ windowLeft' \in {0, windowLeft}
    BY <1>7 DEF CancelRevision, Destroy
  <2>2. QED
    BY <1>2, <2>1
<1>8. CASE DebounceFires \/ DeadlineFires
  <2>1. /\ debounceLeft' \in {Off, debounceLeft} /\ deadlineLeft' \in {Off, deadlineLeft}
        /\ WakeForPending /\ UNCHANGED <<owner, windowLeft>>
    BY <1>8 DEF DebounceFires, DeadlineFires
  <2>2. QED
    BY <1>3, <2>1
<1>9. CASE AnimationFrame \/ FallbackFires
  <2>1. BeginFlush
    BY <1>9 DEF AnimationFrame, FallbackFires
  <2>2. QED
    BY <1>4, <2>1
<1>10. CASE \E e \in Elements : Forget(e) \/ Scroll(e) \/ FlushEntry(e)
  BY <1>10 DEF Forget, Scroll, FlushEntry
<1>11. CASE Tick
  <2>1. /\ windowLeft' = (IF windowLeft = 0 THEN 0 ELSE windowLeft - 1)
        /\ debounceLeft' = Countdown(debounceLeft)
        /\ deadlineLeft' = Countdown(deadlineLeft)
        /\ fallbackLeft' = Countdown(fallbackLeft)
        /\ UNCHANGED owner
    BY <1>11 DEF Tick
  <2>2. 0 \notin {debounceLeft, deadlineLeft, fallbackLeft}
    BY <1>11 DEF Tick
  <2>3. QED
    BY <2>1, <2>2 DEF Countdown
<1>12. CASE EndFlush \/ UNCHANGED vars
  BY <1>12 DEF EndFlush, vars
<1>13. QED
  BY <1>5, <1>6, <1>7, <1>8, <1>9, <1>10, <1>11, <1>12 DEF Next

LEMMA TypeInductive == TypeOK /\ [Next]_vars => TypeOK'
<1>1. BuffersOK' /\ FlagsOK' /\ NumbersOK' => TypeOK'
  BY DEF TypeOK, BuffersOK, FlagsOK, NumbersOK
<1>2. QED
  BY <1>1, TypeParts, BuffersInductive, FlagsInductive, NumbersInductive

---------------------------------------------------------------------------
(* Work leaves the buffers before its revision leaves the scheduler. *)
LEMMA OwnershipInductive ==
  TypeOK /\ BatchOnlyInFlush /\ BuffersBelongToOwner /\ [Next]_vars
    => BatchOnlyInFlush' /\ BuffersBelongToOwner'
<1> SUFFICES ASSUME TypeOK, BatchOnlyInFlush, BuffersBelongToOwner, [Next]_vars
             PROVE  BatchOnlyInFlush' /\ BuffersBelongToOwner'
  OBVIOUS
<1> USE DEF TypeOK, Slots, BatchOnlyInFlush, BuffersBelongToOwner, IsCurrent, timers, owner, buffers
<1>1. ASSUME NEW e \in Elements, NEW v \in Values, NEW r \in Revisions, Schedule(e, v, r)
      PROVE  BatchOnlyInFlush' /\ BuffersBelongToOwner'
  BY <1>1 DEF Schedule
<1>2. CASE AcceptRevision
  BY <1>2 DEF AcceptRevision, ClearWork, Empty
<1>3. CASE CancelRevision
  BY <1>3 DEF CancelRevision, ClearWork, Empty
<1>4. CASE Destroy
  BY <1>4 DEF Destroy, ClearWork, Empty
<1>5. ASSUME NEW e \in Elements, Forget(e) PROVE BatchOnlyInFlush' /\ BuffersBelongToOwner'
  BY <1>5 DEF Forget, Empty
<1>6. ASSUME NEW e \in Elements, Scroll(e) PROVE BatchOnlyInFlush' /\ BuffersBelongToOwner'
  BY <1>6 DEF Scroll
<1>7. CASE DebounceFires \/ DeadlineFires
  BY <1>7 DEF DebounceFires, DeadlineFires
<1>8. CASE AnimationFrame \/ FallbackFires
  BY <1>8 DEF AnimationFrame, FallbackFires, BeginFlush, Empty
<1>9. ASSUME NEW e \in Elements, FlushEntry(e) PROVE BatchOnlyInFlush' /\ BuffersBelongToOwner'
  BY <1>9 DEF FlushEntry
<1>10. CASE EndFlush \/ Tick
  BY <1>10 DEF EndFlush, Tick
<1>11. CASE UNCHANGED vars
  BY <1>11 DEF vars
<1>12. QED
  BY <1>1, <1>2, <1>3, <1>4, <1>5, <1>6, <1>7, <1>8, <1>9, <1>10, <1>11 DEF Next

---------------------------------------------------------------------------
(* A write that is scheduled is scheduled by the owner, so a closed scheduler
   gets no work; and with no work, no timer is armed again. *)
LEMMA QuietInductive ==
  TypeOK /\ ClosedIsQuiet /\ [Next]_vars => ClosedIsQuiet'
<1> SUFFICES ASSUME TypeOK, ClosedIsQuiet, [Next]_vars PROVE ClosedIsQuiet'
  OBVIOUS
<1> USE DEF ClosedIsQuiet, buffers, owner, timers
<1>1. CASE \E e \in Elements, v \in Values, r \in Revisions : Schedule(e, v, r)
  BY <1>1 DEF Schedule, IsCurrent
<1>2. CASE AcceptRevision
  BY <1>2, Times DEF AcceptRevision, TypeOK
<1>3. CASE CancelRevision \/ Destroy
  BY <1>3 DEF CancelRevision, Destroy, ClearWork, CancelScheduledWork, DropFrame
<1>4. ASSUME NEW e \in Elements, Forget(e) PROVE ClosedIsQuiet'
  BY <1>4 DEF Forget, Empty
<1>5. ASSUME NEW e \in Elements, Scroll(e) PROVE ClosedIsQuiet'
  BY <1>5, EmptyIsEmpty DEF Scroll
<1>6. CASE DebounceFires \/ DeadlineFires
  BY <1>6 DEF DebounceFires, DeadlineFires, WakeForPending, KeepFrame
<1>7. CASE AnimationFrame \/ FallbackFires
  BY <1>7 DEF AnimationFrame, FallbackFires, BeginFlush, DropFrame
<1>8. ASSUME NEW e \in Elements, FlushEntry(e) PROVE ClosedIsQuiet'
  BY <1>8, EmptyIsEmpty DEF FlushEntry
<1>9. CASE EndFlush \/ UNCHANGED vars
  BY <1>9 DEF EndFlush, vars
<1>10. CASE Tick
  BY <1>10 DEF Tick, Countdown
<1>11. QED
  BY <1>1, <1>2, <1>3, <1>4, <1>5, <1>6, <1>7, <1>8, <1>9, <1>10 DEF Next

(* The write that opens a window asks for a frame; a timer that fires with work
   buffered does so too. *)
LEMMA ArmedInductive ==
  TypeOK /\ PendingIsArmed /\ [Next]_vars => PendingIsArmed'
<1> SUFFICES ASSUME TypeOK, PendingIsArmed, [Next]_vars PROVE PendingIsArmed'
  OBVIOUS
<1> USE Times DEF PendingIsArmed, buffers, owner, timers
<1>1. CASE \E e \in Elements, v \in Values, r \in Revisions : Schedule(e, v, r)
  BY <1>1 DEF Schedule, ArmDebounce, RequestFrame, KeepFrame
<1>2. CASE AcceptRevision \/ CancelRevision \/ Destroy
  BY <1>2 DEF AcceptRevision, CancelRevision, Destroy, ClearWork
<1>3. ASSUME NEW e \in Elements, Forget(e) PROVE PendingIsArmed'
  BY <1>3 DEF Forget, Empty
<1>4. CASE \E e \in Elements : Scroll(e) \/ FlushEntry(e)
  BY <1>4 DEF Scroll, FlushEntry
<1>5. CASE DebounceFires \/ DeadlineFires
  BY <1>5 DEF DebounceFires, DeadlineFires, WakeForPending, RequestFrame, KeepFrame
<1>6. CASE AnimationFrame \/ FallbackFires
  BY <1>6 DEF AnimationFrame, FallbackFires, BeginFlush
<1>7. CASE EndFlush \/ UNCHANGED vars
  BY <1>7 DEF EndFlush, vars
<1>8. CASE Tick
  <2>1. ASSUME NEW left \in Int, left # Off, left # 0, left >= Off PROVE Countdown(left) # Off
    BY <2>1 DEF Countdown
  <2>2. QED
    BY <1>8, <2>1 DEF Tick, TypeOK
<1>9. QED
  BY <1>1, <1>2, <1>3, <1>4, <1>5, <1>6, <1>7, <1>8 DEF Next

(* An entry waits for sight from a flush that could not see its element until the
   observer reports the element. *)
LEMMA DeferredInductive ==
  TypeOK /\ DeferredIsHidden /\ [Next]_vars => DeferredIsHidden'
<1> SUFFICES ASSUME TypeOK, DeferredIsHidden, [Next]_vars PROVE DeferredIsHidden'
  OBVIOUS
<1> USE DEF DeferredIsHidden, Visible, buffers, owner, timers, TypeOK, Slots
<1>1. CASE \E e \in Elements, v \in Values, r \in Revisions : Schedule(e, v, r)
  BY <1>1 DEF Schedule
<1>2. CASE AcceptRevision \/ CancelRevision \/ Destroy
  BY <1>2 DEF AcceptRevision, CancelRevision, Destroy, ClearWork, Empty
<1>3. ASSUME NEW e \in Elements, Forget(e) PROVE DeferredIsHidden'
  BY <1>3 DEF Forget
<1>4. ASSUME NEW e \in Elements, Scroll(e) PROVE DeferredIsHidden'
  BY <1>4 DEF Scroll
<1>5. CASE DebounceFires \/ DeadlineFires \/ AnimationFrame \/ FallbackFires
  BY <1>5 DEF DebounceFires, DeadlineFires, AnimationFrame, FallbackFires, BeginFlush
<1>6. ASSUME NEW e \in Elements, FlushEntry(e) PROVE DeferredIsHidden'
  BY <1>6 DEF FlushEntry
<1>7. CASE EndFlush \/ Tick \/ UNCHANGED vars
  BY <1>7 DEF EndFlush, Tick, vars
<1>8. QED
  BY <1>1, <1>2, <1>3, <1>4, <1>5, <1>6, <1>7 DEF Next

---------------------------------------------------------------------------
(* The newest write of the live revision stays the newest thing on its way. *)
LEMMA WritesInductive ==
  TypeOK /\ BatchOnlyInFlush /\ BuffersBelongToOwner /\ NoLostWrite /\ [Next]_vars
    => NoLostWrite'
<1> SUFFICES ASSUME TypeOK, BatchOnlyInFlush, BuffersBelongToOwner, NoLostWrite, [Next]_vars
             PROVE  NoLostWrite'
  OBVIOUS
<1> USE DEF NoLostWrite, Newest, buffers, owner, timers
<1>1. ASSUME NEW e \in Elements, NEW v \in Values, NEW r \in Revisions, Schedule(e, v, r)
      PROVE  NoLostWrite'
  BY <1>1 DEF Schedule, TypeOK, Slots
<1>2. CASE AcceptRevision \/ CancelRevision \/ Destroy
  BY <1>2, EmptyIsEmpty DEF AcceptRevision, CancelRevision, Destroy
<1>3. ASSUME NEW e \in Elements, Forget(e) PROVE NoLostWrite'
  BY <1>3 DEF Forget, TypeOK, Slots
<1>4. ASSUME NEW e \in Elements, Scroll(e) PROVE NoLostWrite'
  BY <1>4 DEF Scroll, TypeOK, Slots, BuffersBelongToOwner
<1>5. CASE DebounceFires \/ DeadlineFires
  BY <1>5 DEF DebounceFires, DeadlineFires
<1>6. CASE AnimationFrame \/ FallbackFires
  BY <1>6, EmptyIsEmpty DEF AnimationFrame, FallbackFires, BeginFlush, BatchOnlyInFlush
<1>7. ASSUME NEW e \in Elements, FlushEntry(e) PROVE NoLostWrite'
  BY <1>7 DEF FlushEntry, TypeOK, Slots, BuffersBelongToOwner
<1>8. CASE EndFlush \/ Tick \/ UNCHANGED vars
  BY <1>8 DEF EndFlush, Tick, vars
<1>9. QED
  BY <1>1, <1>2, <1>3, <1>4, <1>5, <1>6, <1>7, <1>8 DEF Next

---------------------------------------------------------------------------
LEMMA InitIsIInv == Init => IInv
<1> SUFFICES ASSUME Init PROVE IInv
  OBVIOUS
<1> USE DEF Init
<1>1. TypeOK
  <2>1. BuffersOK
    BY EmptyIsSlots DEF BuffersOK
  <2>2. FlagsOK
    BY DEF FlagsOK
  <2>3. NumbersOK
    BY Times DEF NumbersOK
  <2>4. QED
    BY <2>1, <2>2, <2>3, TypeParts
<1>2. BatchOnlyInFlush /\ ClosedIsQuiet /\ PendingIsArmed
  BY DEF BatchOnlyInFlush, ClosedIsQuiet, PendingIsArmed, buffers
<1>3. BuffersBelongToOwner /\ DeferredIsHidden /\ NoLostWrite
  BY EmptyIsEmpty DEF BuffersBelongToOwner, DeferredIsHidden, NoLostWrite
<1>4. QED
  BY <1>1, <1>2, <1>3 DEF IInv

LEMMA IInvInductive == IInv /\ [Next]_vars => IInv'
BY TypeInductive, OwnershipInductive, QuietInductive, ArmedInductive,
   DeferredInductive, WritesInductive DEF IInv

(* The scheduler keeps its inductive invariant for ever. *)
THEOREM IInvHolds == Spec => []IInv
BY InitIsIInv, IInvInductive, PTL DEF Spec

(* The buffers, the owner and the timers keep their types. *)
THEOREM TypeCorrect == Spec => []TypeOK
<1>1. IInv => TypeOK
  BY DEF IInv
<1>2. QED
  BY <1>1, IInvHolds, PTL

(* Whatever the order of writes, flushes, scrolling and supersession, the newest
   write of the live revision is never overtaken by an older one, or dropped. *)
THEOREM WritesAreKept == Spec => []NoLostWrite
<1>1. IInv => NoLostWrite
  BY DEF IInv
<1>2. QED
  BY <1>1, IInvHolds, PTL

(* Nothing of a superseded or cancelled revision survives in a buffer. *)
THEOREM BuffersAreOwned == Spec => []BuffersBelongToOwner
<1>1. IInv => BuffersBelongToOwner
  BY DEF IInv
<1>2. QED
  BY <1>1, IInvHolds, PTL

(* A closed scheduler holds no work, timer or frame. *)
THEOREM ClosedSchedulerIsQuiet == Spec => []ClosedIsQuiet
<1>1. IInv => ClosedIsQuiet
  BY DEF IInv
<1>2. QED
  BY <1>1, IInvHolds, PTL

(* Buffered work always has a frame or a timer that will wake it. *)
THEOREM PendingWorkIsArmed == Spec => []PendingIsArmed
<1>1. IInv => PendingIsArmed
  BY DEF IInv
<1>2. QED
  BY <1>1, IInvHolds, PTL

(* A deferred write is for an element that is out of sight. *)
THEOREM DeferredWorkIsHidden == Spec => []DeferredIsHidden
<1>1. IInv => DeferredIsHidden
  BY DEF IInv
<1>2. QED
  BY <1>1, IInvHolds, PTL

(* Only the revision in charge writes to the page: a scroll or a running flush
   that finds an entry shows it only for the owner. *)
THEOREM OwnerAloneWrites == Spec => OnlyTheOwnerWrites
<1>1. TypeOK /\ [Next]_vars =>
        [\A e \in Elements : shown'[e] # shown[e] =>
           shown'[e].revision = active /\ ~cancelled]_vars
  <2> SUFFICES ASSUME TypeOK, [Next]_vars, NEW e \in Elements, shown'[e] # shown[e]
               PROVE  shown'[e].revision = active /\ ~cancelled
    OBVIOUS
  <2>1. ASSUME NEW f \in Elements, Scroll(f) PROVE shown'[e].revision = active /\ ~cancelled
    BY <2>1 DEF Scroll, IsCurrent, TypeOK, Slots
  <2>2. ASSUME NEW f \in Elements, FlushEntry(f) PROVE shown'[e].revision = active /\ ~cancelled
    BY <2>2 DEF FlushEntry, IsCurrent, TypeOK, Slots
  <2>3. ASSUME ~(\E f \in Elements : Scroll(f) \/ FlushEntry(f)) PROVE FALSE
    BY <2>3 DEF Next, vars, Schedule, AcceptRevision, CancelRevision, Destroy, Forget,
       DebounceFires, DeadlineFires, AnimationFrame, FallbackFires, BeginFlush, EndFlush, Tick
  <2>4. QED
    BY <2>1, <2>2, <2>3
<1>2. QED
  BY <1>1, TypeCorrect, PTL DEF Spec, OnlyTheOwnerWrites
=============================================================================
