-------------------------- MODULE UpdateScheduler --------------------------
(* core/update-scheduler.ts: the buffer between an accepted revision and the
   page. A write waits for an animation frame (or its fallback timer), a burst
   is debounced under a deadline, and a write to an element outside the viewport
   waits until the element scrolls into view.

   Time passes in Ticks. A timer holds the ticks it has left, a running flush
   takes no time, and a timer that is due fires before the next tick. *)
EXTENDS Integers

CONSTANTS
  Elements,       \* bound elements of the page
  Anchors,        \* empty-field anchors with no box: they never scroll into view
  Values,         \* field values
  NoEntry,        \* "nothing buffered", "nothing written"
  Gate,           \* the cache is larger than the visibility threshold
  Debounce,       \* debounceMs
  MaxWait,        \* maxWaitMs
  FrameFallback,  \* FRAME_FALLBACK_MS
  MaxRevision     \* bound: revision numbers, given out in turn

ASSUME TimesAssumption ==
  /\ Debounce \in Nat \ {0}
  /\ MaxWait \in Nat /\ MaxWait > Debounce
  /\ FrameFallback \in Nat \ {0}
ASSUME SchedulerBoundsAssumption ==
  /\ MaxRevision \in Nat \ {0}
  /\ Gate \in BOOLEAN
  /\ Anchors \subseteq Elements

VARIABLES
  pending, replay, batch,        \* element -> entry: buffered, waiting for sight, being flushed
  flushing,                      \* a flush is on the call stack
  active, cancelled, issued,     \* activeRevision (0: null), its cancellation, the newest one given out
  windowLeft,                    \* windowUntil - now
  debounceLeft, deadlineLeft,    \* timers
  frame, fallbackLeft,           \* frameHandle and frameFallback
  visible,                       \* what the intersection observer last reported
  shown,                         \* the entry the page shows
  latest                         \* the newest entry the live revision scheduled

buffers == <<pending, replay, batch>>
owner == <<active, cancelled, issued>>
timers == <<windowLeft, debounceLeft, deadlineLeft, frame, fallbackLeft>>
vars == <<buffers, flushing, owner, timers, visible, shown, latest>>

Off == -1
Revisions == 1..MaxRevision
Entries == [revision : Revisions, value : Values]
Slots == [Elements -> Entries \cup {NoEntry}]
Empty == [e \in Elements |-> NoEntry]

TypeOK ==
  /\ pending \in Slots /\ replay \in Slots /\ batch \in Slots
  /\ flushing \in BOOLEAN
  /\ active \in 0..MaxRevision
  /\ cancelled \in BOOLEAN
  /\ issued \in 0..MaxRevision
  /\ windowLeft \in 0..Debounce
  /\ debounceLeft \in Off..Debounce
  /\ deadlineLeft \in Off..MaxWait
  /\ frame \in BOOLEAN
  /\ fallbackLeft \in Off..FrameFallback
  /\ visible \in [Elements -> BOOLEAN]
  /\ shown \in Slots /\ latest \in Slots

Init ==
  /\ pending = Empty /\ replay = Empty /\ batch = Empty
  /\ flushing = FALSE
  /\ active = 0 /\ cancelled = FALSE /\ issued = 0
  /\ windowLeft = 0 /\ debounceLeft = Off /\ deadlineLeft = Off
  /\ frame = FALSE /\ fallbackLeft = Off
  /\ visible \in [Elements -> BOOLEAN]
  /\ shown = Empty /\ latest = Empty

---------------------------------------------------------------------------
MutIsCurrent(r) == r = active
IsCurrent(r) == active # 0 /\ r = active /\ ~cancelled

Visible(e) == ~Gate \/ visible[e] \/ e \in Anchors

\* requestFrame: a new request replaces the old one, its fallback timer included.
RequestFrame == frame' = TRUE /\ fallbackLeft' = FrameFallback
KeepFrame == UNCHANGED <<frame, fallbackLeft>>
DropFrame == frame' = FALSE /\ fallbackLeft' = Off

MutArmDebounce ==
  /\ windowLeft' = Debounce
  /\ UNCHANGED deadlineLeft
  /\ IF windowLeft = 0
     THEN RequestFrame /\ UNCHANGED debounceLeft
     ELSE debounceLeft' = Debounce /\ KeepFrame

(* armDebounce: the write that opens a window asks for a frame at once; inside
   the window a write re-arms the debounce, and the first one arms the deadline. *)
ArmDebounce ==
  /\ windowLeft' = Debounce
  /\ IF windowLeft = 0
     THEN RequestFrame /\ UNCHANGED <<debounceLeft, deadlineLeft>>
     ELSE /\ debounceLeft' = Debounce
          /\ deadlineLeft' = IF deadlineLeft = Off THEN MaxWait ELSE deadlineLeft
          /\ KeepFrame

\* cancelScheduledWork; the window stays open.
CancelScheduledWork ==
  /\ debounceLeft' = Off /\ deadlineLeft' = Off
  /\ DropFrame

ClearWork == pending' = Empty /\ replay' = Empty /\ batch' = Empty

---------------------------------------------------------------------------
(* Calls of the pipeline. Each may also come from consumer code inside a flush. *)

(* schedule: a revision that does not own the scheduler is dropped. *)
Schedule(e, v, r) ==
  /\ IsCurrent(r)
  /\ LET entry == [revision |-> r, value |-> v]
     IN /\ pending' = [pending EXCEPT ![e] = entry]
        /\ latest' = [latest EXCEPT ![e] = entry]
  /\ ArmDebounce
  /\ UNCHANGED <<replay, batch, flushing, owner, visible, shown>>

(* acceptRevision of a newer revision: it alone may schedule, flush or replay. The
   numbers are given out in turn, so that a stream of revisions never ends: all
   that is asked of one is whether it is the owner's, and what the buffers held for
   the one that had the number before was dropped long ago. *)
AcceptRevision ==
  /\ issued' = IF issued = MaxRevision THEN 1 ELSE issued + 1
  /\ active' = issued'
  /\ cancelled' = FALSE
  /\ ClearWork
  /\ CancelScheduledWork
  /\ latest' = Empty
  /\ UNCHANGED <<flushing, windowLeft, visible, shown>>

CancelRevision ==
  /\ active # 0
  /\ cancelled' = TRUE
  /\ ClearWork
  /\ CancelScheduledWork
  /\ latest' = Empty
  /\ UNCHANGED <<flushing, active, issued, windowLeft, visible, shown>>

\* The timers outlive a destroy that forgets to cancel them.
MutDestroyTimers ==
  /\ active' = 0 /\ cancelled' = FALSE
  /\ ClearWork
  /\ windowLeft' = 0
  /\ latest' = Empty
  /\ UNCHANGED <<debounceLeft, deadlineLeft, frame, fallbackLeft,
                 flushing, issued, visible, shown>>
Destroy ==
  /\ active' = 0 /\ cancelled' = FALSE
  /\ ClearWork
  /\ windowLeft' = 0
  /\ CancelScheduledWork
  /\ latest' = Empty
  /\ UNCHANGED <<flushing, issued, visible, shown>>

(* forget, and a retarget to another binding: the element left the cache. *)
Forget(e) ==
  /\ pending' = [pending EXCEPT ![e] = NoEntry]
  /\ replay' = [replay EXCEPT ![e] = NoEntry]
  /\ batch' = [batch EXCEPT ![e] = NoEntry]
  /\ latest' = [latest EXCEPT ![e] = NoEntry]
  /\ UNCHANGED <<flushing, owner, timers, visible, shown>>

---------------------------------------------------------------------------
(* Visibility: the observer records the change, then reports an element that
   came into view to notifyVisible. *)
Scroll(e) ==
  /\ visible' = [visible EXCEPT ![e] = ~@]
  /\ IF ~visible[e] /\ replay[e] # NoEntry
     THEN /\ replay' = [replay EXCEPT ![e] = NoEntry]
          /\ shown' = IF IsCurrent(replay[e].revision)
                      THEN [shown EXCEPT ![e] = replay[e]] ELSE shown
     ELSE UNCHANGED <<replay, shown>>
  /\ UNCHANGED <<pending, batch, flushing, owner, timers, latest>>

---------------------------------------------------------------------------
(* Timers and frames *)

WakeForPending ==
  IF pending # Empty THEN RequestFrame ELSE KeepFrame

DebounceFires ==
  /\ ~flushing
  /\ debounceLeft = 0
  /\ debounceLeft' = Off
  /\ WakeForPending
  /\ UNCHANGED <<buffers, flushing, owner, windowLeft, deadlineLeft, visible, shown, latest>>

DeadlineFires ==
  /\ ~flushing
  /\ deadlineLeft = 0
  /\ deadlineLeft' = Off
  /\ WakeForPending
  /\ UNCHANGED <<buffers, flushing, owner, windowLeft, debounceLeft, visible, shown, latest>>

(* run, then flush up to its loop: the buffer is taken as a whole. *)
BeginFlush ==
  /\ DropFrame
  /\ deadlineLeft' = Off
  /\ batch' = pending
  /\ pending' = Empty
  /\ flushing' = TRUE
  /\ UNCHANGED <<replay, owner, windowLeft, debounceLeft, visible, shown, latest>>

AnimationFrame ==
  /\ ~flushing
  /\ frame
  /\ BeginFlush

FallbackFires ==
  /\ ~flushing
  /\ fallbackLeft = 0
  /\ BeginFlush

\* A write that is shown while an older one for the element still waits for sight.
MutFlushEntry(e) ==
  /\ flushing
  /\ batch[e] # NoEntry
  /\ batch' = [batch EXCEPT ![e] = NoEntry]
  /\ IF ~IsCurrent(batch[e].revision) THEN UNCHANGED <<replay, shown>>
     ELSE IF Visible(e) THEN /\ shown' = [shown EXCEPT ![e] = batch[e]]
                             /\ UNCHANGED replay
          ELSE UNCHANGED <<replay, shown>>
  /\ UNCHANGED <<pending, flushing, owner, timers, visible, latest>>

(* One entry of the flush. The map's order is immaterial: entries are for
   different elements. *)
FlushEntry(e) ==
  /\ flushing
  /\ batch[e] # NoEntry
  /\ batch' = [batch EXCEPT ![e] = NoEntry]
  /\ IF ~IsCurrent(batch[e].revision) THEN UNCHANGED <<replay, shown>>
     ELSE IF Visible(e) THEN /\ replay' = [replay EXCEPT ![e] = NoEntry]
                             /\ shown' = [shown EXCEPT ![e] = batch[e]]
          ELSE /\ replay' = [replay EXCEPT ![e] = batch[e]]
               /\ UNCHANGED shown
  /\ UNCHANGED <<pending, flushing, owner, timers, visible, latest>>

EndFlush ==
  /\ flushing
  /\ batch = Empty
  /\ flushing' = FALSE
  /\ UNCHANGED <<buffers, owner, timers, visible, shown, latest>>

Countdown(left) == IF left = Off THEN Off ELSE left - 1

Tick ==
  /\ ~flushing
  /\ 0 \notin {debounceLeft, deadlineLeft, fallbackLeft}
  /\ windowLeft' = IF windowLeft = 0 THEN 0 ELSE windowLeft - 1
  /\ debounceLeft' = Countdown(debounceLeft)
  /\ deadlineLeft' = Countdown(deadlineLeft)
  /\ fallbackLeft' = Countdown(fallbackLeft)
  /\ UNCHANGED <<buffers, flushing, owner, frame, visible, shown, latest>>

---------------------------------------------------------------------------
Next ==
  \/ \E e \in Elements, v \in Values, r \in Revisions : Schedule(e, v, r)
  \/ AcceptRevision
  \/ CancelRevision
  \/ Destroy
  \/ \E e \in Elements : Forget(e)
  \/ \E e \in Elements : Scroll(e)
  \/ DebounceFires
  \/ DeadlineFires
  \/ AnimationFrame
  \/ FallbackFires
  \/ \E e \in Elements : FlushEntry(e)
  \/ EndFlush
  \/ Tick

Spec == Init /\ [][Next]_vars

---------------------------------------------------------------------------
(* Safety *)

(* No write is lost between schedule and page: for every element the newest
   thing anywhere on the way (buffer, running flush, waiting for sight, page) is
   the newest write the live revision scheduled. An older deferred value can
   never come back over a newer one. *)
Newest(e) ==
  CASE pending[e] # NoEntry -> pending[e]
    [] pending[e] = NoEntry /\ batch[e] # NoEntry -> batch[e]
    [] pending[e] = NoEntry /\ batch[e] = NoEntry /\ replay[e] # NoEntry -> replay[e]
    [] OTHER -> shown[e]
NoLostWrite ==
  \A e \in Elements : latest[e] # NoEntry => Newest(e) = latest[e]

(* Every buffered write has something that will wake it: a frame, the debounce
   or the deadline (a leading write has no timer of its own). *)
PendingIsArmed ==
  pending # Empty => frame \/ debounceLeft # Off \/ deadlineLeft # Off

(* A closed scheduler, and one whose revision was cancelled, holds no work, no
   timer and no frame: nothing can fire into the next session. *)
ClosedIsQuiet ==
  active = 0 \/ cancelled =>
    /\ buffers = <<Empty, Empty, Empty>>
    /\ ~frame
    /\ {debounceLeft, deadlineLeft, fallbackLeft} = {Off}

(* A write waits for sight only while its element is out of sight. *)
DeferredIsHidden ==
  \A e \in Elements : replay[e] # NoEntry => ~Visible(e)

(* Only the revision that owns the scheduler, while it is not cancelled, writes
   to the page: nothing of a superseded revision survives in any of the three
   buffers, a flush already running included. *)
BuffersBelongToOwner ==
  \A e \in Elements : \A b \in {pending[e], batch[e], replay[e]} :
    b # NoEntry => IsCurrent(b.revision)
OnlyTheOwnerWrites ==
  [][\A e \in Elements : shown'[e] # shown[e] =>
       shown'[e].revision = active /\ ~cancelled]_vars

---------------------------------------------------------------------------
(* Liveness: time passes, due timers fire, and the browser gives a requested
   frame sooner or later. *)
Fairness ==
  /\ WF_vars(Tick)
  /\ WF_vars(DebounceFires)
  /\ WF_vars(DeadlineFires)
  /\ WF_vars(AnimationFrame)
  /\ WF_vars(FallbackFires)
  /\ \A e \in Elements : WF_vars(FlushEntry(e))
  /\ WF_vars(EndFlush)

FairSpec == Spec /\ Fairness

(* Within a revision, continuous scheduling does not postpone the flush forever: a
   flush takes what is buffered for an element even if writes keep arriving, and
   what it takes is shown, or waits for its element to come into view. Only the end
   of the revision (a newer one, a cancellation, destroy) or the removal of the
   element takes a write away before, and then nothing is left that it wrote. *)
GivenUp(e) == latest[e] = NoEntry
Arrived(e) ==
  /\ batch[e] = NoEntry
  /\ \E entry \in {shown[e], replay[e]} \ {NoEntry} : entry.revision = active
EventuallyFlushed ==
  \A e \in Elements :
    /\ pending[e] # NoEntry ~> batch[e] # NoEntry \/ GivenUp(e)
    /\ batch[e] # NoEntry ~> Arrived(e) \/ GivenUp(e)

---------------------------------------------------------------------------
(* What the documentation says and the code does not do *)

(* Continuous scheduling (key repeat) must not postpone the flush forever, says
   armDebounce. Every keystroke is a message and every message a revision, whose
   acceptance drops the buffer, the debounce, the deadline and the frame of the one
   before, and the window that the first of them opened stays open: revisions that
   follow each other faster than the debounce keep the page as it is for as long as
   they come, however the deadline is set. *)
KeyRepeatReachesThePage ==
  []<>(pending # Empty) /\ <>[](active # 0 /\ ~cancelled) => []<>flushing
=============================================================================
