---------------------------- MODULE PageBindings ----------------------------
(* core/cache.ts, core/observers.ts and what core/lifecycle.ts makes of them: the
   cache of bound elements follows a page that changes under it, the observers
   say which of them are in view, and writes wait in the scheduler's buffers for
   elements that are found anew, lost, rebound or out of sight.

   There is no merger, every message changes every field and the strategies are
   patches. Only the newest document is ever buffered (acceptRevision clears the
   rest), so an entry is the field it writes. A flush is one step: what runs
   inside it is UpdateScheduler's matter. *)
EXTENDS Naturals, Sequences, FiniteSets, Functions

CONSTANTS
  Elements,   \* nodes of the page
  Fields,     \* what they may be bound to
  None,       \* "no binding", "nothing buffered"
  Threshold,  \* visibilityGateThreshold
  MaxNews     \* bound: intersection entries queued at once

ASSUME PageAssumption ==
  /\ IsFiniteSet(Elements)
  /\ None \notin Fields
  /\ Threshold \in Nat /\ MaxNews \in Nat

VARIABLES
  page, inView,             \* the document: what each node is bound to, which are in the viewport
  cache,                    \* the ElementCache: the field each element was found bound to
  timer,                    \* debounceTimer of the mutation observer
  seen,                     \* the IntersectionObserver: what it last queued of each element
  visible, news,            \* ObserverManager.visible, entries on their way to it
  pending, replay,          \* the scheduler's buffers: the field to write into an element
  shown,                    \* the field whose newest value an element shows
  late,                     \* ghost: bound after the newest document was scheduled, and not served
  running, active,          \* the session, and whether a revision owns it
  retained,                 \* the bus keeps a document for replays
  replaying, awaitsReplay   \* navigationBindingReplay, navigationReplayPending

document == <<page, inView>>
observers == <<timer, seen, visible, news>>
buffers == <<pending, replay>>
session == <<running, active, retained, replaying, awaitsReplay>>
vars == <<document, cache, observers, buffers, shown, late, session>>

Bindings == [Elements -> Fields \cup {None}]
Unbound == [e \in Elements |-> None]
Cached == {e \in Elements : cache[e] # None}
Sight(e) == IF inView[e] THEN "in" ELSE "out"

TypeOK ==
  /\ page \in Bindings /\ cache \in Bindings
  /\ pending \in Bindings /\ replay \in Bindings /\ shown \in Bindings
  /\ inView \in [Elements -> BOOLEAN]
  /\ seen \in [Elements -> {"unobserved", "new", "in", "out"}]
  /\ visible \subseteq Elements /\ late \subseteq Elements
  /\ news \in Seq(Elements \X BOOLEAN) /\ Len(news) <= MaxNews
  /\ timer \in BOOLEAN /\ running \in BOOLEAN /\ active \in BOOLEAN
  /\ retained \in BOOLEAN /\ replaying \in BOOLEAN /\ awaitsReplay \in BOOLEAN

Init ==
  /\ page \in Bindings /\ inView \in [Elements -> BOOLEAN]
  /\ cache = Unbound /\ pending = Unbound /\ replay = Unbound /\ shown = Unbound
  /\ timer = FALSE /\ seen = [e \in Elements |-> "unobserved"]
  /\ visible = {} /\ news = <<>> /\ late = {}
  /\ running = FALSE /\ active = FALSE /\ retained = FALSE
  /\ replaying = FALSE /\ awaitsReplay = FALSE

---------------------------------------------------------------------------
(* The cache *)

MutKept(buffer, found) == [e \in Elements |-> IF found[e] # None THEN buffer[e] ELSE None]
(* Buffered work stays while the element is bound to the same field (retarget);
   that of every other element is forgotten. *)
Kept(buffer, found) ==
  [e \in Elements |-> IF cache[e] # None /\ found[e] = cache[e] THEN buffer[e] ELSE None]

\* The elements a rebuild unobserves are forgotten by `visible`, and the observer still knows them.
MutObserve(found) ==
  seen' = [e \in Elements |-> IF found[e] = None THEN "unobserved"
                              ELSE IF seen[e] = "unobserved" THEN "new" ELSE seen[e]]
\* observeElement for every element of the new cache: the old registrations are gone.
Observe(found) == seen' = [e \in Elements |-> IF found[e] # None THEN "new" ELSE "unobserved"]

(* rebuildCache: elements found anew are written at once only after a navigation
   (NavigationReplay.reapplyBindings). *)
RebuildCache(found) ==
  LET added == {e \in Elements : found[e] # None /\ found[e] # cache[e]}
      written == IF replaying /\ active THEN added ELSE {}
  IN /\ cache' = found
     /\ Observe(found)
     /\ pending' = [e \in Elements |-> IF e \in written THEN found[e] ELSE Kept(pending, found)[e]]
     /\ replay' = Kept(replay, found)
     /\ late' = {e \in late : found[e] = cache[e]} \cup (added \ written)

\* acceptRevision of a document, then scheduleAllFields for the cache as it is now.
Accept(bound) ==
  /\ pending' = bound /\ replay' = Unbound
  /\ late' = {} /\ active' = TRUE
  /\ replaying' = (replaying \/ awaitsReplay)
  /\ awaitsReplay' = FALSE

DropWork == pending' = Unbound /\ replay' = Unbound /\ late' = {} /\ active' = FALSE

---------------------------------------------------------------------------
(* The page *)

(* A node is inserted, removed or bound to another field. The mutation observer
   hears of it in the same turn and re-arms its debounce. *)
Change(e, f) ==
  /\ page[e] # f
  /\ page' = [page EXCEPT ![e] = f]
  /\ timer' = running
  /\ UNCHANGED <<inView, cache, seen, visible, news, buffers, shown, late, session>>

Scroll(e) ==
  /\ inView' = [inView EXCEPT ![e] = ~@]
  /\ UNCHANGED <<page, cache, observers, buffers, shown, late, session>>

(* A router replaces the body; nodes may move into the new one. The root sentinel
   restarts the observers on it (followReplacedRoot), which makes the armed
   debounce and the entries on their way inert, and rebuilds the cache. *)
ReplaceBody(body) ==
  /\ running
  /\ page' = body
  /\ timer' = FALSE /\ visible' = {} /\ news' = <<>>
  /\ RebuildCache(body)
  /\ UNCHANGED <<inView, shown, session>>

---------------------------------------------------------------------------
(* Observers *)

\* onStructuralChange, after the page was quiet for mutationDebounceMs.
TimerFires ==
  /\ timer
  /\ timer' = FALSE
  /\ visible' = visible \ Cached
  /\ RebuildCache(page)
  /\ UNCHANGED <<document, news, shown, session>>

\* refreshCache, the public call: an armed debounce stays armed.
Refresh ==
  /\ running
  /\ visible' = visible \ Cached
  /\ RebuildCache(page)
  /\ UNCHANGED <<document, timer, news, shown, session>>

(* A frame: the browser queues an entry for an element it has just begun to
   observe and for one whose intersection changed. Unobserving an element does
   not take back what is queued. *)
Look(e) ==
  /\ seen[e] \notin {"unobserved", Sight(e)}
  /\ Len(news) < MaxNews
  /\ seen' = [seen EXCEPT ![e] = Sight(e)]
  /\ news' = Append(news, <<e, inView[e]>>)
  /\ UNCHANGED <<document, cache, timer, visible, buffers, shown, late, session>>

(* handleIntersection of one entry; an element that comes into view gets the
   write that waited for it (notifyVisible). *)
Deliver ==
  /\ news # <<>>
  /\ news' = Tail(news)
  /\ LET e == Head(news)[1]
         notified == Head(news)[2] /\ e \notin visible
     IN /\ visible' = IF Head(news)[2] THEN visible \cup {e} ELSE visible \ {e}
        /\ replay' = IF notified THEN [replay EXCEPT ![e] = None] ELSE replay
        /\ shown' = IF notified /\ replay[e] # None
                    THEN [shown EXCEPT ![e] = replay[e]] ELSE shown
  /\ UNCHANGED <<document, cache, timer, seen, pending, late, session>>

---------------------------------------------------------------------------
(* The scheduler and the session *)

\* The gate counts the cache of the flush, not that of the message.
Flush ==
  /\ pending # Unbound
  /\ LET held == IF Cardinality(Cached) > Threshold THEN Elements \ visible ELSE {}
         due == {e \in Elements : pending[e] # None}
     IN /\ replay' = [e \in Elements |-> IF e \notin due THEN replay[e]
                                         ELSE IF e \in held THEN pending[e] ELSE None]
        /\ shown' = [e \in Elements |-> IF e \in due \ held THEN pending[e] ELSE shown[e]]
  /\ pending' = Unbound
  /\ UNCHANGED <<document, cache, observers, late, session>>

\* A document of the editor is accepted: no element shows its values yet.
Message ==
  /\ running
  /\ Accept(cache)
  /\ retained' = TRUE
  /\ shown' = Unbound
  /\ UNCHANGED <<document, cache, observers, running>>

(* navigationCommit: the work of the route left is dropped, and the retained
   document is replayed onto the markup of the new one. Without one, the next
   message counts as the replay. *)
Navigate ==
  /\ running
  /\ cache' = page
  /\ Observe(page)
  /\ visible' = visible \ Cached
  /\ shown' = Unbound
  /\ IF retained
     THEN /\ pending' = page /\ replay' = Unbound /\ late' = {}
          /\ active' = TRUE /\ replaying' = TRUE /\ awaitsReplay' = FALSE
     ELSE DropWork /\ awaitsReplay' = TRUE /\ UNCHANGED replaying
  /\ UNCHANGED <<document, timer, news, running, retained>>

\* onHeartbeatTimeout: the cache and its observers stay.
HeartbeatTimeout ==
  /\ running /\ retained
  /\ DropWork
  /\ retained' = FALSE /\ replaying' = FALSE
  /\ UNCHANGED <<document, cache, observers, shown, running, awaitsReplay>>

\* suspend, with the scope it closes.
Suspend ==
  /\ running
  /\ running' = FALSE /\ replaying' = FALSE
  /\ DropWork
  /\ cache' = Unbound
  /\ timer' = FALSE /\ visible' = {} /\ news' = <<>> /\ Observe(Unbound)
  /\ UNCHANGED <<document, shown, retained, awaitsReplay>>

(* startNow, the first time or after a suspension. What is retained is replayed,
   unless the heartbeat has run out meanwhile. *)
Start(expired) ==
  /\ ~running
  /\ expired => retained
  /\ running' = TRUE
  /\ cache' = page
  /\ Observe(page)
  /\ retained' = (retained /\ ~expired)
  /\ active' = retained'
  /\ replaying' = retained'
  /\ pending' = IF retained' THEN page ELSE Unbound
  /\ awaitsReplay' = (awaitsReplay /\ expired)
  /\ shown' = Unbound
  /\ UNCHANGED <<document, timer, visible, news, replay, late>>

Next ==
  \/ \E e \in Elements : Scroll(e) \/ Look(e) \/ \E f \in Fields \cup {None} : Change(e, f)
  \/ \E body \in Bindings : ReplaceBody(body)
  \/ TimerFires \/ Refresh \/ Deliver \/ Flush
  \/ Message \/ Navigate \/ HeartbeatTimeout
  \/ Suspend \/ \E expired \in BOOLEAN : Start(expired)

Spec == Init /\ [][Next]_vars

---------------------------------------------------------------------------
(* Properties *)

\* No rebuild is forgotten: the cache is the page unless the debounce is running.
CacheFollowsThePage == running /\ ~timer => cache = page

\* What is buffered for an element is a value of the field the cache has it bound to.
BufferedForItsBinding ==
  \A e \in Elements : pending[e] \in {None, cache[e]} /\ replay[e] \in {None, cache[e]}

(* A rebuild in the middle of a batch, a rebinding undone before the debounce,
   another body: the cache is never left behind, and buffered work never outlives
   the binding it was meant for (lifecycle.ts:487-501, observers.ts:149-165). *)
BindingsAreTrue == CacheFollowsThePage /\ BufferedForItsBinding

\* Whatever was queued, for the scheduler, the debounce or the observer, has run.
AtRest ==
  /\ running /\ active /\ ~timer
  /\ pending = Unbound /\ news = <<>>
  /\ \A e \in Elements : seen[e] \in {"unobserved", Sight(e)}

\* The write an element in view waits for is on its way: the observer has yet to report it.
NoneIsStranded ==
  \A e \in Elements : replay[e] # None =>
    /\ e \notin visible
    /\ seen[e] = "in" => <<e, TRUE>> \in Range(news)

(* However scrolling, rebuilds, flushes and late reports of the observer mix,
   no deferred write is stranded, and a page at rest shows the newest document in
   every element in view. Only an element bound after that document came may wait
   for the next one, and none does once a navigation or a return to the page was
   replayed (observers.ts:167-184, navigation-replay.ts:47-51). *)
InViewIsServed ==
  /\ NoneIsStranded
  /\ AtRest =>
       \A e \in Elements :
         page[e] # None /\ inView[e] /\ (e \in late => replaying) => shown[e] = page[e]

=============================================================================
