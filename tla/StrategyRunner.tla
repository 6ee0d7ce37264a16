--------------------------- MODULE StrategyRunner ---------------------------
(* The server strategies of a revision: core/strategy-runner.ts, with the
   planning half of core/update-pipeline.ts and the debts of core/runtime-state.ts.

   A revision touches areas of the page. A bound area is patched; a boundary is
   rendered by the fragment endpoint and patched when that fails; the route is
   rendered by the server as a whole, after which the revision is applied again
   onto the fresh markup. A newer revision ends the older one's requests and
   takes over what they had not settled.

   Versions are revision numbers: an area shows version r when it shows the
   edits made up to revision r. The only route strategy of the repository
   answers "partial" when it succeeds, never "refreshed". No beforeUpdate handler
   is registered (UpdatePipeline has them). *)
EXTENDS Integers, FiniteSets

CONSTANTS
  Pages,         \* the pages and settings to consider, records as IsPage describes
  Bound,         \* the bindings outside every boundary
  Route,         \* what only a render of the whole route shows
  None

(* What the page and the options of its runtime are: the regions the fragment
   endpoint renders, the areas whose renderer may refuse a value, whether a
   route strategy is installed and the page has such content, routeAfterSave;
   and what may happen to it: a revision refined by a shared merge, a connection
   lost, a document saved. `revisions` bounds the revisions of a behaviour. *)
IsPage(p) ==
  /\ Bound \notin p.boundaries /\ Route \notin p.boundaries /\ IsFiniteSet(p.boundaries)
  /\ p.unfaithful \subseteq p.boundaries \cup {Bound}
  /\ {p.hasRoute, p.afterSave, p.trails, p.timeouts, p.saves} \subseteq BOOLEAN
  /\ p.revisions \in Nat

\* null is no version, no refresh and no trailing run.
IsNull(x) ==
  /\ x \notin Nat
  /\ x \notin [forSave : BOOLEAN, refused : BOOLEAN, since : Nat, saw : Nat]
  /\ x \notin [forSave : BOOLEAN, due : BOOLEAN]

ASSUME StrategyAssumption ==
  /\ Bound # Route
  /\ \A p \in Pages : IsPage(p)
  /\ IsNull(None)

VARIABLES
  site,           \* the page, which stays what it is
  tx,             \* activeUpdate
  issued,         \* the newest revision
  undiffed,       \* areas the next diff finds changed
  batches,        \* fragmentControllers, with the boundaries each has not settled
  fragmentsOwed,
  routeOwed,      \* routeRefreshOwed
  awaitsSave,     \* routeAwaitsSave
  route,          \* routeController: the refresh in flight
  retry,          \* routeRetry
  windowOpen,     \* the route strategy's minimum interval has not passed
  buffer,         \* areas the scheduler holds writes for
  identity,       \* lastAppliedIdentity: the version last patched in
  handed,         \* reportedUnfaithful: the version last handed over
  lastEdit,       \* the newest revision that edited an area
  refused,        \* areas whose newest value their renderer refuses
  shows,          \* the version the bindings of an area show
  served,         \* the newest revision whose render of a boundary ended
  answered,       \* the newest revision whose refresh ended
  saved,          \* the revision the server's document holds
  routeShows      \* the version the route was last rendered from

debts == <<fragmentsOwed, routeOwed, awaitsSave>>
routeVars == <<route, retry, windowOpen>>
pageVars == <<lastEdit, refused, shows, served, answered, saved, routeShows>>
strategyVars ==
  <<site, tx, issued, undiffed, batches, debts, routeVars, buffer, identity, handed, pageVars>>

Boundaries == site.boundaries
Unfaithful == site.unfaithful
HasRoute == site.hasRoute
AfterSave == site.afterSave
Trails == site.trails
Timeouts == site.timeouts
Saves == site.saves
MaxRevision == site.revisions

Patched == Boundaries \cup {Bound}
Areas == Patched \cup IF HasRoute THEN {Route} ELSE {}
Versions == 0..MaxRevision

Idle == [revision |-> 0, applied |-> FALSE, trails |-> FALSE, touched |-> {}, ran |-> {},
         pending |-> 0, launched |-> 0, routeRefreshed |-> FALSE, completed |-> FALSE]
Fresh(r, trails) == [Idle EXCEPT !.revision = r, !.trails = trails]

StrategyTypeOK ==
  /\ site \in Pages
  /\ tx \in [revision : Versions, applied : BOOLEAN, trails : BOOLEAN,
             touched : SUBSET Areas, ran : SUBSET Boundaries, pending : Nat,
             launched : Nat, routeRefreshed : BOOLEAN, completed : BOOLEAN]
  /\ issued \in Versions
  /\ undiffed \subseteq Areas
  /\ \A x \in batches : x.id \in 1..tx.launched /\ x.left # {} /\ x.left \subseteq x.plan
                        /\ x.plan \subseteq Boundaries
  /\ fragmentsOwed \subseteq Boundaries
  /\ routeOwed \in BOOLEAN /\ awaitsSave \in BOOLEAN /\ windowOpen \in BOOLEAN
  /\ route \in [forSave : BOOLEAN, refused : BOOLEAN, since : Versions, saw : Versions] \cup {None}
  /\ retry \in [forSave : BOOLEAN, due : BOOLEAN] \cup {None}
  /\ buffer \subseteq Patched
  /\ identity \in [Patched -> Versions \cup {None}]
  /\ handed \in [Patched -> Versions \cup {None}]
  /\ lastEdit \in [Areas -> Versions]
  /\ refused \subseteq Unfaithful
  /\ shows \in [Patched -> Versions]
  /\ served \in [Boundaries -> Versions]
  /\ answered \in Versions /\ saved \in Versions /\ routeShows \in Versions

Nothing == [a \in Patched |-> None]

StrategyInit ==
  /\ site \in Pages
  /\ tx = Idle /\ issued = 0
  /\ undiffed = Areas                 \* the baseline: every field counts as changed
  /\ batches = {} /\ fragmentsOwed = {}
  /\ routeOwed = FALSE /\ awaitsSave = FALSE
  /\ route = None /\ retry = None /\ windowOpen = FALSE
  /\ buffer = {}
  /\ identity = Nothing /\ handed = Nothing
  /\ lastEdit = [a \in Areas |-> 0]
  /\ refused = {}
  /\ shows = [a \in Patched |-> 0]
  /\ served = [b \in Boundaries |-> 0]
  /\ answered = 0 /\ saved = 0 /\ routeShows = 0

\* A refusal is a promise already resolved: it returns before the next task.
MicrotasksDone == route # None => ~route.refused

---------------------------------------------------------------------------
(* Starting requests *)

(* runRoute for t: a page that refreshes after a save only notes that it waits,
   and every other refresh replaces the one in flight. The strategy refuses
   inside its window and asks to be run again when the window closes. *)
RunRoute(t, forSave, inFlight, armed, awaits) ==
  IF AfterSave /\ ~forSave
  THEN /\ tx' = t
       /\ awaitsSave' = TRUE
       /\ route' = inFlight /\ retry' = armed
       /\ UNCHANGED windowOpen
  ELSE /\ tx' = t
       /\ awaitsSave' = awaits
       /\ route' = [forSave |-> forSave, refused |-> windowOpen,
                    since |-> t.revision, saw |-> saved']
       /\ retry' = IF windowOpen THEN [forSave |-> forSave, due |-> FALSE] ELSE armed
       /\ windowOpen' = TRUE

\* refreshRoute, once for each revision.
MutRefreshing(t) == t
Refreshing(t) == [t EXCEPT !.routeRefreshed = TRUE]

\* runFragments up to its first await.
Launched(t, plan) == [t EXCEPT !.pending = @ + Cardinality(plan), !.launched = @ + 1]
Launch(t, plan) == batches \cup {[id |-> t.launched + 1, plan |-> plan, left |-> plan]}

MutPlan(t) == (t.touched \cap Boundaries) \ t.ran
\* planFragments and unrunFragmentPlan: the diff's boundaries and the debts.
Plan(t) == ((t.touched \cap Boundaries) \cup fragmentsOwed) \ t.ran

WantsRoute(t) ==
  HasRoute /\ ~t.routeRefreshed /\ (Route \in t.touched \/ routeOwed)

\* Every binding is looked at, not only those the diff names: skipUnchanged.
Writes(t, plan) == {a \in Patched \ plan : identity'[a] # lastEdit[a]}

(* scheduleAllFields for t. A revision that wants the route refreshes it first:
   everything else waits for the re-apply. *)
ScheduleAll(t, inFlight, armed, awaits) ==
  LET plan == Plan(t)
      writes == Writes(t, plan)
      after == IF plan = {} THEN t ELSE [Launched(t, plan) EXCEPT !.ran = @ \cup plan]
      idle == writes = {} /\ buffer = {} /\ after.pending = 0
  IN  IF WantsRoute(t)
      THEN /\ RunRoute(Refreshing(t), FALSE, inFlight, armed, awaits)
           /\ routeOwed' = FALSE
           /\ UNCHANGED <<batches, fragmentsOwed, buffer>>
      ELSE /\ tx' = [after EXCEPT !.completed = @ \/ idle]
           /\ batches' = IF plan = {} THEN batches ELSE Launch(t, plan)
           /\ fragmentsOwed' = fragmentsOwed \ plan
           /\ buffer' = buffer \cup writes
           /\ awaitsSave' = awaits
           /\ route' = inFlight /\ retry' = armed
           /\ UNCHANGED <<routeOwed, windowOpen>>

---------------------------------------------------------------------------
(* Revisions *)

Unsettled == UNION {x.left : x \in batches}

MutNewestDebt == retry # None
\* A trailing run that has not run is owed from now on.
RouteDebt == routeOwed \/ retry # None

(* supersedeStrategies *)
Supersede ==
  /\ routeOwed' = RouteDebt
  /\ retry' = None
  /\ fragmentsOwed' = fragmentsOwed \cup Unsettled
  /\ batches' = {}

(* acceptDataUpdate; the scheduler drops the older revision's writes. Of the
   edited areas, the renderers will refuse `bad`. *)
Message(edits, bad, trails) ==
  /\ MicrotasksDone
  /\ bad \subseteq edits \cap Unfaithful
  /\ issued < MaxRevision
  /\ trails => Trails
  /\ issued' = issued + 1
  /\ tx' = Fresh(issued', trails)
  /\ undiffed' = undiffed \cup edits
  /\ lastEdit' = [a \in Areas |-> IF a \in edits THEN issued' ELSE lastEdit[a]]
  /\ refused' = (refused \ edits) \cup bad
  /\ Supersede
  /\ buffer' = {}
  /\ UNCHANGED <<site, awaitsSave, route, windowOpen, identity, handed, shows, served, answered,
                 saved, routeShows>>

(* applyFields: the diff, then the plan. *)
Apply ==
  /\ MicrotasksDone
  /\ UNCHANGED <<site, issued, identity, handed, pageVars>>
  /\ tx.revision # 0 /\ ~tx.applied
  /\ undiffed' = {}
  /\ ScheduleAll([tx EXCEPT !.applied = TRUE, !.touched = undiffed],
                 route, retry, awaitsSave)

(* applyMerged: a refinement touches nothing. *)
Refine(merged) ==
  /\ MicrotasksDone
  /\ UNCHANGED <<site, issued, undiffed, identity, handed, pageVars>>
  /\ tx.applied /\ tx.trails
  /\ IF merged
     THEN ScheduleAll([tx EXCEPT !.trails = FALSE, !.touched = {}], route, retry, awaitsSave)
     ELSE /\ tx' = [tx EXCEPT !.trails = FALSE]
          /\ UNCHANGED <<batches, debts, routeVars, buffer>>

---------------------------------------------------------------------------
(* Fragments *)

\* A batch ends with its last boundary.
Remaining(x, b) ==
  (batches \ {x}) \cup IF x.left = {b} THEN {} ELSE {[x EXCEPT !.left = @ \ {b}]}

MutFragmentsDone(x, b, writes) == FALSE
FragmentsDone(x, b, writes) == x.left = {b} /\ tx.pending = 1 /\ writes = {}

(* One boundary of a batch: the server's markup is morphed in, or the boundary
   is patched from the same revision. The last one ends the batch. *)
FragmentSettles(x, b, rendered) ==
  /\ MicrotasksDone
  /\ x \in batches
  /\ b \in x.left
  /\ buffer' = IF rendered THEN buffer ELSE buffer \cup {b}
  /\ batches' = Remaining(x, b)
  /\ tx' = [tx EXCEPT !.pending = @ - 1, !.completed = @ \/ FragmentsDone(x, b, buffer')]
  /\ shows' = IF rendered THEN [shows EXCEPT ![b] = lastEdit[b]] ELSE shows
  /\ served' = [served EXCEPT ![b] = tx.revision]
  /\ UNCHANGED <<site, issued, undiffed, debts, routeVars, identity, handed, lastEdit, refused,
                 answered, saved, routeShows>>

(* The strategy itself throws: the whole plan is patched, what is left settled. *)
BatchThrows(x) ==
  /\ MicrotasksDone
  /\ x \in batches
  /\ buffer' = buffer \cup x.plan
  /\ batches' = batches \ {x}
  /\ tx' = [tx EXCEPT !.pending = @ - Cardinality(x.left)]
  /\ served' = [b \in Boundaries |-> IF b \in x.left THEN tx.revision ELSE served[b]]
  /\ UNCHANGED <<site, issued, undiffed, debts, routeVars, identity, handed, lastEdit, refused,
                 shows, answered, saved, routeShows>>

---------------------------------------------------------------------------
(* The flush *)

(* escalateUnfaithful of the areas handed over: to the fragment endpoint if
   boundaries cover them all, to the route otherwise, to nobody if the revision
   has had its refresh or no strategy is left to ask. *)
Escalate(t, areas) ==
  \/ /\ areas = {} \/ t.routeRefreshed \/ (Bound \in areas /\ ~HasRoute)
     /\ tx' = t
     /\ UNCHANGED <<batches, fragmentsOwed, awaitsSave, routeVars>>
  \/ /\ areas # {} /\ ~t.routeRefreshed /\ areas \subseteq Boundaries
     /\ tx' = Launched(t, areas)
     /\ batches' = Launch(t, areas)
     /\ fragmentsOwed' = fragmentsOwed \ areas
     /\ UNCHANGED <<awaitsSave, routeVars>>
  \/ /\ HasRoute /\ ~t.routeRefreshed /\ Bound \in areas
     /\ RunRoute(Refreshing(t), FALSE, route, retry, awaitsSave)
     /\ UNCHANGED <<batches, fragmentsOwed>>

\* reportUnfaithfulPatch: the value differs from the one handed over last. A
\* second one within ESCALATE_AGAIN_MS is held back.
Reported(areas, held) ==
  {a \in areas \cap refused : handed[a] = None \/ (handed[a] # lastEdit[a] /\ a \notin held)}

(* BindingWriter.apply of every buffered write, then onFlush. A refused value
   leaves the binding as it was. What a fallback patched has no identity. *)
Flush(held, bare) ==
  /\ MicrotasksDone
  /\ UNCHANGED <<site, issued, undiffed, routeOwed, lastEdit, refused, served, answered, saved,
                 routeShows>>
  /\ buffer # {}
  /\ bare \subseteq buffer \cap Boundaries
  /\ held \subseteq refused
  /\ LET written == buffer \ refused
         reported == Reported(buffer, held)
     IN /\ shows' = [a \in Patched |-> IF a \in written THEN lastEdit[a] ELSE shows[a]]
        /\ identity' = [a \in Patched |-> IF a \notin written THEN identity[a]
                                          ELSE IF a \in bare THEN None ELSE lastEdit[a]]
        /\ handed' = [a \in Patched |-> IF a \in reported THEN lastEdit[a] ELSE handed[a]]
        /\ buffer' = {}
        /\ Escalate([tx EXCEPT !.completed = @ \/ tx.pending = 0], reported)

---------------------------------------------------------------------------
(* The route *)

\* What a render of the route leaves of the bindings: the server's markup, older
\* than any edit.
FreshMarkup(landed) == IF landed THEN [shows EXCEPT ![Bound] = 0] ELSE shows
MutIdentities(landed) == identity
\* New markup has no applied value, whatever the old one had.
Identities(landed) == IF landed THEN Nothing ELSE identity

(* runRoute after its await. A render replaces the markup outside the
   boundaries, and the current revision is applied again onto it; one that has
   not been diffed yet gets there by itself. v: the document the server used. *)
RouteReturns(landed, v) ==
  /\ route # None
  /\ UNCHANGED <<site, issued, undiffed, handed, lastEdit, refused, served, saved>>
  /\ landed => ~route.refused
  /\ v \in route.saw..saved
  /\ answered' = IF route.refused THEN answered ELSE route.since
  /\ routeShows' = IF landed THEN v ELSE routeShows
  /\ shows' = FreshMarkup(landed)
  /\ identity' = Identities(landed)
  /\ LET awaits == IF landed THEN ~route.forSave ELSE awaitsSave
     IN IF tx.applied
        THEN ScheduleAll(tx, None, retry, awaits)
        ELSE /\ route' = None
             /\ awaitsSave' = awaits
             /\ UNCHANGED <<tx, batches, fragmentsOwed, routeOwed, retry, windowOpen, buffer>>

WindowCloses ==
  /\ MicrotasksDone
  /\ windowOpen
  /\ windowOpen' = FALSE
  /\ retry' = IF retry = None THEN None ELSE [retry EXCEPT !.due = TRUE]
  /\ UNCHANGED <<site, tx, issued, undiffed, batches, debts, route, buffer, identity, handed,
                 pageVars>>

(* The trailing run of a refused refresh. *)
RetryFires ==
  /\ MicrotasksDone
  /\ UNCHANGED <<site, issued, undiffed, batches, fragmentsOwed, routeOwed, buffer, identity,
                 handed, pageVars>>
  /\ retry # None
  /\ retry.due
  /\ RunRoute(tx, retry.forSave, route, None, awaitsSave)

(* Payload saved the document as of revision v: refreshAfterSave. *)
Save(v) ==
  /\ MicrotasksDone
  /\ Saves
  /\ v \in (saved + 1)..issued
  /\ saved' = v
  /\ IF HasRoute /\ awaitsSave /\ tx.applied
     THEN RunRoute(tx, TRUE, route, retry, awaitsSave)
     ELSE UNCHANGED <<tx, awaitsSave, routeVars>>
  /\ UNCHANGED <<site, issued, undiffed, batches, fragmentsOwed, routeOwed, buffer, identity,
                 handed, lastEdit, refused, shows, served, answered, routeShows>>

---------------------------------------------------------------------------
(* The lifecycle *)

(* navigationCommit: nothing is owed to the new route, where the retained
   document is applied from the start. *)
Navigate ==
  /\ MicrotasksDone
  /\ tx.revision # 0
  /\ issued < MaxRevision
  /\ issued' = issued + 1
  /\ tx' = Fresh(issued', FALSE)
  /\ undiffed' = Areas
  /\ batches' = {}
  /\ fragmentsOwed' = {} /\ routeOwed' = FALSE /\ awaitsSave' = FALSE
  /\ route' = None /\ retry' = None
  /\ buffer' = {}
  /\ lastEdit' = [a \in Areas |-> issued']
  /\ identity' = Nothing /\ handed' = Nothing
  /\ shows' = [a \in Patched |-> 0]
  /\ served' = [b \in Boundaries |-> 0]
  /\ routeShows' = saved
  /\ UNCHANGED <<site, windowOpen, refused, answered, saved>>

(* onHeartbeatTimeout: the requests are aborted, the debts stay. *)
HeartbeatTimeout ==
  /\ MicrotasksDone
  /\ Timeouts
  /\ tx.revision # 0
  /\ tx' = Idle
  /\ Supersede
  /\ route' = None
  /\ buffer' = {}
  /\ UNCHANGED <<site, issued, undiffed, awaitsSave, windowOpen, identity, handed, pageVars>>

---------------------------------------------------------------------------
StrategyNext ==
  \/ \E edits \in SUBSET Areas, bad \in SUBSET Unfaithful, trails \in BOOLEAN :
       Message(edits, bad, trails)
  \/ Apply
  \/ \E merged \in BOOLEAN : Refine(merged)
  \/ \E x \in batches : \E b \in Boundaries, rendered \in BOOLEAN : FragmentSettles(x, b, rendered)
  \/ \E x \in batches : BatchThrows(x)
  \/ \E held \in SUBSET Unfaithful, bare \in SUBSET Boundaries : Flush(held, bare)
  \/ \E landed \in BOOLEAN, v \in Versions : RouteReturns(landed, v)
  \/ WindowCloses
  \/ RetryFires
  \/ \E v \in Versions : Save(v)
  \/ Navigate
  \/ HeartbeatTimeout

StrategySpec == StrategyInit /\ [][StrategyNext]_strategyVars

---------------------------------------------------------------------------
(* Safety *)

\* Every request has ended, and nothing is left to flush or to refine.
AtRest ==
  /\ tx.applied /\ ~tx.trails
  /\ batches = {} /\ buffer = {}
  /\ route = None /\ retry = None

(* The count a revision's completion waits on is the number of boundaries it has
   not settled, however its batches overlap, fail or throw: too low and it
   completes early, too high and it stays pending for good. *)
PendingCountsBoundaries ==
  tx.pending = Cardinality({p \in batches \X Boundaries : p[2] \in p[1].left})

(* When everything has ended the revision has completed: no order of the flush,
   the last fragment and the route's return leaves the display at `pending`. (Where
   the route is refreshed after a save, a revision that touches it waits for one.) *)
AtRestIsComplete == AtRest /\ ~AfterSave => tx.completed

(* So a revision completes when its work has ended, neither early nor never (and the
   state keeps its types). *)
CompletionIsExact == StrategyTypeOK /\ PendingCountsBoundaries /\ AtRestIsComplete

(* Every binding shows the newest edit its renderer takes, whatever was replaced
   under it by a render of the route or dropped with a superseded revision. *)
PageShowsNewestEdits ==
  AtRest /\ ~AfterSave => \A a \in Patched \ refused : shows[a] = lastEdit[a]

(* A boundary edited by a revision that was cut short is rendered by a later
   one: no boundary keeps markup older than its newest edit. With a route it may:
   a revision that refreshes it returns before it plans its boundaries. *)
BoundariesAreServed ==
  AtRest /\ ~HasRoute => \A b \in Boundaries : served[b] >= lastEdit[b]

(* An edit only the route can show is followed by a refresh that ran, though the
   one it asked for was refused, replaced or superseded; a lost connection
   aborts the refresh in flight and owes nothing for it. *)
RouteIsAnswered ==
  AtRest /\ HasRoute /\ ~AfterSave /\ ~Timeouts => answered >= lastEdit[Route]

(* Every edit that the server renders is rendered, by a fragment or a refresh
   that ran for it or for a newer one. *)
EditsAreRendered == BoundariesAreServed /\ RouteIsAnswered

(* routeRefreshOwed: the debt of a superseded refresh is carried until a refresh
   runs, however many revisions come and go before one does; only a navigation
   forgets it. *)
OwedUntilARefreshRuns ==
  [][routeOwed /\ ~routeOwed' =>
       \/ route' # route
       \/ AfterSave /\ awaitsSave'
       \/ Navigate]_strategyVars

---------------------------------------------------------------------------
(* What the documentation says and the code does not do *)

(* route-saved: an edit the route does not show yet waits for a save. *)
UnshownEditsAwaitASave ==
  AtRest /\ HasRoute /\ routeShows < lastEdit[Route] => awaitsSave

---------------------------------------------------------------------------
(* Liveness: requests answer or time out, timers fire, writes are flushed. *)
StrategyFairness ==
  /\ WF_strategyVars(Apply)
  /\ WF_strategyVars(\E merged \in BOOLEAN : Refine(merged))
  /\ WF_strategyVars(\E x \in batches : \E b \in Boundaries, rendered \in BOOLEAN :
                       FragmentSettles(x, b, rendered))
  /\ WF_strategyVars(\E held \in SUBSET Unfaithful, bare \in SUBSET Boundaries : Flush(held, bare))
  /\ WF_strategyVars(\E landed \in BOOLEAN, v \in Versions : RouteReturns(landed, v))
  /\ WF_strategyVars(WindowCloses)
  /\ WF_strategyVars(RetryFires)

FairStrategySpec == StrategySpec /\ StrategyFairness

(* The strategies come to rest: refresh, re-apply, escalation and fallback never
   keep each other going, and a held-back refresh runs. *)
EventuallyAtRest == <>[](AtRest \/ tx.revision = 0)
=============================================================================
