---------------------------- MODULE RevisionDisplay ----------------------------
(* core/revision-display.ts with the work it watches, and the islands of
   core/navigation-replay.ts: how completely the page shows the current revision.

   The strategies, the scheduler and the merge are here as far as the ledger can
   see them: that work is left, that it ended, and what it left short. Islands are
   told one after the other, and each may answer inside its own event; so may a
   handler end the session. *)
EXTENDS Integers, FiniteSets

CONSTANTS
  Islands,       \* the islands of the page, by their places in the document
  Hydrating,     \* those that Astro has still to hydrate
  MaxRevisions,  \* bound: the revisions that are accepted
  MaxSaves,      \* bound: the saves that start a refresh
  HasRoute       \* a route strategy is configured

ASSUME DisplayAssumption ==
  /\ IsFiniteSet(Islands) /\ Islands \subseteq Nat
  /\ Hydrating \subseteq Islands
  /\ MaxRevisions \in Nat /\ MaxSaves \in Nat
  /\ HasRoute \in BOOLEAN

VARIABLES
  accepted,   \* how many revisions were accepted
  active,     \* the current one, zero for none: the ledger's entry is its entry
  tx,         \* its transaction
  entry,      \* its entry in the ledger
  said,       \* the last state reported for it
  writes,     \* the scheduler holds writes of it
  batch,      \* a fragment batch of it is out
  route,      \* the route refresh: idle, in flight, or refused and not yet returned
  retry,      \* the trailing run of a refused refresh is armed
  saves,      \* how many saves started one
  stranded,   \* its last writes left with their elements, or it was cancelled
  fanout,     \* the islands still to tell in this turn
  hydrating,  \* the islands that carry the ssr marker
  waits,      \* awaitingHydration
  handed,     \* the islands that hold a confirmation of the current revision
  delivered,  \* which data of the current revision each island was told
  live        \* the confirmations that were not called yet

revisionVars == <<accepted, active, said>>
routeVars == <<route, retry, saves>>
islandVars == <<hydrating, waits, handed, delivered, live>>
displayVars == <<revisionVars, tx, entry, writes, batch, routeVars, stranded, fanout, islandVars>>

Revisions == 1..MaxRevisions
Settled == {"current", "partial", "unconfirmed"}

NoTx == [data |-> 0, touched |-> FALSE, ran |-> FALSE, pending |-> 0,
         refreshed |-> FALSE, escalated |-> FALSE, cancelled |-> FALSE, done |-> FALSE]
NoEntry == [short |-> FALSE, awaiting |-> 0, queued |-> FALSE]

DisplayTypeOK ==
  /\ accepted \in 0..MaxRevisions
  /\ active \in {0, accepted}
  /\ tx \in [data : 0..2, touched : BOOLEAN, ran : BOOLEAN, pending : 0..1,
             refreshed : BOOLEAN, escalated : BOOLEAN, cancelled : BOOLEAN, done : BOOLEAN]
  /\ entry \in [short : BOOLEAN, awaiting : 0..Cardinality(Islands), queued : BOOLEAN]
  /\ said \in Settled \cup {"none"}
  /\ {writes, batch, retry, stranded} \subseteq BOOLEAN
  /\ route \in {"idle", "flight", "refused"}
  /\ saves \in 0..MaxSaves
  /\ UNION {fanout, hydrating, waits, handed} \subseteq Islands
  /\ delivered \in [Islands -> SUBSET {1, 2}]
  /\ live \subseteq Islands \X Revisions

DisplayInit ==
  /\ accepted = 0 /\ active = 0
  /\ tx = NoTx /\ entry = NoEntry
  /\ said = "none"
  /\ writes = FALSE /\ batch = FALSE
  /\ route = "idle" /\ retry = FALSE /\ saves = 0
  /\ stranded = FALSE
  /\ fanout = {}
  /\ hydrating = Hydrating /\ waits = {} /\ handed = {}
  /\ delivered = [i \in Islands |-> {}]
  /\ live = {}

---------------------------------------------------------------------------
(* The ledger *)

(* runtimeDisplayHost.outstanding *)
Outstanding == ~tx.done \/ tx.pending > 0 \/ route # "idle" \/ retry \/ writes

View ==
  CASE Outstanding -> "pending"
    [] ~Outstanding /\ entry.short -> "partial"
    [] ~Outstanding /\ ~entry.short /\ entry.awaiting > 0 -> "unconfirmed"
    [] OTHER -> "current"

\* settle: a state that is not pending is reported, once.
Settle == said' = IF View' = "pending" THEN said ELSE View'

\* shortfall, and requestSettle behind it.
Short(e) == [e EXCEPT !.short = TRUE, !.queued = TRUE]
ShortIf(e, falls) == IF falls THEN Short(e) ELSE e

(* state.complete: asked again after a refresh re-applies the revision. *)
Completed(t, e) == [tx |-> [t EXCEPT !.done = TRUE], entry |-> [e EXCEPT !.queued = TRUE]]

Commit(step) == tx' = step.tx /\ entry' = step.entry
Uncompleted(t, e) == [tx |-> t, entry |-> e]

\* No synchronous turn is under way, and no microtask of a refused refresh waits.
Quiet == fanout = {} /\ route # "refused"

---------------------------------------------------------------------------
(* A revision *)

(* acceptDataUpdate: the ledger begins a new entry and reports the one before, as
   superseded if it was pending and otherwise as it stands; the scheduler drops the older
   writes, batches and a trailing run are superseded. A refresh in flight is not. *)
Accept ==
  /\ Quiet /\ accepted < MaxRevisions
  /\ accepted' = accepted + 1
  /\ active' = accepted'
  /\ said' = "none"
  /\ tx' = NoTx /\ entry' = NoEntry
  /\ writes' = FALSE /\ batch' = FALSE /\ retry' = FALSE /\ stranded' = FALSE
  /\ handed' = {} /\ delivered' = [i \in Islands |-> {}]
  /\ UNCHANGED <<route, saves, fanout, hydrating, waits, live>>

(* cancelActiveUpdate with abortStrategies, for a navigation, a lost connection or a
   stop: the ledger's entry ends without a report. A handler may do it. *)
End ==
  /\ active # 0
  /\ active' = 0 /\ said' = "none"
  /\ tx' = NoTx /\ entry' = NoEntry
  /\ writes' = FALSE /\ batch' = FALSE /\ stranded' = FALSE
  /\ route' = "idle" /\ retry' = FALSE
  /\ fanout' = {}
  /\ handed' = {} /\ delivered' = [i \in Islands |-> {}]
  /\ UNCHANGED <<accepted, saves, hydrating, waits, live>>

(* runRoute: it replaces a refresh in flight, and the strategy may refuse it at once
   and arm the trailing run. *)
StartRoute ==
  \/ route' = "flight" /\ UNCHANGED retry
  \/ route' = "refused" /\ retry' = TRUE

\* Only after a flush that wrote something.
\* notifyIslands: of a revision that carried a change.
Notify(t) == fanout' = IF t.touched THEN Islands ELSE {}

(* scheduleAllFields for t and e, with the route as it stands: the route is asked for first, and then
   nothing else is done; or writes and a batch are started, and with no write at
   all the revision completes here. *)
Schedule(t, e, standing) ==
  \/ /\ HasRoute /\ ~t.refreshed
     /\ StartRoute
     /\ Commit(Uncompleted([t EXCEPT !.refreshed = TRUE], e))
     /\ UNCHANGED <<writes, batch, fanout>>
  \/ \E some, asks, falls \in BOOLEAN :
       /\ asks => t.touched /\ ~t.ran /\ ~batch
       /\ writes' = (writes \/ some)
       /\ batch' = (batch \/ asks)
       /\ LET t1 == IF asks THEN [t EXCEPT !.ran = TRUE, !.pending = 1] ELSE t
              e1 == ShortIf(e, falls)
          IN /\ Commit(IF ~some /\ t1.pending = 0 /\ ~writes THEN Completed(t1, e1)
                                                            ELSE Uncompleted(t1, e1))
             /\ IF some THEN fanout' = {} ELSE Notify(t1)
       /\ route' = standing
       /\ UNCHANGED retry

(* processUpdate and applyFields: the message's own values, or the document of a
   leading merge, or what is left when that merge failed. *)
Process ==
  /\ Quiet /\ active # 0 /\ tx.data = 0 /\ ~tx.cancelled
  /\ \E unavailable \in BOOLEAN :
       Schedule([tx EXCEPT !.data = 1, !.touched = TRUE], ShortIf(entry, unavailable), route)
  /\ UNCHANGED <<revisionVars, saves, stranded, islandVars>>

(* applyMerged: the trailing merge refines what was applied. A refinement touches
   nothing. *)
Refine ==
  /\ Quiet /\ active # 0 /\ tx.data = 1
  /\ \/ Schedule([tx EXCEPT !.data = 2, !.touched = FALSE, !.escalated = FALSE], entry, route)
     \/ entry' = Short(entry) /\ UNCHANGED <<tx, writes, batch, route, retry, fanout>>
  /\ UNCHANGED <<revisionVars, saves, stranded, islandVars>>

\* A beforeUpdate handler cancels the revision.
CancelUpdate ==
  /\ Quiet /\ active # 0 /\ tx.data = 0 /\ ~tx.cancelled
  /\ tx' = [tx EXCEPT !.cancelled = TRUE]
  /\ stranded' = TRUE
  /\ UNCHANGED <<revisionVars, entry, writes, batch, routeVars, fanout, islandVars>>

---------------------------------------------------------------------------
(* The work of a revision *)

\* onFlush with an escalation that did not start: the patches are kept.
Flushed(t, e) == IF t.pending = 0 THEN Completed(t, e) ELSE Uncompleted(t, e)

(* A flush, and onFlush: the revision completes unless a batch is out, what fell
   short is kept or escalated (a value once), and the islands hear of it. *)
Flush ==
  /\ Quiet /\ active # 0 /\ writes
  /\ writes' = FALSE
  /\ \E falls \in BOOLEAN :
       LET step == Flushed(tx, ShortIf(entry, falls)) IN
         /\ \/ Commit(step) /\ UNCHANGED <<batch, route, retry>>
            \/ /\ ~tx.refreshed /\ ~tx.escalated /\ ~batch
               /\ Commit(Uncompleted([step.tx EXCEPT !.pending = 1, !.escalated = TRUE], step.entry))
               /\ batch' = TRUE
               /\ UNCHANGED <<route, retry>>
            \/ /\ ~tx.refreshed /\ HasRoute
               /\ Commit(Uncompleted([step.tx EXCEPT !.refreshed = TRUE], step.entry))
               /\ StartRoute
               /\ UNCHANGED batch
         /\ Notify(step.tx)
  /\ UNCHANGED <<revisionVars, saves, stranded, islandVars>>

(* The cache is rebuilt without the elements of all the writes: the flush that is
   armed for them then carries no revision, and onFlush leaves at once. *)
Forget ==
  /\ Quiet /\ writes
  /\ writes' = FALSE
  /\ stranded' = TRUE
  /\ UNCHANGED <<revisionVars, tx, entry, batch, routeVars, fanout, islandVars>>

(* The boundary of the batch settles: rendered, or failed and patched. *)
BoundarySettles ==
  /\ Quiet /\ batch /\ tx.pending = 1
  /\ tx' = [tx EXCEPT !.pending = 0]
  /\ \E failed, patched \in BOOLEAN :
       /\ patched => failed
       /\ entry' = ShortIf(entry, failed)
       /\ writes' = (writes \/ patched)
  /\ UNCHANGED <<revisionVars, batch, routeVars, stranded, fanout, islandVars>>

MutReturned(t, e) == Uncompleted(t, e)
Returned(t, e) == IF writes THEN Uncompleted(t, e) ELSE Completed(t, e)

(* The batch's render returns: what it left unsettled is settled, and the revision
   completes unless writes are pending. *)
BatchReturns ==
  /\ Quiet /\ batch
  /\ batch' = FALSE
  /\ Commit(Returned([tx EXCEPT !.pending = 0], entry))
  /\ UNCHANGED <<revisionVars, writes, routeVars, stranded, fanout, islandVars>>

(* The refresh returns, and lands for the revision that is current then: short if it
   failed or rendered the saved draft; a refusal is no outcome, its trailing run is. *)
RouteReturns ==
  /\ fanout = {} /\ route # "idle" /\ active # 0
  /\ \E falls \in IF route = "refused" THEN {FALSE} ELSE BOOLEAN :
       \/ tx.data # 0 /\ Schedule(tx, ShortIf(entry, falls), "idle")
       \/ /\ tx.data = 0
          /\ Commit(Uncompleted(tx, ShortIf(entry, falls)))
          /\ route' = "idle"
          /\ UNCHANGED <<writes, batch, fanout, retry>>
  /\ UNCHANGED <<revisionVars, saves, stranded, islandVars>>

\* By then the window that refused the refresh has closed.
RetryFires ==
  /\ Quiet /\ retry
  /\ route' = "flight"
  /\ retry' = FALSE
  /\ UNCHANGED <<revisionVars, tx, entry, writes, batch, saves, stranded, fanout, islandVars>>

(* refreshAfterSave; routeAwaitsSave, which decides about it, is not kept here. *)
Save ==
  /\ Quiet /\ HasRoute /\ active # 0 /\ tx.data # 0
  /\ saves < MaxSaves
  /\ saves' = saves + 1
  /\ StartRoute
  /\ UNCHANGED <<revisionVars, tx, entry, writes, batch, stranded, fanout, islandVars>>

(* The microtask of requestSettle, after the synchronous work of its task. *)
SettleLater ==
  /\ fanout = {} /\ entry.queued
  /\ entry' = [entry EXCEPT !.queued = FALSE]
  /\ UNCHANGED <<accepted, active, tx, writes, batch, routeVars, stranded, fanout, islandVars>>
  /\ Settle

---------------------------------------------------------------------------
(* Islands *)

\* confirmation: an island confirms a revision once, however often it is told.
Handed(e, i) == IF i \in handed THEN e ELSE [e EXCEPT !.awaiting = @ + 1]

MutConfirmed(e, r) == [e EXCEPT !.awaiting = IF @ > 0 THEN @ - 1 ELSE 0]
\* displayed(): it counts for the entry it was handed for, and no other.
Confirmed(e, r) == IF r = active THEN [e EXCEPT !.awaiting = @ - 1] ELSE e

\* What the island still holds of the current revision.
Holds(i) == <<i, active>> \in live \/ i \notin handed

(* dispatchIslands, for the next island in document order: it is counted while it
   hydrates too, and told once of each document. It may call displayed() inside its
   event. *)
Tell(i) ==
  /\ i \in fanout /\ \A j \in fanout : i <= j
  /\ fanout' = fanout \ {i}
  /\ handed' = handed \cup {i}
  /\ waits' = IF i \in hydrating THEN waits \cup {i} ELSE waits \ {i}
  /\ UNCHANGED <<accepted, active, tx, writes, batch, routeVars, stranded, hydrating>>
  /\ LET told == i \notin hydrating /\ tx.data \notin delivered[i]
     IN /\ delivered' = IF told THEN [delivered EXCEPT ![i] = @ \cup {tx.data}] ELSE delivered
        /\ \/ /\ entry' = Handed(entry, i)
              /\ live' = IF i \in handed THEN live ELSE live \cup {<<i, active>>}
              /\ UNCHANGED said
           \/ /\ told /\ Holds(i)
              /\ entry' = Confirmed(Handed(entry, i), active)
              /\ live' = live \ {<<i, active>>}
              /\ Settle

(* displayed(), called later: an effect after the island's framework committed. *)
Displayed(i, r) ==
  /\ Quiet /\ <<i, r>> \in live
  /\ live' = live \ {<<i, r>>}
  /\ entry' = Confirmed(entry, r)
  /\ UNCHANGED <<accepted, active, tx, writes, batch, routeVars, stranded, fanout,
                 hydrating, waits, handed, delivered>>
  /\ IF r = active THEN Settle ELSE UNCHANGED said

(* Astro removes the ssr marker: reapplyIslands, with what the island waited for. *)
Hydrates(i) ==
  /\ Quiet /\ i \in hydrating
  /\ hydrating' = hydrating \ {i}
  /\ waits' = waits \ {i}
  /\ fanout' = IF i \in waits /\ active # 0 /\ tx.data # 0 THEN {i} ELSE {}
  /\ UNCHANGED <<revisionVars, tx, entry, writes, batch, routeVars, stranded,
                 handed, delivered, live>>

DisplayNext ==
  \/ Accept \/ End \/ Process \/ Refine \/ CancelUpdate
  \/ Flush \/ Forget \/ BoundarySettles \/ BatchReturns
  \/ RouteReturns \/ RetryFires \/ Save \/ SettleLater
  \/ \E i \in Islands : Tell(i) \/ Hydrates(i) \/ \E r \in Revisions : Displayed(i, r)

DisplaySpec == DisplayInit /\ [][DisplayNext]_displayVars

---------------------------------------------------------------------------
(* Safety *)

\* Something of the current revision will still run.
WorkLeft == tx.data = 0 \/ writes \/ batch \/ route # "idle" \/ retry

(* A revision whose work is done is not pending, and the host has been told of
   its end and of whatever fell short: however the flush, the batch, the refresh
   and its trailing run end in turn, the last of them completes the revision. Only
   a cancelled one, or one whose last writes left with their elements, is neither.
   (And the state keeps its types.) *)
DoneIsReported ==
  /\ DisplayTypeOK
  /\ active # 0 /\ fanout = {} /\ ~WorkLeft /\ ~stranded =>
       /\ View # "pending"
       /\ ~entry.queued => said \in Settled /\ (View = "partial" => said = "partial")

(* The count of islands that still owe the revision a render is the number of
   confirmations of it that were handed out and not called: late calls for older
   revisions and repeated hand-outs leave it alone. *)
AwaitingIsOwed ==
  active # 0 => entry.awaiting = Cardinality({i \in Islands : <<i, active>> \in live})

(* A revision that carried a change has reached every hydrated island when its
   work is done, whether or not a write landed outside them. *)
IslandsHear ==
  active # 0 /\ tx.touched /\ ~stranded /\ fanout = {} /\ ~WorkLeft =>
    \A i \in Islands \ hydrating : delivered[i] # {}

(* Every island hears of the change, and exactly the confirmations that islands
   were handed are waited for. *)
IslandsAreServed == AwaitingIsOwed /\ IslandsHear

(* docs/renderers.md: an update is dispatched on each island for every revision
   that carried a change. A refinement that lands before the flush takes the
   change out of the transaction, and no island hears of the revision. *)
IslandsHearEveryRevision ==
  active # 0 /\ tx.data # 0 /\ ~stranded /\ fanout = {} /\ ~WorkLeft =>
    \A i \in Islands \ hydrating : delivered[i] # {}

(* docs/architecture/0023: until every island the revision was handed to has called
   displayed(), the revision is not current. An island that answers inside its own
   event is counted before the next one is handed the revision. *)
CurrentIsConfirmed ==
  [][active # 0 /\ active' = active /\ said' = "current" /\ said # "current"
       => fanout' = {}]_displayVars
=============================================================================
