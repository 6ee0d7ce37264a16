--------------------------- MODULE UpdatePipeline ---------------------------
(* One accepted document on its way to the page: core/update-pipeline.ts with
   the merge decision and the burst window of core/merge-need.ts, the attempts of
   core/data-merger.ts, and the display ledger of core/revision-display.ts.

   A message carries the form values. The server can complete some of them: a
   rich text may hold references, a relationship is a bare id until the server
   puts the document in its place. A revision asks the server, or shares the
   question with the rest of its burst, passes the beforeUpdate handlers, is
   scheduled, flushed, and reported.

   The scheduler is its buffer here (UpdateScheduler has the rest), and the page
   is one binding for each field. *)
EXTENDS Integers, Sequences

CONSTANTS
  Pages,        \* the pages to consider, records as IsPage describes them
  Values,
  None,
  MaxRevision   \* bound: documents accepted in a behaviour

(* The fields of a page: of `plain` ones the form value is what the page shows,
   that of `rich` ones can be shown and the server may complete it, that of
   `refs` is a bare id. Whether a beforeUpdate listener is registered, and
   whether messages may announce the save of a related document. *)
IsPage(p) ==
  /\ p.plain \cap p.rich = {} /\ p.plain \cap p.refs = {} /\ p.rich \cap p.refs = {}
  /\ {p.handlers, p.relatedSaves} \subseteq BOOLEAN

Slot == [value : Values, full : BOOLEAN]

\* null is no value of a binding, no message, no document and no page of bindings.
IsNull(x) ==
  /\ x \notin Slot
  /\ \A p \in Pages :
       LET fields == p.plain \cup p.rich \cup p.refs
       IN  x \notin [fields -> Values] \cup [fields -> Slot \cup {x}]

ASSUME PipelineAssumption ==
  /\ \A p \in Pages : IsPage(p)
  /\ MaxRevision \in Nat
  /\ IsNull(None)

VARIABLES
  site,        \* the page, which stays what it is
  tx,          \* the transactions, by revision
  active,      \* activeUpdate; 0: null
  retained,    \* the bus's lastAccepted document
  need,        \* MergeNeed
  requests,    \* the merge promises, in the order they were created
  newest,      \* the request of DataMerger's newest attempt; 0: none
  buffer,      \* what the scheduler holds for the active revision
  page,        \* what the bindings show, which is also lastAppliedIdentity
  ledger,      \* RevisionDisplayLedger.entry
  said,        \* the states each revision has reported
  counted      \* updateCount, completedCount, supersededCount, and those a timeout dropped

Plain == site.plain
Rich == site.rich
Refs == site.refs
Handlers == site.handlers
RelatedSaves == site.relatedSaves

Fields == Plain \cup Rich \cup Refs
Raws == [Fields -> Values]
Docs == [Fields -> Slot]
Page == [Fields -> Slot \cup {None}]
Blank == [f \in Fields |-> None]

\* The message's own values, and the same with what only the server knows.
AsSent(raw) == [f \in Fields |-> [value |-> raw[f], full |-> f \in Plain]]
Populated(raw) == [f \in Fields |-> [value |-> raw[f], full |-> TRUE]]

mergeVars == <<need, requests, newest>>
displayVars == <<ledger, said>>
vars == <<site, tx, active, retained, mergeVars, buffer, page, displayVars, counted>>

Revisions == 1..MaxRevision
Phases == {"resolving", "resolved", "gate", "applied", "ended"}
Transactions ==
  [raw : Raws, force : BOOLEAN, counts : BOOLEAN, phase : Phases, fields : Docs,
   request : 0..MaxRevision, waits : BOOLEAN,
   cancelled : BOOLEAN, completed : BOOLEAN]
Statuses == {"queued", "sent", "merged", "unavailable", "superseded"}
Final == {"merged", "unavailable", "superseded"}
States == {"current", "partial", "superseded"}

TypeOK ==
  /\ site \in Pages
  /\ tx \in Seq(Transactions)
  /\ active \in 0..Len(tx)
  /\ retained \in Raws \cup {None}
  /\ need \in [resolved : Docs \cup {None}, unresolved : BOOLEAN, lastRaw : Raws \cup {None},
               open : BOOLEAN, trailing : 0..Len(requests)]
  /\ requests \in Seq([raw : Raws, status : Statuses])
  /\ need.trailing # 0 => requests[need.trailing].status = "queued"
  /\ newest \in 0..Len(requests)
  /\ buffer \in Page /\ page \in Page
  /\ ledger \in [revision : 0..Len(tx), failed : BOOLEAN, queued : BOOLEAN,
                 reported : States \cup {None}]
  /\ said \in [Revisions -> SUBSET States]
  /\ counted \in [updates : Nat, completed : Nat, superseded : Nat, dropped : Nat]

NoEntry == [revision |-> 0, failed |-> FALSE, queued |-> FALSE, reported |-> None]

Init ==
  /\ site \in Pages
  /\ tx = <<>>
  /\ active = 0
  /\ retained = None
  /\ need = [resolved |-> None, unresolved |-> TRUE, lastRaw |-> None, open |-> FALSE, trailing |-> 0]
  /\ requests = <<>>
  /\ newest = 0
  /\ buffer = Blank /\ page = Blank
  /\ ledger = NoEntry
  /\ said = [r \in Revisions |-> {}]
  /\ counted = [updates |-> 0, completed |-> 0, superseded |-> 0, dropped |-> 0]

---------------------------------------------------------------------------
(* Promise reactions run before the next task: an answer, a timer, a frame or a
   lifecycle call finds none waiting. A message may come out of one. *)
MicrotasksDone ==
  /\ ~ledger.queued
  /\ \A r \in DOMAIN tx :
       /\ tx[r].phase # "resolved"
       /\ tx[r].phase = "resolving" \/ tx[r].waits => requests[tx[r].request].status \notin Final

---------------------------------------------------------------------------
(* The display ledger *)

\* runtimeDisplayHost: without strategies, what is left is the flush.
Outstanding(r, b) == ~tx[r].completed \/ b # Blank

View(r, failed, b) ==
  IF Outstanding(r, b) THEN "pending" ELSE IF failed THEN "partial" ELSE "current"

(* begin: the revision before reports as it is replaced, if it has not already. *)
BeginReport(b) ==
  LET r == ledger.revision
      view == View(r, ledger.failed, b)
      state == IF view = "pending" THEN "superseded" ELSE view
  IN  IF r = 0 \/ ledger.reported = state THEN said
      ELSE [said EXCEPT ![r] = @ \cup {state}]

RequestSettle(r, entry) == IF entry.revision = r THEN [entry EXCEPT !.queued = TRUE] ELSE entry

Shortfall(r, entry) ==
  IF entry.revision = r THEN [entry EXCEPT !.failed = TRUE, !.queued = entry.queued \/ ~entry.failed]
  ELSE entry

(* The queued microtask: settle and publish. *)
Settle ==
  /\ ledger.revision # 0 /\ ledger.queued
  /\ LET view == View(ledger.revision, ledger.failed, buffer)
         news == view # "pending" /\ ledger.reported # view
     IN /\ ledger' = [ledger EXCEPT !.queued = FALSE, !.reported = IF news THEN view ELSE @]
        /\ said' = IF news THEN [said EXCEPT ![ledger.revision] = @ \cup {view}] ELSE said
  /\ UNCHANGED <<site, tx, active, retained, mergeVars, buffer, page, counted>>

---------------------------------------------------------------------------
(* The merge decision *)

Changed(m, raw) == {f \in Fields : m.lastRaw = None \/ m.lastRaw[f] # raw[f]}

\* What a changed field's own value is worth: a reference's bare id never
\* replaces the document that stands there.
MutKept(f) == FALSE
Kept(f) == f \in Refs

MutUnresolved(m, asks) == m.unresolved
Unresolved(m, asks) == m.unresolved \/ asks

(* decide, on a page that reads populated values and in one locale. A change
   only the server can complete leaves the document unresolved until it answers. *)
Decide(m, raw, force) ==
  LET changed == Changed(m, raw)
      asks == force \/ changed \ Plain # {}
  IN  [merge |-> m.unresolved \/ asks,
       need |-> [m EXCEPT
         !.lastRaw = raw,
         !.unresolved = Unresolved(m, asks),
         !.resolved = IF @ = None THEN AsSent(raw)
                      ELSE [f \in Fields |-> IF f \in changed /\ ~Kept(f) THEN AsSent(raw)[f] ELSE @[f]]]]

\* The queued request the leading one carries newer values than.
Dropped(m) == {m.trailing} \ {0}

Supersede(reqs, gone) ==
  [i \in DOMAIN reqs |-> IF i \in gone THEN [reqs[i] EXCEPT !.status = "superseded"] ELSE reqs[i]]

(* request: the one that opens a window goes out, the rest of the burst shares
   the one that follows its last message. *)
Ask(m, reqs, raw) ==
  LET fresh == Len(reqs) + 1
  IN  IF ~m.open
      THEN [leading |-> TRUE, request |-> fresh,
            requests |-> Append(Supersede(reqs, Dropped(m)), [raw |-> raw, status |-> "sent"]),
            need |-> [m EXCEPT !.open = TRUE,
                               !.trailing = IF @ \in Dropped(m) THEN 0 ELSE @]]
      ELSE IF m.trailing = 0
      THEN [leading |-> FALSE, request |-> fresh,
            requests |-> Append(reqs, [raw |-> raw, status |-> "queued"]),
            need |-> [m EXCEPT !.trailing = fresh]]
      ELSE [leading |-> FALSE, request |-> m.trailing,
            requests |-> [reqs EXCEPT ![m.trailing].raw = raw],
            need |-> m]

\* merges.destroy and merger.destroy.
Closed(m) == [m EXCEPT !.open = FALSE, !.trailing = 0]

---------------------------------------------------------------------------
(* Acceptance *)

Live == active # 0 /\ ~tx[active].completed
Current(r) == active = r

\* owesForceRender: the obligation passes on until a revision completes.
Owed == Live /\ tx[active].force

MutSupersededNow == IF active # 0 /\ tx[active].counts THEN 1 ELSE 0
SupersededNow == IF Live /\ tx[active].counts THEN 1 ELSE 0

(* acceptDataUpdate and processUpdate up to its first await, after the given
   transactions and from the given state of the merges. *)
Accept(txs, m, reqs, sent, raw, force, counts) ==
  LET r == Len(txs) + 1
      plan == Decide(m, raw, force)
      ask == Ask(plan.need, reqs, raw)
      leads == plan.merge /\ ask.leading
  IN /\ tx' = Append(txs,
          [raw |-> raw, force |-> force, counts |-> counts, fields |-> plan.need.resolved,
           phase |-> IF leads THEN "resolving" ELSE "resolved",
           request |-> IF plan.merge THEN ask.request ELSE 0,
           waits |-> plan.merge /\ ~leads,
           cancelled |-> FALSE, completed |-> FALSE])
     /\ active' = r
     /\ buffer' = Blank
     /\ ledger' = [NoEntry EXCEPT !.revision = r]
     /\ IF plan.merge THEN need' = ask.need /\ requests' = ask.requests
                      ELSE need' = plan.need /\ requests' = reqs
     /\ newest' = IF leads THEN ask.request ELSE sent

Message(raw, related) ==
  /\ Len(tx) < MaxRevision
  /\ related => RelatedSaves
  /\ Accept(tx, need, requests, newest, raw, related \/ Owed, TRUE)
  /\ said' = BeginReport(buffer)
  /\ retained' = raw
  /\ counted' = [counted EXCEPT !.updates = @ + 1, !.superseded = @ + SupersededNow]
  /\ UNCHANGED <<site, page>>

---------------------------------------------------------------------------
(* The server and the window *)

Respond(i, ok) ==
  /\ MicrotasksDone
  /\ i \in DOMAIN requests
  /\ requests[i].status = "sent"
  /\ requests' = [requests EXCEPT ![i].status =
       IF i # newest THEN "superseded" ELSE IF ok THEN "merged" ELSE "unavailable"]
  /\ UNCHANGED <<site, tx, active, retained, need, newest, buffer, page, displayVars, counted>>

\* The clock passes openUntil; the timer of the queued request may run later.
WindowCloses ==
  /\ need.open
  /\ need' = [need EXCEPT !.open = FALSE]
  /\ UNCHANGED <<site, tx, active, retained, requests, newest, buffer, page, displayVars, counted>>

TrailingFires ==
  /\ MicrotasksDone
  /\ ~need.open
  /\ need.trailing # 0
  /\ requests' = [requests EXCEPT ![need.trailing].status = "sent"]
  /\ newest' = need.trailing
  /\ need' = [need EXCEPT !.trailing = 0]
  /\ UNCHANGED <<site, tx, active, retained, buffer, page, displayVars, counted>>

---------------------------------------------------------------------------
(* processUpdate, one step between two awaits each *)

Completed(r) == [tx EXCEPT ![r].completed = TRUE]
CountCompleted(r) ==
  IF tx[r].completed \/ ~tx[r].counts THEN counted
  ELSE [counted EXCEPT !.completed = @ + 1]

Unchanged(r, f, doc) == ~tx[r].force /\ page[f] = doc[f]

(* applyFields and scheduleAllFields: every binding whose value differs from the
   one it last applied. A revision that schedules nothing is complete. *)
Apply(r, doc, t, entry) ==
  LET writes == {f \in Fields : ~Unchanged(r, f, doc)}
      idle == writes = {} /\ buffer = Blank
  IN /\ buffer' = IF tx[r].cancelled THEN buffer
                  ELSE [f \in Fields |-> IF f \in writes THEN doc[f] ELSE buffer[f]]
     /\ tx' = [tx EXCEPT ![r] = [t EXCEPT !.completed = @ \/ idle]]
     /\ counted' = IF idle THEN CountCompleted(r) ELSE counted
     /\ ledger' = IF idle THEN RequestSettle(r, entry) ELSE entry

End(r) ==
  /\ tx' = [tx EXCEPT ![r].phase = "ended"]
  /\ UNCHANGED <<buffer, counted, ledger>>

\* recordMerged
Resolved(m, doc) == [m EXCEPT !.resolved = doc, !.unresolved = FALSE]

MutStillCurrent(r) == TRUE
StillCurrent(r) == Current(r)

(* The leading request's answer reaches the revision that waits for it. *)
LeadingAnswered(r) ==
  /\ r \in DOMAIN tx
  /\ tx[r].phase = "resolving"
  /\ LET answer == requests[tx[r].request]
         merged == StillCurrent(r) /\ answer.status = "merged"
         short == StillCurrent(r) /\ answer.status = "unavailable"
     IN /\ answer.status \in Final
        /\ need' = IF merged THEN Resolved(need, Populated(answer.raw)) ELSE need
        /\ tx' = [tx EXCEPT ![r].phase = IF merged \/ short THEN "resolved" ELSE "ended",
                            ![r].fields = IF merged THEN Populated(answer.raw) ELSE @]
        /\ ledger' = IF short THEN Shortfall(r, ledger) ELSE ledger
  /\ UNCHANGED <<site, active, retained, requests, newest, buffer, page, said, counted>>

\* beforeUpdate is emitted, or nobody listens.
FieldsResolved(r) ==
  /\ r \in DOMAIN tx
  /\ tx[r].phase = "resolved"
  /\ IF ~Current(r) THEN End(r)
     ELSE IF Handlers
     THEN tx' = [tx EXCEPT ![r].phase = "gate"] /\ UNCHANGED <<buffer, counted, ledger>>
     ELSE Apply(r, tx[r].fields, [tx[r] EXCEPT !.phase = "applied"], ledger)
  /\ UNCHANGED <<site, active, retained, mergeVars, page, said>>

MutCancel(r) ==
  /\ r \in DOMAIN tx
  /\ tx[r].phase = "gate"
  /\ tx' = [tx EXCEPT ![r].cancelled = TRUE]
  /\ UNCHANGED <<site, buffer, active, retained, mergeVars, page, displayVars, counted>>
(* A handler calls cancel(): the scheduler drops the revision's work too. *)
Cancel(r) ==
  /\ r \in DOMAIN tx
  /\ tx[r].phase = "gate"
  /\ tx' = [tx EXCEPT ![r].cancelled = TRUE]
  /\ buffer' = IF Current(r) THEN Blank ELSE buffer
  /\ UNCHANGED <<site, active, retained, mergeVars, page, displayVars, counted>>

HandlersSettled(r) ==
  /\ r \in DOMAIN tx
  /\ tx[r].phase = "gate"
  /\ IF ~Current(r) \/ tx[r].cancelled THEN End(r)
     ELSE Apply(r, tx[r].fields, [tx[r] EXCEPT !.phase = "applied"], ledger)
  /\ UNCHANGED <<site, active, retained, mergeVars, page, said>>

(* applyMerged: the burst's shared answer refines whoever is still current. *)
Refine(r) ==
  /\ r \in DOMAIN tx
  /\ tx[r].waits
  /\ LET answer == requests[tx[r].request]
         doc == Populated(answer.raw)
         done == [tx[r] EXCEPT !.waits = FALSE]
     IN /\ answer.status \in Final
        /\ IF answer.status = "merged" /\ StillCurrent(r)
           THEN need' = Resolved(need, doc) /\ Apply(r, doc, done, ledger)
           ELSE /\ tx' = [tx EXCEPT ![r] = done]
                /\ ledger' = IF answer.status = "unavailable" THEN Shortfall(r, ledger) ELSE ledger
                /\ UNCHANGED <<need, buffer, counted>>
  /\ UNCHANGED <<site, active, retained, requests, newest, page, said>>

---------------------------------------------------------------------------
(* A flush of the scheduler, and onFlush after it. *)
Flush ==
  /\ MicrotasksDone
  /\ buffer # Blank
  /\ page' = [f \in Fields |-> IF buffer[f] = None THEN page[f] ELSE buffer[f]]
  /\ buffer' = Blank
  /\ tx' = Completed(active)
  /\ counted' = CountCompleted(active)
  /\ ledger' = RequestSettle(active, ledger)
  /\ UNCHANGED <<site, active, retained, mergeVars, said>>

---------------------------------------------------------------------------
(* The lifecycle *)

Queued == {need.trailing} \ {0}

CancelActive == IF active = 0 THEN tx ELSE [tx EXCEPT ![active].cancelled = TRUE]

(* navigationCommit: the work of the route being left is cancelled, and the
   retained document is replayed onto the new route's markup. *)
Navigate ==
  /\ MicrotasksDone
  /\ retained # None
  /\ Len(tx) < MaxRevision
  /\ Accept(CancelActive, [Closed(need) EXCEPT !.lastRaw = None],
            Supersede(requests, Queued), 0, retained, FALSE, FALSE)
  /\ counted' = [counted EXCEPT !.superseded = @ + SupersededNow]
  /\ page' = Blank
  /\ UNCHANGED <<site, retained, said>>

(* onHeartbeatTimeout: the session is over, the page stays as it is. *)
HeartbeatTimeout ==
  /\ MicrotasksDone
  /\ active # 0
  /\ tx' = CancelActive
  /\ active' = 0
  /\ retained' = None
  /\ need' = Closed(need)
  /\ requests' = Supersede(requests, Queued)
  /\ newest' = 0
  /\ buffer' = Blank
  /\ ledger' = NoEntry
  /\ counted' = [counted EXCEPT !.dropped = @ + SupersededNow]
  /\ UNCHANGED <<site, page, said>>
---------------------------------------------------------------------------
Next ==
  \/ \E raw \in Raws, related \in BOOLEAN : Message(raw, related)
  \/ \E i \in Revisions, ok \in BOOLEAN : Respond(i, ok)
  \/ WindowCloses
  \/ TrailingFires
  \/ \E r \in Revisions : LeadingAnswered(r)
  \/ \E r \in Revisions : FieldsResolved(r)
  \/ \E r \in Revisions : Cancel(r)
  \/ \E r \in Revisions : HandlersSettled(r)
  \/ \E r \in Revisions : Refine(r)
  \/ Flush
  \/ Settle
  \/ Navigate
  \/ HeartbeatTimeout

Spec == Init /\ [][Next]_vars

---------------------------------------------------------------------------
(* Safety *)

\* Nothing is left to happen for the active revision, and it was not called off.
AtRest ==
  /\ active # 0
  /\ tx[active].phase = "applied" /\ ~tx[active].cancelled /\ ~tx[active].waits
  /\ buffer = Blank

(* At rest the page shows the newest message: every value it can show itself is
   the one the editor typed, whatever the carried-over documents, shared answers
   and skipped writes on the way were. A relationship may wait for its answer. *)
PageShowsNewestValues ==
  AtRest => \A f \in Plain \cup Rich :
    page[f] # None /\ page[f].value = tx[active].raw[f]

(* A relationship on the page never falls back to a bare id once the server has
   put the document in its place, unless the route was replaced. Behind a handler
   it may: what was resolved before the handlers ran is applied after them, over
   the shared answer that came meanwhile. *)
ReferencesStayPopulated ==
  [][~Handlers =>
       \A f \in Refs : page[f] # None /\ page'[f] # None /\ page[f].full => page'[f].full]_vars

(* A question put to the server is not forgotten when the message that raised
   it is superseded: at rest the carried-over document is the populated newest
   one, unless the newest revision's own merge failed. *)
PopulationIsNotForgotten ==
  AtRest /\ ~ledger.failed => need.resolved = Populated(tx[active].raw)

(* The answer the current revision waits for is never thrown away for an older
   request, as it would be if a queued request went out after a leading one. *)
CurrentIsAnswered ==
  active # 0 /\ tx[active].request # 0
    => requests[tx[active].request].status # "superseded"

\* A queued request is the one whose timer runs: one put out of the queue got its outcome.
NoneIsLeftInTheQueue ==
  \A i \in DOMAIN requests : requests[i].status = "queued" => need.trailing = i

(* What was asked of the server is neither forgotten, nor thrown away, nor left
   without an outcome. *)
AnswersAreKept == PopulationIsNotForgotten /\ CurrentIsAnswered /\ NoneIsLeftInTheQueue

(* A revision whose handler cancelled it writes nothing. *)
CancelledNeverWrites ==
  [][page' # page /\ active' = active => ~tx[active].cancelled]_vars

(* updateCount is the sum of the revisions that completed, that a newer one or
   a navigation superseded, that a timeout dropped, and the one under way: none
   is counted twice, as it would be if a superseded one completed later (and the
   state keeps its types). *)
RevisionsAreAccountedFor ==
  /\ TypeOK
  /\ counted.updates = counted.completed + counted.superseded + counted.dropped
                       + (IF Live /\ tx[active].counts THEN 1 ELSE 0)

---------------------------------------------------------------------------
(* What the documentation says and the code does not do *)

(* update-pipeline.ts: the answer to a shared request refines what was rendered. *)
AnswerRefinesThePage ==
  AtRest /\ tx[active].request # 0 /\ requests[tx[active].request].status = "merged"
    => page = Populated(tx[active].raw)

=============================================================================
