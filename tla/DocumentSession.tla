-------------------------- MODULE DocumentSession --------------------------
(* The document a framework hook reads: adapters/shared/document-session.ts,
   with the merge of core/data-merger.ts it waits for.

   A message event is a task of its own, and so is an answer of the server or
   the deadline; a resolved promise continues after whatever ran before it, so
   a subscriber may leave between the end of a merge and the code that waited
   for it. `publishing` is the part of the call stack that matters: the
   listeners that hear of the loading snapshot may come and go before #handle
   goes on. *)
EXTENDS Integers, Sequences

CONSTANTS
  Listeners,     \* functions a component subscribes
  Messages,      \* the update messages the admin may send, records of MessageType
  Documents,     \* the `document` options a session may be constructed with
  HasDeadline,   \* whether options.timeoutMs is set
  MaxMessages,   \* bound: messages handled in a behaviour
  MaxDepartures  \* bound: times the last subscriber leaves

Ids == {"mine", "other", "none"}
(* `id` is what a message proves of its document, `locale` the one it names,
   `schema` whether Payload 2 sent one along, `reads` how many collection GETs
   its references need then, `addressed` whether the merge finds an endpoint. *)
MessageType ==
  [id : Ids, locale : Ids, schema : BOOLEAN, reads : 0..2, addressed : BOOLEAN]
(* `id` is "none" for a session without a document, `locale` for one without a
   locale, which only a document has; `strict` is requireLocale. *)
DocumentType == [id : {"mine", "none"}, locale : {"mine", "none"}, strict : BOOLEAN]

ASSUME DocumentSessionAssumption ==
  /\ Messages \subseteq MessageType
  /\ Documents \subseteq DocumentType
  /\ \A d \in Documents : d.locale # "none" => d.id = "mine"
  /\ HasDeadline \in BOOLEAN
  /\ MaxMessages \in Nat
  /\ MaxDepartures \in Nat

VARIABLES
  document,   \* #document and #requireLocale, read-only
  listeners,
  attached,
  revision,
  schema,     \* #schema # undefined
  locale,     \* #locale
  snapshot,
  publishing, \* the call whose loading snapshot the listeners are hearing, 0 for none
  calls,      \* the runs of #handle, in the order of their messages
  attempt,    \* the merger's
  inflight,   \* the call whose controller the merger holds, 0 for none
  departures

sessionVars == <<document, listeners, attached, revision, schema, locale, departures>>
mergerVars == <<attempt, inflight>>
vars == <<sessionVars, mergerVars, snapshot, publishing, calls>>

Statuses == {"idle", "live", "unavailable"}
Results == {"open", "merged", "superseded", "unavailable"}
Steps == {"publishing", "waiting", "back", "ended"}
Snapshots == [data : Nat, isLoading : BOOLEAN, status : Statuses, revision : Nat]
(* `attempt` is 0 before the merge, `waits` the answers it still waits for. *)
Calls ==
  [message : MessageType, locale : Ids, legacy : BOOLEAN, revision : Nat, attempt : Nat,
   waits : 0..2, step : Steps, result : Results, aborted : BOOLEAN]

TypeOK ==
  /\ document \in DocumentType
  /\ listeners \subseteq Listeners
  /\ attached \in BOOLEAN
  /\ revision \in Nat
  /\ schema \in BOOLEAN
  /\ locale \in Ids
  /\ snapshot \in Snapshots
  /\ calls \in Seq(Calls)
  /\ publishing \in 0..Len(calls)
  /\ attempt \in Nat
  /\ inflight \in 0..Len(calls)
  /\ departures \in Nat

Init ==
  /\ document \in Documents
  /\ listeners = {}
  /\ attached = FALSE
  /\ revision = 0
  /\ schema = FALSE
  /\ locale = "none"
  /\ snapshot = [data |-> 0, isLoading |-> TRUE, status |-> "idle", revision |-> 0]
  /\ publishing = 0
  /\ calls = <<>>
  /\ attempt = 0
  /\ inflight = 0
  /\ departures = 0

---------------------------------------------------------------------------
(* Subscribing *)

\* A controller that is aborted stays so; its fetch rejects, or a shim ignores it.
Aborted(cs, c) == IF c = 0 THEN cs ELSE [cs EXCEPT ![c].aborted = TRUE]

\* The first subscriber attaches.
Subscribe(l) ==
  /\ l \notin listeners
  /\ listeners' = listeners \cup {l}
  /\ attached' = TRUE
  /\ UNCHANGED <<document, revision, schema, locale, departures, mergerVars, snapshot, publishing, calls>>

(* #detach and the merger's destroy: what is in flight is aborted, and neither
   the session nor the merger takes it for its newest any more. *)
Detach ==
  /\ attached' = FALSE
  /\ revision' = revision + 1
  /\ attempt' = attempt + 1
  /\ calls' = Aborted(calls, inflight)
  /\ inflight' = 0

Unsubscribe(l) ==
  /\ l \in listeners
  /\ listeners' = listeners \ {l}
  /\ IF listeners = {l}
     THEN departures < MaxDepartures /\ departures' = departures + 1 /\ Detach
     ELSE UNCHANGED <<departures, attached, revision, calls, mergerVars>>
  /\ UNCHANGED <<document, schema, locale, snapshot, publishing>>

---------------------------------------------------------------------------
(* A message *)

Current(r) == attached /\ revision = r

MutAccepts(m) == document.id = "none" \/ m.id = "mine"
(* #accepts: any message without a document; else the one for it, and with a
   locale not one for another locale, nor, strictly, one for none. *)
Accepts(m) ==
  document.id = "none"
    \/ /\ document.locale = "none" \/ m.locale = document.locale
          \/ (m.locale = "none" /\ ~document.strict)
       /\ m.id = "mine"

(* The locale a request asks for: a message of Payload 2 may leave out what an
   earlier one has said, one of Payload 3 may not. *)
AskedLocale(m) ==
  IF (schema \/ m.schema) /\ m.locale = "none" THEN locale ELSE m.locale

(* #handle up to the end of its loading #publish, which calls nobody when the
   snapshot is loading already. *)
Handle(m) ==
  /\ attached
  /\ publishing = 0
  /\ Len(calls) < MaxMessages
  /\ Accepts(m)
  /\ revision' = revision + 1
  /\ schema' = (schema \/ m.schema)
  /\ locale' = IF m.locale = "none" THEN locale ELSE m.locale
  /\ calls' = Append(calls,
       [message |-> m, locale |-> AskedLocale(m), legacy |-> schema', revision |-> revision + 1,
        attempt |-> 0, waits |-> 0, step |-> "publishing", result |-> "open", aborted |-> FALSE])
  /\ publishing' = Len(calls) + 1
  /\ snapshot' = [snapshot EXCEPT !.isLoading = TRUE]
  /\ UNCHANGED <<document, listeners, attached, departures, mergerVars>>

---------------------------------------------------------------------------
(* The merge *)

Superseded(c) == calls[c].attempt # attempt

\* How many answers a merge waits for: a GET each, or the response and its body.
Reads(c) == IF calls[c].legacy THEN calls[c].message.reads ELSE 2

\* A Payload 3 merge without a safe endpoint does not ask anybody.
Unaddressed(c) == ~calls[c].legacy /\ ~calls[c].message.addressed

(* merge claims the attempt, aborts the one before it and asks. *)
Asked(c) ==
  [Aborted(calls, inflight) EXCEPT ![c].attempt = attempt + 1, ![c].waits = Reads(c),
                                   ![c].step = "waiting"]

\* A merge that asks nobody: a document without references, or no endpoint.
AnsweredAtOnce(c) ==
  [Aborted(calls, inflight) EXCEPT
     ![c].attempt = attempt + 1, ![c].step = "back",
     ![c].result = IF Unaddressed(c) THEN "unavailable" ELSE "merged"]

(* The listeners have been called and #handle goes on, unless one of them left
   with the revision. *)
Merge ==
  /\ publishing # 0
  /\ publishing' = 0
  /\ LET c == publishing
         asks == ~Unaddressed(c) /\ Reads(c) > 0 IN
       IF Current(calls[c].revision)
       THEN /\ attempt' = attempt + 1
            /\ inflight' = IF asks THEN c ELSE 0
            /\ calls' = IF asks THEN Asked(c) ELSE AnsweredAtOnce(c)
       ELSE /\ calls' = [calls EXCEPT ![c].step = "ended"]
            /\ UNCHANGED mergerVars
  /\ UNCHANGED <<sessionVars, snapshot>>

MutFreed(c) == 0
\* The `finally` of merge: a superseded attempt leaves its successor's controller alone.
Freed(c) == IF inflight = c THEN 0 ELSE inflight

(* merge returns. Whoever was superseded says so, whatever the server did, and
   a legacy merge that fails aborts the reads it has left. *)
Ends(c, result, aborted) ==
  /\ calls' = [calls EXCEPT ![c].step = "back", ![c].aborted = @ \/ aborted,
                            ![c].result = IF Superseded(c) THEN "superseded" ELSE result]
  /\ inflight' = Freed(c)

AnswerKinds == {"good", "bad"}
(* One awaited answer. A good one is the response with `ok`, or a body that is
   the document asked for; a bad one is any other, or the fetch rejecting. *)
Answer(c, kind) ==
  /\ publishing = 0
  /\ calls[c].step = "waiting"
  /\ IF kind = "good" /\ ~Superseded(c) /\ calls[c].waits > 1
     THEN calls' = [calls EXCEPT ![c].waits = @ - 1] /\ UNCHANGED inflight
     ELSE IF kind = "good"
          THEN Ends(c, "merged", FALSE)
          ELSE Ends(c, "unavailable", calls[c].legacy)
  /\ UNCHANGED <<sessionVars, attempt, snapshot, publishing>>

(* The one deadline of a merge, whichever answer it waits for: it aborts its
   own controller and ends the wait even when the fetch ignores that. *)
Deadline(c) ==
  /\ publishing = 0
  /\ HasDeadline
  /\ calls[c].step = "waiting"
  /\ Ends(c, "unavailable", TRUE)
  /\ UNCHANGED <<sessionVars, attempt, snapshot, publishing>>

---------------------------------------------------------------------------
(* Its end *)

\* A failed merge keeps the last good document.
Kept(c) == [snapshot EXCEPT !.isLoading = FALSE, !.status = "unavailable"]

\* The merged document, which every answer it waited for is in.
Merged(c) ==
  [data |-> c, isLoading |-> FALSE, status |-> "live",
   revision |-> calls[c].revision]

MutUsable(c) == attached /\ calls[c].result # "superseded"
Usable(c) == Current(calls[c].revision) /\ calls[c].result # "superseded"

(* #handle continues after its await. *)
Return(c) ==
  /\ publishing = 0
  /\ calls[c].step = "back"
  /\ calls' = [calls EXCEPT ![c].step = "ended"]
  /\ snapshot' = CASE ~Usable(c) -> snapshot
                   [] Usable(c) /\ calls[c].result = "unavailable" -> Kept(c)
                   [] OTHER -> Merged(c)
  /\ UNCHANGED <<sessionVars, mergerVars, publishing>>

---------------------------------------------------------------------------
Next ==
  \/ \E l \in Listeners : Subscribe(l) \/ Unsubscribe(l)
  \/ \E m \in Messages : Handle(m)
  \/ Merge
  \/ \E c \in DOMAIN calls : (\E kind \in AnswerKinds : Answer(c, kind)) \/ Deadline(c) \/ Return(c)

Spec == Init /\ [][Next]_vars

---------------------------------------------------------------------------
(* Properties *)

(* The session implements LatestWins: whatever order the server answers in and
   whoever leaves meanwhile, what it shows is replaced only by the newest
   message it took, and only while somebody listens ("Newest handled message;
   an older merge that settles later is ignored"). *)
Latest == INSTANCE LatestWins WITH active <- attached, newest <- revision, shown <- snapshot.revision
ImplementsLatestWins == Latest!LatestSpec

(* A request nobody waits for is aborted: with the session detached no fetch
   runs on, and never more than the newest one does. The controller that is
   aborted is the one the merger holds, so a superseded merge that ends must
   not let go of its successor's. *)
OnlyTheNewestRuns ==
  \A c \in DOMAIN calls :
    calls[c].step = "waiting" /\ ~calls[c].aborted => attached /\ ~Superseded(c) /\ inflight = c

(* What a component reads was merged to its end, from the message it is numbered
   by, and for a session with a document from a message for that document in a
   locale it takes. *)
ShowsItsDocument ==
  LET s == snapshot IN
    /\ s.data = 0 <=> s.revision = 0
    /\ s.data # 0 =>
         LET c == calls[s.data] IN
           /\ c.result = "merged" /\ c.revision = s.revision
           /\ document.id # "none" => c.message.id = "mine"
           /\ document.locale # "none" => c.locale \in {document.locale, "none"}

(* Once the newest message has ended while somebody listens, the snapshot says
   so: it is not left loading, and it is live exactly when it shows it. *)
EndIsReported ==
  \A c \in DOMAIN calls :
    calls[c].step = "ended" /\ Current(calls[c].revision) =>
      ~snapshot.isLoading /\ (snapshot.status = "live" <=> snapshot.revision = calls[c].revision)

\* Somebody is listening exactly while the session is attached.
AttachedIsHeard == attached <=> listeners # {}

(* The snapshot a component reads is true: of the document it shows, and of how
   the newest message ended. *)
SnapshotIsTrue == ShowsItsDocument /\ EndIsReported

(* "No update has settled yet, or a merge is in flight" (the comment on
   isLoading). Not so: a session whose last subscriber leaves during a merge
   keeps its loading snapshot, and whoever subscribes next reads that it loads. *)
LoadingMeansWork ==
  attached /\ snapshot.isLoading =>
    snapshot.status = "idle" \/ \E c \in DOMAIN calls : calls[c].step # "ended"
=============================================================================
