--------------------------- MODULE RuntimeSession ---------------------------
(* core/lifecycle.ts with core/startup.ts, core/hydration*.ts, core/state.ts and
   core/lifetime-scope.ts: the sessions of a runtime, from a start that may have to
   wait to the release of everything it acquired. core/runtime.ts and
   core/navigation-lifecycle.ts drive them: a page bootstraps a runtime, later
   perhaps another with a different configuration, is hidden and shown again. *)
EXTENDS Integers

CONSTANTS
  Instances,      \* 1..n, the runtimes the page bootstraps, in order
  Hydrates,       \* those whose configuration declares a framework's hydration
  Timeout,        \* heartbeatMs in ticks of the clock
  ReadyRetries,   \* READY_RETRY_DELAYS_MS after the first, immediate broadcast
  ReadyMayThrow   \* a custom sendReady throws; the shipped one never does

ASSUME SessionAssumption ==
  /\ Instances \subseteq Nat \ {0} /\ Hydrates \subseteq Instances
  /\ Timeout \in Nat \ {0} /\ ReadyRetries \in Nat /\ ReadyMayThrow \in BOOLEAN

VARIABLES
  rt,         \* each runtime
  published,  \* the runtime of window.__livePreview, or 0
  parsed,     \* the document is no longer loading
  committed,  \* the framework has taken the page over
  hidden      \* the page is in the back/forward cache

vars == <<rt, published, parsed, committed, hidden>>

Unset == -1

Runtime ==
  [made : BOOLEAN, bound : BOOLEAN, started : BOOLEAN, suspended : BOOLEAN,
   waits : {"no", "parse", "hydration"},                \* deferredStart
   listens : BOOLEAN, waiter : BOOLEAN, cap : BOOLEAN,  \* what a wait has registered
   hydration : {"none", "waiting", "committed", "timed-out"},
   attached : BOOLEAN, ready : 0..ReadyRetries, recovers : BOOLEAN,
   retained : BOOLEAN, connected : BOOLEAN,
   silence : Unset..Timeout,                            \* since lastKick
   beat : Unset..Timeout]                               \* what the heartbeat timer has left

TypeOK ==
  /\ rt \in [Instances -> Runtime]
  /\ published \in Instances \cup {0}
  /\ parsed \in BOOLEAN /\ committed \in BOOLEAN /\ hidden \in BOOLEAN

Init ==
  /\ rt = [i \in Instances |->
             [made |-> FALSE, bound |-> FALSE, started |-> FALSE, suspended |-> FALSE,
              waits |-> "no", listens |-> FALSE, waiter |-> FALSE, cap |-> FALSE,
              hydration |-> "none", attached |-> FALSE, ready |-> 0, recovers |-> FALSE,
              retained |-> FALSE, connected |-> FALSE, silence |-> Unset, beat |-> Unset]]
  /\ published = 0
  /\ parsed \in BOOLEAN
  /\ committed = FALSE
  /\ hidden = FALSE

---------------------------------------------------------------------------
(* What an operation makes of one runtime. *)

MutReleased(r) == [r EXCEPT !.started = FALSE, !.waits = "no",
                            !.attached = FALSE, !.beat = Unset, !.connected = FALSE, !.ready = 0]
\* release: the scope abandons the wait in progress, detaches and stops every timer.
Released(r) ==
  [r EXCEPT !.started = FALSE, !.waits = "no", !.listens = FALSE, !.waiter = FALSE, !.cap = FALSE,
            !.attached = FALSE, !.ready = 0, !.beat = Unset, !.connected = FALSE]

Suspended(r) == IF r.started THEN [Released(r) EXCEPT !.suspended = TRUE] ELSE r

\* destroy also forgets the retained document; it does nothing to a stopped runtime.
Destroyed(r) ==
  IF r.started \/ r.suspended
  THEN [Released(r) EXCEPT !.suspended = FALSE, !.recovers = FALSE, !.retained = FALSE]
  ELSE r

\* onHeartbeatTimeout: nothing is trusted any more.
Expired(r) == [r EXCEPT !.silence = Unset, !.beat = Unset, !.retained = FALSE, !.connected = FALSE]

MutResumed(r) == IF r.silence = Unset THEN r
                 ELSE IF r.silence = Timeout THEN Expired(r) ELSE [r EXCEPT !.beat = Timeout]
\* HeartbeatTimer.resume: what the old deadline left, or its expiry.
HeartbeatResumed(r) ==
  CASE r.silence = Unset -> r
    [] r.silence = Timeout -> Expired(r)
    [] OTHER -> [r EXCEPT !.beat = Timeout - r.silence]

\* A handler of `init` destroyed the runtime: the rest of the start is skipped.
HandlerStopped(r) == Destroyed(r)

Outcomes == {"live", "fails", "stopped"} \cup (IF ReadyMayThrow THEN {"throws"} ELSE {})

\* startNow, which may fail before it listens, when it broadcasts, or be stopped.
StartedNow(r, how) ==
  LET listening == [r EXCEPT !.attached = TRUE]
      recovered == [IF r.recovers THEN HeartbeatResumed(listening) ELSE listening
                      EXCEPT !.recovers = FALSE] IN
  CASE ~r.started -> r
    [] r.started /\ how = "fails" -> Released(r)
    [] r.started /\ how = "stopped" -> HandlerStopped(listening)
    [] r.started /\ how = "throws" -> Released(recovered)
    [] r.started /\ how = "live" -> [recovered EXCEPT !.ready = ReadyRetries]

\* The stage after hydration, on its own or as a `later` step.
Hydrated(r, outcome, how) ==
  StartedNow([r EXCEPT !.waits = "no", !.waiter = FALSE, !.cap = FALSE, !.hydration = outcome], how)

MutAfterParse(i, r, how) ==
  LET now == [r EXCEPT !.waits = "no", !.listens = FALSE] IN
  IF i \in Hydrates /\ ~committed
  THEN [now EXCEPT !.waits = "hydration", !.waiter = TRUE, !.hydration = "waiting"]
  ELSE StartedNow(now, how)
\* The stage after parsing: a declared hydration that has not happened is awaited.
AfterParse(i, r, how) ==
  LET now == [r EXCEPT !.waits = "no", !.listens = FALSE] IN
  CASE i \notin Hydrates -> StartedNow(now, how)
    [] i \in Hydrates /\ committed -> Hydrated(now, "committed", how)
    [] OTHER -> [now EXCEPT !.waits = "hydration", !.waiter = TRUE, !.cap = TRUE,
                            !.hydration = "waiting"]

\* start: a runtime that was suspended will recover what it retained.
Start(i, r, how) ==
  LET begun == [r EXCEPT !.recovers = @ \/ r.suspended, !.started = TRUE, !.suspended = FALSE] IN
  CASE r.started -> r
    [] ~r.started /\ ~parsed -> [begun EXCEPT !.waits = "parse", !.listens = TRUE]
    [] ~r.started /\ parsed -> AfterParse(i, begun, how)

---------------------------------------------------------------------------
(* core/runtime.ts *)

\* A bootstrap with another configuration than the published runtime's.
NextInstance(i) == ~rt[i].made /\ \A j \in Instances : j < i => rt[j].made

\* The api's destroy of a runtime: it also unbinds the page's events.
Gone(r) == [Destroyed(r) EXCEPT !.bound = FALSE]

\* The replacement has started; the one it replaces goes.
HandedOver(i, r) ==
  [j \in Instances |-> IF j = i THEN [r EXCEPT !.made = TRUE, !.bound = TRUE]
                       ELSE IF j = published THEN Gone(rt[j]) ELSE rt[j]]

\* The start throws (nothing else happened yet), or the api cannot be published.
Bootstrap(i) ==
  /\ ~hidden /\ NextInstance(i)
  /\ \/ LET r == Start(i, rt[i], "live") IN
        /\ rt' = HandedOver(i, r)
        /\ published' = i
     \/ LET r == Start(i, rt[i], "fails") IN
        /\ ~r.started
        /\ rt' = [rt EXCEPT ![i] = [r EXCEPT !.made = TRUE]]
        /\ UNCHANGED published
     \/ /\ published = 0
        /\ rt' = [rt EXCEPT ![i] = [Destroyed(Start(i, rt[i], "live")) EXCEPT !.made = TRUE]]
        /\ UNCHANGED published
  /\ UNCHANGED <<parsed, committed, hidden>>

\* destroy of an api the page kept: it clears the global only while that is its own.
Unpublished(i) == IF published = i THEN 0 ELSE published

Destroy(i) ==
  /\ rt[i].made
  /\ rt' = [rt EXCEPT ![i] = Gone(@)]
  /\ published' = Unpublished(i)
  /\ UNCHANGED <<parsed, committed, hidden>>

---------------------------------------------------------------------------
(* A step of the runtimes `is`, each with its own outcome; one that a handler
   destroys is unbound and unpublished too. *)
Steps(is, After) ==
  \E how \in [is -> Outcomes] :
    LET stopped == {i \in is : how[i] = "stopped" /\ ~After[i]["stopped"].started} IN
    /\ rt' = [i \in Instances |->
                IF i \in stopped THEN [After[i][how[i]] EXCEPT !.bound = FALSE]
                ELSE IF i \in is THEN After[i][how[i]] ELSE rt[i]]
    /\ published' = IF published \in stopped THEN 0 ELSE published

\* start called again: a deferred start had failed, or the page was suspended.
Restart(i) ==
  /\ ~hidden /\ rt[i].bound /\ ~rt[i].started
  /\ Steps({i}, [j \in {i} |-> [how \in Outcomes |-> Start(j, rt[j], how)]])
  /\ UNCHANGED <<parsed, committed, hidden>>

\* The document's DOMContentLoaded.
Parsed ==
  /\ ~parsed /\ ~hidden
  /\ parsed' = TRUE
  /\ LET heard == {i \in Instances : rt[i].listens} IN
     Steps(heard, [i \in heard |-> [how \in Outcomes |->
                     IF rt[i].started THEN AfterParse(i, rt[i], how)
                     ELSE [rt[i] EXCEPT !.listens = FALSE]]])
  /\ UNCHANGED <<committed, hidden>>

\* settle: every waiter hears it.
Commits ==
  /\ parsed /\ ~committed /\ ~hidden
  /\ committed' = TRUE
  /\ LET waiting == {i \in Instances : rt[i].waiter} IN
     Steps(waiting, [i \in waiting |-> [how \in Outcomes |-> Hydrated(rt[i], "committed", how)]])
  /\ UNCHANGED <<parsed, hidden>>

\* The cap on the wait.
CapFires(i) ==
  /\ rt[i].cap /\ ~hidden
  /\ Steps({i}, [j \in {i} |-> [how \in Outcomes |-> Hydrated(rt[j], "timed-out", how)]])
  /\ UNCHANGED <<parsed, committed, hidden>>

PageHides ==
  /\ ~hidden /\ hidden' = TRUE
  /\ rt' = [i \in Instances |-> IF rt[i].bound THEN Suspended(rt[i]) ELSE rt[i]]
  /\ UNCHANGED <<published, parsed, committed>>

PageShows ==
  /\ hidden /\ hidden' = FALSE
  /\ LET shown == {i \in Instances : rt[i].bound} IN
     Steps(shown, [i \in shown |-> [how \in Outcomes |-> Start(i, rt[i], how)]])
  /\ UNCHANGED <<parsed, committed>>

\* A document of the trusted admin: every runtime that listens accepts it.
Message ==
  /\ ~hidden
  /\ rt' = [i \in Instances |->
              IF rt[i].attached
              THEN [rt[i] EXCEPT !.retained = TRUE, !.connected = TRUE, !.silence = 0, !.beat = Timeout]
              ELSE rt[i]]
  /\ UNCHANGED <<published, parsed, committed, hidden>>

ReadyFires(i) ==
  /\ rt[i].ready > 0 /\ ~hidden
  /\ rt' = [rt EXCEPT ![i].ready = @ - 1]
  /\ UNCHANGED <<published, parsed, committed, hidden>>

\* The timer of the heartbeat; a stopped runtime ignores it.
BeatFires(i) ==
  /\ rt[i].beat = 0 /\ ~hidden
  /\ rt' = [rt EXCEPT ![i] = IF @.started THEN Expired(@) ELSE [@ EXCEPT !.beat = Unset, !.silence = Unset]]
  /\ UNCHANGED <<published, parsed, committed, hidden>>

\* Time goes on for everyone, also while the page is away.
Tick ==
  /\ rt' = [i \in Instances |->
              [rt[i] EXCEPT !.silence = IF @ \in 0..(Timeout - 1) THEN @ + 1 ELSE @,
                            !.beat = IF @ > 0 THEN @ - 1 ELSE @]]
  /\ UNCHANGED <<published, parsed, committed, hidden>>

Next ==
  \/ Parsed \/ Commits \/ PageHides \/ PageShows \/ Message \/ Tick
  \/ \E i \in Instances : \/ Bootstrap(i) \/ Destroy(i) \/ Restart(i)
                          \/ CapFires(i) \/ ReadyFires(i) \/ BeatFires(i)

Spec == Init /\ [][Next]_vars

\* The document is parsed in the end, timers fire and the clock goes on.
FairSpec ==
  /\ Spec
  /\ WF_vars(Parsed) /\ WF_vars(Tick)
  /\ \A i \in Instances : WF_vars(CapFires(i)) /\ WF_vars(BeatFires(i))

---------------------------------------------------------------------------
(* A stopped runtime hears nothing: no listener, no waiter and no timer of an earlier
   session is left, however far that session had got. *)
StoppedIsQuiet ==
  \A i \in Instances : ~rt[i].started =>
    /\ ~rt[i].attached /\ ~rt[i].listens /\ ~rt[i].waiter /\ ~rt[i].cap
    /\ rt[i].ready = 0 /\ rt[i].beat = Unset

(* A started runtime either waits, in exactly one way, or listens, and it listens only
   to a parsed page whose declared hydration has happened or was given up on. *)
OneWayToStart ==
  \A i \in Instances : rt[i].started =>
    /\ rt[i].attached = (rt[i].waits = "no")
    /\ rt[i].listens = (rt[i].waits = "parse")
    /\ rt[i].waiter = (rt[i].waits = "hydration") /\ rt[i].cap = rt[i].waiter
    /\ rt[i].attached =>
         /\ parsed
         /\ i \in Hydrates => rt[i].hydration = "timed-out" \/ committed

(* A runtime that runs, or comes back when the page is shown, is the one the page can
   reach: no handover, failed bootstrap or late destroy leaves a second one behind. *)
RunningIsPublished ==
  \A i \in Instances : rt[i].started \/ rt[i].suspended \/ rt[i].bound => published = i

(* However bootstraps, destroys, suspensions, restarts and waits fall together, at
   most one runtime is alive, and it is either quiet, waiting in one way or listening
   (and the state keeps its types). *)
OneOrderlySession == TypeOK /\ StoppedIsQuiet /\ OneWayToStart /\ RunningIsPublished

(* A document is retained only as long as its sender is trusted: while a runtime
   listens, its timer ends the trust Timeout after the last message, pauses included. *)
TrustIsNotRenewed ==
  \A i \in Instances : rt[i].attached /\ rt[i].retained =>
    rt[i].beat # Unset /\ rt[i].beat + rt[i].silence = Timeout

(* Every start comes to an end: the runtime listens, or it was stopped or failed. *)
EveryStartEnds ==
  \A i \in Instances : rt[i].waits # "no" ~> rt[i].attached \/ ~rt[i].started

(* core/runtime.ts:50: hand over, replacement first, so a message in between still
   reaches one of them. *)
HandoverListens ==
  [][\A i, j \in Instances :
       rt[i].attached /\ published = i /\ published' = j /\ i # j => rt'[j].attached]_vars
=============================================================================
