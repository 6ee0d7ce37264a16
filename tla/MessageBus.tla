---------------------------- MODULE MessageBus ----------------------------
(* The ingress of the browser runtime: core/message-bus.ts, together with the
   calls core/lifecycle.ts makes on it and the origin lock of
   detection/origin.ts that the runtime closes on the first accepted update.

   JavaScript runs one call stack at a time, so the interleavings are those of
   macrotasks (message events, timers, host calls) and of settled promises, and
   every consumer callback is a place where another public method may be called
   before the caller continues. `stack` is the part of the call stack that
   matters: a drain loop, a start or a navigation that has more to do, or the
   consumer callback called from one. A callback after which its caller does nothing
   more has no frame: whatever it may call, the caller's caller may call as well. *)
EXTENDS Integers, Sequences, SequencesExt

CONSTANTS
  Origins,        \* every origin a message event can carry
  Allowed,        \* the ones the unlocked detector trusts
  NoOrigin,       \* "not locked"
  NoUpdate,       \* "nothing retained for replay"
  Validated,      \* whether options.validateToken is configured
  MaxEvents,      \* bound: message events, attachments and advances in a behaviour
  MaxStack        \* bound: nested drains, starts, navigations and callbacks

ASSUME OriginsAssumption ==
  /\ Allowed \subseteq Origins
  /\ NoOrigin \notin Origins
ASSUME BoundsAssumption ==
  /\ MaxEvents \in Nat
  /\ MaxStack \in Nat
ASSUME ValidatedAssumption == Validated \in BOOLEAN

VARIABLES
  attached,            \* attachedTarget # undefined
  suspended,           \* the runtime was suspended, not destroyed
  replayRetainedOnStart,
  generation,
  revision,
  queue,               \* the linked list queueHead..queueTail
  verdict,             \* what each arrival's validator has said so far
  arrived,             \* the arrivals, in order: the pending objects live on after a reset
  lastAccepted,
  replayedGeneration,
  connected,           \* ConnectionState of the runtime behind onUpdate
  locked,              \* the detector's locked origin
  stack,               \* drain loops, starts, navigations and consumer callbacks on the call stack
  history              \* what the bus has handed to onUpdate and onReplay, in order

sessionVars == <<attached, suspended, replayRetainedOnStart>>
busVars == <<sessionVars, generation, revision, queue, verdict, arrived>>
replayVars == <<lastAccepted, replayedGeneration>>
hostVars == <<connected, locked>>
vars == <<busVars, replayVars, hostVars, stack, history>>

(* "data" carries a document, "ready" is the data-less handshake, "bare" has
   neither and still needs a token. *)
Kinds == {"data", "ready", "bare"}
Verdicts == {"open", "yes", "no", "unasked"}

Arrivals ==
  [id : Nat, kind : Kinds, origin : Origins, generation : Nat, revision : Nat]
Accepted == [id : Nat, origin : Origins, generation : Nat]
DrainFrames == [frame : {"drain"}, generation : Nat]
CallbackFrame == [frame |-> "callback", generation |-> 0]
NavigationFrame == [frame |-> "navigation", generation |-> 0]
StartFrames == [frame : {"start"}, generation : Nat]
Frames == DrainFrames \cup StartFrames \cup {CallbackFrame, NavigationFrame}
Events ==
  [event : {"update", "replay", "forget"}, id : Nat, kind : Kinds,
   origin : Origins \cup {NoOrigin}, generation : Nat, revision : Nat]

TypeOK ==
  /\ attached \in BOOLEAN
  /\ suspended \in BOOLEAN /\ replayRetainedOnStart \in BOOLEAN
  /\ generation \in Nat
  /\ revision \in Nat
  /\ queue \in Seq(Arrivals)
  /\ arrived \in Seq(Arrivals)
  /\ verdict \in Seq(Verdicts)
  /\ Len(verdict) = Len(arrived)
  /\ lastAccepted \in Accepted \cup {NoUpdate}
  /\ replayedGeneration \in Nat
  /\ connected \in BOOLEAN
  /\ locked \in Origins \cup {NoOrigin}
  /\ stack \in Seq(Frames)
  /\ history \in Seq(Events)

Init ==
  /\ attached = FALSE
  /\ suspended = FALSE /\ replayRetainedOnStart = FALSE
  /\ generation = 0
  /\ revision = 0
  /\ queue = <<>>
  /\ verdict = <<>>
  /\ arrived = <<>>
  /\ lastAccepted = NoUpdate
  /\ replayedGeneration = 0
  /\ connected = FALSE
  /\ locked = NoOrigin
  /\ stack = <<>>
  /\ history = <<>>

---------------------------------------------------------------------------
(* Guards *)

Idle == stack = <<>>
InCallback == ~Idle /\ Last(stack) = CallbackFrame
InFrame(name) == ~Idle /\ Last(stack).frame = name

(* A host call, a message or a navigation comes between tasks or out of a
   consumer callback; a timer or a settled promise comes between tasks only. *)
HostMayCall == Idle \/ InCallback

WithinBound == Len(arrived) + generation < MaxEvents

IsCurrentGeneration(g) == attached /\ generation = g

MutTrustsUnlocked(origin) == origin \in Allowed
Trusts(origin) == IF locked = NoOrigin THEN origin \in Allowed ELSE origin = locked

\* detach, attach and advanceGeneration all drop the whole chain.
ResetQueue == queue' = <<>>

MatchesOrigin(origin, g) == IsCurrentGeneration(g) /\ Trusts(origin)

---------------------------------------------------------------------------
(* Commit *)

Event(kind, m, g, rev) ==
  [event |-> kind, id |-> m.id, kind |-> m.kind, origin |-> m.origin,
   generation |-> g, revision |-> rev]

(* onUpdate reaches UpdatePipeline.acceptDataUpdate for a data message only; the
   first one of a connection fires "connect", on which the runtime locks the
   detector, and lockOrigin refuses an origin it does not trust now. *)
Connect(m) ==
  IF m.kind = "data" /\ ~connected
  THEN /\ connected' = TRUE
       /\ locked' = IF Trusts(m.origin) THEN m.origin ELSE locked
  ELSE UNCHANGED hostVars

(* commitUpdate: a data message is retained before the handler runs, unless it
   cannot be cloned. `within` is the stack while the handler, consumer code, runs. *)
CommitUpdate(m, within) ==
  IF IsCurrentGeneration(m.generation)
  THEN /\ IF m.kind = "data"
          THEN \E cloneable \in BOOLEAN :
                 lastAccepted' = IF cloneable
                                 THEN [id |-> m.id, origin |-> m.origin, generation |-> m.generation]
                                 ELSE NoUpdate
          ELSE UNCHANGED lastAccepted
       /\ Connect(m)
       /\ history' = Append(history, Event("update", m, m.generation, m.revision))
       /\ stack' = within
       /\ UNCHANGED replayedGeneration
  ELSE UNCHANGED <<replayVars, hostVars, history, stack>>

---------------------------------------------------------------------------
(* Ingress *)

NewArrival(kind, origin) ==
  [id |-> Len(arrived) + 1, kind |-> kind, origin |-> origin, generation |-> generation,
   revision |-> IF kind = "data" THEN revision + 1 ELSE 0]

\* The data-less handshake passes without a token, so the admin learns we listen.
Exempt(kind) == ~Validated \/ kind = "ready"

MutEnqueue(m) == queue' = <<m>> \o queue
Enqueue(m) == queue' = Append(queue, m)

(* receive + dispatchUpdate of a shape-valid message from a trusted origin. The
   revision is consumed before the token is validated. A validator that answers
   at once settles inside the call; any other leaves the verdict open. *)
Receive(kind, origin) ==
  /\ HostMayCall
  /\ WithinBound
  /\ Len(stack) + 1 < MaxStack
  /\ MatchesOrigin(origin, generation)
  /\ LET m == NewArrival(kind, origin)
     IN /\ arrived' = Append(arrived, m)
        /\ revision' = IF kind = "data" THEN revision + 1 ELSE revision
        /\ UNCHANGED <<sessionVars, generation>>
        /\ \/ /\ Exempt(kind)
              /\ verdict' = Append(verdict, "unasked")
              /\ CommitUpdate(m, stack)
              /\ UNCHANGED queue
           \/ /\ ~Exempt(kind)
              /\ Enqueue(m)
              /\ \E v \in {"open", "yes", "no"} :
                   /\ verdict' = Append(verdict, v)
                   /\ stack' = IF v = "open" THEN stack
                               ELSE Append(stack, [frame |-> "drain", generation |-> generation])
              /\ UNCHANGED <<replayVars, hostVars, history>>

\* Only a literal `true` approves, and a rejected promise is a refusal.
MutLosesRejection(approved) == IF approved THEN "yes" ELSE "open"
Answer(approved) == IF approved THEN "yes" ELSE "no"

(* settleValidation of a validator that answered later. Promise reactions run
   with an empty stack. The answer may be for a generation that is gone. *)
Settle(id, approved) ==
  /\ Idle
  /\ id \in DOMAIN arrived
  /\ verdict[id] = "open"
  /\ verdict' = [verdict EXCEPT ![id] = Answer(approved)]
  /\ stack' = Append(stack, [frame |-> "drain", generation |-> arrived[id].generation])
  /\ UNCHANGED <<sessionVars, generation, revision, queue, arrived, replayVars, hostVars, history>>

(* One turn of drainQueue's loop. *)
DrainStep ==
  /\ InFrame("drain")
  /\ LET g == Last(stack).generation
         m == Head(queue)
     IN \/ \* nothing to do, or the head is still being validated: the loop returns
           /\ \/ ~IsCurrentGeneration(g)
              \/ queue = <<>>
              \/ queue # <<>> /\ MatchesOrigin(m.origin, g) /\ verdict[m.id] = "open"
           /\ stack' = Front(stack)
           /\ UNCHANGED <<busVars, replayVars, hostVars, history>>
        \/ \* the origin lock closed on another origin after this one arrived
           /\ IsCurrentGeneration(g)
           /\ queue # <<>>
           /\ ~MatchesOrigin(m.origin, g)
           /\ queue' = Tail(queue)
           /\ UNCHANGED <<sessionVars, generation, revision, verdict, arrived,
                          replayVars, hostVars, stack, history>>
        \/ \* rejected token: onInvalid emits the error event to consumer code
           /\ IsCurrentGeneration(g)
           /\ queue # <<>>
           /\ MatchesOrigin(m.origin, g)
           /\ verdict[m.id] = "no"
           /\ queue' = Tail(queue)
           /\ stack' = Append(stack, CallbackFrame)
           /\ UNCHANGED <<sessionVars, generation, revision, verdict, arrived,
                          replayVars, hostVars, history>>
        \/ \* approved
           /\ IsCurrentGeneration(g)
           /\ queue # <<>>
           /\ MatchesOrigin(m.origin, g)
           /\ verdict[m.id] = "yes"
           /\ queue' = Tail(queue)
           /\ CommitUpdate(m, Append(stack, CallbackFrame))
           /\ UNCHANGED <<sessionVars, generation, revision, verdict, arrived>>

CallbackReturns ==
  /\ InCallback
  /\ stack' = Front(stack)
  /\ UNCHANGED <<busVars, replayVars, hostVars, history>>

---------------------------------------------------------------------------
(* The lifecycle's calls *)

(* replayLastAccepted: at most once per generation, and only what an older one
   accepted. *)
MayReplay ==
  /\ lastAccepted # NoUpdate
  /\ lastAccepted.generation < generation
  /\ replayedGeneration # generation
  /\ MatchesOrigin(lastAccepted.origin, generation)

Replay ==
  IF MayReplay
  THEN LET m == arrived[lastAccepted.id]
       IN /\ replayedGeneration' = generation
          /\ revision' = revision + 1
          /\ history' = Append(history, Event("replay", m, generation, revision + 1))
          /\ UNCHANGED lastAccepted
  ELSE UNCHANGED <<revision, replayVars, history>>

Forgotten ==
  [event |-> "forget", id |-> 0, kind |-> "bare", origin |-> NoOrigin,
   generation |-> generation, revision |-> 0]

MutForgetsGenerationOnly ==
  /\ replayedGeneration' = 0
  /\ UNCHANGED lastAccepted
  /\ history' = IF lastAccepted = NoUpdate THEN history ELSE Append(history, Forgotten)

(* forgetLastAccepted, with a mark in the history when it dropped something. *)
Forget ==
  /\ lastAccepted' = NoUpdate
  /\ replayedGeneration' = 0
  /\ history' = IF lastAccepted = NoUpdate THEN history ELSE Append(history, Forgotten)

(* onHeartbeatTimeout(): a new generation that knows nothing, and the origin lock is
   released. *)
TimeOut ==
  /\ WithinBound
  /\ generation' = generation + 1
  /\ ResetQueue
  /\ connected' = FALSE
  /\ locked' = NoOrigin
  /\ Forget

(* start(), as far as the handlers of `init`: attach opens a generation with an empty
   queue, and the messages these handlers post are taken into it. *)
Start ==
  /\ HostMayCall
  /\ Len(stack) + 1 < MaxStack
  /\ ~attached
  /\ WithinBound
  /\ attached' = TRUE
  /\ suspended' = FALSE
  /\ replayRetainedOnStart' = (replayRetainedOnStart \/ suspended)
  /\ generation' = generation + 1
  /\ ResetQueue
  /\ stack' = stack \o <<[frame |-> "start", generation |-> generation + 1], CallbackFrame>>
  /\ UNCHANGED <<revision, verdict, arrived, replayVars, hostVars, history>>

\* What a start's handlers take re-arms the heartbeat, and the old deadline is void.
TookSince(g) == \E i \in 1..Len(history) : history[i].event = "update" /\ history[i].generation >= g

(* The rest of start(), unless a handler stopped the runtime. The first start to get
   here after a suspension replays the retained document, if the heartbeat deadline did
   not pass while the page was away: then the timeout runs within the start. *)
StartGoesOn ==
  /\ InFrame("start")
  /\ stack' = Front(stack)
  /\ replayRetainedOnStart' = (replayRetainedOnStart /\ ~attached)
  /\ \/ /\ attached /\ replayRetainedOnStart
        /\ ~TookSince(Last(stack).generation)
        /\ TimeOut
        /\ UNCHANGED revision
     \/ /\ attached /\ replayRetainedOnStart
        /\ Replay
        /\ UNCHANGED <<generation, queue, hostVars>>
     \/ /\ ~attached \/ ~replayRetainedOnStart
        /\ UNCHANGED <<generation, revision, queue, replayVars, hostVars, history>>
  /\ UNCHANGED <<attached, suspended, verdict, arrived>>

(* suspend(): detach; the connection is gone, the retained document is not. *)
Suspend ==
  /\ HostMayCall
  /\ attached
  /\ attached' = FALSE
  /\ suspended' = TRUE
  /\ ResetQueue
  /\ connected' = FALSE
  /\ UNCHANGED <<replayRetainedOnStart, generation, revision, verdict, arrived,
                 replayVars, locked, stack, history>>

(* destroy(), of a running or a suspended runtime. *)
Destroy ==
  /\ HostMayCall
  /\ attached \/ suspended
  /\ attached' = FALSE
  /\ suspended' = FALSE
  /\ replayRetainedOnStart' = FALSE
  /\ ResetQueue
  /\ connected' = FALSE
  /\ Forget
  /\ UNCHANGED <<generation, revision, verdict, arrived, locked, stack>>

(* navigationCommit(), as far as the handlers of `cacheRefresh`: the queue goes with
   its generation. *)
NavigationCommit ==
  /\ HostMayCall
  /\ Len(stack) + 1 < MaxStack
  /\ attached
  /\ WithinBound
  /\ generation' = generation + 1
  /\ ResetQueue
  /\ stack' = stack \o <<NavigationFrame, CallbackFrame>>
  /\ UNCHANGED <<sessionVars, revision, verdict, arrived, replayVars, hostVars, history>>

\* The rest of it: the retained document, in the generation that the handlers left.
NavigationGoesOn ==
  /\ InFrame("navigation")
  /\ stack' = Front(stack)
  /\ Replay
  /\ UNCHANGED <<sessionVars, generation, queue, verdict, arrived, hostVars>>

\* The heartbeat: a timer, so never from inside a callback.
Expire ==
  /\ Idle
  /\ attached
  /\ TimeOut
  /\ UNCHANGED <<sessionVars, revision, verdict, arrived, stack>>

---------------------------------------------------------------------------
Next ==
  \/ \E kind \in Kinds, origin \in Origins : Receive(kind, origin)
  \/ \E id \in 1..MaxEvents, approved \in BOOLEAN : Settle(id, approved)
  \/ DrainStep
  \/ CallbackReturns
  \/ Start
  \/ StartGoesOn
  \/ Suspend
  \/ Destroy
  \/ NavigationCommit
  \/ NavigationGoesOn
  \/ Expire

Spec == Init /\ [][Next]_vars

---------------------------------------------------------------------------
(* Safety *)

(* The documents the page is handed carry strictly increasing revisions and never go
   back to an earlier generation, whatever order the validators answer in and whatever
   a callback does to the bus meanwhile (ADR 0004). Only a document that a handler
   posted between the opening of a generation and its replay may come with a lower
   revision than that replay, and than nothing else. *)
IsDocument(e) == e.event # "forget" /\ e.kind = "data"
Outran(e, f) == e.event = "replay" /\ f.event = "update" /\ e.generation = f.generation
RevisionsIncrease ==
  \A i, j \in 1..Len(history) :
    i < j /\ IsDocument(history[i]) /\ IsDocument(history[j]) =>
      /\ history[i].revision < history[j].revision \/ Outran(history[i], history[j])
      /\ history[i].generation <= history[j].generation

(* Token outcomes commit in message-arrival order: a synchronous verdict never
   overtakes an earlier message that is still being validated. The exempt
   handshake and the document-less messages are ordered among themselves only. *)
IsCommit(e) == e.event = "update" /\ e.kind # "ready"
CommitsInArrivalOrder ==
  \A i, j \in 1..Len(history) :
    i < j /\ IsCommit(history[i]) /\ IsCommit(history[j]) => history[i].id < history[j].id

(* With a validator configured, only a message whose own token was approved is
   ever handed to the page; the handshake alone is exempt. *)
OnlyApprovedCommits ==
  Validated => \A i \in 1..Len(history) :
                 IsCommit(history[i]) => verdict[history[i].id] = "yes"

(* Between tasks the queue head is a message that is still being validated and
   whose origin is still trusted: nothing settled, and nothing from an origin
   the lock has shut out, holds back the messages behind it. *)
HeadNeverBlocks ==
  Idle /\ queue # <<>> =>
    /\ attached
    /\ verdict[Head(queue).id] = "open"
    /\ MatchesOrigin(Head(queue).origin, generation)
    /\ \A i \in DOMAIN queue : queue[i].generation = generation

(* What the page is handed is in order, approved and newer than what it was
   handed before, and nothing that is settled or shut out holds it back (and the
   state keeps its types). *)
DispatchIsSound ==
  TypeOK /\ RevisionsIncrease /\ CommitsInArrivalOrder /\ OnlyApprovedCommits /\ HeadNeverBlocks

(* What is replayed is the document the page was handed last, accepted in an
   older generation and not forgotten since, and a generation replays once. *)
IsNewestDocument(k, n) ==
  /\ history[k].event = "update"
  /\ history[k].kind = "data"
  /\ \A l \in (k + 1)..n :
       /\ history[l].event # "forget"
       /\ history[l].event = "update" => history[l].kind # "data"
ReplaysTheLastDocument ==
  /\ \A i \in 1..Len(history) : history[i].event = "replay" =>
       \E k \in 1..(i - 1) :
         /\ IsNewestDocument(k, i - 1)
         /\ history[k].id = history[i].id
         /\ history[k].generation < history[i].generation
  /\ \A i, j \in 1..Len(history) :
       i < j /\ history[i].event = "replay" /\ history[j].event = "replay" =>
         history[i].generation # history[j].generation

(* Once an update has locked the detector, no document from another origin
   reaches the page until the heartbeat releases the lock. *)
Dispatched == Len(history') > Len(history) /\ Last(history').event # "forget"
LockedOriginOnly ==
  [][Dispatched /\ locked # NoOrigin => Last(history').origin = locked]_vars

(* A verdict given in time is enough: when no more messages come, the queue is
   empty sooner or later. Nothing stays in it that no verdict can move. *)
QueueDrains == queue # <<>> ~> queue = <<>>

---------------------------------------------------------------------------
(* Code that is on the stack runs to its end, and every validator answers:
   the first is JavaScript, the second is what a host's validateToken promises. *)
Fairness ==
  /\ WF_vars(DrainStep)
  /\ WF_vars(CallbackReturns)
  /\ WF_vars(StartGoesOn) /\ WF_vars(NavigationGoesOn)
  /\ \A id \in 1..MaxEvents : WF_vars(\E approved \in BOOLEAN : Settle(id, approved))

FairSpec == Spec /\ Fairness

---------------------------------------------------------------------------
(* What the documentation says and the code does not do *)

(* ADR 0004: the newest accepted revision is the only current one. A handler of `init`
   or `cacheRefresh` that posts a document, under a validator that answers later, is
   given a revision before the replay of its generation is: the older document is
   handed over with the newer revision, and the pipeline drops the one that follows. *)
NewestRevisionIsNewest ==
  \A i, j \in 1..Len(history) :
    i < j /\ IsDocument(history[i]) /\ IsDocument(history[j]) =>
      history[i].revision < history[j].revision

=============================================================================
