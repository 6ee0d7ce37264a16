---------------------------- MODULE PluginManager ----------------------------
(* plugins/manager.ts with its resource scopes, scoped events and renderer layers,
   as a client drives it (client/index.ts: use, unuse, destroy).

   Mutations pass one queue in call order, except while a hook that the queue
   waits for is pending: then a call starts at once, since that hook may be
   waiting for it. A hook is an asynchronous function of the plugin's; between
   two of its steps the page and the other hooks go on. *)
EXTENDS EventEmitter, Sequences, FiniteSets

CONSTANTS
  Names,         \* the plugins' names
  Incompatible,  \* the names whose plugin this version refuses
  Registrations, \* 1..n, the attempts to register a plugin
  MaxCalls,      \* bounds the calls of use, unuse and destroy
  Scenarios      \* bounds: calls, the resources used, emissions or not

Kinds == {"layer", "cleanup", "on", "once"}

ASSUME ManagerAssumption ==
  /\ Incompatible \subseteq Names
  /\ IsFiniteSet(Registrations) /\ Registrations \subseteq Nat \ {0}
  /\ MaxCalls \in Nat
  /\ Scenarios \subseteq [calls : 0..MaxCalls, kinds : SUBSET Kinds, emissions : SUBSET Emissions]

VARIABLES
  scenario,     \* chosen once
  calls,        \* the calls of use, unuse and destroy, in call order
  queue,        \* the calls that wait for the mutation queue
  busy,         \* the call the queue has started and waits for, or 0
  queuedHooks,  \* pending hooks that the queue waits for
  regs,         \* each registration: its name, where it is, its scope and hook
  made,         \* the resources each registration has ever made, one of a kind
  holds,        \* the resources its scope tracks
  cleanups,     \* the registrations that hold something acquired by the plugin itself
  stack,        \* the renderer layers of one field type
  shown,        \* the layer in force, 0 for the built-in renderer
  called,       \* how often each handler has started
  destroyed,    \* the client is destroyed
  tornDown      \* its teardown has ended

callVars == <<calls, queue, busy, queuedHooks, regs>>
resourceVars == <<made, holds, cleanups, stack, shown, regular, once>>
clientVars == <<destroyed, tornDown>>
managerVars == <<scenario, callVars, resourceVars, emission, called, clientVars>>

PageHandler == <<0, "once">>
Subscription == Registrations \X {"on", "once"}
ASSUME HandlersAssumption == Handlers = Subscription \cup {PageHandler}

\* A call, how far it is, and what it still has to sweep.
IsCall(call) ==
  /\ call = [op |-> call.op, name |-> call.name, queued |-> call.queued, at |-> call.at,
             reg |-> call.reg, holding |-> call.holding, rest |-> call.rest, by |-> call.by]
  /\ call.op \in {"use", "unuse", "destroy"}
  /\ call.name \in IF call.op = "destroy" THEN {None} ELSE Names
  /\ call.queued \in BOOLEAN /\ call.holding \in BOOLEAN
  /\ call.at \in {"queued", "hook", "removing", "sweeping", "sharing", "ended"}
  /\ call.reg \in Registrations \cup {0} /\ call.by \in Registrations \cup {0}
  /\ IsBucket(call.rest, Registrations)

ManagerTypeOK ==
  /\ EmitterTypeOK
  /\ DOMAIN calls = 1..Len(calls) /\ Len(calls) \in 0..MaxCalls
  /\ \A c \in DOMAIN calls : IsCall(calls[c])
  /\ queue \in Seq(1..Len(calls)) /\ busy \in 0..Len(calls)
  /\ queuedHooks \in Nat
  /\ regs \in [Registrations -> [name : Names \cup {None}, queued : BOOLEAN, call : 0..Len(calls),
                                 place : {"unused", "initializing", "active", "removed", "gone"},
                                 since : Nat,
                                 scope : {"staging", "active", "closed"},
                                 hook : {"none", "due", "running", "ended", "failed", "settled"}]]
  /\ made \in [Registrations -> SUBSET scenario.kinds]
  /\ holds \in [Registrations -> SUBSET scenario.kinds]
  /\ cleanups \subseteq Registrations
  /\ IsBucket(stack, Registrations) /\ shown \in Registrations \cup {0}
  /\ called \in [Handlers -> Nat]
  /\ destroyed \in BOOLEAN /\ tornDown \in BOOLEAN

ManagerInit ==
  /\ EmitterInit
  /\ scenario \in Scenarios
  /\ calls = << >> /\ queue = << >> /\ busy = 0 /\ queuedHooks = 0
  /\ regs = [r \in Registrations |->
               [name |-> None, queued |-> FALSE, call |-> 0,
                place |-> "unused", since |-> 0, scope |-> "staging", hook |-> "none"]]
  /\ made = [r \in Registrations |-> {}]
  /\ holds = [r \in Registrations |-> {}]
  /\ cleanups = {} /\ stack = Empty /\ shown = 0
  /\ called = [h \in Handlers |-> 0]
  /\ destroyed = FALSE /\ tornDown = FALSE

---------------------------------------------------------------------------
\* The entries of the three maps: initializing, plugins, teardowns.
At(place, name) == {r \in Registrations : regs[r].place = place /\ regs[r].name = name}

MutTaken(name) == At("initializing", name) \cup At("active", name) # {}
Taken(name) == At("initializing", name) \cup At("active", name) \cup At("removed", name) # {}

\* A teardown whose destroy hook is running.
Destroying(r) == regs[r].place = "removed" /\ regs[r].hook \in {"running", "ended", "failed"}

\* The map `plugins`, in the order of insertion.
Plugins == [r \in {s \in Registrations : regs[s].place = "active"} |-> regs[r].since]

---------------------------------------------------------------------------
(* plugins/resource-scope.ts and plugins/renderer-registry.ts *)

\* The last of the layers, 0 for none.
Top(layers) ==
  IF layers = Empty THEN 0
  ELSE CHOOSE r \in DOMAIN layers : \A s \in DOMAIN layers : layers[s] <= layers[r]

\* Removing the top layer reveals the one beneath; removing another changes nothing.
ShownAfter(gone) == IF Top(stack) \in gone THEN Top(Without(stack, gone)) ELSE shown

MutClose(rs) == UNCHANGED resourceVars
\* close: every resource of these scopes is released.
Close(rs) ==
  /\ UNCHANGED made
  /\ holds' = [r \in Registrations |-> IF r \in rs THEN {} ELSE holds[r]]
  /\ cleanups' = cleanups \ rs
  /\ stack' = Without(stack, rs)
  /\ shown' = ShownAfter(rs)
  /\ regular' = Without(regular, rs \X {"on"})
  /\ once' = Without(once, rs \X {"once"})

\* The acquisition of resources of a scope: at its commit, or later one by one.
Acquire(r, kinds) ==
  /\ IF "layer" \in kinds
     THEN stack' = Added(stack, r) /\ shown' = r
     ELSE UNCHANGED <<stack, shown>>
  /\ regular' = IF "on" \in kinds THEN Added(regular, <<r, "on">>) ELSE regular
  /\ once' = IF "once" \in kinds THEN Added(once, <<r, "once">>) ELSE once

\* Plugin code registers a resource, from its hook or with a context it kept.
Register(r, kind) ==
  /\ regs[r].place # "unused"
  /\ kind \in scenario.kinds \ made[r]
  /\ regs[r].scope # "closed"
  /\ made' = [made EXCEPT ![r] = @ \cup {kind}]
  /\ holds' = [holds EXCEPT ![r] = @ \cup {kind}]
  /\ cleanups' = IF kind = "cleanup" THEN cleanups \cup {r} ELSE cleanups
  /\ IF regs[r].scope = "active"
     THEN Acquire(r, {kind})
     ELSE UNCHANGED <<stack, shown, regular, once>>
  /\ UNCHANGED <<scenario, callVars, emission, called, clientVars>>

---------------------------------------------------------------------------
(* The start of a call, from the queue or on the direct path. `cs` are the calls,
   this one among them. *)

Ended(cs, c) == [cs EXCEPT ![c].at = "ended"]
\* What a call does when a removal has nothing to wait for, or no more.
Onward(call) == IF call.op = "destroy" THEN "sweeping" ELSE "ended"

UseStarts(cs, c) ==
  LET call == cs[c] IN
  \/ /\ Taken(call.name) \/ call.name \in Incompatible
     /\ calls' = Ended(cs, c)
     /\ UNCHANGED <<queuedHooks, regs, resourceVars>>
  \/ /\ ~Taken(call.name) /\ call.name \notin Incompatible
     /\ \E r \in Registrations :
          /\ regs[r].place = "unused"
          /\ \A s \in Registrations : s < r => regs[s].place # "unused"
          /\ calls' = [cs EXCEPT ![c].at = "hook", ![c].reg = r]
          /\ regs' = [regs EXCEPT ![r] = [@ EXCEPT !.name = call.name, !.queued = call.queued,
                                          !.call = c, !.place = "initializing", !.hook = "running"]]
     /\ queuedHooks' = IF call.queued THEN queuedHooks + 1 ELSE queuedHooks
     /\ UNCHANGED resourceVars

\* unregisterNow on the way of `c`, which goes on as `onward` when it need not wait.
UnregisterNow(cs, c, name, onward) ==
  \/ \E r \in At("initializing", name) :
       /\ regs' = [regs EXCEPT ![r].scope = "closed"]
       /\ Close({r})
       /\ calls' = [cs EXCEPT ![c].at = onward]
       /\ UNCHANGED queuedHooks
  \/ \E r \in At("removed", name) :
       /\ IF Destroying(r)
          THEN calls' = [cs EXCEPT ![c].at = onward] /\ UNCHANGED queuedHooks
          ELSE /\ calls' = [cs EXCEPT ![c].at = "removing", ![c].reg = r,
                                      ![c].holding = cs[c].queued]
               /\ queuedHooks' = IF cs[c].queued THEN queuedHooks + 1 ELSE queuedHooks
       /\ UNCHANGED <<regs, resourceVars>>
  \/ \E r \in At("active", name) :
       /\ regs' = [regs EXCEPT ![r] = [@ EXCEPT !.place = "removed", !.since = 0, !.scope = "closed",
                                       !.hook = "due", !.queued = cs[c].queued]]
       /\ Close({r})
       /\ calls' = [cs EXCEPT ![c].at = "removing", ![c].reg = r, ![c].holding = FALSE]
       /\ UNCHANGED queuedHooks
  \/ /\ ~Taken(name)
     /\ calls' = [cs EXCEPT ![c].at = onward]
     /\ UNCHANGED <<queuedHooks, regs, resourceVars>>

\* destroyAllNow: every pending init is cancelled, the registered names are swept.
DestroyStarts(cs, c) ==
  LET pending == {r \in Registrations : regs[r].place = "initializing"} IN
  /\ regs' = [r \in Registrations |->
                IF r \in pending THEN [regs[r] EXCEPT !.scope = "closed"] ELSE regs[r]]
  /\ Close(pending)
  /\ calls' = [cs EXCEPT ![c].at = "sweeping", ![c].rest = Plugins]
  /\ UNCHANGED queuedHooks

Starts(cs, c) ==
  \/ cs[c].op = "use" /\ UseStarts(cs, c)
  \/ cs[c].op = "unuse" /\ UnregisterNow(cs, c, cs[c].name, "ended")
  \/ cs[c].op = "destroy" /\ DestroyStarts(cs, c)

---------------------------------------------------------------------------
(* The calls *)

MutDirect == FALSE
Direct == queuedHooks > 0

(* client/index.ts: a destroyed client registers nothing, a torn down one removes
   nothing, and the teardown begins once: a later destroy() is DestroyAgain. *)
Allowed(op) ==
  CASE op = "use" -> ~destroyed
    [] op = "unuse" -> ~tornDown
    [] op = "destroy" -> ~destroyed

(* A call of the page (`by` is 0) or of a hook, which may wait for its end: it
   starts at once on the direct path and is queued otherwise. *)
Call(op, name, by) ==
  LET c == Len(calls) + 1
      cs == Append(calls, [op |-> op, name |-> name, queued |-> ~Direct, at |-> "queued",
                           reg |-> 0, holding |-> FALSE, rest |-> Empty, by |-> by]) IN
  /\ c <= scenario.calls
  /\ Allowed(op)
  /\ destroyed' = (destroyed \/ op = "destroy")
  /\ IF Direct
     THEN Starts(cs, c) /\ UNCHANGED queue
     ELSE /\ queue' = Append(queue, c)
          /\ calls' = cs
          /\ UNCHANGED <<queuedHooks, regs, resourceVars>>
  /\ UNCHANGED <<scenario, busy, emission, called, tornDown>>

(* Whoever calls destroy() of a destroyed client gets the promise of the first call,
   which may be the one that waits for the caller. *)
DestroyAgain(by) ==
  /\ destroyed /\ Len(calls) < scenario.calls
  /\ calls' = Append(calls, [op |-> "destroy", name |-> None, queued |-> FALSE, at |-> "sharing",
                             reg |-> 0, holding |-> FALSE, rest |-> Empty, by |-> by])
  /\ UNCHANGED <<scenario, queue, busy, queuedHooks, regs, resourceVars, emission, called, clientVars>>

Asks(op, name, by) == Call(op, name, by) \/ (op = "destroy" /\ DestroyAgain(by))

QueueStarts ==
  /\ busy = 0 /\ queue # << >>
  /\ busy' = Head(queue)
  /\ queue' = Tail(queue)
  /\ Starts(calls, Head(queue))
  /\ UNCHANGED <<scenario, emission, called, clientVars>>

QueueGoesOn ==
  /\ busy # 0 /\ calls[busy].at = "ended"
  /\ busy' = 0
  /\ UNCHANGED <<scenario, calls, queue, queuedHooks, regs, resourceVars, emission, called, clientVars>>

\* The teardown a call waits for is over.
RemovalEnds(c) ==
  /\ calls[c].at = "removing" /\ regs[calls[c].reg].place = "gone"
  /\ calls' = [calls EXCEPT ![c].at = Onward(calls[c]), ![c].holding = FALSE]
  /\ queuedHooks' = IF calls[c].holding THEN queuedHooks - 1 ELSE queuedHooks
  /\ UNCHANGED <<scenario, queue, busy, regs, resourceVars, emission, called, clientVars>>

SweepNext(c) ==
  /\ calls[c].at = "sweeping"
  /\ \E r \in Registrations :
       /\ IsFirst(calls[c].rest, r)
       /\ UnregisterNow([calls EXCEPT ![c].rest = Without(@, {r})], c, regs[r].name, "sweeping")
  /\ UNCHANGED <<scenario, queue, busy, emission, called, clientVars>>

\* destroyAll is over: the client drops every listener that is left.
SweepEnds(c) ==
  /\ calls[c].at = "sweeping" /\ calls[c].rest = Empty
  /\ calls' = Ended(calls, c)
  /\ tornDown' = TRUE
  /\ regular' = Empty /\ once' = Empty
  /\ UNCHANGED <<scenario, queue, busy, queuedHooks, regs, made, holds, cleanups, stack, shown,
                 emission, called, destroyed>>

\* The promise of the first call is fulfilled.
SharedEnds(c) ==
  /\ calls[c].at = "sharing" /\ tornDown
  /\ calls' = Ended(calls, c)
  /\ UNCHANGED <<scenario, queue, busy, queuedHooks, regs, resourceVars, emission, called, clientVars>>

---------------------------------------------------------------------------
(* The hooks *)

\* A hook that runs and waits for none of its own calls.
Free(r) ==
  /\ regs[r].hook = "running"
  /\ \A c \in DOMAIN calls : calls[c].by = r => calls[c].at = "ended"

\* It calls use, unuse or destroy and waits for the call; not waiting is a call of the page's.
HookCalls(r, op, name) == Free(r) /\ Asks(op, name, r)

HookEnds(r, result) ==
  /\ Free(r)
  /\ regs' = [regs EXCEPT ![r].hook = result]
  /\ UNCHANGED <<scenario, calls, queue, busy, queuedHooks, resourceVars, emission, called, clientVars>>

\* The end of a hook the queue waits for.
HookReleased(r) == queuedHooks' = IF regs[r].queued THEN queuedHooks - 1 ELSE queuedHooks

\* registerNow after init: nothing when it was cancelled, a commit, or the rollback.
InitContinues(r) ==
  /\ regs[r].place = "initializing" /\ regs[r].hook \in {"ended", "failed"}
  /\ HookReleased(r)
  /\ calls' = Ended(calls, regs[r].call)
  /\ \/ /\ regs[r].scope = "closed"
        /\ regs' = [regs EXCEPT ![r].place = "gone", ![r].hook = "none"]
        /\ UNCHANGED resourceVars
     \/ /\ regs[r].scope = "staging" /\ regs[r].hook = "failed"
        /\ regs' = [regs EXCEPT ![r].place = "gone", ![r].hook = "none", ![r].scope = "closed"]
        /\ Close({r})
     \/ /\ regs[r].scope = "staging" /\ regs[r].hook = "ended"
        /\ regs' = [regs EXCEPT ![r].place = "active", ![r].hook = "none", ![r].scope = "active",
                                   ![r].since = Added(Plugins, r)[r]]
        /\ Acquire(r, holds[r])
        /\ UNCHANGED <<made, holds, cleanups>>
  /\ UNCHANGED <<scenario, queue, busy, emission, called, clientVars>>

\* destroyPlugin: a plugin without a destroy hook has nothing to run.
TeardownStarts(r) ==
  /\ regs[r].hook = "due"
  /\ \/ regs' = [regs EXCEPT ![r].hook = "settled"] /\ UNCHANGED queuedHooks
     \/ /\ regs' = [regs EXCEPT ![r].hook = "running"]
        /\ queuedHooks' = IF regs[r].queued THEN queuedHooks + 1 ELSE queuedHooks
  /\ UNCHANGED <<scenario, calls, queue, busy, resourceVars, emission, called, clientVars>>

TeardownSettles(r) ==
  /\ regs[r].place = "removed" /\ regs[r].hook \in {"ended", "failed"}
  /\ regs' = [regs EXCEPT ![r].hook = "settled"]
  /\ HookReleased(r)
  /\ UNCHANGED <<scenario, calls, queue, busy, resourceVars, emission, called, clientVars>>

TeardownForgotten(r) ==
  /\ regs[r].hook = "settled"
  /\ regs' = [regs EXCEPT ![r].place = "gone", ![r].hook = "none"]
  /\ UNCHANGED <<scenario, calls, queue, busy, queuedHooks, resourceVars, emission, called, clientVars>>

---------------------------------------------------------------------------
(* plugins/scoped-events.ts, and the handlers of the page *)

PageSubscribes ==
  /\ scenario.emissions # {} /\ ~tornDown
  /\ called[PageHandler] = 0 /\ \A e \in Emissions : emission[e].part = "idle"
  /\ once' = Added(once, PageHandler)
  /\ once' # once
  /\ UNCHANGED <<scenario, callVars, made, holds, cleanups, stack, shown, regular,
                 emission, called, clientVars>>

\* The wrapper of a subscription: its scope is active and it was not disposed of.
Heard(h) ==
  \/ h = PageHandler
  \/ \E r \in Registrations : h[1] = r /\ regs[r].scope = "active" /\ h[2] \in holds[r]

\* The wrapper disposes of a once subscription before its handler starts.
Consumes(h) ==
  IF h # PageHandler /\ h[2] = "once"
  THEN holds' = [holds EXCEPT ![h[1]] = @ \ {"once"}] /\ once' = Without(once, {h})
  ELSE UNCHANGED <<holds, once>>

HandlerRuns(e, h) ==
  /\ Invoke(e, h)
  /\ IF Heard(h)
     THEN called' = [called EXCEPT ![h] = @ + 1] /\ Consumes(h)
     ELSE UNCHANGED <<called, holds, once>>
  /\ UNCHANGED <<scenario, callVars, made, cleanups, stack, shown, regular, clientVars>>

EmissionStep(e) ==
  /\ Emit(e) \/ Returns(e) \/ TakeOnce(e) \/ EmissionEnds(e) \/ EmissionStops(e)
  /\ UNCHANGED <<scenario, callVars, made, holds, cleanups, stack, shown, called, clientVars>>

---------------------------------------------------------------------------
ManagerSteps ==
  \/ QueueStarts \/ QueueGoesOn
  \/ \E c \in DOMAIN calls : RemovalEnds(c) \/ SweepNext(c) \/ SweepEnds(c) \/ SharedEnds(c)
  \/ \E r \in Registrations :
       InitContinues(r) \/ TeardownStarts(r) \/ TeardownSettles(r) \/ TeardownForgotten(r)

PluginSteps ==
  \E r \in Registrations :
    \/ \E result \in {"ended", "failed"} : HookEnds(r, result)
    \/ \E op \in {"use", "unuse"}, name \in Names : HookCalls(r, op, name)
    \/ HookCalls(r, "destroy", None)
    \/ \E kind \in Kinds : Register(r, kind)

PageSteps ==
  \/ \E op \in {"use", "unuse"}, name \in Names : Asks(op, name, 0)
  \/ Asks("destroy", None, 0)
  \/ PageSubscribes
  \/ \E e \in scenario.emissions : EmissionStep(e) \/ \E h \in Handlers : HandlerRuns(e, h)

ManagerNext == ManagerSteps \/ PluginSteps \/ PageSteps

ManagerSpec == ManagerInit /\ [][ManagerNext]_managerVars

\* Promise reactions run, and a hook that waits for nothing ends.
FairManagerSpec ==
  /\ ManagerSpec
  /\ WF_managerVars(QueueStarts) /\ WF_managerVars(QueueGoesOn)
  /\ \A c \in 1..MaxCalls :
       /\ WF_managerVars(c \in DOMAIN calls /\ RemovalEnds(c))
       /\ WF_managerVars(c \in DOMAIN calls /\ (SweepNext(c) \/ SweepEnds(c) \/ SharedEnds(c)))
  /\ \A r \in Registrations :
       /\ WF_managerVars(InitContinues(r)) /\ WF_managerVars(TeardownStarts(r))
       /\ WF_managerVars(TeardownSettles(r)) /\ WF_managerVars(TeardownForgotten(r))
       /\ WF_managerVars(\E result \in {"ended", "failed"} : HookEnds(r, result))

---------------------------------------------------------------------------
(* A resource is in use only while its registration is registered, or, for what
   the plugin acquired itself, while its scope is open: nothing outlives a removal,
   a failed or a cancelled init, and the layer in force is the last one left. *)
NothingOutlivesItsScope ==
  /\ \A r \in Registrations :
       /\ r \in cleanups => regs[r].scope # "closed"
       /\ r \in DOMAIN stack \/ <<r, "on">> \in DOMAIN regular \/ <<r, "once">> \in DOMAIN once
            => regs[r].place = "active"
  /\ shown = Top(stack)

(* One life per name at a time: a name is not registered again while an earlier
   registration of it still initialises, is registered or is torn down, so the hooks
   of two registrations of a name never overlap. *)
OneLifePerName ==
  \A r, s \in Registrations :
    /\ r # s /\ regs[r].name = regs[s].name /\ regs[r].name # None
    => regs[r].place = "gone" \/ regs[s].place = "gone"

(* The queue is open for direct calls exactly while it waits for a pending hook. *)
HooksAreCounted ==
  queuedHooks =
    Cardinality({r \in Registrations : regs[r].queued /\ regs[r].hook \in {"running", "ended", "failed"}})
    + Cardinality({c \in DOMAIN calls : calls[c].at = "removing" /\ calls[c].holding})

(* The hooks of a name take turns, and the queue knows which of them it waits for (and
   the state keeps its types). *)
HooksTakeTurns == ManagerTypeOK /\ OneLifePerName /\ HooksAreCounted

(* Whatever emissions overlap, and whatever they had in their snapshots: a handler that is
   gone, removed with its plugin or spent because it was a once handler, does not start. *)
GoneIsNotCalled ==
  [][\A h \in Handlers : called'[h] > called[h] =>
       /\ h \in Subscription => regs[h[1]].place = "active"
       /\ h[2] = "once" => called[h] = 0]_managerVars

\* What call c waits for: a call its hook awaits, those before it in the queue, the teardown.
WaitsFor(c, d) ==
  /\ calls[d].at # "ended"
  /\ \/ calls[c].at \in {"hook", "removing"} /\ calls[d].by = calls[c].reg
     \/ calls[c].at = "queued" /\ (d = busy \/ \E i, j \in DOMAIN queue :
                                                i < j /\ queue[i] = d /\ queue[j] = c)
     \/ calls[c].at = "sharing" /\ calls[d].op = "destroy" /\ calls[d].at # "sharing"

(* A hook waits for destroy(), and destroy() for that hook: directly, through the
   call that the hook belongs to, or through the ones before that in the queue. *)
Knot(S) == S # {} /\ \A c \in S : \E d \in S : WaitsFor(c, d)
DestroyWaitsForItself ==
  \E c \in DOMAIN calls :
    /\ calls[c].op = "destroy" /\ calls[c].by # 0 /\ calls[c].at # "ended"
    /\ \E S \in SUBSET DOMAIN calls : c \in S /\ Knot(S)

(* Every call of use, unuse and destroy ends, also those that hooks make and wait for:
   a hook may wait for any use() or unuse(), of its own name and of one whose hook
   waits for it. Only where a hook waits for a destroy() that waits for that very hook
   does anything wait for ever. *)
EveryCallEnds ==
  \A c \in 1..MaxCalls :
    c \in DOMAIN calls ~> (c \in DOMAIN calls /\ calls[c].at = "ended") \/ DestroyWaitsForItself

---------------------------------------------------------------------------
(* What the documentation says and the code does not do *)

(* A mutation asked for while a hook is pending starts at once, lest a hook that awaits
   it "would deadlock" (ADR 0005, lines 70-87), and re-entrant destroy() calls "observe
   the same completion" (docs/security.md:310). Of destroy() it is not so: a destroy
   hook that awaits it during the teardown, and an init hook whose use() the teardown
   is queued behind, wait for the promise that waits for them, and never end. *)
DestroyMayBeAwaited == ~DestroyWaitsForItself

(* client/index.ts:178: destroy tears down every plugin. No registration is left
   that still can register resources or has them in use. *)
DestroyedHasNoPlugins ==
  tornDown => \A r \in Registrations : regs[r].place = "unused" \/ regs[r].scope = "closed"
=============================================================================
