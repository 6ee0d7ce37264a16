# A TLA+ verification of payload-live-preview

`payload-live-preview` shows what an editor types in Payload's admin panel on the
real page, before anything is saved. The admin window posts the form as a
message; a runtime in the page turns each message into a *revision* and carries
it to the DOM, asking the server where the browser alone cannot know the result.

The hard part is time. JavaScript runs one call stack at a time, but a revision
crosses many of them: a token validator that answers later, a merge request, a
`beforeUpdate` handler, a debounce, an animation frame, an intersection
observer, fragment and route requests with their own windows and retries. A newer
message, a navigation, a lost connection or a save can fall between any two. The
tests of the repository drive chosen orders of these; the modules here let TLC
try every order on small pages, and let TLAPS show some of the results for every
page and every timing.

All paths below are relative to the repository root and start with `src/`, which
here stands for the repository; the library's own code is in `src/src`.

## 1. Inventory

### The browser runtime

| part | code | state it keeps | operations | what must hold |
|---|---|---|---|---|
| message bus | `core/message-bus.ts` | attachment, generation, revision counter, queue of messages under validation, last accepted document | receive, settle a verdict, drain, commit, replay, forget, attach, detach, advance | documents reach the page in order, approved, from the locked origin; the queue never stands still; a replay brings back the right document once |
| origin lock | `detection/origin.ts` | locked origin | lock on the first update, release on timeout | as above |
| lifecycle | `core/lifecycle.ts`, `startup.ts`, `state.ts` | running / suspended, connection, heartbeat | start, suspend, destroy, navigate, time out | nothing of an older session acts in the next |
| update pipeline | `core/update-pipeline.ts`, `runtime-state.ts` | the active transaction, its resolved fields, counters | accept, resolve, gate on handlers, apply, refine, flush | the page ends at the newest values; each revision ends in exactly one way |
| merge need, data merger | `core/merge-need.ts`, `data-merger.ts` | carried-over document, burst window, queued request, newest attempt | decide, request, answer, time out | a needed population is not forgotten; no stale answer is recorded; everyone gets an outcome |
| scheduler | `core/update-scheduler.ts` | buffer, running flush, deferred writes, timers, owning revision | schedule, accept, cancel, flush, notify visible, forget, destroy | no write is lost or comes back; nothing writes for a superseded revision; nothing fires after a close |
| revision display | `core/revision-display.ts` | the newest revision's shortfalls and last report | begin, shortfall, settle | every revision reports how it ended |
| strategy runner | `core/strategy-runner.ts`, `runtime-state.ts` | fragment batches, route refresh, trailing retry, debts | plan, run, escalate, refresh, re-apply, supersede | every edit is rendered by someone; counts complete; no loops |
| fragment gate | `fragment/gate.ts` | permits, queue | run, abort, hand over | limit, no lost permit, order |
| fragment handler | `fragment/handler.ts`, `abort.ts`, `index.ts` | requests in flight by boundary | batch, share, abort | one answer per question, no abort of another's request, nothing late is shown |
| route strategy | `fragment/route.ts` | the minimum interval | refresh, refuse, ask to be retried | a refusal is retried |
| binding writer | `core/binding-writer.ts` | last applied identity per binding | apply, refuse | skipped writes are really on the page |
| islands | `core/islands.ts` | waiting confirmations | push, confirm | confirmation belongs to its revision |
| cache, observers, navigation replay | `core/cache.ts`, `observers.ts`, `navigation-replay.ts`, `lifecycle.ts` | bindings of elements, who is visible, entries on their way, the mutation debounce | observe, mutate, rescan, report sight, navigate, resume | buffered work belongs to the binding it is for; what is in view is served |
| emitter, plugins, scopes | `events/`, `plugins/`, `core/lifetime-scope.ts` | handlers, registrations, the mutation queue, registered resources | subscribe, emit, use, unuse, destroy | teardown undoes exactly the installation; hooks of a name take turns; every call ends |
| bootstrap | `core/runtime.ts`, `runtime-registry.ts` | the live instance | boot, hand over | one instance writes |

The parts call each other on one thread. The bus calls the pipeline; the pipeline
asks the merger, then the emitter, then the strategy runner and the scheduler;
the scheduler calls back into the pipeline at the end of a flush; the strategy
runner calls the pipeline again when a route render has replaced the markup; the
display ledger is told by all of them. `RuntimeState` (`runtime-state.ts`) is the
memory they share, and `isCurrent(transaction)`, asked again after every await, is
what keeps an older revision from acting.

### Around it

| part | code | state it keeps | operations | what must hold |
|---|---|---|---|---|
| document session | `adapters/shared/document-session.ts`, `core/data-merger.ts` | subscribers, snapshot, revision, the merge under way | subscribe, leave, take a message, merge, publish | the snapshot is that of the newest message; a request nobody waits for any more is aborted |
| preview session | `security/preview-session.ts` | per fetch function, which form of `/me` the CMS takes | ask with the cookie alone, with the origin, learn | a lesson is kept; a refusal is the CMS's |
| fragment endpoint | `adapters/shared/fragment-endpoint.ts` with the authorization hooks | per request its body, verdict, phase, deadlines | read, authorize, get props, render, stop | markup only for the authorized; every request is answered |

The rest is sequential: DOM scans, morphing and rendering of values, string
filters, parsing and configuration, command-line tools, glue to the frameworks,
examples and tests.

`PROJECT.json` lists every part with its sources and, for one that is not
modelled, the reason; its `hazards` are the places in the code where an order,
an abort or a stale value could go wrong, each with the properties that watch it.

## 2. The modules

| module | models | instances | theorems |
|---|---|---|---|
| `MessageBus` | ingress: `message-bus.ts`, the lifecycle's calls on it, the origin lock | `MCMessageBus` | `MessageBus_proofs` |
| `UpdateScheduler` | `update-scheduler.ts` | `MCUpdateScheduler` | `UpdateScheduler_proofs` |
| `UpdatePipeline` | `update-pipeline.ts` with `merge-need.ts`, `data-merger.ts`, the counters of `runtime-state.ts` | `MCUpdatePipeline` | `UpdatePipeline_proofs` |
| `StrategyRunner` | `strategy-runner.ts`, the planning half of `update-pipeline.ts`, the debts of `runtime-state.ts`, the outcomes of `fragment/route.ts` | `MCStrategyRunner` | `Strategies_proofs` |
| `RevisionDisplay` | `revision-display.ts` and the islands of `navigation-replay.ts`, `islands.ts` | `MCRevisionDisplay` | `Reports_proofs` |
| `PageBindings` | `cache.ts`, `observers.ts` and what `lifecycle.ts` makes of them | `MCPageBindings` | `PageBindings_proofs` |
| `RuntimeSession` | `lifecycle.ts`, `startup.ts`, `hydration.ts`, `state.ts`, `lifetime-scope.ts`, driven by `runtime.ts` and `navigation-lifecycle.ts` | `MCRuntimeSession` | `Lifecycles_proofs` |
| `EventEmitter` | one event of `events/emitter.ts` | through `PluginManager` | `Lifecycles_proofs` |
| `PluginManager` | `plugins/manager.ts` with its scopes and layers, driven by `client/index.ts` | `MCPluginManager` | `Lifecycles_proofs` |
| `FragmentGate` | `fragment/gate.ts` | through `FragmentRequests` | `Strategies_proofs` |
| `FragmentRequests` | `fragment/handler.ts`, `abort.ts` and the batch of `fragment/index.ts`, on top of `FragmentGate` | `MCFragmentRequests` | `Strategies_proofs` |
| `Semaphore` | what the gate promises | `PassesTheGate` | |
| `DocumentSession` | `adapters/shared/document-session.ts` with the attempts of `data-merger.ts` | `MCDocumentSession` | `Reports_proofs` |
| `LatestWins` | what a document session promises | `ImplementsLatestWins` | |
| `PreviewSession` | `authorizeSession` of `security/preview-session.ts` | through `FragmentEndpoint` | |
| `FragmentEndpoint` | `adapters/shared/fragment-endpoint.ts` and its authorization, on top of `PreviewSession` | `MCFragmentEndpoint` | `FragmentEndpoint_proofs` |

`EventEmitter`, `FragmentGate` and `PreviewSession` are components of their own that
`PluginManager`, `FragmentRequests` and `FragmentEndpoint` extend and drive: their
actions are conjuncts or disjuncts of the larger modules' actions, so one run
checks the composition. `Semaphore` and `LatestWins` are abstract specifications; a
refinement mapping in `FragmentRequests` and one in `DocumentSession` instantiate
them, and a run and a theorem show that the detailed module implements each.

Three modules of theorems serve two components each, which share no state (and at most
the constant `None`), and therefore have names of their own for the usual definitions:
`Strategies_proofs` the server-rendered strategies (`Spec` is that of the fragment
requests, `StrategySpec` that of the runner), `Reports_proofs` what is reported to
others (`Spec` of the document session, `DisplaySpec` of the ledger),
`Lifecycles_proofs` what is installed and removed again (`Spec` of the runtimes,
`ManagerSpec` of the plugins).

An action is one uninterrupted stretch of code: a task, or a promise reaction
between two awaits. `PROJECT.json` maps each definition to the lines it stands
for. Operators whose name starts with `Mut` are wrong variants of the definition
below them; no specification uses them. Each belongs to a property, and replacing
the definition by its variant makes TLC find that property violated: this is how
we know the property can fail.

**MessageBus.** `queue`, `generation`, `revision`, `lastAccepted` and
`replayedGeneration` are the fields of the class. `verdict` is what each arrival's
validator has said. Because a consumer callback may call the bus again before it
returns, the model has a `stack` of the callers that have more to do, a drain loop, a
start or a navigation, each with the callback called from it; while a callback is on top
every host call (`Start`, `Suspend`, `Destroy`, `NavigationCommit`, another `Receive`)
may run inside it, and timers and late verdicts need an empty stack. `Start` goes as far
as the handlers of `init` (`lifecycle.ts:265`) and `NavigationCommit` as far as those of
`cacheRefresh` (`479`), `StartGoesOn` and `NavigationGoesOn` do the rest, the replay
among it, in whatever session the handlers left. A callback that is the last thing its
caller does (that of a replay, of an exempt message) has no frame, as what it may call is
what the caller's own caller may call. `Connect` is what the runtime's `connect` listener does with the
detector. `history` is auxiliary: what the page was handed, in order.

**UpdateScheduler.** `pending`, `batch` and `replay` are the buffer, the map a
running flush iterates over and the writes deferred until their element is seen.
Time is discrete: `Tick` counts every timer down, a timer at zero fires before
time goes on, and a flush takes no time but is not atomic: between two
`FlushEntry` steps a renderer may accept or cancel a revision, schedule, scroll or
destroy. Revision numbers are given out in turn (`issued`), so a behaviour may hold any
number of revisions. `shown` and `latest` are auxiliary.

**UpdatePipeline.** A document is a value per field. Plain fields are complete in
the message, rich ones can be shown and completed, references are bare ids until
the server populates them (`Slot.full`). `phase` is where `processUpdate` stands:
waiting for a leading merge, about to emit `beforeUpdate`, in the handlers,
applied, ended. `requests` are the merge promises; `need` is `MergeNeed`, `newest`
the data merger's newest attempt. `MicrotasksDone` says that promise reactions run
before the next task; a message is exempt because consumer code may post one from
a reaction. The scheduler is its buffer here, with an atomic `Flush`. `site` is the
page, chosen at the start, so that one run covers several; so it is in `StrategyRunner`.

**StrategyRunner.** A page has *areas*: the bindings outside every boundary, each
fragment boundary, and what only a render of the whole route can show. Versions
are revision numbers; an area shows version *r* if it shows the edits up to *r*.
`batches` are the fragment controllers with what each has not settled,
`fragmentsOwed`, `routeOwed` and `awaitsSave` the debts of `RuntimeState`, `route`
and `retry` the refresh in flight and the trailing run. `identity` is what
`skipUnchanged` compares with, `handed` what the fidelity report handed over last,
`refused` the areas whose newest value their renderer will not take, `shows` the page.
`ScheduleAll` is `scheduleAllFields`: a revision that wants the route returns before
it plans fragments, and the re-apply plans them later.

**RevisionDisplay.** `entry` is the ledger's entry for the active revision, `said` the
last state reported. The scheduler, the strategies and the merge are here as far
as the ledger can see them (`writes`, `batch`, `route`, `retry`, `tx`): that work
is left, that it ended, what it left short. `fanout` is the set of islands one
`dispatch` has still to tell, in document order, because an island may confirm, or a handler end the
session, inside the very event; `waits` is `awaitingHydration`, `live` the
confirmations handed out and not called, of any revision.

**PageBindings.** The document (`page`, `inView`) changes under the runtime;
`cache` follows it when the mutation debounce (`timer`) ends. `seen`, `news` and
`visible` are the IntersectionObserver, its entries on their way, and what
`ObserverManager` believes. `pending` and `replay` are the scheduler's buffers, with
the field an entry writes. `Rebuild` is `refreshCache`: it forgets buffered work whose
binding is gone, and observes everything anew. `late` is auxiliary: bound after
the newest document was scheduled, and not served since.

**RuntimeSession.** `rt` holds the fields of each runtime a page bootstraps, with
what a wait has registered (`listens`, `waiter`, `cap`) kept apart from what it
believes (`waits`), so that a leftover of an abandoned wait would show. `Start`,
`AfterParse`, `Hydrated` and `StartedNow` are the stages of `startup.ts`; a stage may
fail, be stopped by a handler, or throw after it began to listen. `Steps` lets
every runtime that hears an event take its own outcome. `silence` and `beat` are
`lastKick` and the heartbeat timer, which stops while the page is hidden although
time goes on.

**EventEmitter and PluginManager.** What keeps the order of insertion in the code, a
`Set` of handlers, a `Map` of plugins, the array of layers, is a function from its
members to places (`IsBucket`); a member that is added again keeps its place, a new one
gets the place after the last. `since` is a plugin's place in the map, which gives
`destroy` its order. An emission takes a snapshot of its bucket and
awaits one handler after the other. `calls` are the calls of `use`, `unuse` and
`destroy`; `queue`, `busy` and `queuedHooks` the mutation queue and why a call may pass
it; `regs` the registrations with the part each is in (`place`), its scope and its
pending hook. A `destroy()` after the first waits for the promise of the first
(`DestroyAgain`, `sharing`), whoever calls it. A hook is an asynchronous function of the
plugin's that acquires
resources between its steps, calls `use`, `unuse` or `destroy` and waits for the call,
and ends or fails; it may also be overtaken by its own removal.

**FragmentGate and FragmentRequests.** Each call of the gate is idle, waiting,
granted (the releaser handed it the permit, its continuation has not run),
running, done or refused; the gap at `granted` is what the gate's comments are
about. On top, a batch asks for all its elements in one turn, in the order `PlaceOf` gives
them on the page; `turn` are those still to ask, `leader` is the call
an element shares, `job` how far its request is (in flight, reading the body), and
`deadline` the timer of `linkedTimeout`. The injected fetch is external and honours
its signal.

**DocumentSession.** `calls` are the runs of `#handle`, one per message taken,
`attempt` and `inflight` the merger's. `publishing` is the part of the call stack
that matters: while the listeners hear the loading snapshot they may leave and come
back, before `#handle` goes on. `Return` is the microtask between the end of a merge
and the code that waited for it.

**PreviewSession and FragmentEndpoint.** A session call asks `/me` in the form its
map remembers (`registered`, `maps`), falls back to the other, and learns. A 401 and an
answer without a user to read refuse at once and teach nothing (`MeDenies`;
`docs/authorization.md:87-90`); any other failure leaves the visitor unknown
(`MeFails`). A request
passes `body`, `authorize`, `props` and `render`; whatever a stopped phase has
started goes on and its late result is dropped, but its session call still teaches
the map. Inputs are records of what a request brings; `Worlds` lists the cases.

## 3. What is checked

Passing runs. "States" are distinct states.

| run | instance | states | it shows |
|---|---|---|---|
| `bus` | two trusted origins and a foreign one, 5 messages, attachments and advances, stack of 4, a validator | 2.4M | documents and revisions in order, approved, from the locked origin; the head of the queue is under validation; the right document is replayed, once; the queue drains |
| `scheduler` | an element and a boxless anchor, 2 values, 2 revision numbers in turn, gate on | 0.33M | no write lost or resurrected; no stale writer; quiet when closed; flushed under continuous writing within a revision |
| `pipeline` | two pages: heading and relationship, rich text behind handlers with saves of related documents; 2 values, 3 revisions | 3.2M | the page ends at the newest values through leading, queued, late and failing merges and awaited handlers; references stay populated; a cancelled revision writes nothing; the counters add up |
| `strategies` | four pages: a boundary and a route, 3 revisions; the same with timeouts and saves, 2; one that renders the route after a save only, 2; two boundaries without a route, refinements and timeouts, 2 | 1.2M | the revision completes when its work ends; the page shows the newest edits; every boundary is rendered for its newest edit; an owed refresh stays owed; everything comes to rest |
| `display` | two islands, one of which hydrates late, 2 revisions, a save, a route | 1.2M | when the work is done its end was reported; the islands heard it; exactly the confirmations that were handed out are awaited |
| `bindings` | 2 nodes, 2 fields, gate from 2 bound nodes on, 2 entries on their way | 1.0M | the cache follows the page, buffered work never outlives its binding, no deferred write is stranded, what is in view is served |
| `session` | 3 bootstraps, two of which wait for a hydration, heartbeat of 3 ticks, 3 ready retries | 28k | one runtime at most is alive and the page can reach it; a stopped one is quiet; trust ends on time through pauses; every start ends |
| `plugins` | 4 registrations of 2 names, 2 emissions, four scenarios (queue, scopes, emission, overlap) | 0.54M | resources end with their scope, the hooks of a name take turns, nothing that was removed is called, every call ends unless a hook waits for the destroy() that waits for it |
| `requests` | 5 elements in 2 batches of one revision number, 1 permit | 0.33M | answers are shared within a batch and a boundary only, the gate is a semaphore, nothing late is shown, every element ends |
| `document` | 2 listeners, 3 of 5 kinds of messages, 3 kinds of sessions, a deadline, one departure | 4.3M | the snapshot is that of a document that was asked for, one merge is in flight, and the session implements `LatestWins` |
| `endpoint` | 2 requests, a limit of 2 bytes, the worlds of `MCFragmentEndpoint` | 0.20M | only a whole body of an authorized caller is rendered, every refusal is the right one, a lesson about the CMS stays, every request is answered |

**Bounds.** Three messages, revisions or generations are the least that show
"an older one, the one it was superseded by, and a newer one on top", which the
ordering and debt properties need: a leading request, a queued one, and one
that drops the queued one; a refresh, the one that replaces it and the trailing
run. `MaxEvents` of the bus lets an attachment, two messages, a navigation and a message
before its replay fall into one behaviour, or two generations with three messages. The
scheduler, the ledger and the strategies' debts need two revisions, because their
state belongs to one owner at a time and only the handover matters; the scheduler gives
its two numbers out in turn, because all the code asks of one is whether it is the
owner's. Two boundaries are the least that make
batches overlap partly; five elements in two batches with one permit the least
with a shared answer, a queue and a hand-over to the other batch. Three bootstraps
are the least with a handover between two others. `MaxStack` admits a drain, a
callback out of it, a start or a navigation out of that, and its callback. A limit of two bytes has a
body below, at and above it that comes in one or several chunks. Values, nodes and
fields are interchangeable; where no liveness is checked the runs use that
symmetry. Deadlock is not an error in any run: every component really comes to rest
when nothing more arrives, and the liveness properties say what must have happened
by then. One entry of the table stands for several pages or scenarios where `Init`
chooses among them.

**Fairness.** Each `FairSpec` states what the environment grants and no more: code
on the stack runs on, promise reactions run, timers fire, a requested frame or
its fallback comes. What else is assumed is assumed by name:

* `QueueDrains`: callbacks return, what called them goes on, and validators answer; the
  bus has no deadline for them.
* `EventuallyFlushed`: nothing but timers, frames and a flush that runs to its end. A
  newer revision, a cancellation or a removed element ends the obligation.
* `EventuallyAtRest`: fragment and route requests end, because they carry a timeout.
* `EveryCallEnds`: a hook that waits for none of its own calls ends; one that waits
  for a call of the manager only goes on when that call has ended. A hook that waits
  for a `destroy()` that waits for the hook is the one exception (section 4).
* `EveryStartEnds`: the document is parsed in the end; the cap ends a wait for hydration.
* `EveryElementEnds`: the deadline of a request; an endpoint may never answer.
* `EveryRequestIsAnswered`: the code's own timers, the session call and the verifier
  (the authorization has no phase deadline); a client may stop sending.

Messages, saves, navigations, aborts, hydrations, answers and scrolling are never
forced.

## 4. Where the code and its documentation disagree

Run `plugins_destroyed` expects a violation of `DestroyedHasNoPlugins`; TLC's
counterexample is the evidence. A hook that the mutation queue waits for calls
`destroy()`, which takes the direct path (`plugins/manager.ts:103`) past a `use()`
that still waits in the queue. The queue then registers its plugin after the
teardown, and nothing tears it down (`client/index.ts:178`).

Properties that state what the documentation says and the code does not do are kept
beside the others, after the heading that says so in their module. TLC finds each of
them violated on the instances of the runs, `UnshownEditsAwaitASave` on a page with
saves and `afterSave`:

* `NewestRevisionIsNewest` (`MessageBus`). ADR 0004 (`docs/architecture/0004`, line 79)
  makes the newest accepted revision the only current one. A handler of `init` or
  `cacheRefresh` (`lifecycle.ts:265`, `479`) that posts a document under a validator that
  answers later takes revision *r*, the replay that follows (`279`, `424`) takes *r* + 1,
  and the document is committed after it: the pipeline drops it as stale
  (`update-pipeline.ts:128-135`), and the page stays at the older one. Without such a
  handler revisions grow; `RevisionsIncrease` excepts just that pair.
* `KeyRepeatReachesThePage` (`UpdateScheduler`). `update-scheduler.ts:31` and `281` say
  that continuous scheduling (key repeat) must not postpone the flush forever. Each
  keystroke is a message and a revision of its own, and `acceptRevision` cancels the
  buffer, the debounce, the deadline and the frame of the one before (`162-171`,
  `421-434`): whoever types faster than the debounce sees at most the first keystroke, whose write
  opens the window and waits for a frame only, and then nothing until the first pause.
  `EventuallyFlushed` is what holds, within a revision.
* `DestroyMayBeAwaited` (`PluginManager`). ADR 0005 (lines 70-87) lets mutations start
  while a hook is pending, since a hook that awaits one would deadlock otherwise, and
  `docs/security.md:310` has re-entrant `destroy()` calls observe the same completion. A
  destroy hook that awaits `client.destroy()` during the teardown (`client/index.ts:180-202`,
  `manager.ts:315-334`), or a hook behind whose call the teardown is queued, waits for a
  promise that waits for the hook: none of these calls ends.
* `AnswerRefinesThePage` (`UpdatePipeline`). `skipUnchanged` compares with what a binding
  last applied, not with what the scheduler holds for it: a refinement back to the
  value on the page is skipped, and the unrefined write scheduled before it lands
  (`update-pipeline.ts:435`).
* `UnshownEditsAwaitASave` (`StrategyRunner`). Under `routeAfterSave` an edit made while
  a save's refresh is in flight sets `routeAwaitsSave`; when the refresh returns, `strategy-runner.ts:484`
  clears it, because that refresh was for a save. The save that follows renders nothing.
* `IslandsHearEveryRevision` (`RevisionDisplay`). `docs/renderers.md:490-493` says an
  island receives every revision that carried a change; a refinement that lands before
  the flush takes the change out of the transaction (`update-pipeline.ts:289-291`,
  `486-489`), and no island hears of the revision.
* `CurrentIsConfirmed` (`RevisionDisplay`). ADR 0023 (`docs/architecture/0023`, lines
  80-83) has `current` wait until every island has called `displayed()`; one that
  calls it inside its own event is counted before the next is handed the revision,
  which reports `current` too early (`revision-display.ts:164-171`,
  `navigation-replay.ts:82-97`).
* `HandoverListens` (`RuntimeSession`). `runtime.ts:50-55` hands over "replacement first,
  so a message in between still reaches one of them"; a replacement that waits for
  parsing or hydration does not listen yet when the old instance goes.
* `LoadingMeansWork` (`DocumentSession`). The snapshot stays `loading` when the last
  subscriber leaves during a merge (`document-session.ts:248`; line 36 says it
  means a merge under way).

`BoundariesAreServed` holds on pages without a route only: a revision that asks for
the route returns before it plans its fragments (`update-pipeline.ts:376`), and if a
newer one supersedes it before the re-apply, nobody owes its boundaries.

Modelling showed further places where a comment or document says more than the code
does:

* `requestFrame` clears the fallback timer of the request it replaces, and the
  debounce and the deadline each request anew (`update-scheduler.ts:278`, `285`, `294`): a
  write can wait for a frame longer than `FRAME_FALLBACK_MS`, "longest a write waits for
  an animation frame".
* `runtimeDisplayHost` (`revision-display.ts:204`) does not count a shared merge as
  outstanding, so a revision can report `current` before its refinement; ADR 0023
  lists the merge under `pending`.
* `applyMerged` (`update-pipeline.ts:333`) does not ask whether the `beforeUpdate`
  handlers have settled: a shared answer may be written while they run. The other
  way round, `processUpdate` applies the fields it resolved before the handlers ran
  over a shared answer that came meanwhile.
* A revision that opens a burst window awaits the answer before it renders
  (`update-pipeline.ts:321`), where `merge-need.ts:124` says it renders at once.
* A refinement during a route refresh empties the diff (`update-pipeline.ts:288`) the
  re-apply plans from, so a touched boundary is not rendered.
* A heartbeat timeout aborts a refresh in flight without a debt
  (`runtime-state.ts:273`), so the edit it was for is not refreshed later; the part of
  `EditsAreRendered` about the route is therefore about connections that hold.
* A save during a partial refresh finds nothing to do (`strategy-runner.ts:379`); the
  refresh then waits for a next save that is already past.
* Under `routeAfterSave` a revision that touches the route applies nothing and
  stays pending until the save, and the debt of a superseded refresh is dropped
  when the next revision asks, although that request only notes that it waits
  (`update-pipeline.ts:378`). Hence what the page shows and whether it rests is stated
  for pages without `routeAfterSave`; the debts and the counts hold with it too.
* With `beforeUpdate` handlers, the fields a revision resolved before they ran are
  applied over a shared answer that came meanwhile (`update-pipeline.ts:211-234`, `254`), and a
  populated relationship falls back to its bare id: `ReferencesStayPopulated` is about
  pages without handlers.
* `preview-session.ts:197-200` and ADR 0006 allow one cookie-only try a minute to a CMS
  known to need the origin; a visitor no form would find, or a concurrent call,
  spends it too, so an editor may wait longer than a minute for the other form.
* `cache.ts:45-48` says a snapshot can never go stale, but two attributes it reads
  (`FRAGMENT_ATTRIBUTE`, `GUESSED_ATTRIBUTE`) are not among the observed
  `BINDING_ATTRIBUTES`.
* With a ready message that throws (`ReadyMayThrow = TRUE`; the shipped one does not) a
  start has already recovered the heartbeat when it is rolled back, and the next one
  does not recover it again: `TrustIsNotRenewed` fails.

## 5. What is proved

Eight modules hold theorems TLAPS checks for every value of the constants that meets the
modules' assumptions. Each follows one pattern: an inductive invariant (`IInv`, or
`StrategyInv`, `DisplayInv` and `ManagerInv`), one lemma per action that keeps it, and
theorems that draw the run's properties from it. TLC checked each of them on the run's
instance before it was proved.

**UpdateScheduler.** Assumed: `Debounce` and `FrameFallback` are positive, `MaxWait` is
larger than `Debounce` (`TimesAssumption`), `Anchors` are elements and `MaxRevision` is
a positive number (`SchedulerBoundsAssumption`). `Elements` and `Values` are arbitrary
sets, infinite ones included. Proved: `TypeOK`, `NoLostWrite`, `PendingIsArmed`,
`ClosedIsQuiet`, `DeferredIsHidden`, `BuffersBelongToOwner` and the action property
`OnlyTheOwnerWrites`. `IInv` is their conjunction with `BatchOnlyInFlush`; none but the
first is inductive alone. `NoLostWrite` says that the newest entry on the way of
pending, batch, deferred and page is the latest write; a flush entry is dropped when its
revision is not current, so it needs `BuffersBelongToOwner`, which makes that branch
dead; a new flush overwrites `batch`, so it needs `BatchOnlyInFlush`; a newly accepted
revision relies on the buffers being emptied.

**MessageBus.** Assumed: the trusted origins are among the origins and "no origin" is
not, and the bounds are natural numbers: any number of messages, generations and nested
calls, with and without a validator. Proved: `DispatchIsSound`, `ReplaysTheLastDocument`
and `LockedOriginOnly`. `IInv` adds to `TypeOK`: arrivals are numbered in the order they
came, the queue holds those of the attached generation in that order (`QueueIsCurrent`),
whatever was handed over is behind the queue (`HandedInOrder`), the retained document is
the newest one handed over (`RetainedIsNewest`), and whenever the head has its verdict
some drain of its generation is on the stack (`SomeoneDrains`). The first three make the
next commit the newest but for a replay of its own generation, which may have a higher
revision (`OfThisReplay`) and, as the generation is marked (`ReplayIsMarked`), is the only
one it will see; `RetainedIsNewest` gives the replay; `SomeoneDrains` with an
empty stack is `HeadNeverBlocks`.

**PageBindings.** For every set of nodes and fields, every threshold and number of
entries. `BindingsAreTrue` and `InViewIsServed`. `IInv` adds that a closed session holds
nothing, that observed elements are cached, that what the observer last queued and its
entries on their way agree with what is visible (`Reported`), that deferred writes wait
for elements not seen (`DeferredAreUnseen`), that none is dropped, and that after a
replay none is late.

**RuntimeSession.** For any number of bootstraps, whichever of them hydrate, any
heartbeat. `OneOrderlySession`, and `TrustIsNotRenewed` if the ready message does not
throw. The invariant is stated of one runtime (`Fine`: its type, `Orderly`, `Trusted`)
and proved operation by operation on records, then lifted by one lemma about `Steps`. It
strengthens the properties by three facts: a runtime that was started again is not
suspended; one that waits for a hydration has seen the page parsed, since its cap will
start it; and a retained document of a runtime that does not listen is one whose timer
it knows it has to recover.

**PluginManager.** For any names, any finite set of registrations and number of calls,
from the page and from hooks, any emissions and handlers that are the subscriptions of
the registrations and one of the page (`ManagerAssumption`, `HandlersAssumption`).
`NothingOutlivesItsScope`, `HooksTakeTurns` and `GoneIsNotCalled`. The invariant
`ManagerInv` has three parts, in the order in which they rest on each other.
* `Mutating` is the queue. `Living` says what the life of a registration permits
  (`Life`: which scope and hook go with which place, and that the call it answers to is
  there and waits for it), that no name has two (`OneLife`), and that `queuedHooks`
  counts what it should (`CountedBy`). The count is over two sets that most steps
  change by one element; it needs that a removed registration has one destroy hook and
  an initialising one its own call, or an end would be subtracted twice.
* `Scoped` says what a scope has acquired: what it tracks was made, only a registered
  plugin has layers and subscriptions in use, and none acquires the same thing twice.
  The layer in force is the last of the stack because a removal from the middle leaves
  the last one last (`Ordered`: no two have the
  same place, and the registrations are finitely many).
* `Calling` is about the snapshots, which keep handlers that are gone. A subscription is
  called only while its scope is active and tracks it. `Spent` says that a once handler
  that ran is tracked no more and cannot be registered again, `PageWaits` that the
  handler of the page, which no scope watches, is in one place only: the bucket, or the
  one snapshot that took it out.

**UpdatePipeline.** For every set of pages, with and without handlers, any fields,
values and number of documents; assumed is that null is no value, message or document.
`IInv` is one argument about the newest message, told at each place its values pass.
`Resolving`: what the active revision resolved has them. `Writing`: so does whatever is
buffered, and once it was applied, the page where nothing is buffered. `Asking`: its
merge request carries them and no older request can go out after it; this rests on
`Queues` (each queued request has the one timer, and no timer is left over) and `Asked`.
`Remembers`: the carried-over document has them too, and a question to the server is
open unless it says so, which gives `AnswersAreKept`. `Owned` ties the buffer and the
ledger to the active revision, so that a superseded or cancelled one has nothing left to
write (`CancelledNeverWrites`). `Referring` orders page, buffer, transaction and
carried-over document by what is populated, and its second half, which needs `Gateless`,
gives `ReferencesStayPopulated`. `Counted` adds the live revision to the three ends and
gives `RevisionsAreAccountedFor`.

**StrategyRunner.** For every page: any set of boundaries and of patched areas, with or
without a route, saves, timeouts and `routeAfterSave`, any number of revisions; assumed
is that null is no version, refresh or retry. `Counting` makes `tx.pending` the number
of pairs of a batch and a boundary it has not settled: batches have different numbers,
none is empty, and each settlement takes one pair away, whichever batch it comes from.
With `WorkOrDone` this is `CompletionIsExact`. `PageIsCovered` says of every area that
it shows its newest edit or that something under way will see to it: the buffer, a batch
that has not settled it, or a refresh. `IdentityIsShown` is why a write that
`skipUnchanged` drops is not missed. `BoundariesAreOwed` and `RouteIsOwed` do the same
for the debts: an edit not yet served is in the diff, owed, in a batch, or the refresh
in flight began after it. They need `Staged` (before its diff a revision has started
nothing) and `Refreshed`. One lemma about `ScheduleAll` serves both its callers, a
revision and the re-apply after a route render. `OwedUntilARefreshRuns` follows step by
step.

**FragmentGate and FragmentRequests.** Assumed: a finite set of calls, a positive
`Limit`, and a place in the page for each call (`RequestsAssumption`). The gate's `IInv`
is `TypeOK`, `PermitsAreHeld`, `active <= Limit` and `NoIdlePermit`; the count of
permits is the cardinality of the holders, and `ReleaseKeepsTheCount` shows that handing
a permit over and giving it back both keep it. `AtMostLimit` follows because running
calls are holders. `AbortedNeverStarts` and `ServedInOrder` are action properties.
`UsesTheGate` shows that every step of `FragmentRequests` is a step of the gate or
leaves it alone, so those six theorems hold of the handler; `GateIsASemaphore` shows
that the gate implements `Semaphore`, and `RequestsPassTheGate` puts both together.
`SharesRightly` is proved from `Shared`, by which the call an element waits for was made
for its batch and boundary, and `OneTurn`: while a batch is asking, every call it made
so far is still there to be shared. `NothingLateIsShown` is an action property, and so
is `SupersededIsNoFailure`: a request of a cancelled batch never ends as failed.

**RevisionDisplay.** For every finite set of islands, whichever hydrate late, any number
of revisions and saves, with or without a route. `Ended` and `ReportIsTrue` say what the
end of the work left behind: a complete revision, and a report that was made or is
queued and says `partial` if anything fell short; they need `Begun`, by which an
unsettled boundary has its batch. `AwaitingIsOwed` counts the awaited confirmations as
the islands that hold one of this revision. That they were handed out, and to whom, is
`HandedOut`, so a second call or one of an older revision subtracts nothing. `Heard`
follows a change to each island: told, still to be told in this turn, or kept until it
hydrates.

**DocumentSession.** For every set of listeners, messages and session options. `IInv` is
`TypeOK`, `AttachedIsHeard` and `OnlyTheNewestRuns`; the refinement of `LatestWins` maps
its `newest` to the revision, and needs to know that whoever leaves last leaves an
attached session, past whose revision no answer can be shown. `SnapshotIsTrue` needs a
second invariant (`TInv`): messages are numbered in the order they were taken
(`Numbered`), each was taken for the session's document (`Accepted`), the snapshot is
that of one that was merged (`Shown`) and reports how the newest ended (`Told`), which
holds because a merge of the newest message is the merger's newest attempt, so it never
ends as superseded (`OnItsWay`).

**FragmentEndpoint.** For every set of calls, limit and mixture of worlds. `IInv` is
`TypeOK` and, of every request, that its phase was reached with a sound body and a
permission (`Sound`), that its session call belongs to it (`Asked`), and that the
verdict has a cause: a visitor, a form the CMS takes, an outright denial or a lesson that
has just gone stale (`VerdictIsTrue`). `AnswersAreEarned`,
`VerdictIsTheCMSs` and the action property `LessonStays`.

**Only model-checked.** The seven liveness properties (`QueueDrains`,
`EventuallyFlushed`, `EventuallyAtRest`, `EveryCallEnds`, `EveryStartEnds`,
`EveryElementEnds`, `EveryRequestIsAnswered`): fairness and `ENABLED` are outside the
proof system's reach. Every safety property a passing run checks, state or action, is
stated by a theorem.

## 6. What the models leave out

* *MessageBus*: messages that fail the shape, type or source checks change nothing;
  focus and document events only call a handler. Without a validator every message
  commits inside its own event, which the run covers as the verdict given at once.
* *UpdateScheduler*: what a write is (a renderer or an attribute), and the events.
* *UpdatePipeline*: locales, late bindings, reveal, islands, auto-binding; the page
  reads populated values. A merge request's population and deadline are its outcome.
  That every queued request has its timer is a state property (`NoneIsLeftInTheQueue`)
  rather than liveness.
* *StrategyRunner*: unbound fields beyond the route area, owner scopes, warnings;
  handlers (`UpdatePipeline` has them). The route strategy of the repository never
  answers `refreshed`, only `partial`.
* *RevisionDisplay*: one boundary per batch, one escalation per value, no
  `routeAfterSave`; a retry is not refused again. A cancelled revision and writes
  forgotten with their elements leave a revision pending for good (`stranded`).
* *PageBindings*: there is no merger and every message changes every field, which a
  patch writes; owners, islands, dependency lists and anchors are out. A look at one
  element and one entry at a time admit more orders than a browser. Two things it
  shows of the code: an element bound later gets the draft only with the next message,
  and a pending write can land in an element that was rebound until the 100 ms
  debounce ends, which has no deadline. A rebuild is one step, the handlers of
  `cacheRefresh` (`lifecycle.ts:479`) and what they change in it left out; `MessageBus`
  has those that call the bus.
* *RuntimeSession*: the order of disposers; a `destroy()` called out of a cleanup during
  `suspend()`, which is lost; a `destroy()` after a failed resume, which forgets nothing.
* *PluginManager*: transforms; what a cleanup does; an acquisition that throws at commit.
* *FragmentRequests*: which check of a response fails; reading boundaries off the page.
  An injected fetch that ignored its signal would hold its permit.
* *DocumentSession*: notices, the snapshot on the server, abort listeners and fetch shims
  that call back at once, a synchronous dispatch by a listener.
* *FragmentEndpoint*: signed tokens; two endpoints that lose each other's map, which
  is one entry here. A permission is compared with the clock between phases only if
  it is bound to a document; a session context is not, as in the code. The
  authorization has no deadline of its own and is bounded by the total one.

Not modelled, and why: DOM scans, morphing, structural lists, rendering of values and
auto-binding are sequential algorithms over trees without a state of their own;
sanitizing, CSP and URLs are string filters; the server preview, detection, schema and
DSL keep no state between calls; built-in plugins only listen; framework adapters are
glue; command-line tools, budgets, workflows and code generation under `src/scripts`
run once at build time. These make up most of the repository's lines, so the
models cover a small share of the whole, and most of the stateful core.

## 7. Plan

1. Proofs: `BoundariesAreServed` on pages without a route, and the other disagreements
   of section 4 as theorems about the instances on which they cannot happen.
2. Bounded comparison of sequential algorithms with reference definitions: keyed
   pairing of structural lists, field diffs, the order of disposers.
3. Unbound fields and bindings that stream in inside a boundary, in `StrategyRunner`.
4. The signed preview token with its clock, and the document reads it authorizes.
5. A page that only ever shows the newest accepted document as an abstract
   specification above `UpdatePipeline` and `UpdateScheduler`.
