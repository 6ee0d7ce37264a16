---------------------------- MODULE FragmentRequests ----------------------------
(* fragment/handler.ts, fragment/abort.ts and the batch of fragment/index.ts: one
   POST per boundary, shared by the elements that name the same boundary, behind
   the gate, under one signal per batch and one deadline per request.

   A call of the gate is named by the element that made it. A batch asks for all
   its elements in one synchronous turn, so nothing else runs while `turn` is not
   empty. Two batches may belong to two runtimes that count the same revision. *)
EXTENDS FragmentGate

CONSTANTS
  BoundaryOf,  \* the id and key that each element names
  RevisionOf,  \* the revision number that each batch renders
  PlaceOf      \* the place of each element in the document

ASSUME RequestsAssumption == PlaceOf \in [Calls -> Nat]

VARIABLES
  opened,    \* the batches that were rendered
  turn,      \* the elements still to ask in this turn
  inFlight,  \* the calls whose promise is shared
  leader,    \* the call each element waits for, itself when it made one
  job,       \* how far the request of each call is
  deadline,  \* the timer of linkedTimeout
  outcome,   \* what each call's promise resolved to
  shown      \* what became of each element

jobVars == <<job, deadline>>
batchVars == <<opened, turn, inFlight, leader, shown>>
vars == <<gateVars, jobVars, batchVars, outcome>>

Outcomes == {"rendered", "failed", "superseded"}

TypeOK ==
  /\ GateTypeOK
  /\ opened \subseteq Signals
  /\ turn \subseteq Calls
  /\ inFlight \subseteq Calls
  /\ leader \in [Calls -> Calls]
  /\ job \in [Calls -> {"none", "fetch", "body"}]
  /\ deadline \in [Calls -> {"off", "armed", "passed"}]
  /\ outcome \in [Calls -> Outcomes \cup {"none"}]
  /\ shown \in [Calls -> {"idle", "asked", "reported"} \cup Outcomes]

Init ==
  /\ GateInit
  /\ opened = {}
  /\ turn = {}
  /\ inFlight = {}
  /\ leader = [e \in Calls |-> e]
  /\ job = [e \in Calls |-> "none"]
  /\ deadline = [e \in Calls |-> "off"]
  /\ outcome = [e \in Calls |-> "none"]
  /\ shown = [e \in Calls |-> "idle"]

---------------------------------------------------------------------------
\* Without the generation of the signal.
MutKey(e) == <<BoundaryOf[e], RevisionOf[SignalOf[e]]>>
(* dedupeKey: the signal stands for its runtime, whose revisions restart at one. *)
Key(e) == <<SignalOf[e], BoundaryOf[e], RevisionOf[SignalOf[e]]>>

\* render(): every element of the batch asks, in the order of the document.
Open(s) ==
  /\ turn = {} /\ s \notin opened /\ ~aborted[s]
  /\ opened' = opened \cup {s}
  /\ turn' = {e \in Calls : SignalOf[e] = s}
  /\ UNCHANGED <<gateVars, jobVars, inFlight, leader, shown, outcome>>

\* The job of a call that got its permit: the fetch leaves and its deadline runs.
Starts(c) ==
  IF phase[c] # "running" /\ phase'[c] = "running"
  THEN job' = [job EXCEPT ![c] = "fetch"] /\ deadline' = [deadline EXCEPT ![c] = "armed"]
  ELSE UNCHANGED jobVars

\* The promises of the calls that the gate refused resolve as superseded.
Refused == outcome' = [c \in Calls |-> IF phase'[c] = "refused" THEN "superseded" ELSE outcome[c]]

SharedBy(e) == {c \in inFlight : Key(c) = Key(e)}

(* One element asks: it shares the promise in flight, or makes a call. *)
Ask(e) ==
  /\ e \in turn /\ \A d \in turn : PlaceOf[e] <= PlaceOf[d]
  /\ turn' = turn \ {e}
  /\ shown' = [shown EXCEPT ![e] = "asked"]
  /\ \/ /\ SharedBy(e) # {}
        /\ \E c \in SharedBy(e) : leader' = [leader EXCEPT ![e] = c]
        /\ UNCHANGED <<gateVars, jobVars, inFlight, outcome>>
     \/ /\ SharedBy(e) = {}
        /\ Call(e)
        /\ Starts(e)
        /\ inFlight' = inFlight \cup {e}
        /\ UNCHANGED <<leader, outcome>>
  /\ UNCHANGED opened

\* A refused promise is forgotten like any other that settled.
Forgotten == inFlight' = {c \in inFlight : outcome'[c] = "none"}

Aborts(s) ==
  /\ Abort(s)
  /\ Refused
  /\ Forgotten

Cancel(s) ==
  /\ turn = {} /\ s \in opened
  /\ Aborts(s)
  /\ UNCHANGED <<jobVars, opened, turn, leader, shown>>

Wakes(c) ==
  /\ turn = {}
  /\ Wake(c)
  /\ Starts(c)
  /\ Refused
  /\ Forgotten
  /\ UNCHANGED <<opened, turn, leader, shown>>

Disposed(c) == [deadline EXCEPT ![c] = "off"]
\* The render returns: the timer is disposed, the permit passed on.
Settles(c, result) ==
  /\ Finish(c)
  /\ job' = [job EXCEPT ![c] = "none"]
  /\ deadline' = Disposed(c)
  /\ outcome' = [outcome EXCEPT ![c] = result]
  /\ Forgotten
  /\ UNCHANGED <<opened, turn, leader, shown>>

\* The linked signal is quiet: neither the batch nor the deadline ended it.
Listening(c) == ~Aborted(c) /\ deadline[c] = "armed"

(* The headers arrive. A refusal, an error or a wrong type or length ends it. *)
Responds(c) ==
  /\ turn = {} /\ job[c] = "fetch" /\ Listening(c)
  /\ \/ Settles(c, "failed")
     \/ /\ job' = [job EXCEPT ![c] = "body"]
        /\ UNCHANGED <<gateVars, deadline, batchVars, outcome>>

(* The body arrives: the fragment, one of another revision, or nothing usable. *)
Reads(c) ==
  /\ turn = {} /\ job[c] = "body" /\ Listening(c)
  /\ \E result \in Outcomes : Settles(c, result)

MutTimesOut(c) ==
  /\ turn = {} /\ job[c] = "fetch" /\ deadline[c] = "armed"
  /\ deadline' = [deadline EXCEPT ![c] = "passed"]
  /\ UNCHANGED <<gateVars, job, batchVars, outcome>>
TimesOut(c) ==
  /\ turn = {} /\ deadline[c] = "armed"
  /\ deadline' = [deadline EXCEPT ![c] = "passed"]
  /\ UNCHANGED <<gateVars, job, batchVars, outcome>>

\* failure: the caller's own signal is asked first.
Cause(c) == IF Aborted(c) THEN "superseded" ELSE "failed"

(* The linked signal ended the fetch or the read, which rejects. *)
Rejects(c) ==
  /\ turn = {} /\ job[c] # "none" /\ ~Listening(c)
  /\ Settles(c, Cause(c))

---------------------------------------------------------------------------
MutUsable(e) == outcome[leader[e]] # "superseded"
\* The element's own batch decides, after the promise did.
Usable(e) == ~Aborted(e) /\ outcome[leader[e]] # "superseded"

Becomes(e, what) == shown' = [shown EXCEPT ![e] = what]

(* The reaction of one element to the promise it waits for. The application hears
   of a failure, and may end the batch before the patch. *)
Reacts(e) ==
  /\ turn = {} /\ shown[e] = "asked" /\ outcome[leader[e]] # "none"
  /\ \/ /\ ~Usable(e)
        /\ Becomes(e, "superseded")
        /\ UNCHANGED <<gateVars, inFlight, outcome>>
     \/ /\ Usable(e)
        /\ Becomes(e, outcome[leader[e]])
        /\ UNCHANGED <<gateVars, inFlight, outcome>>
     \/ /\ Usable(e) /\ outcome[leader[e]] = "failed"
        /\ Becomes(e, "reported")
        /\ Aborts(SignalOf[e])
  /\ UNCHANGED <<jobVars, opened, turn, leader>>

Next ==
  \/ \E s \in Signals : Open(s) \/ Cancel(s)
  \/ \E c \in Calls :
       Ask(c) \/ Wakes(c) \/ Responds(c) \/ Reads(c) \/ TimesOut(c) \/ Rejects(c) \/ Reacts(c)

Spec == Init /\ [][Next]_vars

---------------------------------------------------------------------------
(* Safety *)

(* Whatever element shares a promise, the request behind it was made for its own
   batch and its own boundary: a runtime created anew, which counts the same
   revision, never gets the fragment of the document before it. *)
AnswersAreItsOwn ==
  \A e \in Calls : shown[e] # "idle" =>
    /\ SignalOf[leader[e]] = SignalOf[e]
    /\ BoundaryOf[leader[e]] = BoundaryOf[e]

(* A boundary that several elements of a batch name is requested once. *)
RequestedOnce ==
  \A c, d \in Calls :
    c # d /\ phase[c] # "idle" /\ phase[d] # "idle" /\ SignalOf[c] = SignalOf[d]
      => BoundaryOf[c] # BoundaryOf[d]

(* A request is shared by the elements it was made for, and by all of them. *)
SharesRightly == AnswersAreItsOwn /\ RequestedOnce

(* Once the batch is aborted, no fragment of it is morphed and no boundary of it
   patched, though its request was answered before. *)
NothingLateIsShown ==
  [][\A e \in Calls :
       shown'[e] # shown[e] /\ shown'[e] \in {"rendered", "failed"} => ~aborted'[SignalOf[e]]]_vars

(* What a batch was cancelled over is no failure of its endpoint: a request that
   was superseded never ends as failed. *)
SupersededIsNoFailure ==
  [][\A c \in Calls :
       outcome[c] = "none" /\ outcome'[c] = "failed" => ~Aborted(c)]_vars

(* The requests pass the gate as fragment/gate.ts keeps it. *)
Semaphores == INSTANCE Semaphore WITH
  inside <- In({"running"}),
  over <- In({"done", "refused"})

PassesTheGate == Semaphores!SemaphoreSpec

---------------------------------------------------------------------------
(* Liveness: a synchronous turn ends, promise reactions run, timers fire, and a
   fetch or a read whose signal aborted rejects. That an endpoint answers is
   assumed of none. *)
Fairness ==
  \A c \in Calls :
    /\ WF_vars(Ask(c)) /\ WF_vars(Wakes(c)) /\ WF_vars(TimesOut(c))
    /\ WF_vars(Rejects(c)) /\ WF_vars(Reacts(c))

FairSpec == Spec /\ Fairness

(* Every element of a batch is answered in the end, whether its endpoint ever
   answers or not: the batch of the runtime ends. *)
EveryElementEnds ==
  \A e \in Calls : shown[e] = "asked" ~> shown[e] \in Outcomes \cup {"reported"}
=============================================================================
