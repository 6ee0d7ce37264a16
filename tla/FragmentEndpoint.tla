--------------------------- MODULE FragmentEndpoint ---------------------------
(* adapters/shared/fragment-endpoint.ts: one accepted POST through its body, its
   authorization, the props and the render of a registered boundary, under the
   client's disconnect, a deadline for all of it and one for each phase. The
   authorization is a call of PreviewSession, or a verifier that binds the
   request to one document until a moment in time (preview-authorization.ts,
   preview-scope.ts).

   Whatever work a stopped request has started goes on: consumer code may ignore
   the signal. Its late result loses the race and is dropped; only the session
   call still matters, to the memory that it shares with others. *)
EXTENDS PreviewSession

CONSTANTS
  Worlds,   \* the cases to consider: an input for each call, and the configuration
  Limit     \* bodyBytes

Says(status, error) == [status |-> status, error |-> error]
NoAnswer == Says(0, "none")
Errors ==
  {"none", "html", "threw", "method", "origin", "content-type", "body", "field-depth", "shape",
   "request", "unauthorized", "fragment", "render", "timeout"}
Answers == [status : Nat, error : Errors]
Refusals == {answer \in Answers : answer.status >= 400}

(* What a request brings: the refusal it meets at the door or NoAnswer, the bytes of
   its body and whether it declares more than the limit, whether its body can be
   read, whether its authorization is bound to a document, and is for this one,
   whether its boundary is registered, and whose cookie it carries. *)
IsInput(i) ==
  /\ i.door \in Refusals \cup {NoAnswer}
  /\ i.size \in Nat
  /\ i.visitor \in Visitors
  /\ {i.declaresMore, i.usable, i.scoped, i.within, i.known} \subseteq BOOLEAN

Configurations == [total : BOOLEAN, drain : BOOLEAN]

ASSUME EndpointAssumption ==
  /\ \A w \in Worlds : w.conf \in Configurations /\ \A c \in Calls : IsInput(w.input[c])
  /\ Limit \in Nat \ {0}

VARIABLES
  conf,     \* whether there is a total deadline, and how an excess is released
  input,
  req       \* the requests

vars == <<sessionVars, conf, input, req>>
fixed == <<conf, input>>

Phases == {"waiting", "body", "authorize", "props", "render", "answered"}
Running == {"body", "authorize", "props", "render"}
Reasons == {"request-aborted", "total-timeout", "phase-timeout"}

Requests ==
  [phase : Phases, bytes : Nat, over : BOOLEAN, late : BOOLEAN,
   stopped : Reasons \cup {None}, answer : Answers]

TypeOK ==
  /\ SessionTypeOK
  /\ conf \in Configurations
  /\ \A c \in Calls : IsInput(input[c])
  /\ req \in [Calls -> Requests]

Init ==
  /\ SessionInit
  /\ \E w \in Worlds : conf = w.conf /\ input = w.input /\ setup = w.setup
  /\ \A c \in Calls : visitor[c] = input[c].visitor
  /\ req = [c \in Calls |-> [phase |-> "waiting", bytes |-> 0, over |-> FALSE, late |-> FALSE,
                             stopped |-> None, answer |-> NoAnswer]]

---------------------------------------------------------------------------
(* The lifetime of a request *)

StopAnswer(phase, why) ==
  CASE why = "total-timeout" -> Says(504, "timeout")
    [] why = "phase-timeout" -> Says(500, "render")
    [] OTHER -> Says(400, IF phase = "body" THEN "body" ELSE "request")

Answer(q, answer) == [q EXCEPT !.phase = "answered", !.answer = answer]
Stopped(q, why) == [Answer(q, StopAnswer(q.phase, why)) EXCEPT !.stopped = why]

MutChecked(q, next) == next
(* run(): the work of a phase has settled, and the check that follows finds a
   deadline that passed while no timer could run. *)
Checked(q, next) == IF q.late THEN Stopped(q, "total-timeout") ELSE next

Step(c, q) == req' = [req EXCEPT ![c] = q]

\* The signal reaches the session call of the request.
Cut(c) == session' = [session EXCEPT ![c].cut = TRUE]

Stop(c, why) ==
  /\ req[c].phase \in Running
  /\ Step(c, Stopped(req[c], why))
  /\ Cut(c)
  /\ UNCHANGED <<fixed, cmsVars, registered, maps, expired>>

Disconnects(c) == Stop(c, "request-aborted")
TotalTimerFires(c) == req[c].late /\ Stop(c, "total-timeout")
PhaseTimesOut(c) == req[c].phase \in {"props", "render"} /\ Stop(c, "phase-timeout")

\* The clock passes the deadline; the timer's turn may come later.
DeadlinePasses(c) ==
  /\ conf.total /\ req[c].phase \in Running /\ ~req[c].late
  /\ Step(c, [req[c] EXCEPT !.late = TRUE])
  /\ UNCHANGED <<sessionVars, fixed>>

---------------------------------------------------------------------------
(* The body *)

(* The door, and a disconnect that came before the scope was made. *)
Arrive(c, gone) ==
  /\ req[c].phase = "waiting"
  /\ Step(c, IF input[c].door # NoAnswer THEN Answer(req[c], input[c].door)
             ELSE IF gone THEN Stopped([req[c] EXCEPT !.phase = "body"], "request-aborted")
             ELSE IF ~input[c].usable THEN Answer(req[c], Says(400, "body"))
             ELSE IF input[c].declaresMore THEN Answer(req[c], Says(413, "body"))
             ELSE [req[c] EXCEPT !.phase = "body"])
  /\ UNCHANGED <<sessionVars, fixed>>

Exceeds(q, n) == n > Limit - q.bytes

(* A chunk: the one that exceeds the limit is refused at once, or what follows is
   drained. *)
Chunk(c, n) ==
  LET q == req[c]
      read == [q EXCEPT !.bytes = @ + n]
  IN /\ q.phase = "body"
     /\ n \in 1..(input[c].size - q.bytes)
     /\ Step(c, IF q.over \/ ~Exceeds(q, n) THEN read
                ELSE IF conf.drain THEN [read EXCEPT !.over = TRUE]
                ELSE Checked(read, Answer(read, Says(413, "body"))))
     /\ UNCHANGED <<sessionVars, fixed>>

BodyBreaks(c) ==
  /\ req[c].phase = "body"
  /\ Step(c, Checked(req[c], Answer(req[c], Says(IF req[c].over THEN 413 ELSE 400, "body"))))
  /\ UNCHANGED <<sessionVars, fixed>>

MutBodyTimesOut(c) ==
  /\ req[c].phase = "body" /\ ~req[c].over
  /\ Step(c, Checked(req[c], Answer(req[c], Says(408, "body"))))
  /\ UNCHANGED <<sessionVars, fixed>>
BodyTimesOut(c) ==
  /\ req[c].phase = "body"
  /\ Step(c, Checked(req[c], Answer(req[c], Says(408, "body"))))
  /\ UNCHANGED <<sessionVars, fixed>>

(* The body ends. What it holds may be no fragment request; if it is one, the
   authorization begins. *)
BodyEnds(c, error) ==
  LET q == req[c]
      begins == ~q.over /\ error = "none" /\ ~q.late
  IN /\ q.phase = "body" /\ q.bytes = input[c].size
     /\ error = "none" => q.bytes > 0
     /\ Step(c, Checked(q, IF q.over THEN Answer(q, Says(413, "body"))
                           ELSE IF error # "none" THEN Answer(q, Says(400, error))
                           ELSE [q EXCEPT !.phase = "authorize"]))
     /\ session' = IF begins /\ ~input[c].scoped THEN [session EXCEPT ![c] = Begun(c)] ELSE session
     /\ UNCHANGED <<fixed, cmsVars, registered, maps, expired>>

---------------------------------------------------------------------------
(* Authorization *)

\* isPayloadScopeCurrent: of a context bound to a document.
ScopeCurrent(c) == input[c].scoped => ~expired[c]

ScopeAllows(c) == input[c].scoped => input[c].within /\ ScopeCurrent(c)

(* The verdict is in: the scope, then the registry. *)
Authorized(c, verdict) ==
  Checked(req[c],
    IF verdict # "authorized" \/ ~ScopeAllows(c) THEN Answer(req[c], Says(403, "unauthorized"))
    ELSE IF ~input[c].known THEN Answer(req[c], Says(404, "fragment"))
    ELSE [req[c] EXCEPT !.phase = "props"])

(* A verdict of the session call reaches the request if it still waits for it. *)
SessionReturns(c) ==
  /\ IF req[c].phase = "authorize" /\ session'[c].state = "done"
     THEN Step(c, Authorized(c, session'[c].verdict))
     ELSE UNCHANGED req
  /\ UNCHANGED fixed

SessionAnswers(c) == MeAnswers(c) /\ SessionReturns(c)
SessionDenies(c) == MeDenies(c) /\ SessionReturns(c)
SessionFails(c) == MeFails(c) /\ SessionReturns(c)

\* Without a cookie the call returns as it begins.
SessionRefuses(c) ==
  /\ req[c].phase = "authorize" /\ session[c].state = "done"
  /\ Step(c, Authorized(c, session[c].verdict))
  /\ UNCHANGED <<sessionVars, fixed>>

(* authorizeVerifier: claims, no claims, or a failure, which refuses. *)
VerifierAnswers(c, verdict) ==
  /\ req[c].phase = "authorize" /\ input[c].scoped
  /\ Step(c, Authorized(c, IF verdict = "authorized" /\ expired[c] THEN "expired" ELSE verdict))
  /\ UNCHANGED <<sessionVars, fixed>>

\* A PreviewConfigurationError leaves the handler, unless the request was stopped.
Misconfigured(c) ==
  /\ req[c].phase = "authorize" /\ input[c].scoped
  /\ Step(c, Checked(req[c], Answer(req[c], Says(500, "threw"))))
  /\ UNCHANGED <<sessionVars, fixed>>

\* The moment until which the authorization holds.
Expire(c) ==
  /\ ~expired[c] /\ req[c].phase \in Running
  /\ expired' = [expired EXCEPT ![c] = TRUE]
  /\ UNCHANGED <<cmsVars, registered, maps, session, fixed, req>>

---------------------------------------------------------------------------
(* The render *)

(* A phase of consumer code settles; the binding is compared with the clock again. *)
PhaseSettles(c, phase, ok, next) ==
  /\ req[c].phase = phase
  /\ Step(c, Checked(req[c], IF ~ok THEN Answer(req[c], Says(500, "render"))
                             ELSE IF ~ScopeCurrent(c) THEN Answer(req[c], Says(403, "unauthorized"))
                             ELSE next))
  /\ UNCHANGED <<sessionVars, fixed>>

PropsSettle(c, ok) == PhaseSettles(c, "props", ok, [req[c] EXCEPT !.phase = "render"])
RenderSettles(c, ok) == PhaseSettles(c, "render", ok, Answer(req[c], Says(200, "html")))

Minute(b) == MinutePasses(b) /\ UNCHANGED <<fixed, req>>
---------------------------------------------------------------------------
Next ==
  \/ \E c \in Calls :
       \/ \E gone \in BOOLEAN : Arrive(c, gone)
       \/ \E n \in 1..Limit + 1 : Chunk(c, n)
       \/ BodyBreaks(c)
       \/ BodyTimesOut(c)
       \/ \E error \in {"none", "shape", "field-depth"} : BodyEnds(c, error)
       \/ SessionAnswers(c)
       \/ SessionDenies(c)
       \/ SessionFails(c)
       \/ SessionRefuses(c)
       \/ \E verdict \in {"authorized", "invalid", "unavailable"} : VerifierAnswers(c, verdict)
       \/ Misconfigured(c)
       \/ \E ok \in BOOLEAN : PropsSettle(c, ok)
       \/ \E ok \in BOOLEAN : RenderSettles(c, ok)
       \/ Disconnects(c)
       \/ DeadlinePasses(c)
       \/ TotalTimerFires(c)
       \/ PhaseTimesOut(c)
       \/ Expire(c)
  \/ \E b \in Books : Minute(b)

Spec == Init /\ [][Next]_vars

---------------------------------------------------------------------------
(* Safety *)

Earned(c) ==
  /\ req[c].bytes = input[c].size /\ input[c].size <= Limit /\ ~input[c].declaresMore
  /\ input[c].known
  /\ IF input[c].scoped THEN input[c].within ELSE session[c].verdict = "authorized"

EarnedOnly(c) ==
  /\ req[c].phase \in {"props", "render"} \/ req[c].answer = Says(200, "html") => Earned(c)
  /\ req[c].answer = Says(200, "html") => ScopeCurrent(c) /\ req[c].stopped = None /\ ~req[c].late

StopsTellTheirReason(c) ==
  req[c].stopped # None =>
    /\ req[c].phase = "answered"
    /\ req[c].answer.status = CASE req[c].stopped = "total-timeout" -> 504
                                [] req[c].stopped = "phase-timeout" -> 500
                                [] OTHER -> 400

(* Consumer code runs, and markup is answered, only for a whole body within the
   limit, an authorized caller and a registered boundary; and markup only while
   a binding to the document still holds, of a request that nothing stopped and
   whose deadline has not passed, whether or not its timer had its turn. A stop
   tells its own reason: the refusal that aborted work comes back with is not
   taken for a verdict on the caller (and the state keeps its types). *)
AnswersAreEarned ==
  /\ TypeOK
  /\ \A c \in Calls : StopsTellTheirReason(c) /\ EarnedOnly(c)

---------------------------------------------------------------------------
(* Liveness: the timers of the body, the phases and the session call run, and a
   verifier answers. Nothing is assumed of the client, the CMS or the rest of
   the consumer's code. *)
Fairness ==
  \A c \in Calls :
    /\ WF_vars(BodyTimesOut(c))
    /\ WF_vars(SessionFails(c))
    /\ WF_vars(SessionRefuses(c))
    /\ WF_vars(\E verdict \in {"authorized", "invalid", "unavailable"} : VerifierAnswers(c, verdict))
    /\ WF_vars(PhaseTimesOut(c))

FairSpec == Spec /\ Fairness

(* Every accepted request is answered, however the client sends its body and
   whatever props and render do. *)
EveryRequestIsAnswered ==
  \A c \in Calls : req[c].phase \in Running ~> req[c].phase = "answered"
=============================================================================
