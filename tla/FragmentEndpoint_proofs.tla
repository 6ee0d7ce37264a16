------------------------ MODULE FragmentEndpoint_proofs ------------------------
(* Proofs about FragmentEndpoint, for every set of calls, every input of each and
   every limit. *)
EXTENDS FragmentEndpoint, TLAPS

(* A request on its way: what the body was when its authorization began, and that
   only an answered request has an answer. *)
OnItsWay(c) ==
  /\ req[c].phase = "waiting" => req[c].bytes = 0 /\ ~req[c].over
  /\ req[c].phase # "answered" => req[c].answer = NoAnswer /\ req[c].stopped = None
  /\ req[c].phase \in {"body", "authorize"} => ~input[c].declaresMore
  /\ req[c].phase = "body" => req[c].bytes <= input[c].size /\ (req[c].over \/ req[c].bytes <= Limit)
  /\ req[c].phase = "authorize" => req[c].bytes = input[c].size /\ req[c].bytes <= Limit

(* A session call: what its first attempt has shown of the form it does not take. *)
Asked(c) ==
  /\ session[c].verdict # "none" => session[c].state = "done"
  /\ session[c].state = "asking" /\ session[c].trip = 2 /\ visitor[c] = "editor" /\ ~setup.explicit
       => Other(session[c].form) \notin setup.takes

Sound(c) == OnItsWay(c) /\ EarnedOnly(c) /\ StopsTellTheirReason(c)

IInv == TypeOK /\ \A c \in Calls : Sound(c) /\ Asked(c) /\ VerdictIsTrue(c)

---------------------------------------------------------------------------
(* Types *)

\* Every refusal the handler spells out is an answer.
LEMMA SaysType ==
  ASSUME NEW status \in Nat, NEW error \in Errors
  PROVE  Says(status, error) \in Answers
BY DEF Says, Answers

LEMMA RefusalSays ==
  ASSUME NEW status \in Nat \ {200}, NEW error \in Errors
  PROVE  Says(status, error) \in Answers /\ Says(status, error).status # 200
BY DEF Says, Answers

LEMMA AnswerType ==
  ASSUME NEW q \in Requests, NEW answer \in Answers
  PROVE  Answer(q, answer) \in Requests
BY DEF Answer, Requests, Phases

LEMMA StopAnswerType ==
  ASSUME NEW phase, NEW why \in Reasons
  PROVE  StopAnswer(phase, why) \in Answers
<1>1. CASE why = "total-timeout"
  BY <1>1, SaysType DEF StopAnswer, Errors
<1>2. CASE why = "phase-timeout"
  BY <1>2, SaysType DEF StopAnswer, Errors
<1>3. CASE why = "request-aborted"
  <2>1. StopAnswer(phase, why) = Says(400, IF phase = "body" THEN "body" ELSE "request")
    BY <1>3 DEF StopAnswer
  <2> QED BY <2>1, SaysType DEF Errors
<1> QED BY <1>1, <1>2, <1>3 DEF Reasons

\* A request that is stopped, or answered in spite of its work, is still one.
LEMMA StoppedType ==
  ASSUME NEW q \in Requests, NEW why \in Reasons
  PROVE  Stopped(q, why) \in Requests
<1>1. StopAnswer(q.phase, why) \in Answers
  BY StopAnswerType
<1>2. Answer(q, StopAnswer(q.phase, why)) \in Requests
  BY <1>1, AnswerType
<1> QED BY <1>2 DEF Stopped, Requests

LEMMA CheckedType ==
  ASSUME NEW q \in Requests, NEW next \in Requests
  PROVE  Checked(q, next) \in Requests
BY StoppedType DEF Checked, Reasons

LEMMA StepType ==
  ASSUME TypeOK, NEW c \in Calls, NEW q \in Requests, Step(c, q)
  PROVE  req' \in [Calls -> Requests]
BY DEF TypeOK, Step

\* The session call of one request changes.
LEMMA SessionType ==
  ASSUME SessionTypeOK, NEW c \in Calls
  PROVE  /\ Begun(c) \in Session
         /\ \A verdict \in Verdicts : Finished(c, verdict) \in [Calls -> Session]
<1>1. session[c] \in Session /\ visitor[c] \in Visitors /\ setup.explicit \in BOOLEAN
  BY DEF SessionTypeOK
<1>2. Idle(c) \in Session
  BY DEF Idle, Session, Forms, Books, Verdicts
<1>3. (IF registered = None THEN c ELSE registered) \in Books
  BY DEF SessionTypeOK, Books
<1>4. Begun(c) \in Session
  BY <1>1, <1>2, <1>3 DEF Begun, Session, Forms, Verdicts
<1>5. ASSUME NEW verdict \in Verdicts
      PROVE  Finished(c, verdict) \in [Calls -> Session]
  BY <1>1 DEF SessionTypeOK, Finished, Session
<1> QED BY <1>4, <1>5

LEMMA MeAnswersType ==
  ASSUME SessionTypeOK, NEW c \in Calls, MeAnswers(c)
  PROVE  SessionTypeOK'
<1> DEFINE s == session[c]
<1>1. s \in Session /\ s.book \in Books
  BY DEF SessionTypeOK, Session
<1>2. session' \in [Calls -> Session]
  <2>1. CASE AsksAgain(c)
    <3>1. session' = [session EXCEPT ![c].trip = 2, ![c].form = Other(s.form)]
      BY <2>1 DEF MeAnswers
    <3> QED BY <3>1, <1>1 DEF SessionTypeOK, Session, Other, Forms
  <2>2. CASE ~AsksAgain(c)
    <3>1. Finished(c, Judged(c)) \in [Calls -> Session]
      BY SessionType DEF Judged, Verdicts
    <3>2. session' = [Finished(c, Judged(c)) EXCEPT ![c].stale = ~Found(c) /\ Remembered(s)]
      BY <2>2 DEF MeAnswers
    <3>3. (~Found(c) /\ Remembered(s)) \in BOOLEAN
      BY DEF Remembered
    <3> QED BY <3>1, <3>2, <3>3, ZenonT(30) DEF Session
  <2> QED BY <2>1, <2>2
<1>3. maps' \in [Books -> {"none", "fresh", "old"}]
  BY <1>1 DEF SessionTypeOK, MeAnswers, Learned, TriedAgain
<1>4. registered' \in Books \cup {None}
  BY <1>1 DEF SessionTypeOK, MeAnswers
<1> QED BY <1>2, <1>3, <1>4 DEF MeAnswers, cmsVars, SessionTypeOK

LEMMA MeDeniesType ==
  ASSUME SessionTypeOK, NEW c \in Calls, MeDenies(c)
  PROVE  SessionTypeOK'
<1>1. Finished(c, "invalid") \in [Calls -> Session]
  BY SessionType DEF Verdicts
<1>2. session' \in [Calls -> Session]
  BY <1>1 DEF MeDenies, Session
<1> QED BY <1>2 DEF MeDenies, cmsVars, SessionTypeOK

LEMMA MeFailsType ==
  ASSUME SessionTypeOK, NEW c \in Calls, MeFails(c)
  PROVE  SessionTypeOK'
<1>1. session' \in [Calls -> Session]
  BY SessionType DEF MeFails, Verdicts
<1> QED BY <1>1 DEF MeFails, cmsVars, SessionTypeOK

\* What the verdict of the authorization makes of a request.
LEMMA AuthorizedType ==
  ASSUME TypeOK, NEW c \in Calls, NEW verdict
  PROVE  Authorized(c, verdict) \in Requests
<1>1. req[c] \in Requests
  BY DEF TypeOK
<1>2. Answer(req[c], Says(403, "unauthorized")) \in Requests
  BY <1>1, SaysType, AnswerType DEF Errors
<1>3. Answer(req[c], Says(404, "fragment")) \in Requests
  BY <1>1, SaysType, AnswerType DEF Errors
<1>4. [req[c] EXCEPT !.phase = "props"] \in Requests
  BY <1>1 DEF Requests, Phases
<1> QED BY <1>1, <1>2, <1>3, <1>4, CheckedType DEF Authorized

LEMMA SessionReturnsType ==
  ASSUME TypeOK, NEW c \in Calls, SessionReturns(c)
  PROVE  req' \in [Calls -> Requests]
BY AuthorizedType, StepType DEF SessionReturns, TypeOK

\* An answer that the handler gives.
LEMMA RefusalType ==
  ASSUME TypeOK, NEW c \in Calls, NEW status \in Nat, NEW error \in Errors
  PROVE  /\ Answer(req[c], Says(status, error)) \in Requests
         /\ Checked(req[c], Answer(req[c], Says(status, error))) \in Requests
<1>1. req[c] \in Requests
  BY DEF TypeOK
<1> QED BY <1>1, SaysType, AnswerType, CheckedType

LEMMA PhaseSettlesType ==
  ASSUME TypeOK, NEW c \in Calls, NEW phase, NEW ok \in BOOLEAN, NEW next \in Requests,
         PhaseSettles(c, phase, ok, next)
  PROVE  TypeOK'
<1>1. req[c] \in Requests
  BY DEF TypeOK
<1>2. /\ Answer(req[c], Says(500, "render")) \in Requests
      /\ Answer(req[c], Says(403, "unauthorized")) \in Requests
  BY RefusalType DEF Errors
<1>3. \E q \in Requests : Step(c, q)
  BY <1>1, <1>2, CheckedType DEF PhaseSettles
<1>4. req' \in [Calls -> Requests]
  BY <1>3, StepType
<1> QED BY <1>4 DEF PhaseSettles, TypeOK, SessionTypeOK, sessionVars, fixed

LEMMA ChunkType ==
  ASSUME TypeOK, NEW c \in Calls, NEW n \in 1..Limit + 1, Chunk(c, n)
  PROVE  req' \in [Calls -> Requests]
<1> DEFINE read == [req[c] EXCEPT !.bytes = @ + n]
<1>1. req[c] \in Requests /\ read \in Requests
  BY EndpointAssumption DEF TypeOK, Requests
<1>2. [read EXCEPT !.over = TRUE] \in Requests
  BY <1>1 DEF Requests
<1> HIDE DEF read
<1>3. Checked(read, Answer(read, Says(413, "body"))) \in Requests
  <2>1. Answer(read, Says(413, "body")) \in Requests
    BY <1>1, SaysType, AnswerType DEF Errors
  <2> QED BY <1>1, <2>1, CheckedType
<1>4. \E q \in Requests : Step(c, q)
  BY <1>1, <1>2, <1>3 DEF Chunk, read
<1> QED BY <1>4, StepType

LEMMA BodyEndsType ==
  ASSUME TypeOK, NEW c \in Calls, NEW error \in Errors, BodyEnds(c, error)
  PROVE  TypeOK'
<1>1. req[c] \in Requests
  BY DEF TypeOK
<1>2. /\ Answer(req[c], Says(413, "body")) \in Requests
      /\ Answer(req[c], Says(400, error)) \in Requests
  BY RefusalType DEF Errors
<1>3. [req[c] EXCEPT !.phase = "authorize"] \in Requests
  BY <1>1 DEF Requests, Phases
<1>4. \E q \in Requests : Step(c, q)
  BY <1>1, <1>2, <1>3, CheckedType DEF BodyEnds
<1>5. req' \in [Calls -> Requests]
  BY <1>4, StepType
<1>6. session' \in [Calls -> Session]
  BY SessionType DEF BodyEnds, TypeOK, SessionTypeOK
<1> QED BY <1>5, <1>6 DEF BodyEnds, TypeOK, SessionTypeOK, fixed, cmsVars

LEMMA ArriveType ==
  ASSUME TypeOK, NEW c \in Calls, NEW gone \in BOOLEAN, Arrive(c, gone)
  PROVE  req' \in [Calls -> Requests]
<1>1. req[c] \in Requests /\ input[c].door \in Answers
  BY SaysType DEF TypeOK, IsInput, Refusals, NoAnswer, Errors
<1>2. [req[c] EXCEPT !.phase = "body"] \in Requests
  BY <1>1 DEF Requests, Phases
<1>3. Stopped([req[c] EXCEPT !.phase = "body"], "request-aborted") \in Requests
  BY <1>2, StoppedType DEF Reasons
<1>4. /\ Answer(req[c], Says(400, "body")) \in Requests
      /\ Answer(req[c], Says(413, "body")) \in Requests
      /\ Answer(req[c], input[c].door) \in Requests
  BY <1>1, RefusalType, AnswerType DEF Errors
<1>5. \E q \in Requests : Step(c, q)
  BY <1>2, <1>3, <1>4 DEF Arrive
<1> QED BY <1>5, StepType

LEMMA StopType ==
  ASSUME TypeOK, NEW c \in Calls, NEW why \in Reasons, Stop(c, why)
  PROVE  TypeOK'
<1>1. req' \in [Calls -> Requests]
  BY StoppedType, StepType DEF Stop, TypeOK
<1>2. session' \in [Calls -> Session]
  <2>1. session \in [Calls -> Session] /\ session[c] \in Session
    BY DEF TypeOK, SessionTypeOK
  <2>2. [session[c] EXCEPT !.cut = TRUE] \in Session
    BY <2>1 DEF Session
  <2>3. session' = [session EXCEPT ![c] = [session[c] EXCEPT !.cut = TRUE]]
    BY DEF Stop, Cut
  <2> QED BY <2>1, <2>2, <2>3
<1> QED BY <1>1, <1>2 DEF Stop, TypeOK, SessionTypeOK, fixed, cmsVars

LEMMA TypeStep ==
  ASSUME TypeOK, [Next]_vars
  PROVE  TypeOK'
<1> USE DEF TypeOK
<1>0. SessionTypeOK /\ \A c \in Calls : req[c] \in Requests
  OBVIOUS
<1>1. ASSUME NEW c \in Calls, NEW gone \in BOOLEAN, Arrive(c, gone)
      PROVE  TypeOK'
  BY <1>1, ArriveType DEF Arrive, sessionVars, fixed, SessionTypeOK
<1>2. ASSUME NEW c \in Calls, NEW n \in 1..Limit + 1, Chunk(c, n)
      PROVE  TypeOK'
  BY <1>2, ChunkType DEF Chunk, sessionVars, fixed, SessionTypeOK
<1>3. ASSUME NEW c \in Calls, BodyBreaks(c) \/ BodyTimesOut(c) \/ Misconfigured(c)
      PROVE  TypeOK'
  <2>1. ASSUME NEW status \in Nat, NEW error \in Errors,
               Step(c, Checked(req[c], Answer(req[c], Says(status, error))))
        PROVE  req' \in [Calls -> Requests]
    BY <2>1, RefusalType, StepType
  <2>2. req' \in [Calls -> Requests]
    BY <1>3, <2>1 DEF BodyBreaks, BodyTimesOut, Misconfigured, Errors
  <2> QED BY <1>3, <2>2 DEF BodyBreaks, BodyTimesOut, Misconfigured, sessionVars, fixed, SessionTypeOK
<1>4. ASSUME NEW c \in Calls, NEW error \in {"none", "shape", "field-depth"}, BodyEnds(c, error)
      PROVE  TypeOK'
  BY <1>4, BodyEndsType DEF Errors
<1>5. ASSUME NEW c \in Calls, SessionAnswers(c) \/ SessionDenies(c) \/ SessionFails(c)
      PROVE  TypeOK'
  <2>1. SessionTypeOK' /\ req' \in [Calls -> Requests]
    BY <1>0, <1>5, MeAnswersType, MeDeniesType, MeFailsType, SessionReturnsType
       DEF SessionAnswers, SessionDenies, SessionFails
  <2> QED BY <1>5, <2>1 DEF SessionAnswers, SessionDenies, SessionFails, SessionReturns, fixed
<1>6. ASSUME NEW c \in Calls, SessionRefuses(c)
      PROVE  TypeOK'
  <2>1. req' \in [Calls -> Requests]
    BY <1>6, AuthorizedType, StepType DEF SessionRefuses
  <2> QED BY <1>6, <2>1 DEF SessionRefuses, sessionVars, fixed, SessionTypeOK
<1>7. ASSUME NEW c \in Calls, NEW verdict, VerifierAnswers(c, verdict)
      PROVE  TypeOK'
  <2>1. req' \in [Calls -> Requests]
    BY <1>7, AuthorizedType, StepType DEF VerifierAnswers
  <2> QED BY <1>7, <2>1 DEF VerifierAnswers, sessionVars, fixed, SessionTypeOK
<1>8. ASSUME NEW c \in Calls, NEW ok \in BOOLEAN, PropsSettle(c, ok) \/ RenderSettles(c, ok)
      PROVE  TypeOK'
  <2>1. [req[c] EXCEPT !.phase = "render"] \in Requests
    BY <1>0 DEF Requests, Phases
  <2>2. Answer(req[c], Says(200, "html")) \in Requests
    BY RefusalType DEF Errors
  <2> QED BY <1>8, <2>1, <2>2, PhaseSettlesType DEF PropsSettle, RenderSettles
<1>9. ASSUME NEW c \in Calls, Disconnects(c) \/ TotalTimerFires(c) \/ PhaseTimesOut(c)
      PROVE  TypeOK'
  BY <1>9, StopType DEF Disconnects, TotalTimerFires, PhaseTimesOut, Reasons
<1>10. ASSUME NEW c \in Calls, DeadlinePasses(c)
       PROVE  TypeOK'
  <2>1. [req[c] EXCEPT !.late = TRUE] \in Requests
    BY <1>0 DEF Requests
  <2> QED BY <1>10, <2>1, StepType DEF DeadlinePasses, sessionVars, fixed, SessionTypeOK
<1>11. ASSUME NEW c \in Calls, Expire(c)
       PROVE  TypeOK'
  BY <1>11 DEF Expire, cmsVars, fixed, SessionTypeOK
<1>12. ASSUME NEW b \in Books, Minute(b)
       PROVE  TypeOK'
  BY <1>12 DEF Minute, MinutePasses, cmsVars, fixed, SessionTypeOK
<1>13. CASE UNCHANGED vars
  BY <1>13 DEF vars, sessionVars, SessionTypeOK
<1> QED BY <1>1, <1>2, <1>3, <1>4, <1>5, <1>6, <1>7, <1>8, <1>9, <1>10, <1>11, <1>12, <1>13
        DEF Next

LEMMA TypeInit == Init => TypeOK
<1> SUFFICES ASSUME Init PROVE TypeOK
  OBVIOUS
<1>1. SessionTypeOK
  BY DEF Init, SessionInit, SessionTypeOK, Idle, Session, Forms, Books, Verdicts
<1>2. conf \in Configurations /\ \A c \in Calls : IsInput(input[c])
  BY EndpointAssumption DEF Init
<1>3. req \in [Calls -> Requests]
  <2>1. NoAnswer \in Answers
    BY SaysType DEF NoAnswer, Errors
  <2> QED BY <2>1 DEF Init, Requests, Phases
<1> QED BY <1>1, <1>2, <1>3 DEF TypeOK

(* The requests and the session calls keep their types, for every set of calls
   and everything they may bring. *)
THEOREM TypeCorrect == Spec => []TypeOK
BY TypeInit, TypeStep, PTL DEF Spec

---------------------------------------------------------------------------
(* The session calls *)

(* Whatever a step of the endpoint does, the session calls see the answer of one
   of them, the begin of one, an abort, or a minute that passes. *)
SessionSteps ==
  \/ \E c \in Calls : MeAnswers(c) \/ MeDenies(c) \/ MeFails(c)
  \/ /\ \E c \in Calls : session' \in {[session EXCEPT ![c] = Begun(c)], [session EXCEPT ![c].cut = TRUE]}
     /\ UNCHANGED <<maps, registered>>
  \/ \E b \in Books : MinutePasses(b)
  \/ UNCHANGED <<session, maps, registered>>

LEMMA StepOfTheSession ==
  ASSUME [Next]_vars
  PROVE  SessionSteps /\ UNCHANGED cmsVars
<1>1. ASSUME NEW c \in Calls,
             \/ \E gone \in BOOLEAN : Arrive(c, gone)
             \/ \E n \in 1..Limit + 1 : Chunk(c, n)
             \/ BodyBreaks(c) \/ BodyTimesOut(c) \/ Misconfigured(c) \/ SessionRefuses(c)
             \/ \E verdict \in {"authorized", "invalid", "unavailable"} : VerifierAnswers(c, verdict)
             \/ \E ok \in BOOLEAN : PropsSettle(c, ok) \/ RenderSettles(c, ok)
             \/ DeadlinePasses(c)
      PROVE  UNCHANGED sessionVars
  BY <1>1 DEF Arrive, Chunk, BodyBreaks, BodyTimesOut, Misconfigured, SessionRefuses,
              VerifierAnswers, PropsSettle, RenderSettles, PhaseSettles, DeadlinePasses
<1>2. ASSUME NEW c \in Calls, NEW error \in {"none", "shape", "field-depth"}, BodyEnds(c, error)
      PROVE  SessionSteps /\ UNCHANGED cmsVars
  BY <1>2 DEF BodyEnds, SessionSteps
<1>3. ASSUME NEW c \in Calls, SessionAnswers(c) \/ SessionDenies(c) \/ SessionFails(c)
      PROVE  SessionSteps /\ UNCHANGED cmsVars
  BY <1>3 DEF SessionAnswers, SessionDenies, SessionFails, MeAnswers, MeDenies, MeFails, SessionSteps
<1>4. ASSUME NEW c \in Calls, Disconnects(c) \/ TotalTimerFires(c) \/ PhaseTimesOut(c)
      PROVE  SessionSteps /\ UNCHANGED cmsVars
  BY <1>4 DEF Disconnects, TotalTimerFires, PhaseTimesOut, Stop, Cut, SessionSteps
<1>5. ASSUME NEW c \in Calls, Expire(c)
      PROVE  SessionSteps /\ UNCHANGED cmsVars
  BY <1>5 DEF Expire, SessionSteps
<1>6. ASSUME NEW b \in Books, Minute(b)
      PROVE  SessionSteps /\ UNCHANGED cmsVars
  BY <1>6 DEF Minute, MinutePasses, SessionSteps
<1>7. UNCHANGED sessionVars => SessionSteps /\ UNCHANGED cmsVars
  BY DEF sessionVars, cmsVars, SessionSteps
<1>8. CASE UNCHANGED vars
  BY <1>7, <1>8 DEF vars
<1> QED BY <1>1, <1>2, <1>3, <1>4, <1>5, <1>6, <1>7, <1>8 DEF Next

\* The form that is left when an editor is not found with the other one.
LEMMA OtherForm ==
  ASSUME SessionTypeOK, NEW form \in Forms
  PROVE  /\ Other(form) \in Forms /\ Other(Other(form)) = form
         /\ form \in setup.takes \/ Other(form) \in setup.takes
<1>1. setup.takes \in SUBSET Forms /\ setup.takes # {}
  BY DEF SessionTypeOK
<1> QED BY <1>1 DEF Other, Forms

LEMMA AnswerIsTrue ==
  ASSUME SessionTypeOK, NEW c \in Calls, Asked(c), MeAnswers(c)
  PROVE  Asked(c)' /\ VerdictIsTrue(c)'
<1> DEFINE s == session[c]
<1>1. /\ s \in Session /\ s.form \in Forms /\ s.trip \in 1..2 /\ s.verdict = "none"
      /\ s.state = "asking" /\ UNCHANGED <<setup, visitor>>
  BY DEF SessionTypeOK, Session, MeAnswers, cmsVars, Asked
<1>2. ASSUME AsksAgain(c)
      PROVE  Asked(c)' /\ VerdictIsTrue(c)'
  <2>1. /\ session'[c].verdict = "none" /\ session'[c].form = Other(s.form)
    BY <1>1, <1>2 DEF MeAnswers, SessionTypeOK, Session
  <2>2. visitor[c] = "editor" => s.form \notin setup.takes
    BY <1>2 DEF AsksAgain, Found
  <2> QED BY <1>1, <2>1, <2>2, OtherForm DEF Asked, VerdictIsTrue
<1>3. ASSUME ~AsksAgain(c)
      PROVE  Asked(c)' /\ VerdictIsTrue(c)'
  <2>1. /\ session'[c].state = "done" /\ session'[c].verdict = Judged(c)
        /\ session'[c].form = s.form /\ session'[c].stale = (~Found(c) /\ Remembered(s))
    BY <1>1, <1>3 DEF MeAnswers, Finished, SessionTypeOK, Session
  <2>2. Judged(c) = "authorized" => visitor[c] = "editor" /\ s.form \in setup.takes
    BY DEF Judged, Found
  <2>3. ASSUME Judged(c) = "invalid", visitor[c] = "editor", ~setup.explicit
        PROVE  Remembered(s) /\ ~Found(c) /\ setup.takes = {"cookie"}
    <3>1. ~Found(c) /\ s.form \notin setup.takes
      BY <2>3 DEF Judged, Found
    <3>2. Remembered(s)
      <4>1. CASE s.trip = 1
        BY <1>3, <2>3, <3>1, <4>1 DEF AsksAgain
      <4>2. CASE s.trip = 2
        BY <1>1, <2>3, <3>1, <4>2, OtherForm DEF Asked
      <4> QED BY <1>1, <4>1, <4>2
    <3>3. setup.takes \in SUBSET Forms /\ setup.takes # {} /\ "origin" \notin setup.takes
      BY <3>1, <3>2 DEF Remembered, SessionTypeOK
    <3> QED BY <3>1, <3>2, <3>3 DEF Forms
  <2> QED BY <1>1, <2>1, <2>2, <2>3 DEF Asked, VerdictIsTrue
<1> QED BY <1>2, <1>3

LEMMA SessionsStayTrue ==
  ASSUME SessionTypeOK, \A c \in Calls : Asked(c) /\ VerdictIsTrue(c), [Next]_vars
  PROVE  \A c \in Calls : Asked(c)' /\ VerdictIsTrue(c)'
<1>1. SessionSteps /\ UNCHANGED <<setup, visitor>>
  BY StepOfTheSession DEF cmsVars
<1>2. ASSUME NEW d \in Calls, session'[d] = session[d]
      PROVE  Asked(d)' /\ VerdictIsTrue(d)'
  BY <1>1, <1>2 DEF Asked, VerdictIsTrue
<1>3. ASSUME NEW c \in Calls, MeAnswers(c) \/ MeDenies(c) \/ MeFails(c)
      PROVE  /\ Asked(c)' /\ VerdictIsTrue(c)'
             /\ \A d \in Calls : d # c => session'[d] = session[d]
  <2>1. \A d \in Calls : d # c => session'[d] = session[d]
    BY <1>3 DEF MeAnswers, MeDenies, MeFails, Finished, SessionTypeOK
  <2>2. CASE MeFails(c)
    <3>1. session'[c].verdict = "unavailable" /\ session'[c].state = "done"
      BY <2>2 DEF MeFails, Finished, SessionTypeOK, Session
    <3> QED BY <2>1, <3>1 DEF Asked, VerdictIsTrue
  <2>3. CASE MeDenies(c)
    <3>1. session'[c].verdict = "invalid" /\ session'[c].denied /\ session'[c].state = "done"
      BY <2>3 DEF MeDenies, Finished, SessionTypeOK, Session
    <3> QED BY <2>1, <3>1 DEF Asked, VerdictIsTrue
  <2> QED BY <1>3, <2>1, <2>2, <2>3, AnswerIsTrue
<1>4. ASSUME NEW c \in Calls,
             session' \in {[session EXCEPT ![c] = Begun(c)], [session EXCEPT ![c].cut = TRUE]}
      PROVE  \A d \in Calls : Asked(d)' /\ VerdictIsTrue(d)'
  <2>1. \A d \in Calls : d # c => session'[d] = session[d]
    BY <1>4 DEF SessionTypeOK
  <2>2. CASE session' = [session EXCEPT ![c] = Begun(c)]
    <3>1. session'[c] = Begun(c)
      BY <2>2 DEF SessionTypeOK
    <3>2. /\ Begun(c).verdict \in {"none", "missing-credential"} /\ Begun(c).trip = 1
          /\ Begun(c).verdict # "none" => Begun(c).state = "done"
      BY DEF Begun, Idle
    <3> QED BY <1>2, <2>1, <3>1, <3>2 DEF Asked, VerdictIsTrue
  <2>3. CASE session' = [session EXCEPT ![c].cut = TRUE]
    <3>1. session'[c] = [session[c] EXCEPT !.cut = TRUE] /\ session[c] \in Session
      BY <2>3 DEF SessionTypeOK
    <3>2. Asked(c)' /\ VerdictIsTrue(c)'
      BY <1>1, <3>1 DEF Asked, VerdictIsTrue, Session
    <3> QED BY <1>2, <2>1, <3>2
  <2> QED BY <1>4, <2>2, <2>3
<1>5. ASSUME NEW b \in Books, MinutePasses(b)
      PROVE  session' = session
  BY <1>5 DEF MinutePasses
<1> QED BY <1>1, <1>2, <1>3, <1>4, <1>5 DEF SessionSteps

LEMMA SessionsBeginTrue ==
  ASSUME Init, NEW c \in Calls
  PROVE  Asked(c) /\ VerdictIsTrue(c)
<1>1. session[c].verdict = "none" /\ session[c].state = "idle"
  BY DEF Init, SessionInit, Idle
<1> QED BY <1>1 DEF Asked, VerdictIsTrue

(* A lesson about a CMS that needs the origin is never lost, by no interleaving
   of calls and no map that one of them brings. *)
LEMMA LessonKept ==
  ASSUME SessionTypeOK, [Next]_vars, setup.takes = {"origin"},
         registered # None, maps[registered] # "none"
  PROVE  registered' # None /\ maps'[registered'] # "none"
<1>1. SessionSteps /\ registered \in Books /\ maps \in [Books -> {"none", "fresh", "old"}]
  BY StepOfTheSession DEF SessionTypeOK
<1>2. ASSUME NEW c \in Calls, MeAnswers(c)
      PROVE  registered' # None /\ maps'[registered'] # "none"
  <2> DEFINE s == session[c]
             learns == ~AsksAgain(c) /\ s.trip = 2 /\ Found(c)
  <2>1. s.book \in Books /\ s.book # None
    BY SessionAssumption DEF SessionTypeOK, Session, Books
  <2>2. CASE learns
    <3>1. s.form = "origin"
      BY <2>2 DEF Found
    <3>2. registered' = s.book /\ maps' = [maps EXCEPT ![s.book] = "fresh"]
      BY <1>2, <2>2, <3>1 DEF MeAnswers, Learned
    <3> QED BY <1>1, <2>1, <3>2
  <2>3. CASE ~learns
    <3>1. registered' = registered
      BY <1>2, <2>3 DEF MeAnswers
    <3>2. maps' = [maps EXCEPT ![s.book] = "fresh"] \/ maps' = maps
      BY <1>2, <2>3 DEF MeAnswers, TriedAgain
    <3> QED BY <1>1, <2>1, <3>1, <3>2
  <2> QED BY <2>2, <2>3
<1>3. ASSUME NEW b \in Books, MinutePasses(b)
      PROVE  registered' # None /\ maps'[registered'] # "none"
  BY <1>1, <1>3 DEF MinutePasses
<1>4. ASSUME NEW c \in Calls, MeDenies(c) \/ MeFails(c)
      PROVE  registered' # None /\ maps'[registered'] # "none"
  BY <1>4 DEF MeDenies, MeFails
<1> QED BY <1>1, <1>2, <1>3, <1>4 DEF SessionSteps

THEOREM LessonsStay == Spec => LessonStays
<1>1. TypeOK /\ [Next]_vars
        => [setup.takes = {"origin"} /\ registered # None /\ maps[registered] # "none"
              => registered' # None /\ maps'[registered'] # "none"]_sessionVars
  BY LessonKept DEF TypeOK
<1> QED BY <1>1, TypeInit, TypeStep, PTL DEF Spec, LessonStays

---------------------------------------------------------------------------
(* The requests *)

LEMMA SoundStays ==
  ASSUME NEW c \in Calls, Sound(c), UNCHANGED input, req'[c] = req[c],
         req[c].phase = "answered" => expired'[c] = expired[c],
         session[c].verdict = "authorized" => session'[c].verdict = "authorized"
  PROVE  Sound(c)'
<1>1. OnItsWay(c)' /\ StopsTellTheirReason(c)'
  BY DEF Sound, OnItsWay, StopsTellTheirReason
<1>2. Earned(c) => Earned(c)'
  BY DEF Earned
<1>3. req[c].answer = Says(200, "html") => req[c].phase = "answered"
  BY DEF Sound, OnItsWay, NoAnswer, Says
<1>4. EarnedOnly(c)'
  BY <1>2, <1>3 DEF Sound, EarnedOnly, ScopeCurrent
<1> QED BY <1>1, <1>4 DEF Sound

\* An answer other than the markup, of a request that nothing stopped.
LEMMA RefusedIsSound ==
  ASSUME TypeOK, NEW c \in Calls, NEW q \in Requests, NEW answer \in Answers,
         Step(c, Answer(q, answer)), q.stopped = None, answer.status # 200
  PROVE  Sound(c)'
<1>1. /\ req'[c].phase = "answered" /\ req'[c].answer = answer /\ req'[c].stopped = None
  BY DEF Step, TypeOK, Answer, Requests
<1> QED BY <1>1 DEF Sound, OnItsWay, EarnedOnly, StopsTellTheirReason, Says

LEMMA StoppedIsSound ==
  ASSUME TypeOK, NEW c \in Calls, NEW q \in Requests, NEW why \in Reasons, Step(c, Stopped(q, why))
  PROVE  Sound(c)'
<1>1. /\ req'[c].phase = "answered" /\ req'[c].stopped = why
      /\ req'[c].answer = StopAnswer(q.phase, why)
  BY DEF Step, TypeOK, Answer, Stopped, Requests
<1>2. StopAnswer(q.phase, why).status = CASE why = "total-timeout" -> 504
                                          [] why = "phase-timeout" -> 500
                                          [] OTHER -> 400
  BY DEF StopAnswer, Says, Reasons
<1>3. StopAnswer(q.phase, why).status # 200
  BY <1>2 DEF Reasons
<1> QED BY <1>1, <1>2, <1>3 DEF Sound, OnItsWay, EarnedOnly, StopsTellTheirReason, Says

\* After the check, a deadline that passed or what the work has led to.
LEMMA CheckedIsSound ==
  ASSUME TypeOK, NEW c \in Calls, NEW q \in Requests, NEW next \in Requests,
         Step(c, Checked(q, next)), ~q.late /\ Step(c, next) => Sound(c)'
  PROVE  Sound(c)'
BY StoppedIsSound DEF Checked, Reasons

\* The other requests, in a step of one.
LEMMA OthersStaySound ==
  ASSUME TypeOK, NEW c \in Calls, NEW d \in Calls, d # c, Sound(d), NEW q, Step(c, q),
         session'[d] = session[d], UNCHANGED <<input, expired>>
  PROVE  Sound(d)'
<1>1. req'[d] = req[d]
  BY DEF Step, TypeOK
<1> QED BY <1>1, SoundStays

LEMMA BodyIsSound ==
  ASSUME TypeOK, NEW c \in Calls, Sound(c),
         \/ \E gone \in BOOLEAN : Arrive(c, gone)
         \/ \E n \in 1..Limit + 1 : Chunk(c, n)
         \/ BodyBreaks(c) \/ BodyTimesOut(c) \/ Misconfigured(c)
         \/ \E error \in {"none", "shape", "field-depth"} : BodyEnds(c, error)
  PROVE  Sound(c)'
<1> DEFINE q == req[c]
<1>1. /\ q \in Requests /\ UNCHANGED input /\ Limit \in Nat /\ q.bytes \in Nat
      /\ input[c].size \in Nat
      /\ q.phase # "answered" => q.stopped = None /\ q.answer = NoAnswer
  BY EndpointAssumption DEF TypeOK, Requests, IsInput, Sound, OnItsWay, Arrive, Chunk, BodyBreaks,
     BodyTimesOut, Misconfigured, BodyEnds, fixed
<1>2. ASSUME NEW r \in Requests, NEW status \in Nat \ {200}, NEW error \in Errors,
             Step(c, Answer(r, Says(status, error))), r.stopped = None
      PROVE  Sound(c)'
  <2>1. Says(status, error) \in Answers /\ Says(status, error).status # 200
    BY RefusalSays
  <2> QED BY <1>2, <2>1, RefusedIsSound
<1>3. ASSUME NEW gone \in BOOLEAN, Arrive(c, gone)
      PROVE  Sound(c)'
  <2>1. CASE input[c].door # NoAnswer
    <3>1. input[c].door \in Answers /\ input[c].door.status # 200
      BY <2>1 DEF TypeOK, IsInput, Refusals, Answers
    <3> QED BY <1>1, <1>3, <2>1, <3>1, RefusedIsSound DEF Arrive
  <2>2. CASE input[c].door = NoAnswer /\ gone
    <3>1. [q EXCEPT !.phase = "body"] \in Requests
      BY <1>1 DEF Requests, Phases
    <3> QED BY <1>3, <2>2, <3>1, StoppedIsSound DEF Arrive, Reasons
  <2>3. CASE input[c].door = NoAnswer /\ ~gone /\ (~input[c].usable \/ input[c].declaresMore)
    BY <1>1, <1>2, <1>3, <2>3 DEF Arrive, Errors
  <2>4. CASE input[c].door = NoAnswer /\ ~gone /\ input[c].usable /\ ~input[c].declaresMore
    <3>1. req'[c] = [q EXCEPT !.phase = "body"]
      BY <1>3, <2>4 DEF Arrive, Step, TypeOK
    <3>2. q.bytes = 0 /\ q.phase = "waiting"
      BY <1>3 DEF Arrive, Sound, OnItsWay
    <3> QED BY <1>1, <2>4, <3>1, <3>2
            DEF Requests, Sound, OnItsWay, EarnedOnly, StopsTellTheirReason, NoAnswer, Says
  <2> QED BY <2>1, <2>2, <2>3, <2>4
<1>4. ASSUME NEW n \in 1..Limit + 1, Chunk(c, n)
      PROVE  Sound(c)'
  <2> DEFINE read == [q EXCEPT !.bytes = @ + n]
  <2>0. q.phase = "body" /\ n \in 1..(input[c].size - q.bytes)
    BY <1>4 DEF Chunk
  <2>1. n \in Nat /\ q.bytes + n \in Nat /\ q.bytes + n <= input[c].size
    BY <1>1, <2>0
  <2>2. read \in Requests /\ read.stopped = None
    BY <1>1, <2>0, <2>1 DEF Requests
  <2>3. ~input[c].declaresMore
    BY <2>0 DEF Sound, OnItsWay
  <2>4. CASE q.over \/ ~Exceeds(q, n)
    <3>1. req'[c] = read
      BY <1>4, <2>4 DEF Chunk, Step, TypeOK
    <3>2. q.over \/ q.bytes + n <= Limit
      BY <1>1, <2>1, <2>4 DEF Exceeds
    <3> QED BY <1>1, <2>0, <2>1, <2>3, <3>1, <3>2
            DEF Requests, Sound, OnItsWay, EarnedOnly, StopsTellTheirReason, NoAnswer, Says
  <2>5. CASE ~(q.over \/ ~Exceeds(q, n)) /\ conf.drain
    <3>1. req'[c] = [read EXCEPT !.over = TRUE]
      BY <1>4, <2>5 DEF Chunk, Step, TypeOK
    <3> QED BY <1>1, <2>0, <2>1, <2>3, <3>1
            DEF Requests, Sound, OnItsWay, EarnedOnly, StopsTellTheirReason, NoAnswer, Says
  <2>6. CASE ~(q.over \/ ~Exceeds(q, n)) /\ ~conf.drain
    <3> HIDE DEF read
    <3>1. Answer(read, Says(413, "body")) \in Requests
      BY <2>2, SaysType, AnswerType DEF Errors
    <3>2. Step(c, Checked(read, Answer(read, Says(413, "body"))))
      BY <1>4, <2>6 DEF Chunk, read
    <3>3. Step(c, Answer(read, Says(413, "body"))) => Sound(c)'
      BY <1>2, <2>2 DEF Errors
    <3> QED BY <2>2, <3>1, <3>2, <3>3, CheckedIsSound
  <2> QED BY <2>4, <2>5, <2>6
<1>5. ASSUME NEW status \in Nat \ {200}, NEW error \in Errors, q.phase # "answered",
             Step(c, Checked(q, Answer(q, Says(status, error))))
      PROVE  Sound(c)'
  <2>1. Answer(q, Says(status, error)) \in Requests
    BY <1>1, SaysType, AnswerType
  <2>2. Step(c, Answer(q, Says(status, error))) => Sound(c)'
    BY <1>1, <1>2, <1>5
  <2> QED BY <1>1, <1>5, <2>1, <2>2, CheckedIsSound
<1>6. CASE BodyBreaks(c) \/ BodyTimesOut(c) \/ Misconfigured(c)
  <2>1. /\ q.phase # "answered"
        /\ \E status \in {413, 400, 408, 500}, error \in {"body", "threw"} :
             Step(c, Checked(q, Answer(q, Says(status, error))))
    BY <1>6 DEF BodyBreaks, BodyTimesOut, Misconfigured
  <2> QED BY <1>5, <2>1 DEF Errors
<1>7. ASSUME NEW error \in {"none", "shape", "field-depth"}, BodyEnds(c, error)
      PROVE  Sound(c)'
  <2>1. /\ q.phase = "body" /\ q.bytes = input[c].size /\ ~input[c].declaresMore
        /\ q.over \/ q.bytes <= Limit
    BY <1>7 DEF BodyEnds, Sound, OnItsWay
  <2>2. CASE q.over \/ error # "none"
    <3>1. \/ Step(c, Checked(q, Answer(q, Says(413, "body"))))
          \/ Step(c, Checked(q, Answer(q, Says(400, error))))
      BY <1>7, <2>2 DEF BodyEnds
    <3> QED BY <1>5, <2>1, <3>1 DEF Errors
  <2>3. CASE ~q.over /\ error = "none"
    <3>1. Step(c, Checked(q, [q EXCEPT !.phase = "authorize"]))
      BY <1>7, <2>3 DEF BodyEnds
    <3>2. [q EXCEPT !.phase = "authorize"] \in Requests
      BY <1>1 DEF Requests, Phases
    <3>3. ASSUME Step(c, [q EXCEPT !.phase = "authorize"])
          PROVE  Sound(c)'
      <4>1. req'[c] = [q EXCEPT !.phase = "authorize"]
        BY <3>3 DEF Step, TypeOK
      <4> QED BY <1>1, <2>1, <2>3, <4>1
              DEF Requests, Sound, OnItsWay, EarnedOnly, StopsTellTheirReason, NoAnswer, Says
    <3> QED BY <1>1, <3>1, <3>2, <3>3, CheckedIsSound
  <2> QED BY <2>2, <2>3
<1> QED BY <1>3, <1>4, <1>6, <1>7

LEMMA AuthorizedIsSound ==
  ASSUME TypeOK, NEW c \in Calls, Sound(c), UNCHANGED <<input, expired>>, NEW verdict,
         req[c].phase = "authorize", Step(c, Authorized(c, verdict)),
         verdict = "authorized" => input[c].scoped \/ session'[c].verdict = "authorized"
  PROVE  Sound(c)'
<1> DEFINE q == req[c]
<1>1. /\ q \in Requests /\ q.stopped = None /\ q.answer = NoAnswer
      /\ q.bytes = input[c].size /\ q.bytes <= Limit /\ ~input[c].declaresMore
  BY DEF TypeOK, Sound, OnItsWay
<1>2. /\ Answer(q, Says(403, "unauthorized")) \in Requests
      /\ Answer(q, Says(404, "fragment")) \in Requests
      /\ [q EXCEPT !.phase = "props"] \in Requests
  BY <1>1, SaysType, AnswerType DEF Errors, Requests, Phases
<1>3. ASSUME \/ Step(c, Answer(q, Says(403, "unauthorized")))
             \/ Step(c, Answer(q, Says(404, "fragment")))
      PROVE  Sound(c)'
  <2>1. /\ Says(403, "unauthorized") \in Answers /\ Says(403, "unauthorized").status # 200
        /\ Says(404, "fragment") \in Answers /\ Says(404, "fragment").status # 200
    BY RefusalSays DEF Errors
  <2> QED BY <1>1, <1>3, <2>1, RefusedIsSound
<1>4. CASE verdict # "authorized" \/ ~ScopeAllows(c)
  <2>1. Step(c, Checked(q, Answer(q, Says(403, "unauthorized"))))
    BY <1>4 DEF Authorized
  <2> QED BY <1>1, <1>2, <1>3, <2>1, CheckedIsSound
<1>5. CASE verdict = "authorized" /\ ScopeAllows(c) /\ ~input[c].known
  <2>1. Step(c, Checked(q, Answer(q, Says(404, "fragment"))))
    BY <1>5 DEF Authorized
  <2> QED BY <1>1, <1>2, <1>3, <2>1, CheckedIsSound
<1>6. CASE verdict = "authorized" /\ ScopeAllows(c) /\ input[c].known
  <2>1. Step(c, Checked(q, [q EXCEPT !.phase = "props"]))
    BY <1>6 DEF Authorized
  <2>2. ASSUME Step(c, [q EXCEPT !.phase = "props"])
        PROVE  Sound(c)'
    <3>1. req'[c] = [q EXCEPT !.phase = "props"]
      BY <2>2 DEF Step, TypeOK
    <3>2. Earned(c)'
      BY <1>1, <1>6, <3>1 DEF Earned, ScopeAllows, Requests
    <3> QED BY <1>1, <3>1, <3>2
            DEF Requests, Sound, OnItsWay, EarnedOnly, StopsTellTheirReason, NoAnswer, Says
  <2> QED BY <1>1, <1>2, <2>1, <2>2, CheckedIsSound
<1> QED BY <1>4, <1>5, <1>6

LEMMA PhaseIsSound ==
  ASSUME TypeOK, NEW c \in Calls, Sound(c), NEW ok \in BOOLEAN,
         PropsSettle(c, ok) \/ RenderSettles(c, ok)
  PROVE  Sound(c)'
<1> DEFINE q == req[c]
           next == IF q.phase = "props" THEN [q EXCEPT !.phase = "render"] ELSE Answer(q, Says(200, "html"))
<1>1. /\ q \in Requests /\ q.stopped = None /\ q.answer = NoAnswer /\ Earned(c)
      /\ q.phase \in {"props", "render"} /\ UNCHANGED <<input, session, expired>>
  BY DEF TypeOK, Sound, OnItsWay, EarnedOnly, PropsSettle, RenderSettles, PhaseSettles, sessionVars,
     fixed
<1>2. next \in Requests
  BY <1>1, SaysType, AnswerType DEF Errors, Requests, Phases
<1>3. \/ Step(c, Checked(q, Answer(q, Says(500, "render"))))
      \/ Step(c, Checked(q, Answer(q, Says(403, "unauthorized"))))
      \/ ScopeCurrent(c) /\ Step(c, Checked(q, next))
  BY DEF PropsSettle, RenderSettles, PhaseSettles
<1> HIDE DEF next
<1>4. CASE Step(c, Checked(q, Answer(q, Says(500, "render"))))
  <2>1. Says(500, "render") \in Answers /\ Says(500, "render").status # 200
    BY RefusalSays DEF Errors
  <2> QED BY <1>1, <1>4, <2>1, AnswerType, RefusedIsSound, CheckedIsSound
<1>5. CASE Step(c, Checked(q, Answer(q, Says(403, "unauthorized"))))
  <2>1. Says(403, "unauthorized") \in Answers /\ Says(403, "unauthorized").status # 200
    BY RefusalSays DEF Errors
  <2> QED BY <1>1, <1>5, <2>1, AnswerType, RefusedIsSound, CheckedIsSound
<1>6. CASE ScopeCurrent(c) /\ Step(c, Checked(q, next))
  <2>1. ASSUME ~q.late, Step(c, next)
        PROVE  Sound(c)'
    <3>1. req'[c] = next /\ next.bytes = q.bytes /\ next.late = q.late /\ next.stopped = None
      BY <1>1, <2>1 DEF Step, TypeOK, next, Answer, Requests
    <3>2. Earned(c)' /\ ScopeCurrent(c)'
      BY <1>1, <1>6, <3>1 DEF Earned, ScopeCurrent
    <3>3. \/ next.phase = "render" /\ next.answer = NoAnswer
          \/ next.phase = "answered"
      BY <1>1 DEF next, Answer, Requests
    <3> QED BY <1>1, <2>1, <3>1, <3>2, <3>3 DEF Sound, OnItsWay, EarnedOnly, StopsTellTheirReason
  <2> QED BY <1>1, <1>2, <1>6, <2>1, CheckedIsSound
<1> QED BY <1>3, <1>4, <1>5, <1>6

LEMMA SoundStep ==
  ASSUME IInv, [Next]_vars
  PROVE  \A d \in Calls : Sound(d)'
<1> SUFFICES ASSUME NEW d \in Calls
             PROVE  Sound(d)'
  OBVIOUS
<1> USE DEF IInv
<1>1. ASSUME NEW c \in Calls,
             \/ \E gone \in BOOLEAN : Arrive(c, gone)
             \/ \E n \in 1..Limit + 1 : Chunk(c, n)
             \/ BodyBreaks(c) \/ BodyTimesOut(c) \/ Misconfigured(c)
             \/ \E error \in {"none", "shape", "field-depth"} : BodyEnds(c, error)
      PROVE  Sound(d)'
  <2>1. CASE d = c
    BY <1>1, <2>1, BodyIsSound
  <2>2. CASE d # c
    <3>1. (\E q : Step(c, q)) /\ UNCHANGED <<input, expired>>
      BY <1>1, ZenonT(30)
      DEF Arrive, Chunk, BodyBreaks, BodyTimesOut, Misconfigured, BodyEnds, sessionVars, fixed
    <3>2. session'[d] = session[d]
      BY <1>1, <2>2 DEF Arrive, Chunk, BodyBreaks, BodyTimesOut, Misconfigured, BodyEnds, sessionVars,
         TypeOK, SessionTypeOK
    <3> QED BY <2>2, <3>1, <3>2, OthersStaySound
  <2> QED BY <2>1, <2>2
<1>2. ASSUME NEW c \in Calls, SessionAnswers(c) \/ SessionDenies(c) \/ SessionFails(c)
      PROVE  Sound(d)'
  <2>1. /\ session[c].state = "asking" /\ UNCHANGED <<input, expired>>
        /\ SessionReturns(c)
    BY <1>2 DEF SessionAnswers, SessionDenies, SessionFails, MeAnswers, MeDenies, MeFails,
                SessionReturns, fixed
  <2>2. session[c].verdict = "none"
    BY <2>1 DEF Asked
  <2>3. d # c => session'[d] = session[d]
    BY <1>2 DEF SessionAnswers, SessionDenies, SessionFails, MeAnswers, MeDenies, MeFails,
                Finished, TypeOK, SessionTypeOK
  <2>4. CASE UNCHANGED req
    BY <2>1, <2>2, <2>3, <2>4, SoundStays
  <2>5. CASE req[c].phase = "authorize" /\ Step(c, Authorized(c, session'[c].verdict))
    BY <2>1, <2>3, <2>5, AuthorizedIsSound, OthersStaySound
  <2> QED BY <2>1, <2>4, <2>5 DEF SessionReturns
<1>3. ASSUME NEW c \in Calls, SessionRefuses(c)
      PROVE  Sound(d)'
  <2>1. UNCHANGED <<input, expired, session>>
    BY <1>3 DEF SessionRefuses, sessionVars, fixed
  <2> QED BY <1>3, <2>1, AuthorizedIsSound, OthersStaySound DEF SessionRefuses
<1>4. ASSUME NEW c \in Calls, NEW verdict, VerifierAnswers(c, verdict)
      PROVE  Sound(d)'
  <2>1. UNCHANGED <<input, expired, session>>
    BY <1>4 DEF VerifierAnswers, sessionVars, fixed
  <2> QED BY <1>4, <2>1, AuthorizedIsSound, OthersStaySound DEF VerifierAnswers
<1>5. ASSUME NEW c \in Calls, NEW ok \in BOOLEAN, PropsSettle(c, ok) \/ RenderSettles(c, ok)
      PROVE  Sound(d)'
  <2>1. (\E q : Step(c, q)) /\ UNCHANGED <<input, expired, session>>
    BY <1>5 DEF PropsSettle, RenderSettles, PhaseSettles, sessionVars, fixed
  <2> QED BY <1>5, <2>1, PhaseIsSound, OthersStaySound
<1>6. ASSUME NEW c \in Calls, NEW why \in Reasons, Stop(c, why)
      PROVE  Sound(d)'
  <2>1. d # c => session'[d] = session[d]
    BY <1>6 DEF Stop, Cut, TypeOK, SessionTypeOK
  <2>2. UNCHANGED <<input, expired>> /\ Step(c, Stopped(req[c], why)) /\ req[c] \in Requests
    BY <1>6 DEF Stop, fixed, TypeOK
  <2> QED BY <2>1, <2>2, StoppedIsSound, OthersStaySound
<1>7. ASSUME NEW c \in Calls, DeadlinePasses(c)
      PROVE  Sound(d)'
  <2>1. UNCHANGED <<input, expired, session>>
    BY <1>7 DEF DeadlinePasses, sessionVars, fixed
  <2>2. CASE d = c
    <3>1. req'[c] = [req[c] EXCEPT !.late = TRUE] /\ req[c] \in Requests
      BY <1>7 DEF DeadlinePasses, Step, TypeOK
    <3>2. req[c].phase # "answered" /\ req[c].answer = NoAnswer
      BY <1>7 DEF DeadlinePasses, Running, Sound, OnItsWay
    <3>3. Earned(c) => Earned(c)'
      BY <2>1, <3>1 DEF Earned, Requests
    <3> QED BY <2>1, <2>2, <3>1, <3>2, <3>3
            DEF Requests, Sound, OnItsWay, EarnedOnly, StopsTellTheirReason, NoAnswer, Says
  <2>3. CASE d # c
    BY <1>7, <2>1, <2>3, OthersStaySound DEF DeadlinePasses
  <2> QED BY <2>2, <2>3
<1>8. ASSUME NEW c \in Calls, Expire(c)
      PROVE  Sound(d)'
  <2>1. /\ UNCHANGED <<input, session, req>>
        /\ req[d].phase = "answered" => expired'[d] = expired[d]
    BY <1>8 DEF Expire, fixed, Running, TypeOK, SessionTypeOK
  <2> QED BY <2>1, SoundStays
<1>9. CASE (\E b \in Books : Minute(b)) \/ UNCHANGED vars
  <2>1. UNCHANGED <<input, session, req, expired>>
    BY <1>9 DEF Minute, MinutePasses, vars, sessionVars, fixed
  <2> QED BY <2>1, SoundStays
<1>10. ASSUME NEW c \in Calls, Disconnects(c) \/ TotalTimerFires(c) \/ PhaseTimesOut(c)
       PROVE  Sound(d)'
  BY <1>6, <1>10 DEF Disconnects, TotalTimerFires, PhaseTimesOut, Reasons
<1> QED BY <1>1, <1>2, <1>3, <1>4, <1>5, <1>7, <1>8, <1>9, <1>10 DEF Next

LEMMA Inductive == IInv /\ [Next]_vars => IInv'
BY TypeStep, SessionsStayTrue, SoundStep DEF IInv, TypeOK

LEMMA Initially == Init => IInv
<1> SUFFICES ASSUME Init, NEW c \in Calls
             PROVE  Sound(c)
  BY TypeInit, SessionsBeginTrue DEF IInv
<1>1. /\ req[c].phase = "waiting" /\ req[c].bytes = 0 /\ ~req[c].over /\ req[c].stopped = None
      /\ req[c].answer = NoAnswer
  BY DEF Init
<1> QED BY <1>1 DEF Sound, OnItsWay, EarnedOnly, StopsTellTheirReason, NoAnswer, Says

(* Markup is answered, and consumer code runs, only for what was earned, and each
   refusal tells what stopped the request: for every mixture of requests, chunks,
   deadlines, disconnects and verdicts. *)
THEOREM OnlyEarnedAnswers == Spec => []AnswersAreEarned
<1>1. IInv => AnswersAreEarned
  BY DEF IInv, Sound, AnswersAreEarned
<1> QED BY <1>1, Initially, Inductive, PTL DEF Spec

(* Every verdict on a session is the one the CMS has given cause for: an editor whom
   /me does not deny outright (a 401, no user to read) is turned away as unknown only
   on a lesson less than a minute old, which a CMS that takes the cookie alone has
   ceased to teach, whatever the calls beside it do to the memory. *)
THEOREM VerdictsAreTrue == Spec => []VerdictIsTheCMSs
<1>1. IInv => VerdictIsTheCMSs
  BY DEF IInv, VerdictIsTheCMSs
<1> QED BY <1>1, Initially, Inductive, PTL DEF Spec
=============================================================================
