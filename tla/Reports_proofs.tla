--------------------------- MODULE Reports_proofs ---------------------------
(* Proofs about the two components that tell others what has become of the newest
   document: DocumentSession, which a framework hook reads, for every set of
   listeners, messages and document options, with and without a deadline; and
   RevisionDisplay, which the host and the islands of the page hear, for any number
   of islands, revisions and saves. The two share no state and no name. *)
EXTENDS DocumentSession, RevisionDisplay, FiniteSetTheorems, TLAPS

---------------------------------------------------------------------------
(* DocumentSession *)

(* The inductive invariant. That a stopped session is past its newest revision
   needs to know that whoever leaves last leaves an attached one. *)
IInv == TypeOK /\ AttachedIsHeard /\ OnlyTheNewestRuns

---------------------------------------------------------------------------
(* Changing one call leaves a sequence of calls of the same length. *)
LEMMA CallChanged ==
  ASSUME NEW cs \in Seq(Calls), NEW c \in 1..Len(cs), NEW r \in Calls
  PROVE  /\ [cs EXCEPT ![c] = r] \in Seq(Calls)
         /\ Len([cs EXCEPT ![c] = r]) = Len(cs)
         /\ \A d \in 1..Len(cs) : [cs EXCEPT ![c] = r][d] = IF d = c THEN r ELSE cs[d]
<1>1. cs \in [1..Len(cs) -> Calls] /\ Len(cs) \in Nat
  OBVIOUS
<1>2. [cs EXCEPT ![c] = r] \in [1..Len(cs) -> Calls]
  BY <1>1
<1>3. \A d \in 1..Len(cs) : [cs EXCEPT ![c] = r][d] = IF d = c THEN r ELSE cs[d]
  BY <1>1
<1> QED BY <1>1, <1>2, <1>3

LEMMA AbortedCalls ==
  ASSUME NEW cs \in Seq(Calls), NEW c \in 0..Len(cs)
  PROVE  /\ Aborted(cs, c) \in Seq(Calls)
         /\ Len(Aborted(cs, c)) = Len(cs)
         /\ \A d \in 1..Len(cs) :
              Aborted(cs, c)[d] = IF d = c THEN [cs[d] EXCEPT !.aborted = TRUE] ELSE cs[d]
<1>1. CASE c = 0
  BY <1>1 DEF Aborted
<1>2. CASE c # 0
  <2>1. c \in 1..Len(cs) /\ cs[c] \in Calls
    BY <1>2
  <2> DEFINE r == [cs[c] EXCEPT !.aborted = TRUE]
  <2>2. r \in Calls
    BY <2>1 DEF Calls
  <2>3. Aborted(cs, c) = [cs EXCEPT ![c] = r]
    BY <1>2 DEF Aborted
  <2> HIDE DEF r
  <2>4. /\ [cs EXCEPT ![c] = r] \in Seq(Calls) /\ Len([cs EXCEPT ![c] = r]) = Len(cs)
        /\ \A d \in 1..Len(cs) : [cs EXCEPT ![c] = r][d] = IF d = c THEN r ELSE cs[d]
    BY <2>1, <2>2, CallChanged
  <2> QED BY <2>3, <2>4 DEF r
<1> QED BY <1>1, <1>2

LEMMA CallType ==
  ASSUME TypeOK, NEW c \in 1..Len(calls)
  PROVE  /\ calls[c] \in Calls
         /\ calls[c].message \in MessageType
         /\ Reads(c) \in 0..2
<1>1. calls[c] \in Calls
  BY DEF TypeOK
<1>2. calls[c].message \in MessageType /\ calls[c].legacy \in BOOLEAN
  BY <1>1 DEF Calls
<1>3. calls[c].message.reads \in 0..2
  BY <1>2 DEF MessageType
<1> QED BY <1>1, <1>2, <1>3 DEF Reads

(* A record of the same message, taken at the same moment. *)
SameMessage(k, r) == r.message = k.message /\ r.locale = k.locale /\ r.revision = k.revision

(* What a step does to the calls it does not append to: it aborts at most one
   and moves at most one on. *)
Moved(d, r) ==
  /\ calls' \in Seq(Calls)
  /\ Len(calls') = Len(calls)
  /\ calls'[d] = r
  /\ \A e \in 1..Len(calls) : e # d => calls'[e] = calls[e]

LEMMA CallMoved ==
  ASSUME TypeOK, NEW c \in 1..Len(calls), NEW r \in Calls, calls' = [calls EXCEPT ![c] = r]
  PROVE  Moved(c, r)
BY CallChanged DEF TypeOK, Moved

\* merge's own change, after the abort of the call before it.
Began(d, r) ==
  /\ calls' \in Seq(Calls)
  /\ Len(calls') = Len(calls)
  /\ calls'[d] = r
  /\ \A e \in 1..Len(calls) : e # d =>
       calls'[e] = IF e = inflight THEN [calls[e] EXCEPT !.aborted = TRUE] ELSE calls[e]

LEMMA MergeMoves ==
  ASSUME TypeOK, NEW c \in 1..Len(calls), NEW r \in Calls,
         calls' = [Aborted(calls, inflight) EXCEPT ![c] = r]
  PROVE  Began(c, r)
<1>1. /\ Aborted(calls, inflight) \in Seq(Calls)
      /\ Len(Aborted(calls, inflight)) = Len(calls)
      /\ \A d \in 1..Len(calls) :
           Aborted(calls, inflight)[d] =
             IF d = inflight THEN [calls[d] EXCEPT !.aborted = TRUE] ELSE calls[d]
  BY AbortedCalls DEF TypeOK
<1> DEFINE cs == Aborted(calls, inflight)
<1> HIDE DEF cs
<1>2. /\ [cs EXCEPT ![c] = r] \in Seq(Calls) /\ Len([cs EXCEPT ![c] = r]) = Len(cs)
      /\ \A d \in 1..Len(cs) : [cs EXCEPT ![c] = r][d] = IF d = c THEN r ELSE cs[d]
  BY <1>1, CallChanged DEF cs
<1> QED BY <1>1, <1>2 DEF cs, Began

\* An aborted call is one.
LEMMA AbortedType ==
  ASSUME NEW k \in Calls
  PROVE  /\ [k EXCEPT !.aborted = TRUE] \in Calls /\ [k EXCEPT !.aborted = TRUE].aborted = TRUE
         /\ SameMessage(k, [k EXCEPT !.aborted = TRUE])
         /\ [k EXCEPT !.aborted = TRUE].step = k.step /\ [k EXCEPT !.aborted = TRUE].result = k.result
         /\ [k EXCEPT !.aborted = TRUE].attempt = k.attempt
BY DEF Calls, SameMessage

\* What a return can leave on show.
LEMMA SnapshotType ==
  ASSUME NEW s \in Snapshots, NEW n \in Nat, NEW r \in Nat
  PROVE  /\ [s EXCEPT !.isLoading = FALSE, !.status = "unavailable"] \in Snapshots
         /\ [s EXCEPT !.isLoading = FALSE, !.status = "unavailable"].revision = s.revision
         /\ [s EXCEPT !.isLoading = TRUE] \in Snapshots
         /\ [s EXCEPT !.isLoading = TRUE].revision = s.revision
         /\ [data |-> n, isLoading |-> FALSE, status |-> "live", revision |-> r] \in Snapshots
BY DEF Snapshots, Statuses

---------------------------------------------------------------------------
(* What each step of a call makes of it *)

\* What is left of a merge that ends: its message, its attempt and its result.
EndedAs(c, r, result) ==
  /\ SameMessage(calls[c], r)
  /\ r.attempt = calls[c].attempt
  /\ r.result = IF Superseded(c) THEN "superseded" ELSE result

\* A merge that ends.
LEMMA EndsMoves ==
  ASSUME TypeOK, NEW c \in 1..Len(calls), NEW result \in Results, NEW aborted \in BOOLEAN,
         Ends(c, result, aborted)
  PROVE  /\ \E r \in Calls : r.step = "back" /\ EndedAs(c, r, result) /\ Moved(c, r)
         /\ inflight' \in 0..Len(calls)
         /\ inflight' = IF inflight = c THEN 0 ELSE inflight
<1> DEFINE r == [calls[c] EXCEPT !.step = "back", !.aborted = calls[c].aborted \/ aborted,
                                 !.result = IF Superseded(c) THEN "superseded" ELSE result]
<1>1. r \in Calls /\ r.step = "back"
  BY CallType DEF Calls, Steps, Results
<1>2. calls' = [calls EXCEPT ![c] = r]
  BY DEF Ends
<1>5. EndedAs(c, r, result)
  BY CallType DEF Calls, SameMessage, EndedAs
<1> HIDE DEF r
<1>3. Moved(c, r)
  BY <1>1, <1>2, CallMoved
<1>4. inflight' = IF inflight = c THEN 0 ELSE inflight
  BY DEF Ends, Freed
<1> QED BY <1>1, <1>3, <1>4, <1>5 DEF TypeOK

LEMMA AnswerMoves ==
  ASSUME TypeOK, NEW c \in 1..Len(calls), NEW kind \in AnswerKinds, Answer(c, kind)
  PROVE  \/ /\ \E r \in Calls, result \in {"merged", "unavailable"} :
                  r.step = "back" /\ EndedAs(c, r, result) /\ Moved(c, r)
            /\ inflight' \in 0..Len(calls)
            /\ inflight' = IF inflight = c THEN 0 ELSE inflight
         \/ /\ \E r \in Calls : /\ Moved(c, r)
                                /\ r.step = calls[c].step /\ r.aborted = calls[c].aborted
                                /\ r.attempt = calls[c].attempt /\ r.result = calls[c].result
                                /\ SameMessage(calls[c], r)
            /\ inflight' = inflight
<1>1. CASE kind = "good" /\ ~Superseded(c) /\ calls[c].waits > 1
  <2> DEFINE r == [calls[c] EXCEPT !.waits = calls[c].waits - 1]
  <2>1. /\ r \in Calls
        /\ r.step = calls[c].step /\ r.aborted = calls[c].aborted /\ r.attempt = calls[c].attempt
        /\ r.result = calls[c].result /\ SameMessage(calls[c], r)
    BY <1>1, CallType DEF Calls, SameMessage
  <2>2. calls' = [calls EXCEPT ![c] = r] /\ inflight' = inflight
    BY <1>1 DEF Answer
  <2> HIDE DEF r
  <2> QED BY <2>1, <2>2, CallMoved
<1>2. CASE ~(kind = "good" /\ ~Superseded(c) /\ calls[c].waits > 1)
  <2>1. \/ Ends(c, "merged", FALSE) \/ Ends(c, "unavailable", calls[c].legacy)
    BY <1>2 DEF Answer
  <2>2. {"merged", "unavailable"} \subseteq Results /\ calls[c].legacy \in BOOLEAN
    BY CallType DEF Results, Calls
  <2> QED BY <2>1, <2>2, EndsMoves
<1> QED BY <1>1, <1>2

LEMMA ReturnMoves ==
  ASSUME TypeOK, NEW c \in 1..Len(calls), calls' = [calls EXCEPT ![c].step = "ended"]
  PROVE  \E r \in Calls : /\ r.step = "ended" /\ r.result = calls[c].result
                          /\ SameMessage(calls[c], r) /\ Moved(c, r)
<1> DEFINE r == [calls[c] EXCEPT !.step = "ended"]
<1>1. r \in Calls /\ r.step = "ended" /\ r.result = calls[c].result /\ SameMessage(calls[c], r)
  BY CallType DEF Calls, Steps, SameMessage
<1>2. calls' = [calls EXCEPT ![c] = r]
  OBVIOUS
<1> HIDE DEF r
<1> QED BY <1>1, <1>2, CallMoved

LEMMA AskingType ==
  ASSUME NEW k \in Calls, NEW n \in Nat, NEW w \in 0..2
  PROVE  LET r == [k EXCEPT !.attempt = n, !.waits = w, !.step = "waiting"]
         IN  /\ r \in Calls /\ r.step = "waiting" /\ r.attempt = n
             /\ r.result = k.result /\ SameMessage(k, r)
BY DEF Calls, Steps, SameMessage

LEMMA AnsweredType ==
  ASSUME NEW k \in Calls, NEW n \in Nat, NEW x \in Results
  PROVE  LET r == [k EXCEPT !.attempt = n, !.step = "back", !.result = x]
         IN  /\ r \in Calls /\ r.step = "back" /\ r.attempt = n
             /\ r.result = x /\ SameMessage(k, r)
BY DEF Calls, Steps, SameMessage

(* A merge that starts: the call asks or is answered at once, and the call in
   flight before it is aborted. *)
LEMMA MergeStarts ==
  ASSUME TypeOK, Merge, Current(calls[publishing].revision)
  PROVE  /\ publishing \in 1..Len(calls)
         /\ \E r \in Calls :
              /\ Began(publishing, r) /\ SameMessage(calls[publishing], r) /\ r.attempt = attempt + 1
              /\ \/ r.step = "waiting" /\ inflight' = publishing /\ r.result = calls[publishing].result
                 \/ r.step = "back" /\ inflight' = 0 /\ r.result \in {"merged", "unavailable"}
<1> DEFINE c == publishing
           asks == ~Unaddressed(c) /\ Reads(c) > 0
           base == Aborted(calls, inflight)
<1>1. c \in 1..Len(calls)
  BY DEF Merge, TypeOK
<1>2. base \in Seq(Calls) /\ Len(base) = Len(calls) /\ Reads(c) \in 0..2 /\ attempt + 1 \in Nat
  BY <1>1, CallType, AbortedCalls DEF TypeOK
<1>5. base[c] \in Calls
  BY <1>1, <1>2
<1>6. SameMessage(calls[c], base[c]) /\ base[c].result = calls[c].result
  <2>1. base[c] = calls[c] \/ base[c] = [calls[c] EXCEPT !.aborted = TRUE]
    BY <1>1, AbortedCalls DEF TypeOK
  <2>2. calls[c] \in Calls
    BY <1>1, CallType
  <2>3. CASE base[c] = calls[c]
    BY ONLY <2>3 DEF SameMessage
  <2>4. CASE base[c] = [calls[c] EXCEPT !.aborted = TRUE]
    BY ONLY <2>2, <2>4, AbortedType
  <2> QED BY ONLY <2>1, <2>3, <2>4
<1> HIDE DEF base
<1>3. CASE asks
  <2> DEFINE r == [base[c] EXCEPT !.attempt = attempt + 1, !.waits = Reads(c), !.step = "waiting"]
  <2>1. /\ r \in Calls /\ r.step = "waiting" /\ r.attempt = attempt + 1
        /\ r.result = base[c].result /\ SameMessage(base[c], r)
    BY <1>2, <1>5, AskingType
  <2>2. calls' = [base EXCEPT ![c] = r] /\ inflight' = c
    BY <1>1, <1>2, <1>3 DEF Merge, Asked, base
  <2> HIDE DEF r
  <2>3. Began(c, r)
    BY <1>1, <2>1, <2>2, MergeMoves DEF base
  <2> QED BY <1>1, <1>6, <2>1, <2>2, <2>3 DEF Began, SameMessage
<1>4. CASE ~asks
  <2> DEFINE res == IF Unaddressed(c) THEN "unavailable" ELSE "merged"
             r == [base[c] EXCEPT !.attempt = attempt + 1, !.step = "back", !.result = res]
  <2>0. res \in {"merged", "unavailable"} /\ res \in Results
    BY DEF Results
  <2>2. calls' = [base EXCEPT ![c] = r] /\ inflight' = 0
    BY <1>1, <1>2, <1>4 DEF Merge, AnsweredAtOnce, base
  <2> HIDE DEF res
  <2>1. /\ r \in Calls /\ r.step = "back" /\ r.attempt = attempt + 1
        /\ r.result = res /\ SameMessage(base[c], r)
    BY <1>2, <1>5, <2>0, AnsweredType
  <2> HIDE DEF r
  <2>3. Began(c, r)
    BY <1>1, <2>1, <2>2, MergeMoves DEF base
  <2> QED BY <1>1, <1>6, <2>0, <2>1, <2>2, <2>3 DEF Began, SameMessage
<1> QED BY <1>3, <1>4

---------------------------------------------------------------------------
(* The invariant *)

LEMMA SubscribeKeeps ==
  ASSUME IInv, NEW l \in Listeners, Subscribe(l)
  PROVE  IInv'
BY DEF IInv, TypeOK, AttachedIsHeard, OnlyTheNewestRuns, Superseded, Subscribe, mergerVars

LEMMA UnsubscribeKeeps ==
  ASSUME IInv, NEW l \in Listeners, Unsubscribe(l)
  PROVE  IInv'
<1> USE DEF IInv
<1>1. CASE listeners # {l}
  BY <1>1 DEF TypeOK, AttachedIsHeard, OnlyTheNewestRuns, Superseded, Unsubscribe, mergerVars
<1>2. CASE listeners = {l}
  <2>1. /\ listeners' = {} /\ attached' = FALSE /\ inflight' = 0
        /\ revision' = revision + 1 /\ attempt' = attempt + 1 /\ departures' = departures + 1
        /\ calls' = Aborted(calls, inflight)
        /\ UNCHANGED <<document, schema, locale, snapshot, publishing>>
    BY <1>2 DEF Unsubscribe, Detach
  <2>2. /\ calls' \in Seq(Calls) /\ Len(calls') = Len(calls)
        /\ \A d \in 1..Len(calls) :
             calls'[d] = IF d = inflight THEN [calls[d] EXCEPT !.aborted = TRUE] ELSE calls[d]
    BY <2>1, AbortedCalls DEF TypeOK
  <2>3. revision' \in Nat /\ attempt' \in Nat /\ departures' \in Nat
    BY <2>1 DEF TypeOK
  <2>6. TypeOK'
    <3>1. calls' \in Seq(Calls) /\ publishing' \in 0..Len(calls') /\ inflight' \in 0..Len(calls')
      BY <2>1, <2>2 DEF TypeOK
    <3>2. /\ document' \in DocumentType /\ schema' \in BOOLEAN /\ locale' \in Ids
          /\ snapshot' \in Snapshots /\ listeners' \subseteq Listeners /\ attached' \in BOOLEAN
      BY <2>1 DEF TypeOK
    <3> QED BY <2>3, <3>1, <3>2 DEF TypeOK
  <2>7. AttachedIsHeard'
    BY <2>1 DEF AttachedIsHeard
  <2>4. \A c \in 1..Len(calls) : ~(calls'[c].step = "waiting" /\ ~calls'[c].aborted)
    <3> SUFFICES ASSUME NEW c \in 1..Len(calls), calls'[c].step = "waiting", ~calls'[c].aborted
                 PROVE  FALSE
      OBVIOUS
    <3>1. CASE c = inflight
      <4>1. calls[c] \in Calls /\ calls'[c] = [calls[c] EXCEPT !.aborted = TRUE]
        BY <2>2, <3>1, CallType
      <4>2. calls'[c].aborted
        BY <4>1, AbortedType
      <4> QED BY <4>2
    <3>2. CASE c # inflight
      <4>0. c \in DOMAIN calls
        BY DEF TypeOK
      <4>1. calls'[c] = calls[c]
        BY <2>2, <3>2
      <4>2. calls[c].step = "waiting" /\ ~calls[c].aborted
        BY <4>1
      <4>3. inflight = c
        BY <4>0, <4>2 DEF OnlyTheNewestRuns
      <4> QED BY <3>2, <4>3
    <3> QED BY <3>1, <3>2
  <2>5. OnlyTheNewestRuns'
    BY <2>2, <2>4 DEF OnlyTheNewestRuns, TypeOK
  <2> QED BY <2>5, <2>6, <2>7
<1> QED BY <1>1, <1>2

LEMMA HandleKeeps ==
  ASSUME IInv, NEW m \in Messages, Handle(m)
  PROVE  IInv'
<1> DEFINE r == [message |-> m, locale |-> AskedLocale(m), legacy |-> schema',
                 revision |-> revision + 1, attempt |-> 0, waits |-> 0, step |-> "publishing",
                 result |-> "open", aborted |-> FALSE]
<1>1. m \in MessageType /\ m.locale \in Ids /\ m.schema \in BOOLEAN
  BY DocumentSessionAssumption DEF MessageType
<1>2. /\ revision + 1 \in Nat /\ schema' \in BOOLEAN /\ locale' \in Ids /\ AskedLocale(m) \in Ids
  BY <1>1 DEF IInv, TypeOK, Handle, AskedLocale
<1>3. r \in Calls /\ r.step = "publishing"
  BY <1>1, <1>2 DEF Calls, Steps, Results
<1>4. calls' = Append(calls, r) /\ calls \in Seq(Calls)
  BY DEF Handle, IInv, TypeOK
<1> HIDE DEF r
<1>5. /\ calls' \in Seq(Calls) /\ Len(calls') = Len(calls) + 1
      /\ calls'[Len(calls) + 1] = r
      /\ \A c \in 1..Len(calls) : calls'[c] = calls[c]
  BY <1>3, <1>4
<1>6. snapshot' \in Snapshots
  BY DEF Handle, IInv, TypeOK, Snapshots
<1>7. TypeOK' /\ AttachedIsHeard'
  BY <1>2, <1>5, <1>6 DEF IInv, TypeOK, AttachedIsHeard, Handle, mergerVars
<1>8. OnlyTheNewestRuns'
  BY <1>3, <1>5 DEF IInv, TypeOK, OnlyTheNewestRuns, Superseded, Handle, mergerVars
<1> QED BY <1>7, <1>8 DEF IInv

\* A step that moves one call out of the merge, and lets its controller go.
LEMMA MovingKeeps ==
  ASSUME IInv, NEW c \in 1..Len(calls), NEW r \in Calls, Moved(c, r), r.step # "waiting",
         inflight' \in 0..Len(calls), inflight' = IF inflight = c THEN 0 ELSE inflight,
         UNCHANGED <<attached, attempt>>
  PROVE  OnlyTheNewestRuns'
BY DEF IInv, TypeOK, OnlyTheNewestRuns, Superseded, Moved

LEMMA MergeKeeps ==
  ASSUME IInv, Merge
  PROVE  IInv'
<1>1. UNCHANGED sessionVars /\ snapshot' = snapshot /\ publishing' = 0 /\ publishing \in 1..Len(calls)
  BY DEF Merge, IInv, TypeOK
<1>2. CASE Current(calls[publishing].revision)
  <2>1. PICK r \in Calls :
          /\ Began(publishing, r) /\ r.attempt = attempt + 1
          /\ \/ r.step = "waiting" /\ inflight' = publishing
             \/ r.step = "back" /\ inflight' = 0
    BY <1>2, MergeStarts DEF IInv
  <2>2. attempt' = attempt + 1 /\ attached
    BY <1>2 DEF Merge, Current
  <2>3. TypeOK' /\ AttachedIsHeard'
    BY <1>1, <2>1, <2>2 DEF IInv, TypeOK, AttachedIsHeard, Began, sessionVars
  <2>4. ASSUME NEW c \in 1..Len(calls), c # publishing, calls'[c].step = "waiting", ~calls'[c].aborted
        PROVE  FALSE
    <3>1. CASE c = inflight
      <4>1. calls[c] \in Calls /\ calls'[c] = [calls[c] EXCEPT !.aborted = TRUE]
        BY <2>1, <2>4, <3>1, CallType DEF Began, IInv
      <4>2. calls'[c].aborted
        BY <4>1, AbortedType
      <4> QED BY <2>4, <4>2
    <3>2. CASE c # inflight
      <4>0. c \in DOMAIN calls
        BY DEF IInv, TypeOK
      <4>1. calls'[c] = calls[c]
        BY <2>1, <2>4, <3>2 DEF Began
      <4>2. calls[c].step = "waiting" /\ ~calls[c].aborted
        BY <2>4, <4>1
      <4>3. inflight = c
        BY <4>0, <4>2 DEF IInv, OnlyTheNewestRuns
      <4> QED BY <3>2, <4>3
    <3> QED BY <3>1, <3>2
  <2>5. OnlyTheNewestRuns'
    BY <1>1, <2>1, <2>2, <2>4 DEF OnlyTheNewestRuns, Superseded, Began, IInv, TypeOK, sessionVars
  <2> QED BY <2>3, <2>5 DEF IInv
<1>3. CASE ~Current(calls[publishing].revision)
  <2>1. /\ calls' = [calls EXCEPT ![publishing].step = "ended"]
        /\ UNCHANGED mergerVars
    BY <1>3 DEF Merge
  <2>2. PICK r \in Calls : r.step = "ended" /\ Moved(publishing, r)
    BY <1>1, <2>1, ReturnMoves DEF IInv
  <2>3. TypeOK' /\ AttachedIsHeard'
    BY <1>1, <2>1, <2>2 DEF IInv, TypeOK, AttachedIsHeard, Moved, sessionVars, mergerVars
  <2>4. OnlyTheNewestRuns'
    BY <1>1, <2>1, <2>2 DEF IInv, TypeOK, OnlyTheNewestRuns, Superseded, Moved, sessionVars, mergerVars
  <2> QED BY <2>3, <2>4 DEF IInv
<1> QED BY <1>2, <1>3

LEMMA AnswerKeeps ==
  ASSUME IInv, NEW c \in 1..Len(calls), NEW kind \in AnswerKinds, Answer(c, kind)
  PROVE  IInv'
<1>1. UNCHANGED <<sessionVars, attempt, snapshot, publishing>>
  BY DEF Answer
<1>2. CASE /\ \E r \in Calls : r.step = "back" /\ Moved(c, r)
           /\ inflight' \in 0..Len(calls)
           /\ inflight' = IF inflight = c THEN 0 ELSE inflight
  <2>1. PICK r \in Calls : r.step = "back" /\ Moved(c, r)
    BY <1>2
  <2>2. TypeOK' /\ AttachedIsHeard'
    BY <1>1, <1>2, <2>1 DEF IInv, TypeOK, AttachedIsHeard, Moved, sessionVars
  <2>3. OnlyTheNewestRuns'
    BY <1>1, <1>2, <2>1, MovingKeeps DEF sessionVars
  <2> QED BY <2>2, <2>3 DEF IInv
<1>3. CASE /\ \E r \in Calls : /\ Moved(c, r)
                            /\ r.step = calls[c].step /\ r.aborted = calls[c].aborted
                            /\ r.attempt = calls[c].attempt
           /\ inflight' = inflight
  <2>1. PICK r \in Calls : /\ Moved(c, r)
                           /\ r.step = calls[c].step /\ r.aborted = calls[c].aborted
                           /\ r.attempt = calls[c].attempt
    BY <1>3
  <2>2. TypeOK' /\ AttachedIsHeard'
    BY <1>1, <1>3, <2>1 DEF IInv, TypeOK, AttachedIsHeard, Moved, sessionVars
  <2>3. OnlyTheNewestRuns'
    BY <1>1, <1>3, <2>1 DEF IInv, TypeOK, OnlyTheNewestRuns, Superseded, Moved, sessionVars
  <2> QED BY <2>2, <2>3 DEF IInv
<1> QED BY <1>2, <1>3, AnswerMoves DEF IInv

LEMMA DeadlineKeeps ==
  ASSUME IInv, NEW c \in 1..Len(calls), Deadline(c)
  PROVE  IInv'
<1>1. UNCHANGED <<sessionVars, attempt, snapshot, publishing>> /\ Ends(c, "unavailable", TRUE)
  BY DEF Deadline
<1>2. /\ \E r \in Calls : r.step = "back" /\ Moved(c, r)
      /\ inflight' \in 0..Len(calls)
      /\ inflight' = IF inflight = c THEN 0 ELSE inflight
  BY <1>1, EndsMoves DEF Results, IInv
<1>3. PICK r \in Calls : r.step = "back" /\ Moved(c, r)
  BY <1>2
<1>4. TypeOK' /\ AttachedIsHeard'
  BY <1>1, <1>2, <1>3 DEF IInv, TypeOK, AttachedIsHeard, Moved, sessionVars
<1>5. OnlyTheNewestRuns'
  BY <1>1, <1>2, <1>3, MovingKeeps DEF sessionVars
<1> QED BY <1>4, <1>5 DEF IInv

LEMMA ReturnKeeps ==
  ASSUME IInv, NEW c \in 1..Len(calls), Return(c)
  PROVE  IInv'
<1>1. UNCHANGED <<sessionVars, mergerVars, publishing>> /\ calls' = [calls EXCEPT ![c].step = "ended"]
  BY DEF Return
<1>2. PICK r \in Calls : r.step = "ended" /\ Moved(c, r)
  BY <1>1, ReturnMoves DEF IInv
<1>3. snapshot' \in Snapshots
  <2>1. calls[c].revision \in Nat /\ c \in Nat /\ snapshot \in Snapshots
    BY CallType DEF IInv, TypeOK, Calls
  <2>2. Kept(c) \in Snapshots /\ Merged(c) \in Snapshots
    BY <2>1, SnapshotType DEF Kept, Merged
  <2> QED BY <2>1, <2>2 DEF Return
<1>4. TypeOK' /\ AttachedIsHeard'
  BY <1>1, <1>2, <1>3 DEF IInv, TypeOK, AttachedIsHeard, Moved, sessionVars, mergerVars
<1>5. OnlyTheNewestRuns'
  BY <1>1, <1>2 DEF IInv, TypeOK, OnlyTheNewestRuns, Superseded, Moved, sessionVars, mergerVars
<1> QED BY <1>4, <1>5 DEF IInv

LEMMA InvInit == Init => IInv
<1> SUFFICES ASSUME Init PROVE IInv
  OBVIOUS
<1>1. snapshot \in Snapshots /\ locale \in Ids /\ document \in DocumentType
  BY DocumentSessionAssumption DEF Init, Snapshots, Statuses, Ids
<1>2. calls \in Seq(Calls) /\ Len(calls) = 0 /\ DOMAIN calls = {}
  BY DEF Init
<1>3. TypeOK
  <2>1. publishing \in 0..Len(calls) /\ inflight \in 0..Len(calls)
    BY <1>2 DEF Init
  <2>2. /\ listeners \subseteq Listeners /\ attached \in BOOLEAN /\ schema \in BOOLEAN
        /\ revision \in Nat /\ attempt \in Nat /\ departures \in Nat
    BY DEF Init
  <2> QED BY <1>1, <1>2, <2>1, <2>2 DEF TypeOK
<1>4. AttachedIsHeard /\ OnlyTheNewestRuns
  BY <1>2 DEF Init, AttachedIsHeard, OnlyTheNewestRuns
<1> QED BY <1>3, <1>4 DEF IInv

\* Every step keeps the invariant, one handler at a time.
LEMMA InvNext ==
  ASSUME IInv, [Next]_vars
  PROVE  IInv'
<1>1. ASSUME NEW l \in Listeners, Subscribe(l)
      PROVE  IInv'
  BY <1>1, SubscribeKeeps
<1>2. ASSUME NEW l \in Listeners, Unsubscribe(l)
      PROVE  IInv'
  BY <1>2, UnsubscribeKeeps
<1>3. ASSUME NEW m \in Messages, Handle(m)
      PROVE  IInv'
  BY <1>3, HandleKeeps
<1>4. CASE Merge
  BY <1>4, MergeKeeps
<1>5. ASSUME NEW c \in DOMAIN calls, NEW kind \in AnswerKinds, Answer(c, kind)
      PROVE  IInv'
  <2>1. c \in 1..Len(calls)
    BY DEF IInv, TypeOK
  <2> QED BY <1>5, <2>1, AnswerKeeps
<1>6. ASSUME NEW c \in DOMAIN calls, Deadline(c)
      PROVE  IInv'
  <2>1. c \in 1..Len(calls)
    BY DEF IInv, TypeOK
  <2> QED BY <1>6, <2>1, DeadlineKeeps
<1>7. ASSUME NEW c \in DOMAIN calls, Return(c)
      PROVE  IInv'
  <2>1. c \in 1..Len(calls)
    BY DEF IInv, TypeOK
  <2> QED BY <1>7, <2>1, ReturnKeeps
<1>8. CASE UNCHANGED vars
  BY <1>8 DEF IInv, TypeOK, AttachedIsHeard, OnlyTheNewestRuns, Superseded,
              vars, sessionVars, mergerVars
<1> QED BY <1>1, <1>2, <1>3, <1>4, <1>5, <1>6, <1>7, <1>8 DEF Next

---------------------------------------------------------------------------
(* The theorems *)

LEMMA Invariance == Spec => []IInv
BY InvInit, InvNext, PTL DEF Spec

\* Every state of the session and the merger has its type.
THEOREM TypeCorrect == Spec => []TypeOK
<1>1. IInv => TypeOK
  BY DEF IInv
<1> QED BY <1>1, Invariance, PTL

(* No fetch runs on that nobody waits for: not after the last subscriber has
   left, not after a newer message has started its merge. *)
THEOREM NewestRuns == Spec => []OnlyTheNewestRuns
<1>1. IInv => OnlyTheNewestRuns
  BY DEF IInv
<1> QED BY <1>1, Invariance, PTL

\* Somebody is listening exactly while the session is attached.
THEOREM HeardWhileAttached == Spec => []AttachedIsHeard
<1>1. IInv => AttachedIsHeard
  BY DEF IInv
<1> QED BY <1>1, Invariance, PTL

---------------------------------------------------------------------------
(* What the snapshot tells *)

(* Each message has a number of its own, in the order they were taken, and a session
   nobody listens to is past all of them. *)
Numbered ==
  /\ \A c \in 1..Len(calls) : calls[c].revision \in 1..revision
  /\ \A c, d \in 1..Len(calls) : c < d => calls[c].revision < calls[d].revision
  /\ ~attached => \A c \in 1..Len(calls) : calls[c].revision < revision

\* What the session's document takes, and what it asks the server for.
Takes(id, l) ==
  /\ document.id # "none" => id = "mine"
  /\ document.locale # "none" => l \in {document.locale, "none"}

Accepted ==
  /\ document.locale # "none" => document.id = "mine" /\ locale \in {document.locale, "none"}
  /\ \A c \in 1..Len(calls) : Takes(calls[c].message.id, calls[c].locale)

(* How far each message is. The newest one holds the merger's newest attempt, so that
   its merge never ends as superseded: without that its end would go unreported. *)
OnItsWay(c) ==
  /\ calls[c].step = "publishing" <=> publishing = c
  /\ calls[c].step \in {"publishing", "waiting"} => calls[c].result = "open"
  /\ calls[c].step = "back" => calls[c].result # "open"
  /\ calls[c].step \in {"waiting", "back"} /\ calls[c].revision = revision =>
       calls[c].attempt = attempt /\ calls[c].result # "superseded"

\* The document on show is one that was merged, and keeps its number.
Shown ==
  /\ snapshot.data \in 0..Len(calls)
  /\ snapshot.data = 0 => snapshot.revision = 0
  /\ snapshot.data # 0 =>
       /\ calls[snapshot.data].step = "ended" /\ calls[snapshot.data].result = "merged"
       /\ calls[snapshot.data].revision = snapshot.revision

Told ==
  \A c \in 1..Len(calls) :
    calls[c].step = "ended" /\ calls[c].revision = revision =>
      ~snapshot.isLoading /\ (snapshot.status = "live" <=> snapshot.revision = revision)

(* The inductive invariant of the snapshot, on top of IInv. *)
TInv ==
  /\ Numbered /\ Accepted /\ Shown /\ Told
  /\ \A c \in 1..Len(calls) : OnItsWay(c)

\* TInv tells what SnapshotIsTrue promises.
LEMMA TruthFollows ==
  ASSUME TypeOK, TInv
  PROVE  SnapshotIsTrue
<1>1. calls \in Seq(Calls) /\ DOMAIN calls = 1..Len(calls) /\ revision \in Nat
  BY DEF TypeOK
<1>2. ShowsItsDocument
  <2>1. snapshot.data # 0 => snapshot.data \in 1..Len(calls)
    BY <1>1 DEF TInv, Shown
  <2>2. snapshot.data # 0 => snapshot.revision # 0
    BY <1>1, <2>1 DEF TInv, Shown, Numbered
  <2>3. snapshot.data # 0 => Takes(calls[snapshot.data].message.id, calls[snapshot.data].locale)
    BY <2>1 DEF TInv, Accepted
  <2> QED BY <2>2, <2>3 DEF TInv, Shown, Takes, ShowsItsDocument
<1>3. EndIsReported
  BY <1>1 DEF TInv, Told, EndIsReported, Current
<1> QED BY <1>2, <1>3 DEF SnapshotIsTrue

LEMMA TruthInit == Init => TInv
<1> SUFFICES ASSUME Init PROVE TInv
  OBVIOUS
<1>1. Len(calls) = 0 /\ 1..Len(calls) = {}
  BY DEF Init
<1>2. document.locale # "none" => document.id = "mine" /\ locale = "none"
  BY DocumentSessionAssumption DEF Init
<1> QED BY <1>1, <1>2 DEF Init, TInv, Numbered, Accepted, Shown, Told

\* A call that a step leaves where it is, aborted or not.
AsBefore(c) ==
  /\ SameMessage(calls[c], calls'[c])
  /\ calls'[c].step = calls[c].step /\ calls'[c].result = calls[c].result
  /\ calls'[c].attempt = calls[c].attempt

\* A step that moves call c on, and no other.
Moves(c) ==
  /\ c \in 1..Len(calls)
  /\ Len(calls') = Len(calls)
  /\ SameMessage(calls[c], calls'[c])
  /\ \A d \in 1..Len(calls) : d # c => AsBefore(d)

LEMMA MovedMoves ==
  ASSUME TypeOK, NEW c \in 1..Len(calls), NEW r, Moved(c, r), SameMessage(calls[c], r)
  PROVE  Moves(c) /\ calls'[c] = r
BY DEF Moved, Moves, AsBefore, SameMessage

LEMMA BeganMoves ==
  ASSUME TypeOK, NEW c \in 1..Len(calls), NEW r, Began(c, r), SameMessage(calls[c], r)
  PROVE  Moves(c) /\ calls'[c] = r
<1>1. ASSUME NEW d \in 1..Len(calls), d # c
      PROVE  AsBefore(d)
  <2>1. CASE d = inflight
    BY <1>1, <2>1, CallType, AbortedType DEF Began, AsBefore
  <2>2. CASE d # inflight
    BY <1>1, <2>2 DEF Began, AsBefore, SameMessage
  <2> QED BY <2>1, <2>2
<1> QED BY <1>1 DEF Began, Moves

\* What stays true of the messages and the document on show while one call moves on.
LEMMA MovingKeepsTruth ==
  ASSUME IInv, TInv, NEW c, Moves(c), calls[c].step # "ended",
         UNCHANGED <<document, attached, revision, locale>>
  PROVE  Numbered' /\ Accepted' /\ (UNCHANGED snapshot => Shown')
<1>1. /\ Len(calls') = Len(calls)
      /\ \A d \in 1..Len(calls) : SameMessage(calls[d], calls'[d])
      /\ \A d \in 1..Len(calls) :
           d # c => calls'[d].step = calls[d].step /\ calls'[d].result = calls[d].result
  BY DEF Moves, AsBefore
<1>2. Numbered'
  BY <1>1 DEF TInv, Numbered, SameMessage
<1>3. Accepted'
  BY <1>1 DEF TInv, Accepted, Takes, SameMessage
<1>4. ASSUME UNCHANGED snapshot
      PROVE  Shown'
  <2>1. snapshot.data # 0 => snapshot.data \in 1..Len(calls) /\ snapshot.data # c
    BY DEF TInv, Shown
  <2> QED BY <1>1, <1>4, <2>1 DEF TInv, Shown, SameMessage
<1> QED BY <1>2, <1>3, <1>4

LEMMA SubscribeTruth ==
  ASSUME IInv, TInv, NEW l \in Listeners, Subscribe(l)
  PROVE  TInv'
BY DEF IInv, TInv, Numbered, Accepted, Takes, OnItsWay, Shown, Told, Subscribe, mergerVars

LEMMA UnsubscribeTruth ==
  ASSUME IInv, TInv, NEW l \in Listeners, Unsubscribe(l)
  PROVE  TInv'
<1>1. CASE listeners # {l}
  BY <1>1 DEF TInv, Numbered, Accepted, Takes, OnItsWay, Shown, Told, Unsubscribe, mergerVars
<1>2. CASE listeners = {l}
  <2>1. /\ attached' = FALSE /\ revision' = revision + 1 /\ calls' = Aborted(calls, inflight)
        /\ UNCHANGED <<document, locale, snapshot, publishing>>
    BY <1>2 DEF Unsubscribe, Detach
  <2>2. Len(calls') = Len(calls) /\ revision \in Nat
    BY <2>1, AbortedCalls DEF IInv, TypeOK
  <2>3. ASSUME NEW d \in 1..Len(calls)
        PROVE  AsBefore(d)
    <3>1. calls'[d] = IF d = inflight THEN [calls[d] EXCEPT !.aborted = TRUE] ELSE calls[d]
      BY <2>1, AbortedCalls DEF IInv, TypeOK
    <3>2. calls[d] \in Calls
      BY CallType DEF IInv
    <3> QED BY <3>1, <3>2, AbortedType DEF AsBefore, SameMessage
  <2>4. \A d \in 1..Len(calls) : calls'[d].revision = calls[d].revision /\ calls[d].revision \in 1..revision
    BY <2>3 DEF AsBefore, SameMessage, TInv, Numbered
  <2>5. Numbered' /\ \A d \in 1..Len(calls) : calls'[d].revision # revision'
    <3>1. \A d \in 1..Len(calls) : calls'[d].revision \in 1..revision' /\ calls'[d].revision < revision'
      BY <2>1, <2>2, <2>4
    <3>2. \A d, e \in 1..Len(calls) : d < e => calls'[d].revision < calls'[e].revision
      BY <2>4 DEF TInv, Numbered
    <3> QED BY <2>2, <3>1, <3>2 DEF Numbered
  <2>6. Accepted'
    BY <2>1, <2>2, <2>3 DEF TInv, Accepted, Takes, AsBefore, SameMessage
  <2>7. Shown'
    BY <2>1, <2>2, <2>3 DEF TInv, Shown, AsBefore, SameMessage
  <2>8. Told'
    BY <2>2, <2>5 DEF Told
  <2>9. \A d \in 1..Len(calls') : OnItsWay(d)'
    BY <2>1, <2>2, <2>3, <2>5 DEF TInv, OnItsWay, AsBefore
  <2> QED BY <2>5, <2>6, <2>7, <2>8, <2>9 DEF TInv
<1> QED BY <1>1, <1>2

\* A message the session accepts is one its document takes, in the locale it will ask for.
LEMMA AcceptedTaken ==
  ASSUME Accepted, NEW m \in Messages, Accepts(m)
  PROVE  /\ Takes(m.id, AskedLocale(m))
         /\ document.locale # "none" => m.locale \in {document.locale, "none"}
<1>1. document.locale # "none" => m.locale \in {document.locale, "none"}
  BY DEF Accepts, Accepted
<1>2. document.locale # "none" => AskedLocale(m) \in {document.locale, "none"}
  BY <1>1 DEF AskedLocale, Accepted
<1> QED BY <1>1, <1>2 DEF Accepts, Takes

LEMMA HandleTruth ==
  ASSUME IInv, TInv, NEW m \in Messages, Handle(m)
  PROVE  TInv'
<1> DEFINE r == [message |-> m, locale |-> AskedLocale(m), legacy |-> schema',
                 revision |-> revision + 1, attempt |-> 0, waits |-> 0, step |-> "publishing",
                 result |-> "open", aborted |-> FALSE]
           n == Len(calls) + 1
<1>1. /\ r.message = m /\ r.locale = AskedLocale(m) /\ r.revision = revision + 1
      /\ r.step = "publishing" /\ r.result = "open"
  OBVIOUS
<1>2. calls' = Append(calls, r) /\ calls \in Seq(Calls) /\ Len(calls) \in Nat /\ revision \in Nat
  BY DEF Handle, IInv, TypeOK
<1> HIDE DEF r
<1>3. /\ Len(calls') = n /\ calls'[n] = r
      /\ \A c \in 1..Len(calls) : calls'[c] = calls[c]
      /\ \A c \in 1..n : c \in 1..Len(calls) \/ c = n
  BY <1>2
<1>4. /\ attached /\ publishing = 0 /\ Accepts(m) /\ revision' = revision + 1
      /\ publishing' = n /\ snapshot' = [snapshot EXCEPT !.isLoading = TRUE]
      /\ locale' = (IF m.locale = "none" THEN locale ELSE m.locale)
      /\ UNCHANGED <<document, attached>>
  BY DEF Handle
<1>5. /\ snapshot'.data = snapshot.data /\ snapshot'.revision = snapshot.revision
  BY <1>4 DEF IInv, TypeOK, Snapshots
<1>6. \A c \in 1..Len(calls) : calls[c].revision \in 1..revision
  BY DEF TInv, Numbered
<1>7. Numbered'
  <2>1. \A c \in 1..n : calls'[c].revision \in 1..revision'
    BY <1>1, <1>2, <1>3, <1>4, <1>6
  <2>2. ASSUME NEW c \in 1..n, NEW d \in 1..n, c < d
        PROVE  calls'[c].revision < calls'[d].revision
    <3>1. c \in 1..Len(calls)
      BY <1>2, <2>2
    <3>2. CASE d = n
      BY <1>1, <1>2, <1>3, <1>6, <3>1, <3>2
    <3>3. CASE d \in 1..Len(calls)
      BY <1>3, <2>2, <3>1, <3>3 DEF TInv, Numbered
    <3> QED BY <1>3, <3>2, <3>3
  <2> QED BY <1>3, <1>4, <2>1, <2>2 DEF Numbered
<1>8. Accepted'
  <2>1. /\ Takes(m.id, AskedLocale(m))
        /\ document.locale # "none" => m.locale \in {document.locale, "none"}
    BY <1>4, AcceptedTaken DEF TInv
  <2>2. \A c \in 1..n : Takes(calls'[c].message.id, calls'[c].locale)
    BY <1>1, <1>3, <2>1 DEF TInv, Accepted
  <2> QED BY <1>3, <1>4, <2>1, <2>2 DEF TInv, Accepted, Takes
<1>9. Shown'
  BY <1>2, <1>3, <1>5 DEF TInv, Shown
<1>10. ASSUME NEW c \in 1..n
       PROVE  /\ OnItsWay(c)'
              /\ ~(calls'[c].step = "ended" /\ calls'[c].revision = revision')
  <2>1. CASE c = n
    BY <1>1, <1>2, <1>3, <1>4, <2>1 DEF OnItsWay
  <2>2. CASE c \in 1..Len(calls)
    <3>1. calls'[c] = calls[c] /\ calls'[c].revision # revision' /\ c # n /\ c # 0
      BY <1>2, <1>3, <1>4, <1>6, <2>2
    <3> QED BY <1>4, <2>2, <3>1 DEF TInv, OnItsWay
  <2> QED BY <1>3, <2>1, <2>2
<1>11. Told'
  BY <1>3, <1>10 DEF Told
<1> QED BY <1>3, <1>7, <1>8, <1>9, <1>10, <1>11 DEF TInv

\* The newest message is one at most.
LEMMA NewestIsOne ==
  ASSUME IInv, TInv, NEW c \in 1..Len(calls), NEW d \in 1..Len(calls), c # d
  PROVE  ~(calls[c].revision = revision /\ calls[d].revision = revision)
<1>1. calls[c].revision \in Int /\ calls[d].revision \in Int /\ (c < d \/ d < c)
  BY DEF TInv, Numbered
<1>2. calls[c].revision # calls[d].revision
  BY <1>1 DEF TInv, Numbered
<1> QED BY <1>2

\* The messages that do not move are as far as before, the merger's attempt being the same.
LEMMA OthersOnTheirWay ==
  ASSUME IInv, TInv, NEW c, Moves(c), NEW d \in 1..Len(calls), d # c,
         UNCHANGED <<revision, attempt, publishing>>
  PROVE  OnItsWay(d)'
BY DEF TInv, OnItsWay, Moves, AsBefore, SameMessage

LEMMA MergeTruth ==
  ASSUME IInv, TInv, Merge
  PROVE  TInv'
<1> DEFINE c == publishing
<1>1. /\ UNCHANGED <<document, attached, revision, locale, snapshot>>
      /\ publishing' = 0 /\ c \in 1..Len(calls)
  BY DEF Merge, IInv, TypeOK, sessionVars
<1>2. calls[c].step = "publishing" /\ calls[c].result = "open"
  BY <1>1 DEF TInv, OnItsWay
<1>3. \A d \in 1..Len(calls) : d # c => calls[d].step # "publishing"
  BY DEF TInv, OnItsWay
<1>4. CASE Current(calls[c].revision)
  <2>1. PICK r \in Calls :
          /\ Began(c, r) /\ SameMessage(calls[c], r) /\ r.attempt = attempt + 1
          /\ \/ r.step = "waiting" /\ r.result = "open"
             \/ r.step = "back" /\ r.result \in {"merged", "unavailable"}
    BY <1>2, <1>4, MergeStarts DEF IInv
  <2>2. Moves(c) /\ calls'[c] = r
    BY <1>1, <2>1, BeganMoves DEF IInv
  <2>3. attempt' = attempt + 1 /\ calls[c].revision = revision /\ attached
    BY <1>4 DEF Merge, Current
  <2>4. Numbered' /\ Accepted' /\ Shown'
    BY <1>1, <1>2, <2>2, MovingKeepsTruth
  <2>5. \A d \in 1..Len(calls) : d # c => calls'[d].revision # revision'
    BY <1>1, <2>2, <2>3, NewestIsOne DEF Moves, AsBefore, SameMessage
  <2>6. Told'
    BY <2>1, <2>2, <2>5 DEF Told, Moves
  <2>7. ASSUME NEW d \in 1..Len(calls)
        PROVE  OnItsWay(d)'
    <3>1. CASE d = c
      BY <1>1, <2>1, <2>2, <2>3, <3>1 DEF OnItsWay
    <3>2. CASE d # c
      BY <1>1, <1>3, <2>2, <2>5, <3>2 DEF TInv, OnItsWay, Moves, AsBefore
    <3> QED BY <3>1, <3>2
  <2> QED BY <2>2, <2>4, <2>6, <2>7 DEF TInv, Moves
<1>5. CASE ~Current(calls[c].revision)
  <2>1. calls' = [calls EXCEPT ![c].step = "ended"] /\ UNCHANGED mergerVars
    BY <1>5 DEF Merge
  <2>2. PICK r \in Calls : r.step = "ended" /\ SameMessage(calls[c], r) /\ Moved(c, r)
    BY <1>1, <2>1, ReturnMoves DEF IInv
  <2>3. Moves(c) /\ calls'[c] = r
    BY <1>1, <2>2, MovedMoves DEF IInv
  <2>4. Numbered' /\ Accepted' /\ Shown'
    BY <1>1, <1>2, <2>3, MovingKeepsTruth
  <2>5. calls'[c].revision # revision'
    <3>1. calls[c].revision # revision
      BY <1>1, <1>5 DEF Current, TInv, Numbered
    <3> QED BY <1>1, <2>3, <3>1 DEF Moves, SameMessage
  <2>6. Told'
    BY <1>1, <2>3, <2>5 DEF TInv, Told, Moves, AsBefore, SameMessage
  <2>7. ASSUME NEW d \in 1..Len(calls)
        PROVE  OnItsWay(d)'
    <3>1. CASE d = c
      BY <1>1, <2>2, <2>3, <2>5, <3>1 DEF OnItsWay
    <3>2. CASE d # c
      BY <1>1, <1>3, <2>1, <2>3, <3>2 DEF TInv, OnItsWay, Moves, AsBefore, SameMessage, mergerVars
    <3> QED BY <3>1, <3>2
  <2> QED BY <2>3, <2>4, <2>6, <2>7 DEF TInv, Moves
<1> QED BY <1>4, <1>5

(* A merge that goes on or ends: only the newest message's may still change what is
   shown, and it is not superseded. *)
LEMMA WaitingTruth ==
  ASSUME IInv, TInv, NEW c \in 1..Len(calls), NEW r, calls[c].step = "waiting", Moved(c, r),
         SameMessage(calls[c], r), r.attempt = calls[c].attempt,
         \/ r.step = "waiting" /\ r.result = calls[c].result
         \/ r.step = "back" /\ r.result \in {"superseded", "merged", "unavailable"}
            /\ (r.result = "superseded" => Superseded(c)),
         UNCHANGED <<document, attached, revision, locale, attempt, snapshot, publishing>>
  PROVE  TInv'
<1>1. Moves(c) /\ calls'[c] = r
  BY MovedMoves DEF IInv
<1>2. Numbered' /\ Accepted' /\ Shown'
  BY <1>1, MovingKeepsTruth
<1>3. Told'
  BY <1>1 DEF TInv, Told, Moves, AsBefore, SameMessage
<1>4. ASSUME NEW d \in 1..Len(calls)
      PROVE  OnItsWay(d)'
  <2>1. CASE d = c
    BY <1>1, <2>1 DEF TInv, OnItsWay, Superseded, SameMessage
  <2> QED BY <1>1, <2>1, OthersOnTheirWay
<1> QED BY <1>1, <1>2, <1>3, <1>4 DEF TInv, Moves

LEMMA AnswerTruth ==
  ASSUME IInv, TInv, NEW c \in 1..Len(calls), NEW kind \in AnswerKinds, Answer(c, kind)
  PROVE  TInv'
<1>1. /\ UNCHANGED <<document, attached, revision, locale, attempt, snapshot, publishing>>
      /\ calls[c].step = "waiting"
  BY DEF Answer, sessionVars
<1>2. CASE \E r \in Calls, result \in {"merged", "unavailable"} :
             r.step = "back" /\ EndedAs(c, r, result) /\ Moved(c, r)
  BY <1>1, <1>2, WaitingTruth DEF EndedAs
<1>3. CASE \E r \in Calls : /\ Moved(c, r)
                            /\ r.step = calls[c].step /\ r.attempt = calls[c].attempt
                            /\ r.result = calls[c].result /\ SameMessage(calls[c], r)
  BY <1>1, <1>3, WaitingTruth
<1> QED BY <1>2, <1>3, AnswerMoves DEF IInv

LEMMA DeadlineTruth ==
  ASSUME IInv, TInv, NEW c \in 1..Len(calls), Deadline(c)
  PROVE  TInv'
<1>1. /\ UNCHANGED <<document, attached, revision, locale, attempt, snapshot, publishing>>
      /\ calls[c].step = "waiting" /\ Ends(c, "unavailable", TRUE)
  BY DEF Deadline, sessionVars
<1>2. PICK r \in Calls : r.step = "back" /\ EndedAs(c, r, "unavailable") /\ Moved(c, r)
  BY <1>1, EndsMoves DEF Results, IInv
<1> QED BY <1>1, <1>2, WaitingTruth DEF EndedAs

(* #handle goes on after its merge: the newest message puts its document on show, or
   says that it could not. *)
LEMMA ReturnTruth ==
  ASSUME IInv, TInv, NEW c \in 1..Len(calls), Return(c)
  PROVE  TInv'
<1>1. /\ UNCHANGED <<document, attached, revision, locale, attempt, publishing>>
      /\ publishing = 0 /\ calls[c].step = "back" /\ calls' = [calls EXCEPT ![c].step = "ended"]
  BY DEF Return, sessionVars, mergerVars
<1>2. PICK r \in Calls : /\ r.step = "ended" /\ r.result = calls[c].result
                         /\ SameMessage(calls[c], r) /\ Moved(c, r)
  BY <1>1, ReturnMoves DEF IInv
<1>3. Moves(c) /\ calls'[c] = r
  BY <1>2, MovedMoves DEF IInv
<1>4. Numbered' /\ Accepted' /\ (UNCHANGED snapshot => Shown')
  BY <1>1, <1>3, MovingKeepsTruth
<1>5. ASSUME NEW d \in 1..Len(calls)
      PROVE  OnItsWay(d)'
  <2>1. CASE d = c
    BY <1>1, <1>2, <1>3, <2>1 DEF OnItsWay
  <2> QED BY <1>1, <1>3, <2>1, OthersOnTheirWay
<1>6. /\ calls[c] \in Calls /\ calls[c].revision \in Nat \ {0} /\ calls[c].result # "open"
      /\ snapshot \in Snapshots /\ Len(calls') = Len(calls) /\ c \in Nat \ {0}
  <2>1. calls[c] \in Calls
    BY CallType DEF IInv
  <2>2. calls[c].revision \in 1..revision /\ calls[c].result # "open"
    BY <1>1 DEF TInv, Numbered, OnItsWay
  <2>3. revision \in Nat /\ Len(calls) \in Nat /\ snapshot \in Snapshots
    BY DEF IInv, TypeOK
  <2> QED BY <1>3, <2>1, <2>2, <2>3 DEF Moves
<1>7. calls[c].revision = revision => attached /\ calls[c].result # "superseded"
  BY <1>1 DEF TInv, Numbered, OnItsWay
<1>8. CASE ~Usable(c)
  <2>1. snapshot' = snapshot /\ calls[c].revision # revision
    BY <1>7, <1>8 DEF Return, Usable, Current
  <2>2. Told'
    BY <1>1, <1>2, <1>3, <2>1 DEF TInv, Told, Moves, AsBefore, SameMessage
  <2> QED BY <1>4, <1>5, <1>6, <2>1, <2>2 DEF TInv
<1>9. CASE Usable(c)
  <2>1. attached /\ calls[c].revision = revision
    BY <1>9 DEF Usable, Current
  <2>2. \A d \in 1..Len(calls) : d # c => calls'[d].revision # revision'
    BY <1>1, <1>3, <2>1, NewestIsOne DEF Moves, AsBefore, SameMessage
  <2>3. CASE calls[c].result = "unavailable"
    <3>1. snapshot' = Kept(c)
      BY <1>9, <2>3 DEF Return
    <3>2. /\ snapshot'.data = snapshot.data /\ snapshot'.revision = snapshot.revision
          /\ ~snapshot'.isLoading /\ snapshot'.status = "unavailable"
      BY <1>6, <3>1 DEF Kept, Snapshots
    <3>3. snapshot.data # c
      BY <1>1, <1>6 DEF TInv, Shown
    <3>4. Shown'
      BY <1>3, <1>6, <3>2, <3>3 DEF TInv, Shown, Moves, AsBefore, SameMessage
    <3>5. snapshot.revision # revision
      <4>1. CASE snapshot.data = 0
        BY <1>6, <2>1, <4>1 DEF TInv, Shown
      <4>2. CASE snapshot.data # 0
        <5>1. snapshot.data \in 1..Len(calls) /\ calls[snapshot.data].revision = snapshot.revision
          BY <4>2 DEF TInv, Shown
        <5> QED BY <2>1, <3>3, <5>1, NewestIsOne
      <4> QED BY <4>1, <4>2
    <3>6. Told'
      BY <1>1, <1>6, <2>2, <3>2, <3>5 DEF Told
    <3> QED BY <1>4, <1>5, <1>6, <3>4, <3>6 DEF TInv
  <2>4. CASE calls[c].result # "unavailable"
    <3>1. snapshot' = Merged(c)
      BY <1>9, <2>4 DEF Return
    <3>2. calls[c].result = "merged"
      BY <1>6, <1>9, <2>4 DEF Usable, Calls, Results
    <3>3. /\ snapshot'.data = c /\ snapshot'.revision = revision
          /\ ~snapshot'.isLoading /\ snapshot'.status = "live"
      BY <2>1, <3>1 DEF Merged
    <3>4. Shown'
      BY <1>2, <1>3, <1>6, <2>1, <3>2, <3>3 DEF Shown, SameMessage
    <3>5. Told'
      BY <1>1, <1>6, <2>2, <3>3 DEF Told
    <3> QED BY <1>4, <1>5, <1>6, <3>4, <3>5 DEF TInv
  <2> QED BY <2>3, <2>4
<1> QED BY <1>8, <1>9

LEMMA TruthNext ==
  ASSUME IInv, TInv, [Next]_vars
  PROVE  TInv'
<1>0. DOMAIN calls = 1..Len(calls)
  BY DEF IInv, TypeOK
<1>1. ASSUME NEW l \in Listeners, Subscribe(l) \/ Unsubscribe(l)
      PROVE  TInv'
  BY <1>1, SubscribeTruth, UnsubscribeTruth
<1>2. ASSUME NEW m \in Messages, Handle(m)
      PROVE  TInv'
  BY <1>2, HandleTruth
<1>3. CASE Merge
  BY <1>3, MergeTruth
<1>4. ASSUME NEW c \in DOMAIN calls, NEW kind \in AnswerKinds, Answer(c, kind)
      PROVE  TInv'
  BY <1>0, <1>4, AnswerTruth
<1>5. ASSUME NEW c \in DOMAIN calls, Deadline(c) \/ Return(c)
      PROVE  TInv'
  BY <1>0, <1>5, DeadlineTruth, ReturnTruth
<1>6. CASE UNCHANGED vars
  BY <1>6 DEF TInv, Numbered, Accepted, Takes, OnItsWay, Shown, Told, vars, sessionVars, mergerVars
<1> QED BY <1>1, <1>2, <1>3, <1>4, <1>5, <1>6 DEF Next

(* What a component reads was merged to its end, from the message it is numbered by,
   for the document and the locale of the session, whatever order the server answers
   in; and the end of the newest message is told, unless nobody listens any more. *)
THEOREM SnapshotStaysTrue == Spec => []SnapshotIsTrue
<1>1. IInv /\ TInv => SnapshotIsTrue
  BY TruthFollows DEF IInv
<1>2. Spec => []TInv
  BY TruthInit, TruthNext, Invariance, PTL DEF Spec
<1> QED BY <1>1, <1>2, Invariance, PTL

---------------------------------------------------------------------------
(* The refinement of LatestWins *)

\* What a return puts on show has the newest number, or is what was on show.
LEMMA ReturnShows ==
  ASSUME IInv, NEW c \in 1..Len(calls), Return(c)
  PROVE  Latest!LatestNext \/ UNCHANGED Latest!latestVars
<1>1. UNCHANGED <<attached, revision>> /\ snapshot \in Snapshots /\ calls[c].revision \in Nat /\ c \in Nat
  BY CallType DEF Return, sessionVars, IInv, TypeOK, Calls
<1>2. CASE snapshot' = snapshot
  BY <1>1, <1>2 DEF Latest!latestVars
<1>3. CASE snapshot' = Kept(c)
  <2>1. snapshot'.revision = snapshot.revision
    BY <1>1, <1>3, SnapshotType DEF Kept
  <2> QED BY <1>1, <2>1 DEF Latest!latestVars
<1>4. CASE Usable(c) /\ snapshot' = Merged(c)
  <2>1. attached /\ snapshot'.revision = revision
    BY <1>4 DEF Usable, Current, Merged
  <2> QED BY <1>1, <2>1 DEF Latest!LatestNext, Latest!Show
<1> QED BY <1>2, <1>3, <1>4 DEF Return

\* Every step of the session is a step of LatestWins or none.
LEMMA StepShows ==
  ASSUME IInv, [Next]_vars
  PROVE  Latest!LatestNext \/ UNCHANGED Latest!latestVars
<1>1. ASSUME NEW l \in Listeners, Subscribe(l)
      PROVE  Latest!LatestNext \/ UNCHANGED Latest!latestVars
  BY <1>1 DEF Subscribe, IInv, TypeOK, Latest!latestVars, Latest!LatestNext, Latest!Begin
<1>2. ASSUME NEW l \in Listeners, Unsubscribe(l)
      PROVE  Latest!LatestNext \/ UNCHANGED Latest!latestVars
  <2>1. CASE listeners = {l}
    BY <1>2, <2>1 DEF Unsubscribe, Detach, IInv, AttachedIsHeard, Latest!LatestNext, Latest!Leave
  <2>2. CASE listeners # {l}
    BY <1>2, <2>2 DEF Unsubscribe, Latest!latestVars
  <2> QED BY <2>1, <2>2
<1>3. ASSUME NEW m \in Messages, Handle(m)
      PROVE  Latest!LatestNext \/ UNCHANGED Latest!latestVars
  <2>1. snapshot'.revision = snapshot.revision
    BY <1>3, SnapshotType DEF Handle, IInv, TypeOK
  <2> QED BY <1>3, <2>1 DEF Handle, Latest!LatestNext, Latest!Take
<1>4. CASE Merge
  BY <1>4 DEF Merge, sessionVars, Latest!latestVars
<1>5. ASSUME NEW c \in DOMAIN calls, NEW kind \in AnswerKinds, Answer(c, kind)
      PROVE  Latest!LatestNext \/ UNCHANGED Latest!latestVars
  BY <1>5 DEF Answer, sessionVars, Latest!latestVars
<1>6. ASSUME NEW c \in DOMAIN calls, Deadline(c)
      PROVE  Latest!LatestNext \/ UNCHANGED Latest!latestVars
  BY <1>6 DEF Deadline, sessionVars, Latest!latestVars
<1>7. ASSUME NEW c \in DOMAIN calls, Return(c)
      PROVE  Latest!LatestNext \/ UNCHANGED Latest!latestVars
  <2>1. c \in 1..Len(calls)
    BY DEF IInv, TypeOK
  <2> QED BY <1>7, <2>1, ReturnShows
<1>8. CASE UNCHANGED vars
  BY <1>8 DEF vars, sessionVars, Latest!latestVars
<1> QED BY <1>1, <1>2, <1>3, <1>4, <1>5, <1>6, <1>7, <1>8 DEF Next

(* The session implements LatestWins: what it shows is only ever replaced by
   the newest message, while somebody listens. *)
THEOREM Refinement == Spec => ImplementsLatestWins
<1>1. Init => Latest!LatestInit
  BY DEF Init, Latest!LatestInit
<1>2. IInv /\ [Next]_vars => [Latest!LatestNext]_(Latest!latestVars)
  BY StepShows
<1> QED BY <1>1, <1>2, Invariance, PTL DEF Spec, ImplementsLatestWins, Latest!LatestSpec

---------------------------------------------------------------------------
(* RevisionDisplay: its invariant *)

Transactions ==
  [data : 0..2, touched : BOOLEAN, ran : BOOLEAN, pending : 0..1, refreshed : BOOLEAN,
   escalated : BOOLEAN, cancelled : BOOLEAN, done : BOOLEAN]
Entries == [short : BOOLEAN, awaiting : Nat, queued : BOOLEAN]

Typed ==
  /\ accepted \in 0..MaxRevisions
  /\ active \in {0, accepted}
  /\ tx \in Transactions /\ entry \in Entries
  /\ said \in Settled \cup {"none"}
  /\ {writes, batch, retry, stranded} \subseteq BOOLEAN
  /\ route \in {"idle", "flight", "refused"}
  /\ saves \in 0..MaxSaves
  /\ fanout \subseteq Islands /\ hydrating \subseteq Islands
  /\ waits \subseteq Islands /\ handed \subseteq Islands
  /\ delivered \in [Islands -> SUBSET {1, 2}]
  /\ live \subseteq Islands \X Revisions

(* A boundary that was not settled has its batch, a change came with a document,
   and islands are told of a revision and confirm one. *)
Begun ==
  /\ tx.pending = 1 => batch
  /\ tx.touched => tx.data # 0
  /\ active = 0 \/ tx.data = 0 => fanout = {}
  /\ active = 0 => entry.awaiting = 0

\* The islands that hold a confirmation of a revision and did not call it.
Owing(r) == {i \in Islands : <<i, r>> \in live}

\* A confirmation was handed out, to an island that is remembered for it.
HandedOut ==
  /\ \A i \in Islands, r \in Revisions : <<i, r>> \in live => r <= accepted
  /\ \A i \in Owing(active) : i \in handed

\* The end of the work left the revision complete, and its report on the way or made.
Ended == ~WorkLeft /\ ~stranded => tx.done
ReportIsTrue ==
  active # 0 /\ ~WorkLeft /\ ~stranded /\ ~entry.queued =>
    said \in Settled /\ (entry.short => said = "partial")

\* An island has heard of the change, will in this turn, or waits for its hydration.
HearsOf(i) == i \in fanout \/ (IF i \in hydrating THEN i \in waits ELSE delivered[i] # {})
Coming == stranded \/ writes \/ route # "idle" \/ retry
Heard == active # 0 /\ tx.touched /\ ~Coming => \A i \in Islands : HearsOf(i)

DisplayInv ==
  /\ Typed
  /\ Begun
  /\ HandedOut
  /\ AwaitingIsOwed
  /\ Ended
  /\ ReportIsTrue
  /\ Heard

---------------------------------------------------------------------------
(* The ledger *)

LEMMA Shortened ==
  ASSUME NEW e \in Entries, NEW falls \in BOOLEAN
  PROVE  /\ ShortIf(e, falls) \in Entries
         /\ ShortIf(e, falls).awaiting = e.awaiting
         /\ ShortIf(e, falls) = e \/ ShortIf(e, falls).queued
         /\ Short(e) \in Entries /\ Short(e).awaiting = e.awaiting /\ Short(e).queued
BY DEF ShortIf, Short, Entries

LEMMA Completes ==
  ASSUME NEW t \in Transactions, NEW e \in Entries
  PROVE  /\ Completed(t, e).tx \in Transactions /\ Completed(t, e).entry \in Entries
         /\ Completed(t, e).tx.done /\ Completed(t, e).entry.queued
         /\ Completed(t, e).entry.awaiting = e.awaiting
         /\ Completed(t, e).tx.data = t.data /\ Completed(t, e).tx.touched = t.touched
         /\ Completed(t, e).tx.pending = t.pending
         /\ Uncompleted(t, e).tx = t /\ Uncompleted(t, e).entry = e
BY DEF Completed, Uncompleted, Transactions, Entries

\* What is reported is never "pending", and a revision whose work is done never is.
LEMMA SettleReports ==
  ASSUME tx' \in Transactions, entry' \in Entries, Begun', Ended',
         said \in Settled \cup {"none"}, Settle
  PROVE  /\ said' \in Settled \cup {"none"}
         /\ ReportIsTrue'
<1>1. entry'.short \in BOOLEAN /\ tx'.pending \in {0, 1}
  BY DEF Entries, Transactions
<1>2. /\ Outstanding' => View' = "pending"
      /\ ~Outstanding' /\ entry'.short => View' = "partial"
      /\ ~Outstanding' /\ ~entry'.short => View' \in {"unconfirmed", "current"}
  <2>1. CASE Outstanding'
    BY <2>1 DEF View
  <2>2. CASE ~Outstanding' /\ entry'.short
    BY <2>2 DEF View
  <2>3. CASE ~Outstanding' /\ ~entry'.short /\ entry'.awaiting > 0
    BY <2>3 DEF View
  <2>4. CASE ~Outstanding' /\ ~entry'.short /\ ~(entry'.awaiting > 0)
    BY <2>4 DEF View
  <2> QED BY <1>1, <2>1, <2>2, <2>3, <2>4
<1>3. ~WorkLeft' /\ ~stranded' => ~Outstanding'
  BY <1>1 DEF Begun, Ended, WorkLeft, Outstanding
<1>4. CASE Outstanding'
  <2>1. said' = said
    BY <1>2, <1>4 DEF Settle
  <2> QED BY <1>3, <1>4, <2>1 DEF ReportIsTrue
<1>5. CASE ~Outstanding'
  <2>1. View' \in Settled /\ View' # "pending" /\ (entry'.short => View' = "partial")
    BY <1>1, <1>2, <1>5 DEF Settled
  <2>2. said' = View'
    BY <2>1 DEF Settle
  <2> QED BY <2>1, <2>2 DEF ReportIsTrue
<1> QED BY <1>4, <1>5

---------------------------------------------------------------------------
(* The work of a revision *)

\* What the work of a revision does to the rest of the ledger and to the islands.
Worked ==
  /\ UNCHANGED <<revisionVars, islandVars>>
  /\ tx' \in Transactions /\ entry' \in Entries /\ entry'.awaiting = entry.awaiting
  /\ {writes', batch', retry', stranded'} \subseteq BOOLEAN
  /\ route' \in {"idle", "flight", "refused"}
  /\ saves' \in 0..MaxSaves
  /\ fanout' \subseteq Islands
  /\ tx'.pending = 1 => batch'
  /\ tx'.touched => tx'.data # 0
  /\ active = 0 \/ tx'.data = 0 => fanout' = {}
  /\ Ended'
  /\ ~WorkLeft' /\ ~stranded' /\ ~entry'.queued =>
       ~WorkLeft /\ ~stranded /\ entry' = entry
  /\ active # 0 /\ tx'.touched /\ ~Coming' => \A i \in Islands : HearsOf(i)'

LEMMA WorkKeepsTheInvariant ==
  ASSUME DisplayInv, Worked
  PROVE  DisplayInv'
<1> USE DEF DisplayInv, Worked, revisionVars, islandVars
<1>1. Typed'
  BY DEF Typed
<1>2. Begun'
  BY DEF Begun
<1>3. HandedOut'
  BY DEF HandedOut, Owing, Typed
<1>4. AwaitingIsOwed'
  BY DEF AwaitingIsOwed
<1>5. ReportIsTrue'
  BY DEF ReportIsTrue
<1>6. Heard'
  BY DEF Heard
<1> QED BY <1>1, <1>2, <1>3, <1>4, <1>5, <1>6

LEMMA Asks ==
  ASSUME NEW t \in Transactions
  PROVE  /\ [t EXCEPT !.ran = TRUE, !.pending = 1] \in Transactions
         /\ [t EXCEPT !.ran = TRUE, !.pending = 1].data = t.data
         /\ [t EXCEPT !.ran = TRUE, !.pending = 1].touched = t.touched
         /\ [t EXCEPT !.ran = TRUE, !.pending = 1].pending = 1
<1>1. [t EXCEPT !.ran = TRUE, !.pending = 1] = [[t EXCEPT !.ran = TRUE] EXCEPT !.pending = 1]
  OBVIOUS
<1> DEFINE u == [t EXCEPT !.ran = TRUE]
<1>2. u \in Transactions /\ u.data = t.data /\ u.touched = t.touched
  BY DEF Transactions
<1> HIDE DEF u
<1>3. /\ [u EXCEPT !.pending = 1] \in Transactions /\ [u EXCEPT !.pending = 1].data = u.data
      /\ [u EXCEPT !.pending = 1].touched = u.touched /\ [u EXCEPT !.pending = 1].pending = 1
  BY <1>2 DEF Transactions
<1> QED BY <1>1, <1>2, <1>3 DEF u

(* scheduleAllFields leaves something of the revision to run or completes it, and
   tells the islands of a change that nothing is left to run for. *)
LEMMA Schedules ==
  ASSUME Typed, fanout = {}, NEW t \in Transactions, NEW e \in Entries,
         t.pending = 1 => batch, t.data # 0,
         NEW standing \in {"idle", "flight", "refused"}, Schedule(t, e, standing)
  PROVE  /\ tx' \in Transactions /\ entry' \in Entries /\ entry'.awaiting = e.awaiting
         /\ tx'.data = t.data /\ tx'.touched = t.touched
         /\ {writes', batch', retry'} \subseteq BOOLEAN
         /\ route' \in {"idle", "flight", "refused"}
         /\ fanout' \subseteq Islands
         /\ (tx'.pending = 1 => batch')
         /\ writes' \/ batch' \/ route' # "idle" \/ retry' \/ (tx'.done /\ entry'.queued)
         /\ t.touched => writes' \/ route' # "idle" \/ retry' \/ fanout' = Islands
<1>1. CASE /\ HasRoute /\ ~t.refreshed
           /\ StartRoute
           /\ Commit(Uncompleted([t EXCEPT !.refreshed = TRUE], e))
           /\ UNCHANGED <<writes, batch, fanout>>
  <2>1. tx' = [t EXCEPT !.refreshed = TRUE] /\ entry' = e
    BY <1>1 DEF Commit, Uncompleted
  <2>2. /\ tx' \in Transactions /\ tx'.data = t.data /\ tx'.touched = t.touched
        /\ tx'.pending = t.pending
    BY <2>1 DEF Transactions
  <2>3. route' \in {"flight", "refused"} /\ retry' \in BOOLEAN
    BY <1>1 DEF StartRoute, Typed
  <2>4. writes' = writes /\ batch' = batch /\ fanout' = {}
    BY <1>1
  <2>5. {writes', batch', retry'} \subseteq BOOLEAN /\ fanout' \subseteq Islands
    BY <2>3, <2>4 DEF Typed
  <2>6. tx'.pending = 1 => batch'
    BY <2>2, <2>4
  <2> QED BY <2>1, <2>2, <2>3, <2>5, <2>6
<1>2. ASSUME NEW some \in BOOLEAN, NEW asks \in BOOLEAN, NEW falls \in BOOLEAN,
             writes' = (writes \/ some),
             batch' = (batch \/ asks),
             LET t1 == IF asks THEN [t EXCEPT !.ran = TRUE, !.pending = 1] ELSE t
                 e1 == ShortIf(e, falls)
             IN /\ Commit(IF ~some /\ t1.pending = 0 /\ ~writes THEN Completed(t1, e1)
                                                               ELSE Uncompleted(t1, e1))
                /\ IF some THEN fanout' = {} ELSE Notify(t1),
             route' = standing, UNCHANGED retry
      PROVE  /\ tx' \in Transactions /\ entry' \in Entries /\ entry'.awaiting = e.awaiting
             /\ tx'.data = t.data /\ tx'.touched = t.touched
             /\ {writes', batch', retry'} \subseteq BOOLEAN
             /\ route' \in {"idle", "flight", "refused"}
             /\ fanout' \subseteq Islands
             /\ tx'.pending = 1 => batch'
             /\ writes' \/ batch' \/ route' # "idle" \/ retry' \/ (tx'.done /\ entry'.queued)
             /\ t.touched => writes' \/ route' # "idle" \/ retry' \/ fanout' = Islands
  <2> DEFINE t1 == IF asks THEN [t EXCEPT !.ran = TRUE, !.pending = 1] ELSE t
             e1 == ShortIf(e, falls)
             ends == ~some /\ t1.pending = 0 /\ ~writes
  <2>1. /\ t1 \in Transactions /\ t1.data = t.data /\ t1.touched = t.touched
        /\ t1.pending \in {0, 1} /\ (t1.pending = 1 => batch')
    <3>1. CASE asks
      <4>1. t1 = [t EXCEPT !.ran = TRUE, !.pending = 1] /\ batch'
        BY <3>1, <1>2
      <4> HIDE DEF t1
      <4> QED BY <4>1, Asks
    <3>2. CASE ~asks
      <4>1. t1 = t /\ (t.pending = 1 => batch')
        BY <3>2, <1>2
      <4>2. t.pending \in {0, 1}
        BY DEF Transactions
      <4> HIDE DEF t1
      <4> QED BY <4>1, <4>2
    <3> QED BY <3>1, <3>2
  <2>2. e1 \in Entries /\ e1.awaiting = e.awaiting
    BY Shortened
  <2>3. Commit(IF ends THEN Completed(t1, e1) ELSE Uncompleted(t1, e1))
    BY <1>2
  <2>4. IF some THEN fanout' = {} ELSE Notify(t1)
    BY <1>2
  <2>5. {writes', batch', retry'} \subseteq BOOLEAN
    BY <1>2 DEF Typed
  <2>6. fanout' \subseteq Islands /\ (t1.touched => some \/ fanout' = Islands)
    BY <2>4 DEF Notify
  <2> HIDE DEF t1, e1
  <2>7. CASE ends
    <3>1. tx' = Completed(t1, e1).tx /\ entry' = Completed(t1, e1).entry
      BY <2>3, <2>7 DEF Commit
    <3> QED BY <3>1, <1>2, <2>1, <2>2, <2>5, <2>6, Completes
  <2>8. CASE ~ends
    <3>1. tx' = t1 /\ entry' = e1
      BY <2>3, <2>8 DEF Commit, Uncompleted
    <3>2. writes' \/ batch'
      BY <1>2, <2>1, <2>8
    <3> QED BY <3>1, <3>2, <1>2, <2>1, <2>2, <2>5, <2>6
  <2> QED BY <2>7, <2>8
<1> QED BY <1>1, <1>2 DEF Schedule

\* So a step that schedules is one of the revision's work.
LEMMA SchedulingKeepsTheInvariant ==
  ASSUME DisplayInv, fanout = {}, active # 0, NEW t \in Transactions, NEW e \in Entries,
         t.data # 0, t.pending = tx.pending, e.awaiting = entry.awaiting,
         NEW standing \in {"idle", "flight", "refused"}, Schedule(t, e, standing),
         UNCHANGED <<revisionVars, saves, stranded, islandVars>>
  PROVE  DisplayInv'
<1>1. Typed /\ (t.pending = 1 => batch)
  BY DEF DisplayInv, Begun
<1>2. /\ tx' \in Transactions /\ entry' \in Entries /\ entry'.awaiting = e.awaiting
      /\ tx'.data = t.data /\ tx'.touched = t.touched
      /\ {writes', batch', retry'} \subseteq BOOLEAN
      /\ route' \in {"idle", "flight", "refused"}
      /\ fanout' \subseteq Islands
      /\ (tx'.pending = 1 => batch')
      /\ writes' \/ batch' \/ route' # "idle" \/ retry' \/ (tx'.done /\ entry'.queued)
      /\ t.touched => writes' \/ route' # "idle" \/ retry' \/ fanout' = Islands
  BY <1>1, Schedules
<1>3. /\ {writes', batch', retry', stranded'} \subseteq BOOLEAN /\ saves' \in 0..MaxSaves
      /\ UNCHANGED <<revisionVars, islandVars>> /\ entry'.awaiting = entry.awaiting
  BY <1>1, <1>2 DEF Typed
<1>4. ~WorkLeft' => tx'.done /\ entry'.queued
  BY <1>2 DEF WorkLeft
<1>5. ASSUME tx'.touched, ~Coming', NEW i \in Islands
      PROVE  HearsOf(i)'
  <2>1. fanout' = Islands
    BY <1>2, <1>5 DEF Coming
  <2> QED BY <2>1 DEF HearsOf
<1>6. Worked
  BY <1>2, <1>3, <1>4, <1>5 DEF Worked, Ended
<1> QED BY <1>6, WorkKeepsTheInvariant

LEMMA ProcessKeeps == ASSUME DisplayInv, Process PROVE DisplayInv'
<1> PICK unavailable \in BOOLEAN :
      Schedule([tx EXCEPT !.data = 1, !.touched = TRUE], ShortIf(entry, unavailable), route)
  BY DEF Process
<1> DEFINE u == [tx EXCEPT !.data = 1]
           t == [u EXCEPT !.touched = TRUE]
           e == ShortIf(entry, unavailable)
<1>1. Schedule(t, e, route)
  <2>1. [tx EXCEPT !.data = 1, !.touched = TRUE] = t
    OBVIOUS
  <2> QED BY <2>1
<1>2. u \in Transactions /\ u.data = 1 /\ u.pending = tx.pending
  BY DEF DisplayInv, Typed, Transactions
<1> HIDE DEF u
<1>3. t \in Transactions /\ t.data = 1 /\ t.pending = tx.pending
  BY <1>2 DEF Transactions
<1>4. e \in Entries /\ e.awaiting = entry.awaiting
  BY Shortened DEF DisplayInv, Typed
<1>5. /\ fanout = {} /\ active # 0 /\ route \in {"idle", "flight", "refused"}
      /\ UNCHANGED <<revisionVars, saves, stranded, islandVars>>
  BY DEF Process, Quiet, DisplayInv, Typed
<1> HIDE DEF t, e
<1> QED BY <1>1, <1>3, <1>4, <1>5, SchedulingKeepsTheInvariant

LEMMA RefineKeeps == ASSUME DisplayInv, Refine PROVE DisplayInv'
<1>1. /\ fanout = {} /\ active # 0 /\ route \in {"idle", "flight", "refused"} /\ tx.data = 1
      /\ UNCHANGED <<revisionVars, saves, stranded, islandVars>>
      /\ tx \in Transactions /\ entry \in Entries
  BY DEF Refine, Quiet, DisplayInv, Typed
<1>2. CASE Schedule([tx EXCEPT !.data = 2, !.touched = FALSE, !.escalated = FALSE], entry, route)
  <2> DEFINE u == [tx EXCEPT !.data = 2]
             v == [u EXCEPT !.touched = FALSE]
             t == [v EXCEPT !.escalated = FALSE]
  <2>1. Schedule(t, entry, route)
    <3>1. [tx EXCEPT !.data = 2, !.touched = FALSE, !.escalated = FALSE] = t
      OBVIOUS
    <3> QED BY <1>2, <3>1
  <2>2. u \in Transactions /\ u.data = 2 /\ u.pending = tx.pending
    BY <1>1 DEF Transactions
  <2> HIDE DEF u
  <2>3. v \in Transactions /\ v.data = 2 /\ v.pending = tx.pending
    BY <2>2 DEF Transactions
  <2> HIDE DEF v
  <2>4. t \in Transactions /\ t.data = 2 /\ t.pending = tx.pending
    BY <2>3 DEF Transactions
  <2> HIDE DEF t
  <2> QED BY <1>1, <2>1, <2>4, SchedulingKeepsTheInvariant
<1>3. CASE entry' = Short(entry) /\ UNCHANGED <<tx, writes, batch, route, retry, fanout>>
  <2>1. entry' \in Entries /\ entry'.awaiting = entry.awaiting /\ entry'.queued
    BY <1>1, <1>3, Shortened
  <2>2. Worked
    BY <1>1, <1>3, <2>1 DEF Worked, DisplayInv, Typed, Begun, Ended, WorkLeft, Heard, Coming,
                            HearsOf, islandVars, revisionVars
  <2> QED BY <2>2, WorkKeepsTheInvariant
<1> QED BY <1>2, <1>3 DEF Refine

LEMMA CancelKeeps == ASSUME DisplayInv, CancelUpdate PROVE DisplayInv'
<1>1. /\ tx' \in Transactions /\ tx'.data = 0 /\ tx'.touched = tx.touched
      /\ tx'.pending = tx.pending
  BY DEF CancelUpdate, DisplayInv, Typed, Transactions
<1>2. Worked
  BY <1>1 DEF CancelUpdate, Worked, DisplayInv, Typed, Begun, Ended, WorkLeft, Coming,
              routeVars, islandVars, revisionVars
<1> QED BY <1>2, WorkKeepsTheInvariant

LEMMA FlushKeeps == ASSUME DisplayInv, Flush PROVE DisplayInv'
<1> PICK falls \in BOOLEAN :
      LET step == Flushed(tx, ShortIf(entry, falls)) IN
        /\ \/ Commit(step) /\ UNCHANGED <<batch, route, retry>>
           \/ /\ ~tx.refreshed /\ ~tx.escalated /\ ~batch
              /\ Commit(Uncompleted([step.tx EXCEPT !.pending = 1, !.escalated = TRUE], step.entry))
              /\ batch' = TRUE
              /\ UNCHANGED <<route, retry>>
           \/ /\ ~tx.refreshed /\ HasRoute
              /\ Commit(Uncompleted([step.tx EXCEPT !.refreshed = TRUE], step.entry))
              /\ StartRoute
              /\ UNCHANGED batch
        /\ Notify(step.tx)
  BY DEF Flush
<1> DEFINE e == ShortIf(entry, falls)
           t == Flushed(tx, e).tx
           f == Flushed(tx, e).entry
<1>1. /\ tx \in Transactions /\ entry \in Entries /\ active # 0 /\ active = accepted
      /\ fanout = {} /\ writes' = FALSE
      /\ {writes, batch, retry, stranded} \subseteq BOOLEAN
      /\ route \in {"idle", "flight", "refused"} /\ saves \in 0..MaxSaves
      /\ UNCHANGED <<revisionVars, saves, stranded, islandVars>>
      /\ (tx.pending = 1 => batch) /\ (tx.touched => tx.data # 0)
  BY DEF Flush, Quiet, DisplayInv, Typed, Begun
<1>2. e \in Entries /\ e.awaiting = entry.awaiting
  BY <1>1, Shortened
<1> HIDE DEF e
<1>3. /\ t \in Transactions /\ f \in Entries /\ f.awaiting = entry.awaiting
      /\ t.data = tx.data /\ t.touched = tx.touched /\ t.pending = tx.pending
      /\ tx.pending = 0 => t.done /\ f.queued
  BY <1>1, <1>2, Completes DEF Flushed
<1>4. /\ \/ tx' = t /\ entry' = f /\ UNCHANGED <<batch, route, retry>>
         \/ /\ tx' = [t EXCEPT !.pending = 1, !.escalated = TRUE] /\ entry' = f
            /\ batch' = TRUE /\ UNCHANGED <<route, retry>>
         \/ /\ tx' = [t EXCEPT !.refreshed = TRUE] /\ entry' = f
            /\ StartRoute /\ UNCHANGED batch
      /\ Notify(t)
  BY DEF Commit, Uncompleted, e
<1> HIDE DEF t, f
<1>5. /\ tx' \in Transactions /\ entry' \in Entries /\ entry'.awaiting = entry.awaiting
      /\ tx'.data = tx.data /\ tx'.touched = tx.touched
      /\ {batch', retry'} \subseteq BOOLEAN
      /\ route' \in {"idle", "flight", "refused"}
      /\ tx'.pending = 1 => batch'
      /\ batch' \/ route' # "idle" \/ (tx'.done /\ entry'.queued)
  <2>1. tx.pending \in {0, 1}
    BY <1>1 DEF Transactions
  <2>2. CASE tx' = t /\ entry' = f /\ UNCHANGED <<batch, route, retry>>
    BY <1>1, <1>3, <2>1, <2>2
  <2>3. CASE /\ tx' = [t EXCEPT !.pending = 1, !.escalated = TRUE] /\ entry' = f
             /\ batch' = TRUE /\ UNCHANGED <<route, retry>>
    <3>1. [t EXCEPT !.pending = 1, !.escalated = TRUE] = [[t EXCEPT !.pending = 1] EXCEPT !.escalated = TRUE]
      OBVIOUS
    <3> DEFINE u == [t EXCEPT !.pending = 1]
    <3>2. u \in Transactions /\ u.data = t.data /\ u.touched = t.touched
      BY <1>3 DEF Transactions
    <3> HIDE DEF u
    <3>3. /\ [u EXCEPT !.escalated = TRUE] \in Transactions
          /\ [u EXCEPT !.escalated = TRUE].data = u.data
          /\ [u EXCEPT !.escalated = TRUE].touched = u.touched
      BY <3>2 DEF Transactions
    <3> QED BY <1>1, <1>3, <2>3, <3>1, <3>2, <3>3 DEF u
  <2>4. CASE /\ tx' = [t EXCEPT !.refreshed = TRUE] /\ entry' = f
             /\ StartRoute /\ UNCHANGED batch
    <3>1. /\ tx' \in Transactions /\ tx'.data = t.data /\ tx'.touched = t.touched
          /\ tx'.pending = t.pending
      BY <1>3, <2>4 DEF Transactions
    <3>2. retry' \in BOOLEAN /\ route' \in {"flight", "refused"} /\ batch' = batch
      BY <1>1, <2>4 DEF StartRoute
    <3> QED BY <1>1, <1>3, <2>4, <3>1, <3>2
  <2> QED BY <1>4, <2>2, <2>3, <2>4
<1>6. fanout' \subseteq Islands /\ (IF tx'.touched THEN fanout' = Islands ELSE fanout' = {})
  BY <1>3, <1>4, <1>5 DEF Notify
<1>7. \A i \in Islands : tx'.touched => HearsOf(i)'
  BY <1>6 DEF HearsOf
<1>8. Worked
  BY <1>1, <1>5, <1>6, <1>7 DEF Worked, Ended, WorkLeft
<1> QED BY <1>8, WorkKeepsTheInvariant

\* The work of a revision, as far as its transaction goes on unchanged.
LEMMA ForgetKeeps == ASSUME DisplayInv, Forget PROVE DisplayInv'
<1>1. Worked
  BY DEF Forget, Quiet, Worked, DisplayInv, Typed, Begun, Ended, Coming, routeVars, islandVars,
         revisionVars
<1> QED BY <1>1, WorkKeepsTheInvariant

LEMMA BoundarySettlesKeeps == ASSUME DisplayInv, BoundarySettles PROVE DisplayInv'
<1>1. /\ tx' \in Transactions /\ tx'.data = tx.data /\ tx'.touched = tx.touched
      /\ tx'.pending = 0
  BY DEF BoundarySettles, DisplayInv, Typed, Transactions
<1> PICK failed \in BOOLEAN, patched \in BOOLEAN :
      entry' = ShortIf(entry, failed) /\ writes' = (writes \/ patched)
  BY DEF BoundarySettles
<1>2. entry' \in Entries /\ entry'.awaiting = entry.awaiting
  BY Shortened DEF DisplayInv, Typed
<1>3. WorkLeft' /\ (~Coming' => ~Coming)
  BY DEF BoundarySettles, WorkLeft, Coming, routeVars
<1>4. \A i \in Islands : HearsOf(i)' = HearsOf(i)
  BY DEF BoundarySettles, HearsOf, islandVars
<1>5. active # 0 /\ tx'.touched /\ ~Coming' => \A i \in Islands : HearsOf(i)'
  BY <1>1, <1>3, <1>4 DEF DisplayInv, Heard
<1>6. Worked
  BY <1>1, <1>2, <1>3, <1>5 DEF BoundarySettles, Quiet, Worked, DisplayInv, Typed, Begun, Ended, routeVars
<1> QED BY <1>6, WorkKeepsTheInvariant

LEMMA BatchReturnsKeeps == ASSUME DisplayInv, BatchReturns PROVE DisplayInv'
<1> DEFINE t == [tx EXCEPT !.pending = 0]
<1>1. /\ t \in Transactions /\ t.data = tx.data /\ t.touched = tx.touched /\ t.pending = 0
      /\ entry \in Entries /\ Commit(Returned(t, entry))
  BY DEF BatchReturns, DisplayInv, Typed, Transactions
<1> HIDE DEF t
<1>2. /\ tx' \in Transactions /\ entry' \in Entries /\ entry'.awaiting = entry.awaiting
      /\ tx'.data = tx.data /\ tx'.touched = tx.touched /\ tx'.pending = 0
      /\ writes \/ (tx'.done /\ entry'.queued)
  BY <1>1, Completes DEF Commit, Returned
<1>3. /\ UNCHANGED <<revisionVars, writes, routeVars, stranded, fanout, islandVars>>
      /\ batch' = FALSE /\ fanout = {}
  BY DEF BatchReturns, Quiet
<1>4. Coming' = Coming /\ \A i \in Islands : HearsOf(i)' = HearsOf(i)
  BY <1>3 DEF Coming, HearsOf, routeVars, islandVars
<1>5. active # 0 /\ tx'.touched /\ ~Coming' => \A i \in Islands : HearsOf(i)'
  BY <1>2, <1>4 DEF DisplayInv, Heard
<1>6. /\ {writes', batch', retry', stranded'} \subseteq BOOLEAN
      /\ route' \in {"idle", "flight", "refused"} /\ saves' \in 0..MaxSaves
      /\ fanout' = {} /\ (tx'.touched => tx'.data # 0)
  BY <1>2, <1>3 DEF DisplayInv, Typed, Begun, routeVars
<1>7. ~WorkLeft' => tx'.done /\ entry'.queued
  BY <1>2, <1>3 DEF WorkLeft
<1>8. Worked
  BY <1>2, <1>3, <1>5, <1>6, <1>7 DEF Worked, Ended
<1> QED BY <1>8, WorkKeepsTheInvariant

LEMMA RouteReturnsKeeps == ASSUME DisplayInv, RouteReturns PROVE DisplayInv'
<1>1. /\ fanout = {} /\ active # 0 /\ tx \in Transactions /\ entry \in Entries
      /\ UNCHANGED <<revisionVars, saves, stranded, islandVars>>
  BY DEF RouteReturns, DisplayInv, Typed
<1> PICK falls \in BOOLEAN :
      \/ tx.data # 0 /\ Schedule(tx, ShortIf(entry, falls), "idle")
      \/ /\ tx.data = 0
         /\ Commit(Uncompleted(tx, ShortIf(entry, falls)))
         /\ route' = "idle"
         /\ UNCHANGED <<writes, batch, fanout, retry>>
  BY DEF RouteReturns
<1>2. ShortIf(entry, falls) \in Entries /\ ShortIf(entry, falls).awaiting = entry.awaiting
  BY <1>1, Shortened
<1>3. CASE tx.data # 0 /\ Schedule(tx, ShortIf(entry, falls), "idle")
  BY <1>1, <1>2, <1>3, SchedulingKeepsTheInvariant
<1>4. CASE /\ tx.data = 0
           /\ Commit(Uncompleted(tx, ShortIf(entry, falls)))
           /\ route' = "idle"
           /\ UNCHANGED <<writes, batch, fanout, retry>>
  <2>1. tx' = tx /\ entry' = ShortIf(entry, falls)
    BY <1>4 DEF Commit, Uncompleted
  <2>2. Worked
    BY <1>1, <1>2, <1>4, <2>1 DEF Worked, DisplayInv, Typed, Begun, Ended, WorkLeft
  <2> QED BY <2>2, WorkKeepsTheInvariant
<1> QED BY <1>3, <1>4

LEMMA RetryFiresKeeps == ASSUME DisplayInv, RetryFires PROVE DisplayInv'
<1>1. Worked
  BY DEF RetryFires, Quiet, Worked, DisplayInv, Typed, Begun, Ended, WorkLeft, Coming,
         revisionVars, islandVars
<1> QED BY <1>1, WorkKeepsTheInvariant

LEMMA SaveKeeps == ASSUME DisplayInv, Save PROVE DisplayInv'
<1>1. route' \in {"flight", "refused"} /\ retry' \in BOOLEAN
  BY DEF Save, StartRoute, DisplayInv, Typed
<1>2. saves' \in 0..MaxSaves
  BY DisplayAssumption DEF Save, DisplayInv, Typed
<1>3. Worked
  BY <1>1, <1>2 DEF Save, Quiet, Worked, DisplayInv, Typed, Begun, Ended, WorkLeft, Coming,
                    revisionVars, islandVars
<1> QED BY <1>3, WorkKeepsTheInvariant

---------------------------------------------------------------------------
(* The revision, its reports and its islands *)

LEMMA NothingYet == NoTx \in Transactions /\ NoEntry \in Entries
BY DEF NoTx, NoEntry, Transactions, Entries

LEMMA InitHolds == ASSUME DisplayInit PROVE DisplayInv
<1>1. Typed
  <2>1. accepted \in 0..MaxRevisions /\ saves \in 0..MaxSaves
    BY DisplayAssumption DEF DisplayInit
  <2>2. delivered \in [Islands -> SUBSET {1, 2}] /\ live \subseteq Islands \X Revisions
    BY DEF DisplayInit
  <2> QED BY <2>1, <2>2, DisplayAssumption, NothingYet DEF DisplayInit, Typed
<1>2. Begun /\ Ended /\ ReportIsTrue /\ Heard /\ HandedOut /\ AwaitingIsOwed
  BY DEF DisplayInit, Begun, Ended, ReportIsTrue, Heard, HandedOut, AwaitingIsOwed, Owing,
         WorkLeft, NoTx, NoEntry
<1> QED BY <1>1, <1>2 DEF DisplayInv

LEMMA NothingOwedToANewRevision ==
  ASSUME DisplayInv, active' # 0 => active' = accepted + 1, live' = live
  PROVE  Owing(active)' = {}
BY DEF DisplayInv, Typed, HandedOut, Owing, Revisions

LEMMA AcceptKeeps == ASSUME DisplayInv, Accept PROVE DisplayInv'
<1>1. /\ accepted' = accepted + 1 /\ active' = accepted'
      /\ tx' = NoTx /\ entry' = NoEntry /\ fanout' = {} /\ live' = live
  BY DEF Accept, Quiet
<1>2. Typed'
  <2>1. accepted' \in 0..MaxRevisions
    BY <1>1, DisplayAssumption DEF Accept, DisplayInv, Typed
  <2>2. delivered' \in [Islands -> SUBSET {1, 2}]
    BY DEF Accept
  <2> QED BY <1>1, <2>1, <2>2, NothingYet DEF Accept, DisplayInv, Typed
<1>3. Begun' /\ Ended' /\ ReportIsTrue' /\ Heard'
  BY <1>1 DEF Begun, Ended, ReportIsTrue, Heard, WorkLeft, NoTx, NoEntry
<1>4. Owing(active)' = {}
  BY <1>1, NothingOwedToANewRevision
<1>5. HandedOut'
  BY <1>1, <1>4, DisplayAssumption DEF HandedOut, DisplayInv, Typed, Revisions
<1>6. AwaitingIsOwed'
  <2>1. entry'.awaiting = 0
    BY <1>1 DEF NoEntry
  <2> QED BY <1>4, <2>1, FS_EmptySet DEF AwaitingIsOwed, Owing
<1> QED BY <1>2, <1>3, <1>5, <1>6 DEF DisplayInv

LEMMA EndKeeps == ASSUME DisplayInv, End PROVE DisplayInv'
<1>1. /\ accepted' = accepted /\ active' = 0
      /\ tx' = NoTx /\ entry' = NoEntry /\ fanout' = {} /\ live' = live
  BY DEF End
<1>2. Typed'
  BY <1>1, NothingYet DEF End, DisplayInv, Typed
<1>3. Begun' /\ Ended' /\ ReportIsTrue' /\ Heard' /\ AwaitingIsOwed'
  BY <1>1 DEF Begun, Ended, ReportIsTrue, Heard, AwaitingIsOwed, WorkLeft, NoTx, NoEntry
<1>4. Owing(active)' = {}
  BY <1>1, NothingOwedToANewRevision
<1>5. HandedOut'
  BY <1>1, <1>4 DEF HandedOut, DisplayInv
<1> QED BY <1>2, <1>3, <1>5 DEF DisplayInv

LEMMA SettleLaterKeeps == ASSUME DisplayInv, SettleLater PROVE DisplayInv'
<1>1. /\ UNCHANGED <<accepted, active, tx, writes, batch, routeVars, stranded, fanout, islandVars>>
      /\ Settle /\ said \in Settled \cup {"none"}
  BY DEF SettleLater, DisplayInv, Typed
<1>2. entry' \in Entries /\ entry'.awaiting = entry.awaiting
  BY DEF SettleLater, DisplayInv, Typed, Entries
<1>3. Begun' /\ Ended' /\ Heard' /\ HandedOut' /\ AwaitingIsOwed'
  BY <1>1, <1>2 DEF DisplayInv, Begun, Ended, Heard, HandedOut, AwaitingIsOwed, Owing, HearsOf,
                    WorkLeft, Coming, routeVars, islandVars
<1>4. tx' \in Transactions
  BY <1>1 DEF DisplayInv, Typed
<1>5. said' \in Settled \cup {"none"} /\ ReportIsTrue'
  BY <1>1, <1>2, <1>3, <1>4, SettleReports
<1>6. Typed'
  BY <1>1, <1>2, <1>5 DEF DisplayInv, Typed, routeVars, islandVars
<1> QED BY <1>3, <1>5, <1>6 DEF DisplayInv

\* What is owed is counted, and a confirmation more or less changes the count by one.
LEMMA CountOfOwed ==
  ASSUME NEW S \in SUBSET Islands, NEW i \in Islands
  PROVE  /\ IsFiniteSet(S) /\ Cardinality(S) \in Nat /\ Cardinality(S) <= Cardinality(Islands)
         /\ i \notin S => Cardinality(S \cup {i}) = Cardinality(S) + 1
         /\ i \in S => Cardinality(S \ {i}) = Cardinality(S) - 1 /\ Cardinality(S) >= 1
<1>1. IsFiniteSet(S) /\ Cardinality(S) <= Cardinality(Islands)
  BY DisplayAssumption, FS_Subset
<1>2. Cardinality(S) \in Nat
  BY <1>1, FS_CardinalityType
<1>3. i \notin S => Cardinality(S \cup {i}) = Cardinality(S) + 1
  BY <1>1, FS_AddElement
<1>4. i \in S => Cardinality(S \ {i}) = Cardinality(S) - 1
  BY <1>1, FS_RemoveElement
<1>5. i \in S => Cardinality(S \ {i}) \in Nat
  BY <1>1, FS_RemoveElement, FS_CardinalityType
<1> QED BY <1>1, <1>2, <1>3, <1>4, <1>5

LEMMA TellKeeps == ASSUME DisplayInv, NEW i \in Islands, Tell(i) PROVE DisplayInv'
<1> DEFINE told == i \notin hydrating /\ tx.data \notin delivered[i]
<1>1. /\ i \in fanout /\ fanout' = fanout \ {i} /\ handed' = handed \cup {i}
      /\ waits' = IF i \in hydrating THEN waits \cup {i} ELSE waits \ {i}
      /\ UNCHANGED <<accepted, active, tx, writes, batch, routeVars, stranded, hydrating>>
      /\ delivered' = IF told THEN [delivered EXCEPT ![i] = @ \cup {tx.data}] ELSE delivered
  BY DEF Tell
<1>2. \/ /\ entry' = Handed(entry, i)
         /\ live' = IF i \in handed THEN live ELSE live \cup {<<i, active>>}
         /\ UNCHANGED said
      \/ /\ Holds(i)
         /\ entry' = Confirmed(Handed(entry, i), active)
         /\ live' = live \ {<<i, active>>}
         /\ Settle
  BY DEF Tell
<1>3. /\ tx \in Transactions /\ tx.data \in {1, 2} /\ entry \in Entries
      /\ active \in Revisions /\ active = accepted
      /\ said \in Settled \cup {"none"}
  BY DisplayAssumption, <1>1 DEF DisplayInv, Typed, Begun, Transactions, Revisions
<1>4. /\ Owing(active) \in SUBSET Islands /\ entry.awaiting = Cardinality(Owing(active))
      /\ i \in Owing(active) <=> <<i, active>> \in live
      /\ i \notin handed => i \notin Owing(active)
  BY <1>3 DEF DisplayInv, AwaitingIsOwed, HandedOut, Owing, Revisions
<1>5. /\ Handed(entry, i) \in Entries
      /\ Handed(entry, i).awaiting = entry.awaiting + (IF i \in handed THEN 0 ELSE 1)
      /\ Handed(entry, i).short = entry.short /\ Handed(entry, i).queued = entry.queued
  BY <1>3 DEF Handed, Entries
<1>6. /\ entry' \in Entries /\ entry'.short = entry.short /\ entry'.queued = entry.queued
      /\ entry'.awaiting = Cardinality(Owing(active)')
      /\ live' \subseteq live \cup {<<i, active>>}
  <2>1. CASE /\ entry' = Handed(entry, i)
             /\ live' = IF i \in handed THEN live ELSE live \cup {<<i, active>>}
    <3>1. CASE i \in handed
      <4>1. Owing(active)' = Owing(active)
        BY <1>1, <2>1, <3>1 DEF Owing
      <4> QED BY <1>3, <1>4, <1>5, <2>1, <3>1, <4>1 DEF Entries
    <3>2. CASE i \notin handed
      <4>1. Owing(active)' = Owing(active) \cup {i}
        BY <1>1, <2>1, <3>2 DEF Owing
      <4>2. Cardinality(Owing(active) \cup {i}) = Cardinality(Owing(active)) + 1
        BY <1>4, <3>2, CountOfOwed
      <4> QED BY <1>4, <1>5, <2>1, <3>2, <4>1, <4>2
    <3> QED BY <3>1, <3>2
  <2>2. CASE /\ Holds(i)
             /\ entry' = Confirmed(Handed(entry, i), active)
             /\ live' = live \ {<<i, active>>}
    <3> DEFINE e == Handed(entry, i)
    <3>1. entry' = [e EXCEPT !.awaiting = @ - 1]
      BY <2>2 DEF Confirmed
    <3>2. e \in Entries
      BY <1>5
    <3>3. e.awaiting >= 1 /\ e.awaiting - 1 = Cardinality(Owing(active) \ {i})
      <4>1. CASE i \in handed
        <5>1. i \in Owing(active)
          BY <1>4, <2>2, <4>1 DEF Holds
        <5>2. /\ Cardinality(Owing(active) \ {i}) = Cardinality(Owing(active)) - 1
              /\ Cardinality(Owing(active)) >= 1
          BY <1>4, <5>1, CountOfOwed
        <5>3. e.awaiting = Cardinality(Owing(active))
          BY <1>3, <1>4, <1>5, <4>1 DEF Entries
        <5> QED BY <5>2, <5>3
      <4>2. CASE i \notin handed
        <5>1. Owing(active) \ {i} = Owing(active)
          BY <1>4, <4>2
        <5>2. e.awaiting = Cardinality(Owing(active)) + 1 /\ Cardinality(Owing(active)) \in Nat
          BY <1>4, <1>5, <4>2, CountOfOwed
        <5> QED BY <5>1, <5>2
      <4> QED BY <4>1, <4>2
    <3>4. e.short = entry.short /\ e.queued = entry.queued
      BY <1>5
    <3>5. Owing(active)' = Owing(active) \ {i}
      BY <1>1, <2>2 DEF Owing
    <3> HIDE DEF e
    <3>6. /\ entry' \in Entries /\ entry'.awaiting = e.awaiting - 1
          /\ entry'.short = e.short /\ entry'.queued = e.queued
      BY <3>1, <3>2, <3>3 DEF Entries
    <3> QED BY <2>2, <3>3, <3>4, <3>5, <3>6
  <2> QED BY <1>2, <2>1, <2>2
<1>7. WorkLeft' = WorkLeft /\ Coming' = Coming
  BY <1>1 DEF WorkLeft, Coming, routeVars
<1>8. Begun' /\ Ended'
  BY <1>1, <1>3, <1>7 DEF DisplayInv, Begun, Ended, Revisions
<1>9. said' \in Settled \cup {"none"} /\ ReportIsTrue'
  <2>1. CASE UNCHANGED said
    BY <1>1, <1>3, <1>6, <1>7, <2>1 DEF DisplayInv, ReportIsTrue
  <2>2. CASE Settle
    BY <1>1, <1>3, <1>6, <1>8, <2>2, SettleReports
  <2> QED BY <1>2, <2>1, <2>2
<1>10. /\ delivered' \in [Islands -> SUBSET {1, 2}]
       /\ \A j \in Islands : j # i => delivered'[j] = delivered[j]
       /\ i \notin hydrating => delivered'[i] # {}
  BY <1>1, <1>3 DEF DisplayInv, Typed
<1>11. Typed'
  <2>1. live' \subseteq Islands \X Revisions
    BY <1>3, <1>6 DEF DisplayInv, Typed
  <2> QED BY <1>1, <1>6, <1>9, <1>10, <2>1 DEF DisplayInv, Typed, routeVars
<1>12. HandedOut'
  BY <1>1, <1>3, <1>6 DEF DisplayInv, HandedOut, Owing, Revisions
<1>13. AwaitingIsOwed'
  BY <1>6 DEF AwaitingIsOwed, Owing
<1>14. Heard'
  <2> SUFFICES ASSUME active # 0, tx.touched, ~Coming, NEW j \in Islands
               PROVE  HearsOf(j)'
    BY <1>1, <1>7 DEF Heard
  <2>1. HearsOf(j)
    BY DEF DisplayInv, Heard
  <2>2. CASE j = i
    BY <1>1, <1>10, <2>2 DEF HearsOf
  <2>3. CASE j # i
    BY <1>1, <1>10, <2>1, <2>3 DEF HearsOf
  <2> QED BY <2>2, <2>3
<1> QED BY <1>8, <1>9, <1>11, <1>12, <1>13, <1>14 DEF DisplayInv

LEMMA DisplayedKeeps ==
  ASSUME DisplayInv, NEW i \in Islands, NEW r \in Revisions, Displayed(i, r)
  PROVE  DisplayInv'
<1>1. /\ <<i, r>> \in live /\ live' = live \ {<<i, r>>} /\ entry' = Confirmed(entry, r)
      /\ UNCHANGED <<accepted, active, tx, writes, batch, routeVars, stranded, fanout,
                     hydrating, waits, handed, delivered>>
      /\ IF r = active THEN Settle ELSE UNCHANGED said
      /\ tx \in Transactions /\ entry \in Entries /\ said \in Settled \cup {"none"}
  BY DEF Displayed, DisplayInv, Typed
<1>2. /\ entry' \in Entries /\ entry'.short = entry.short /\ entry'.queued = entry.queued
      /\ active # 0 => entry'.awaiting = Cardinality(Owing(active)')
      /\ active = 0 => entry'.awaiting = entry.awaiting
  <2>1. CASE r = active
    <3>1. active # 0 /\ i \in Owing(active) /\ Owing(active) \in SUBSET Islands
      BY <1>1, <2>1, DisplayAssumption DEF Owing, Revisions
    <3>2. entry.awaiting = Cardinality(Owing(active))
      BY <3>1 DEF DisplayInv, AwaitingIsOwed, Owing
    <3>3. /\ Cardinality(Owing(active) \ {i}) = entry.awaiting - 1
          /\ entry.awaiting >= 1
      BY <3>1, <3>2, CountOfOwed
    <3>4. Owing(active)' = Owing(active) \ {i}
      BY <1>1, <2>1 DEF Owing
    <3>5. entry' = [entry EXCEPT !.awaiting = @ - 1]
      BY <1>1, <2>1 DEF Confirmed
    <3>6. /\ entry' \in Entries /\ entry'.awaiting = entry.awaiting - 1
          /\ entry'.short = entry.short /\ entry'.queued = entry.queued
      BY <1>1, <3>3, <3>5 DEF Entries
    <3> QED BY <3>1, <3>3, <3>4, <3>6
  <2>2. CASE r # active
    <3>1. Owing(active)' = Owing(active)
      BY <1>1, <2>2 DEF Owing
    <3>2. entry' = entry
      BY <1>1, <2>2 DEF Confirmed
    <3> QED BY <1>1, <3>1, <3>2 DEF DisplayInv, AwaitingIsOwed, Owing
  <2> QED BY <2>1, <2>2
<1>3. WorkLeft' = WorkLeft /\ Coming' = Coming /\ \A j \in Islands : HearsOf(j)' = HearsOf(j)
  BY <1>1 DEF WorkLeft, Coming, HearsOf, routeVars
<1>4. Begun' /\ Ended' /\ Heard'
  BY <1>1, <1>2, <1>3 DEF DisplayInv, Begun, Ended, Heard
<1>5. said' \in Settled \cup {"none"} /\ ReportIsTrue'
  <2>1. CASE UNCHANGED said
    BY <1>1, <1>2, <1>3, <2>1 DEF DisplayInv, ReportIsTrue
  <2>2. CASE Settle
    BY <1>1, <1>2, <1>4, <2>2, SettleReports
  <2> QED BY <1>1, <2>1, <2>2
<1>6. Typed'
  BY <1>1, <1>2, <1>5 DEF DisplayInv, Typed, routeVars
<1>7. HandedOut'
  BY <1>1 DEF DisplayInv, HandedOut, Owing
<1>8. AwaitingIsOwed'
  BY <1>1, <1>2 DEF AwaitingIsOwed, Owing
<1> QED BY <1>4, <1>5, <1>6, <1>7, <1>8 DEF DisplayInv

LEMMA HydratesKeeps == ASSUME DisplayInv, NEW i \in Islands, Hydrates(i) PROVE DisplayInv'
<1>1. /\ fanout = {} /\ i \in hydrating /\ hydrating' = hydrating \ {i} /\ waits' = waits \ {i}
      /\ fanout' = IF i \in waits /\ active # 0 /\ tx.data # 0 THEN {i} ELSE {}
      /\ UNCHANGED <<revisionVars, tx, entry, writes, batch, routeVars, stranded,
                     handed, delivered, live>>
  BY DEF Hydrates, Quiet
<1>2. WorkLeft' = WorkLeft /\ Coming' = Coming
  BY <1>1 DEF WorkLeft, Coming, routeVars
<1>3. Begun' /\ Ended' /\ ReportIsTrue' /\ HandedOut' /\ AwaitingIsOwed'
  BY <1>1, <1>2 DEF DisplayInv, Begun, Ended, ReportIsTrue, HandedOut, AwaitingIsOwed, Owing,
                    revisionVars
<1>4. Typed'
  BY <1>1 DEF DisplayInv, Typed, revisionVars, routeVars
<1>5. Heard'
  <2> SUFFICES ASSUME active # 0, tx.touched, ~Coming, NEW j \in Islands
               PROVE  HearsOf(j)'
    BY <1>1, <1>2 DEF Heard, revisionVars
  <2>1. HearsOf(j) /\ tx.data # 0
    BY DEF DisplayInv, Heard, Begun
  <2>2. CASE j = i
    BY <1>1, <2>1, <2>2 DEF HearsOf
  <2>3. CASE j # i
    BY <1>1, <2>1, <2>3 DEF HearsOf
  <2> QED BY <2>2, <2>3
<1> QED BY <1>3, <1>4, <1>5 DEF DisplayInv

---------------------------------------------------------------------------
(* The theorems *)

LEMMA StepKeeps == ASSUME DisplayInv, [DisplayNext]_displayVars PROVE DisplayInv'
<1>1. CASE UNCHANGED displayVars
  BY <1>1 DEF displayVars, revisionVars, routeVars, islandVars, DisplayInv, Typed, Begun,
              HandedOut, AwaitingIsOwed, Owing, Ended, ReportIsTrue, Heard, HearsOf, Coming, WorkLeft
<1>2. CASE DisplayNext
  BY <1>2, AcceptKeeps, EndKeeps, ProcessKeeps, RefineKeeps, CancelKeeps, FlushKeeps, ForgetKeeps,
     BoundarySettlesKeeps, BatchReturnsKeeps, RouteReturnsKeeps, RetryFiresKeeps, SaveKeeps,
     SettleLaterKeeps, TellKeeps, DisplayedKeeps, HydratesKeeps DEF DisplayNext
<1> QED BY <1>1, <1>2

(* The inductive invariant: what is left to do for the revision, its report, the
   islands that are still to hear of it and those that owe it a confirmation. *)
THEOREM DisplayInvHolds == DisplaySpec => []DisplayInv
<1>1. DisplayInit => DisplayInv
  BY InitHolds
<1>2. DisplayInv /\ [DisplayNext]_displayVars => DisplayInv'
  BY StepKeeps
<1> QED BY <1>1, <1>2, PTL DEF DisplaySpec

(* However the flush, the batch, the refresh and its trailing run end in turn, the
   last of them completes the revision, which is then reported as what it is; for
   any number of islands, revisions and saves. *)
THEOREM EndsAreReported == DisplaySpec => []DoneIsReported
<1>1. ASSUME DisplayInv
      PROVE  DoneIsReported
  <2>1. DisplayTypeOK
    <3>1. entry.awaiting \in 0..Cardinality(Islands)
      <4>1. Owing(active) \in SUBSET Islands
        BY DEF Owing
      <4>2. CASE active # 0
        <5>1. entry.awaiting = Cardinality(Owing(active))
          BY <1>1, <4>2 DEF DisplayInv, AwaitingIsOwed, Owing
        <5>2. /\ Cardinality(Owing(active)) \in Nat
              /\ Cardinality(Owing(active)) <= Cardinality(Islands)
              /\ Cardinality(Islands) \in Nat
          BY <4>1, DisplayAssumption, FS_Subset, FS_CardinalityType
        <5> QED BY <5>1, <5>2
      <4>3. CASE active = 0
        <5>1. entry.awaiting = 0 /\ Cardinality(Islands) \in Nat
          BY <1>1, <4>3, DisplayAssumption, FS_CardinalityType DEF DisplayInv, Begun
        <5> QED BY <5>1
      <4> QED BY <4>2, <4>3
    <3>2. entry \in [short : BOOLEAN, awaiting : 0..Cardinality(Islands), queued : BOOLEAN]
      BY <1>1, <3>1 DEF DisplayInv, Typed, Entries
    <3> QED BY <1>1, <3>2 DEF DisplayInv, Typed, DisplayTypeOK, Transactions
  <2>2. ASSUME active # 0, ~WorkLeft, ~stranded
        PROVE  /\ View # "pending"
               /\ ~entry.queued => said \in Settled /\ (View = "partial" => said = "partial")
    <3>1. ~Outstanding
      BY <1>1, <2>2 DEF DisplayInv, Typed, Begun, Ended, WorkLeft, Outstanding, Transactions
    <3>2. entry.short \in BOOLEAN
      BY <1>1 DEF DisplayInv, Typed, Entries
    <3>3. View # "pending" /\ (View = "partial" => entry.short)
      <4>1. CASE entry.short
        BY <3>1, <4>1 DEF View
      <4>2. CASE ~entry.short /\ entry.awaiting > 0
        BY <3>1, <4>2 DEF View
      <4>3. CASE ~entry.short /\ ~(entry.awaiting > 0)
        BY <3>1, <4>3 DEF View
      <4> QED BY <3>2, <4>1, <4>2, <4>3
    <3> QED BY <1>1, <2>2, <3>3 DEF DisplayInv, ReportIsTrue
  <2> QED BY <2>1, <2>2 DEF DoneIsReported
<1> QED BY <1>1, DisplayInvHolds, PTL

(* Every island that is hydrated has heard of the change when the work is done, and
   exactly the confirmations that were handed out and not called are waited for. *)
THEOREM IslandsStayServed == DisplaySpec => []IslandsAreServed
<1>1. ASSUME DisplayInv
      PROVE  IslandsAreServed
  <2>1. ASSUME active # 0, tx.touched, ~stranded, fanout = {}, ~WorkLeft, NEW i \in Islands \ hydrating
        PROVE  delivered[i] # {}
    <3>1. ~Coming
      BY <2>1 DEF Coming, WorkLeft
    <3>2. HearsOf(i)
      BY <1>1, <2>1, <3>1 DEF DisplayInv, Heard
    <3> QED BY <2>1, <3>2 DEF HearsOf
  <2> QED BY <1>1, <2>1 DEF DisplayInv, IslandsAreServed, IslandsHear
<1> QED BY <1>1, DisplayInvHolds, PTL
=============================================================================
