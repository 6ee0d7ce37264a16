-------------------------- MODULE Lifecycles_proofs --------------------------
(* Proofs about RuntimeSession, for every number of bootstraps, whichever of them
   declare a hydration, every heartbeat and every schedule of ready messages; and
   about PluginManager, for all plugins, registrations, calls and emissions. *)
EXTENDS RuntimeSession, PluginManager, FiniteSetTheorems, WellFoundedInduction, TLAPS

---------------------------------------------------------------------------
(* RuntimeSession *)

(* StoppedIsQuiet and OneWayToStart of one runtime, on a page that is parsed or not
   and taken over or not. One that was started again is no longer suspended, and
   one that waits for a hydration has seen the page parsed: its cap starts it. *)
Quiet(r) ==
  /\ ~r.attached /\ ~r.listens /\ ~r.waiter /\ ~r.cap
  /\ r.ready = 0 /\ r.beat = Unset

OneWay(i, r, p, c) ==
  /\ r.attached <=> (r.waits = "no")
  /\ r.listens <=> (r.waits = "parse")
  /\ r.waiter <=> (r.waits = "hydration")
  /\ r.cap <=> r.waiter
  /\ r.waits # "parse" => p
  /\ r.attached => (i \in Hydrates => r.hydration = "timed-out" \/ c)

Orderly(i, r, p, c) ==
  /\ ~r.started => Quiet(r)
  /\ r.started => ~r.suspended /\ OneWay(i, r, p, c)

(* Why TrustIsNotRenewed survives a pause: what is retained has a last message, and
   a runtime that does not listen knows that it has to recover the timer. *)
Trusted(r) ==
  /\ r.retained => r.silence # Unset
  /\ r.retained /\ ~r.attached => r.recovers \/ (~r.started /\ r.suspended)
  /\ r.retained /\ r.attached => r.beat # Unset /\ r.beat + r.silence = Timeout

Fine(i, r, p, c) ==
  /\ r \in Runtime
  /\ Orderly(i, r, p, c)
  /\ ~ReadyMayThrow => Trusted(r)

(* The inductive invariant. *)
IInv ==
  /\ TypeOK
  /\ \A i \in Instances : Fine(i, rt[i], parsed, committed)
  /\ RunningIsPublished

---------------------------------------------------------------------------
(* One runtime, one operation *)

(* What release leaves is a stopped runtime, whatever it was doing. *)
LEMMA ReleasedIsFine ==
  ASSUME NEW i \in Instances, NEW r \in Runtime, NEW p, NEW c
  PROVE  /\ Released(r) \in Runtime
         /\ ~Released(r).started /\ Quiet(Released(r)) /\ Orderly(i, Released(r), p, c)
         /\ Released(r).bound = r.bound /\ Released(r).suspended = r.suspended
         /\ Released(r).retained = r.retained /\ Released(r).recovers = r.recovers
         /\ Released(r).silence = r.silence
<1>1. 0 \in 0..ReadyRetries /\ Unset \in Unset..Timeout
  BY SessionAssumption DEF Unset
<1>2. Released(r) \in Runtime
  BY <1>1, Zenon DEF Released, Runtime
<1> QED BY <1>2 DEF Released, Runtime, Quiet, Orderly

LEMMA SuspendedIsFine ==
  ASSUME NEW i \in Instances, NEW p, NEW c, NEW r, Fine(i, r, p, c)
  PROVE  /\ Fine(i, Suspended(r), p, c)
         /\ Suspended(r).bound = r.bound
         /\ Suspended(r).started \/ Suspended(r).suspended => r.started \/ r.suspended
<1>1. r \in Runtime
  BY DEF Fine
<1>2. CASE ~r.started
  BY <1>2 DEF Suspended
<1>3. CASE r.started
  <2> DEFINE q == Released(r)
  <2>1. /\ q \in Runtime /\ ~q.started /\ Quiet(q)
        /\ q.bound = r.bound /\ q.retained = r.retained /\ q.silence = r.silence
    BY <1>1, ReleasedIsFine
  <2>2. Suspended(r) = [q EXCEPT !.suspended = TRUE]
    BY <1>3 DEF Suspended
  <2> HIDE DEF q
  <2>3. /\ Suspended(r) \in Runtime /\ Orderly(i, Suspended(r), p, c)
        /\ Suspended(r).bound = r.bound
    BY <2>1, <2>2 DEF Runtime, Orderly, Quiet
  <2>4. ~ReadyMayThrow => Trusted(Suspended(r))
    BY <2>1, <2>2 DEF Runtime, Trusted, Fine, Quiet
  <2> QED BY <1>3, <2>3, <2>4 DEF Fine
<1> QED BY <1>2, <1>3

LEMMA DestroyedIsFine ==
  ASSUME NEW i \in Instances, NEW p, NEW c, NEW r, Fine(i, r, p, c)
  PROVE  /\ Fine(i, Destroyed(r), p, c)
         /\ Destroyed(r).bound = r.bound
         /\ ~Destroyed(r).started /\ ~Destroyed(r).suspended
<1>1. r \in Runtime
  BY DEF Fine
<1>2. CASE ~r.started /\ ~r.suspended
  BY <1>2 DEF Destroyed
<1>3. CASE r.started \/ r.suspended
  <2> DEFINE q == Released(r)
  <2>1. q \in Runtime /\ ~q.started /\ Quiet(q) /\ q.bound = r.bound
    BY <1>1, ReleasedIsFine
  <2>2. Destroyed(r) = [q EXCEPT !.suspended = FALSE, !.recovers = FALSE, !.retained = FALSE]
    BY <1>3 DEF Destroyed
  <2> HIDE DEF q
  <2>3. Destroyed(r) \in Runtime
    BY <2>1, <2>2 DEF Runtime
  <2>4. /\ ~Destroyed(r).started /\ ~Destroyed(r).suspended /\ ~Destroyed(r).retained
        /\ Quiet(Destroyed(r)) /\ Destroyed(r).bound = r.bound
    BY <2>1, <2>2 DEF Runtime, Quiet
  <2> QED BY <2>3, <2>4 DEF Fine, Orderly, Trusted, Quiet
<1> QED BY <1>1, <1>2, <1>3 DEF Runtime

(* The same for a runtime that just begins to listen: nothing but its type is
   needed to destroy it. *)
LEMMA DestroyedWhileStarting ==
  ASSUME NEW i \in Instances, NEW p, NEW c,
         NEW r \in Runtime, r.started
  PROVE  /\ Fine(i, Destroyed(r), p, c)
         /\ Destroyed(r).bound = r.bound
         /\ ~Destroyed(r).started /\ ~Destroyed(r).suspended
<1> DEFINE q == Released(r)
<1>1. q \in Runtime /\ ~q.started /\ Quiet(q) /\ q.bound = r.bound
  BY ReleasedIsFine
<1>2. Destroyed(r) = [q EXCEPT !.suspended = FALSE, !.recovers = FALSE, !.retained = FALSE]
  BY DEF Destroyed
<1> HIDE DEF q
<1>3. Destroyed(r) \in Runtime
  <2> DEFINE thawed == [q EXCEPT !.suspended = FALSE]
             twice == [thawed EXCEPT !.recovers = FALSE]
  <2>1. thawed \in Runtime
    BY <1>1 DEF Runtime
  <2>2. Destroyed(r) = [twice EXCEPT !.retained = FALSE]
    BY <1>2
  <2> HIDE DEF thawed
  <2>3. twice \in Runtime
    BY <2>1 DEF Runtime
  <2> HIDE DEF twice
  <2>4. [twice EXCEPT !.retained = FALSE] \in Runtime
    BY <2>3 DEF Runtime
  <2> QED BY <2>2, <2>4
<1>4. /\ ~Destroyed(r).started /\ ~Destroyed(r).suspended /\ ~Destroyed(r).retained
      /\ Quiet(Destroyed(r)) /\ Destroyed(r).bound = r.bound
  BY <1>1, <1>2 DEF Runtime, Quiet
<1> QED BY <1>3, <1>4 DEF Fine, Orderly, Trusted, Quiet

(* What does not matter to the way a start takes: whether there is a document. *)
SameWay(r, q) ==
  /\ q.started = r.started /\ q.suspended = r.suspended /\ q.bound = r.bound
  /\ q.waits = r.waits /\ q.listens = r.listens /\ q.waiter = r.waiter /\ q.cap = r.cap
  /\ q.attached = r.attached /\ q.hydration = r.hydration

(* A timer that was paused goes on with what was left, or the trust has ended. *)
LEMMA HeartbeatResumedIs ==
  ASSUME NEW r \in Runtime
  PROVE  /\ HeartbeatResumed(r) \in Runtime
         /\ SameWay(r, HeartbeatResumed(r))
         /\ (r.retained => r.silence # Unset) /\ HeartbeatResumed(r).retained =>
              /\ HeartbeatResumed(r).silence # Unset /\ HeartbeatResumed(r).beat # Unset
              /\ HeartbeatResumed(r).beat + HeartbeatResumed(r).silence = Timeout
<1> DEFINE q == HeartbeatResumed(r)
<1>1. /\ Timeout \in Nat \ {0} /\ Unset \in Unset..Timeout /\ Unset \in Int /\ Unset # Timeout
      /\ r.silence \in Unset..Timeout /\ r.beat \in Unset..Timeout
  BY SessionAssumption DEF Unset, Runtime
<1>2. CASE r.silence = Unset
  <2>1. q = r
    BY <1>1, <1>2 DEF HeartbeatResumed
  <2> QED BY <1>2, <2>1 DEF SameWay
<1>3. CASE r.silence = Timeout /\ r.silence # Unset
  <2>1. q = [r EXCEPT !.silence = Unset, !.beat = Unset, !.retained = FALSE, !.connected = FALSE]
    BY <1>1, <1>3 DEF HeartbeatResumed, Expired
  <2> HIDE DEF q
  <2>2. q \in Runtime
    BY <1>1, <2>1 DEF Runtime
  <2>3. SameWay(r, q) /\ ~q.retained
    BY <2>1 DEF SameWay, Runtime
  <2> QED BY <2>2, <2>3 DEF q
<1>4. CASE r.silence # Timeout /\ r.silence # Unset
  <2>1. q = [r EXCEPT !.beat = Timeout - r.silence]
    BY <1>1, <1>4 DEF HeartbeatResumed
  <2>2. /\ Timeout - r.silence \in Unset..Timeout /\ Timeout - r.silence # Unset
        /\ Timeout - r.silence + r.silence = Timeout
    BY <1>1, <1>4 DEF Unset
  <2> HIDE DEF q
  <2>3. q \in Runtime
    BY <2>1, <2>2 DEF Runtime
  <2>4. SameWay(r, q) /\ q.beat = Timeout - r.silence /\ q.silence = r.silence
    BY <2>1 DEF SameWay, Runtime
  <2> QED BY <1>4, <2>2, <2>3, <2>4 DEF q
<1> QED BY <1>2, <1>3, <1>4

(* A start that gets as far as startNow, on a page that is ready for it. *)
ReadyToStart(i, r, p, c) ==
  /\ r \in Runtime
  /\ r.started /\ ~r.suspended /\ ~r.attached
  /\ r.waits = "no" /\ ~r.listens /\ ~r.waiter /\ ~r.cap
  /\ p /\ (i \in Hydrates => r.hydration = "timed-out" \/ c)
  /\ ~ReadyMayThrow => Trusted(r)

LEMMA StartedNowIsFine ==
  ASSUME NEW i \in Instances, NEW p, NEW c, NEW how \in Outcomes,
         NEW r, ReadyToStart(i, r, p, c)
  PROVE  /\ Fine(i, StartedNow(r, how), p, c)
         /\ StartedNow(r, how).bound = r.bound
         /\ ~StartedNow(r, how).suspended
<1> DEFINE listening == [r EXCEPT !.attached = TRUE]
           resumed == IF r.recovers THEN HeartbeatResumed(listening) ELSE listening
           recovered == [resumed EXCEPT !.recovers = FALSE]
           out == StartedNow(r, how)
<1>1. r \in Runtime /\ r.started /\ ~r.suspended
  BY DEF ReadyToStart
<1>2. listening \in Runtime /\ listening.started /\ listening.attached
  BY <1>1 DEF Runtime
<1>3. /\ listening.bound = r.bound /\ listening.suspended = r.suspended
      /\ listening.waits = r.waits /\ listening.listens = r.listens
      /\ listening.waiter = r.waiter /\ listening.cap = r.cap /\ listening.hydration = r.hydration
      /\ listening.retained = r.retained /\ listening.silence = r.silence
      /\ listening.beat = r.beat
  BY <1>1 DEF Runtime
<1>4. resumed \in Runtime /\ SameWay(listening, resumed)
  BY <1>2, HeartbeatResumedIs DEF SameWay
<1>5. ~ReadyMayThrow /\ resumed.retained =>
        /\ resumed.silence # Unset /\ resumed.beat # Unset
        /\ resumed.beat + resumed.silence = Timeout
  <2> SUFFICES ASSUME ~ReadyMayThrow, resumed.retained
               PROVE  /\ resumed.silence # Unset /\ resumed.beat # Unset
                      /\ resumed.beat + resumed.silence = Timeout
    OBVIOUS
  <2>1. Trusted(r)
    BY DEF ReadyToStart
  <2>2. CASE r.recovers
    BY <1>2, <1>3, <2>1, <2>2, HeartbeatResumedIs DEF Trusted
  <2>3. CASE ~r.recovers
    BY <1>3, <2>1, <2>3 DEF Trusted, ReadyToStart
  <2> QED BY <2>2, <2>3
<1>6. CASE how = "live"
  <2>1. out = [recovered EXCEPT !.ready = ReadyRetries]
    BY <1>1, <1>6 DEF StartedNow
  <2> HIDE DEF resumed, out
  <2>2. out \in Runtime
    <3>1. ReadyRetries \in 0..ReadyRetries
      BY SessionAssumption
    <3>2. recovered \in Runtime
      BY <1>4 DEF Runtime
    <3> QED BY <2>1, <3>1, <3>2 DEF Runtime
  <2>3. /\ SameWay(listening, out)
        /\ out.silence = resumed.silence /\ out.beat = resumed.beat
        /\ out.retained = resumed.retained
    BY <1>4, <2>1 DEF SameWay, Runtime
  <2>4. out.started /\ out.attached /\ ~out.suspended /\ out.bound = r.bound
    BY <1>1, <1>2, <1>3, <2>3 DEF SameWay
  <2>5. OneWay(i, out, p, c)
    BY <1>3, <2>3, <2>4 DEF OneWay, SameWay, ReadyToStart
  <2>6. ~ReadyMayThrow => Trusted(out)
    BY <1>5, <2>3, <2>4 DEF Trusted
  <2> QED BY <2>2, <2>4, <2>5, <2>6 DEF Fine, Orderly, out
<1>7. CASE how = "fails"
  <2>1. out = Released(r)
    BY <1>1, <1>7 DEF StartedNow
  <2>2. /\ out \in Runtime /\ ~out.started /\ Quiet(out) /\ Orderly(i, out, p, c)
        /\ out.bound = r.bound /\ out.suspended = r.suspended /\ out.retained = r.retained
        /\ out.recovers = r.recovers /\ out.silence = r.silence
    BY <1>1, <2>1, ReleasedIsFine
  <2>3. ~ReadyMayThrow => Trusted(out)
    BY <2>2 DEF Trusted, ReadyToStart, Quiet
  <2> QED BY <1>1, <2>2, <2>3 DEF Fine
<1>8. CASE how = "stopped"
  <2>1. out = Destroyed(listening)
    BY <1>1, <1>8 DEF StartedNow, HandlerStopped
  <2> QED BY <1>2, <1>3, <2>1, DestroyedWhileStarting
<1>9. CASE how = "throws" /\ ReadyMayThrow
  <2>1. out = Released(recovered)
    BY <1>1, <1>9 DEF StartedNow
  <2> HIDE DEF resumed
  <2>2. /\ recovered \in Runtime /\ recovered.bound = r.bound
        /\ recovered.suspended = r.suspended
    BY <1>3, <1>4 DEF SameWay, Runtime
  <2> QED BY <1>1, <1>9, <2>1, <2>2, ReleasedIsFine DEF Fine
<1>10. how \in {"live", "fails", "stopped"} \/ (how = "throws" /\ ReadyMayThrow)
  BY DEF Outcomes
<1> QED BY <1>6, <1>7, <1>8, <1>9, <1>10

---------------------------------------------------------------------------
(* The stages of a start *)

LEMMA HydratedIsFine ==
  ASSUME NEW i \in Instances, NEW p, NEW c, NEW how \in Outcomes,
         NEW outcome \in {"committed", "timed-out"}, outcome = "committed" => c,
         NEW r \in Runtime, r.started, ~r.suspended, ~r.attached, ~r.listens, p,
         ~ReadyMayThrow => Trusted(r)
  PROVE  /\ Fine(i, Hydrated(r, outcome, how), p, c)
         /\ Hydrated(r, outcome, how).bound = r.bound
         /\ ~Hydrated(r, outcome, how).suspended
<1> DEFINE q == [r EXCEPT !.waits = "no", !.waiter = FALSE, !.cap = FALSE, !.hydration = outcome]
<1>1. q \in Runtime /\ q.waits = "no" /\ ~q.waiter /\ ~q.cap /\ q.hydration = outcome
  BY DEF Runtime
<1>2. /\ q.started = r.started /\ q.suspended = r.suspended /\ q.bound = r.bound
      /\ q.attached = r.attached /\ q.listens = r.listens /\ q.recovers = r.recovers
      /\ q.retained = r.retained /\ q.silence = r.silence /\ q.beat = r.beat
  BY DEF Runtime
<1> HIDE DEF q
<1>3. ~ReadyMayThrow => Trusted(q)
  BY <1>2 DEF Trusted
<1>4. ReadyToStart(i, q, p, c)
  BY <1>1, <1>2, <1>3 DEF ReadyToStart
<1>5. Hydrated(r, outcome, how) = StartedNow(q, how)
  BY DEF Hydrated, q
<1>6. /\ Fine(i, StartedNow(q, how), p, c)
      /\ StartedNow(q, how).bound = q.bound
      /\ ~StartedNow(q, how).suspended
  BY <1>4, StartedNowIsFine
<1> QED BY <1>2, <1>5, <1>6

LEMMA AfterParseIsFine ==
  ASSUME NEW i \in Instances, NEW p, NEW how \in Outcomes,
         NEW r \in Runtime, r.started, ~r.suspended, ~r.attached, ~r.waiter, ~r.cap, p,
         ~ReadyMayThrow => Trusted(r)
  PROVE  /\ Fine(i, AfterParse(i, r, how), p, committed)
         /\ AfterParse(i, r, how).bound = r.bound
         /\ ~AfterParse(i, r, how).suspended
<1> DEFINE now == [r EXCEPT !.waits = "no", !.listens = FALSE]
           waiting == [now EXCEPT !.waits = "hydration", !.waiter = TRUE, !.cap = TRUE,
                                  !.hydration = "waiting"]
<1>1. now \in Runtime /\ now.waits = "no" /\ ~now.listens
  BY DEF Runtime
<1>2. /\ now.started = r.started /\ now.suspended = r.suspended /\ now.bound = r.bound
      /\ now.attached = r.attached /\ now.waiter = r.waiter /\ now.cap = r.cap
      /\ now.recovers = r.recovers
      /\ now.retained = r.retained /\ now.silence = r.silence /\ now.beat = r.beat
  BY DEF Runtime
<1> HIDE DEF now
<1>3. ~ReadyMayThrow => Trusted(now)
  BY <1>2 DEF Trusted
<1>4. CASE i \notin Hydrates
  <2>1. ReadyToStart(i, now, p, committed)
    BY <1>1, <1>2, <1>3, <1>4 DEF ReadyToStart
  <2>2. AfterParse(i, r, how) = StartedNow(now, how)
    BY <1>4 DEF AfterParse, now
  <2>3. /\ Fine(i, StartedNow(now, how), p, committed)
        /\ StartedNow(now, how).bound = now.bound
        /\ ~StartedNow(now, how).suspended
    BY <2>1, StartedNowIsFine
  <2> QED BY <1>2, <2>2, <2>3
<1>5. CASE i \in Hydrates /\ committed
  <2>1. AfterParse(i, r, how) = Hydrated(now, "committed", how)
    BY <1>5 DEF AfterParse, now
  <2>2. now \in Runtime /\ now.started /\ ~now.suspended /\ ~now.attached /\ ~now.listens
    BY <1>1, <1>2
  <2>3. /\ Fine(i, Hydrated(now, "committed", how), p, committed)
        /\ Hydrated(now, "committed", how).bound = now.bound
        /\ ~Hydrated(now, "committed", how).suspended
    BY <1>3, <1>5, <2>2, HydratedIsFine
  <2> QED BY <1>2, <2>1, <2>3
<1>6. CASE i \in Hydrates /\ ~committed
  <2>1. AfterParse(i, r, how) = waiting
    BY <1>6 DEF AfterParse, now
  <2>2. /\ waiting \in Runtime /\ waiting.waits = "hydration" /\ waiting.waiter /\ waiting.cap
    BY <1>1 DEF Runtime
  <2>3. /\ waiting.started = r.started /\ waiting.suspended = r.suspended
        /\ waiting.bound = r.bound /\ waiting.attached = r.attached /\ ~waiting.listens
        /\ waiting.recovers = r.recovers
        /\ waiting.retained = r.retained /\ waiting.silence = r.silence /\ waiting.beat = r.beat
    BY <1>1, <1>2 DEF Runtime
  <2> HIDE DEF waiting
  <2>4. ~ReadyMayThrow => Trusted(waiting)
    BY <2>3 DEF Trusted
  <2>5. Orderly(i, waiting, p, committed)
    BY <2>2, <2>3 DEF Orderly, OneWay
  <2> QED BY <2>1, <2>2, <2>3, <2>4, <2>5 DEF Fine
<1> QED BY <1>4, <1>5, <1>6

(* start keeps a runtime fine, never leaves it suspended and leaves a running one alone. *)
LEMMA StartIsFine ==
  ASSUME NEW i \in Instances, NEW how \in Outcomes, NEW r, Fine(i, r, parsed, committed)
  PROVE  /\ Fine(i, Start(i, r, how), parsed, committed)
         /\ Start(i, r, how).bound = r.bound
         /\ ~Start(i, r, how).suspended
         /\ r.started => Start(i, r, how).started
<1> DEFINE begun == [r EXCEPT !.recovers = @ \/ r.suspended, !.started = TRUE, !.suspended = FALSE]
           waiting == [begun EXCEPT !.waits = "parse", !.listens = TRUE]
<1>1. r \in Runtime
  BY DEF Fine
<1>2. CASE r.started
  BY <1>2 DEF Start, Fine, Orderly
<1>3. ASSUME ~r.started
      PROVE  /\ begun \in Runtime /\ begun.started /\ ~begun.suspended
             /\ ~begun.attached /\ ~begun.listens /\ ~begun.waiter /\ ~begun.cap
             /\ begun.bound = r.bound
             /\ ~ReadyMayThrow => Trusted(begun)
  <2>1. Quiet(r)
    BY <1>3 DEF Fine, Orderly
  <2>2. begun \in Runtime
    BY <1>1, ZenonT(30) DEF Runtime
  <2>3. /\ begun.started /\ ~begun.suspended /\ begun.bound = r.bound
        /\ begun.attached = r.attached /\ begun.listens = r.listens
        /\ begun.waiter = r.waiter /\ begun.cap = r.cap
        /\ begun.retained = r.retained /\ begun.silence = r.silence
        /\ begun.recovers <=> (r.recovers \/ r.suspended)
    BY <1>1 DEF Runtime
  <2> HIDE DEF begun
  <2>4. ~ReadyMayThrow => Trusted(begun)
    BY <1>3, <2>1, <2>3 DEF Trusted, Fine, Quiet
  <2> QED BY <2>1, <2>2, <2>3, <2>4 DEF Quiet
<1>4. CASE ~r.started /\ ~parsed
  <2>1. Start(i, r, how) = waiting
    BY <1>4 DEF Start
  <2> HIDE DEF begun
  <2>2. waiting \in Runtime /\ waiting.waits = "parse" /\ waiting.listens
    BY <1>3, <1>4 DEF Runtime
  <2>3. /\ waiting.started = begun.started /\ waiting.suspended = begun.suspended
        /\ waiting.bound = begun.bound /\ waiting.attached = begun.attached
        /\ waiting.waiter = begun.waiter /\ waiting.cap = begun.cap
        /\ waiting.recovers = begun.recovers /\ waiting.retained = begun.retained
        /\ waiting.silence = begun.silence /\ waiting.beat = begun.beat
    BY <1>3, <1>4 DEF Runtime
  <2> HIDE DEF waiting
  <2>4. ~ReadyMayThrow => Trusted(waiting)
    BY <1>3, <1>4, <2>3 DEF Trusted
  <2>5. Orderly(i, waiting, parsed, committed)
    BY <1>3, <1>4, <2>2, <2>3 DEF Orderly, OneWay
  <2> QED BY <1>3, <1>4, <2>1, <2>2, <2>3, <2>4, <2>5 DEF Fine
<1>5. CASE ~r.started /\ parsed
  <2>1. Start(i, r, how) = AfterParse(i, begun, how)
    BY <1>5 DEF Start
  <2> HIDE DEF begun
  <2> QED BY <1>3, <1>5, <2>1, AfterParseIsFine
<1> QED BY <1>2, <1>4, <1>5

---------------------------------------------------------------------------
(* The steps of the page *)

(* A step of some runtimes keeps the invariant if each of them is the published one
   and is fine afterwards, whatever its outcome, and the others are fine as they are. *)
LEMMA StepsKeepIInv ==
  ASSUME IInv, NEW is \in SUBSET Instances, NEW After, Steps(is, After),
         parsed' \in BOOLEAN, committed' \in BOOLEAN, hidden' \in BOOLEAN,
         \A i \in is : published = i,
         \A i \in is, how \in Outcomes :
           /\ Fine(i, After[i][how], parsed', committed')
           /\ After[i][how].bound = rt[i].bound /\ ~After[i][how].suspended,
         \A i \in Instances \ is : Fine(i, rt[i], parsed', committed')
  PROVE  IInv'
<1>1. PICK how \in [is -> Outcomes] :
        LET stopped == {i \in is : how[i] = "stopped" /\ ~After[i]["stopped"].started} IN
        /\ rt' = [i \in Instances |->
                    IF i \in stopped THEN [After[i][how[i]] EXCEPT !.bound = FALSE]
                    ELSE IF i \in is THEN After[i][how[i]] ELSE rt[i]]
        /\ published' = IF published \in stopped THEN 0 ELSE published
  BY DEF Steps
<1> DEFINE stopped == {i \in is : how[i] = "stopped" /\ ~After[i]["stopped"].started}
<1>2. /\ \A i \in stopped : rt'[i] = [After[i][how[i]] EXCEPT !.bound = FALSE]
      /\ \A i \in is \ stopped : rt'[i] = After[i][how[i]]
      /\ \A i \in Instances \ is : rt'[i] = rt[i]
      /\ DOMAIN rt' = Instances /\ rt' = [i \in Instances |-> rt'[i]]
      /\ published' = IF published \in stopped THEN 0 ELSE published
  BY <1>1
<1>3. \A i \in is : how[i] \in Outcomes
  OBVIOUS
<1>4. ASSUME NEW i \in stopped
      PROVE  /\ Fine(i, rt'[i], parsed', committed')
             /\ ~rt'[i].started /\ ~rt'[i].suspended /\ ~rt'[i].bound
  <2> DEFINE q == After[i][how[i]]
  <2>1. Fine(i, q, parsed', committed') /\ ~q.suspended /\ ~q.started
    BY <1>3, <1>4
  <2>2. rt'[i] = [q EXCEPT !.bound = FALSE]
    BY <1>2, <1>4
  <2> HIDE DEF q, stopped
  <2> QED BY <2>1, <2>2, ZenonT(30) DEF Fine, Runtime, Orderly, Quiet, Trusted
<1>5. ASSUME NEW i \in is \ stopped
      PROVE  /\ Fine(i, rt'[i], parsed', committed')
             /\ published' = i
  <2>1. Fine(i, rt'[i], parsed', committed')
    BY <1>2, <1>3
  <2>2. published = i
    OBVIOUS
  <2> QED BY <1>2, <2>1, <2>2
<1>6. ASSUME NEW i \in Instances \ is
      PROVE  /\ Fine(i, rt'[i], parsed', committed')
             /\ rt'[i].started \/ rt'[i].suspended \/ rt'[i].bound => published' = i
  <2>1. rt'[i] = rt[i]
    BY <1>2
  <2>2. rt[i].started \/ rt[i].suspended \/ rt[i].bound => published = i
    BY DEF IInv, RunningIsPublished
  <2> QED BY <1>2, <2>1, <2>2
<1> HIDE DEF stopped
<1>7. stopped \subseteq is
  BY DEF stopped
<1>8. \A i \in Instances : Fine(i, rt'[i], parsed', committed')
  BY <1>4, <1>5, <1>6, <1>7
<1>9. RunningIsPublished'
  BY <1>4, <1>5, <1>6, <1>7 DEF RunningIsPublished
<1>10. TypeOK'
  <2>1. \A i \in Instances : rt'[i] \in Runtime
    BY <1>8 DEF Fine
  <2>2. published' \in Instances \cup {0}
    BY <1>2 DEF IInv, TypeOK
  <2> QED BY <1>2, <2>1, <2>2 DEF TypeOK
<1> QED BY <1>8, <1>9, <1>10 DEF IInv

(* What a runtime that waits has not got yet. *)
LEMMA WaitingRuntime ==
  ASSUME IInv, NEW i \in Instances, rt[i].listens \/ rt[i].waiter \/ rt[i].cap
  PROVE  /\ rt[i] \in Runtime /\ rt[i].started /\ ~rt[i].suspended /\ ~rt[i].attached
         /\ published = i
         /\ rt[i].listens => ~rt[i].waiter /\ ~rt[i].cap
         /\ rt[i].waiter \/ rt[i].cap => ~rt[i].listens /\ parsed
         /\ ~ReadyMayThrow => Trusted(rt[i])
<1>1. Fine(i, rt[i], parsed, committed)
  BY DEF IInv
<1>2. rt[i].started
  BY <1>1 DEF Fine, Orderly, Quiet
<1>3. published = i
  BY <1>2 DEF IInv, RunningIsPublished
<1> QED BY <1>1, <1>2, <1>3 DEF Fine, Orderly, OneWay

LEMMA InitHolds == Init => IInv
<1> SUFFICES ASSUME Init PROVE IInv
  OBVIOUS
<1>1. 0 \in 0..ReadyRetries /\ Unset \in Unset..Timeout
  BY SessionAssumption DEF Unset
<1> DEFINE fresh == [made |-> FALSE, bound |-> FALSE, started |-> FALSE, suspended |-> FALSE,
              waits |-> "no", listens |-> FALSE, waiter |-> FALSE, cap |-> FALSE,
              hydration |-> "none", attached |-> FALSE, ready |-> 0, recovers |-> FALSE,
              retained |-> FALSE, connected |-> FALSE, silence |-> Unset, beat |-> Unset]
<1>2. fresh \in Runtime
  BY <1>1 DEF Runtime
<1>3. Quiet(fresh) /\ ~fresh.started /\ ~fresh.suspended /\ ~fresh.bound /\ ~fresh.retained
  BY DEF Quiet
<1>4. rt = [i \in Instances |-> fresh]
  BY DEF Init
<1> HIDE DEF fresh
<1>5. \A i \in Instances : Fine(i, rt[i], parsed, committed)
  BY <1>2, <1>3, <1>4 DEF Fine, Orderly, Trusted, Quiet
<1>6. TypeOK
  BY <1>2, <1>4 DEF TypeOK, Init
<1>7. RunningIsPublished
  BY <1>3, <1>4 DEF RunningIsPublished
<1> QED BY <1>5, <1>6, <1>7 DEF IInv

(* A step that changes runtimes one by one, and neither the page nor what is published. *)
LEMMA OneByOne ==
  ASSUME IInv, rt' = [i \in Instances |-> rt'[i]],
         UNCHANGED <<published, parsed, committed>>, hidden' \in BOOLEAN,
         \A i \in Instances :
           /\ Fine(i, rt'[i], parsed, committed)
           /\ rt'[i].started \/ rt'[i].suspended => rt[i].started \/ rt[i].suspended
           /\ rt'[i].bound => rt[i].bound
  PROVE  IInv'
<1>1. \A i \in Instances : rt'[i] \in Runtime
  BY DEF Fine
<1>2. TypeOK'
  BY <1>1 DEF TypeOK, IInv
<1>3. \A i \in Instances : Fine(i, rt'[i], parsed', committed')
  BY DEF Fine, Orderly
<1>4. RunningIsPublished'
  BY DEF IInv, RunningIsPublished
<1> QED BY <1>2, <1>3, <1>4 DEF IInv

LEMMA BootstrapKeeps ==
  ASSUME IInv, NEW i \in Instances, Bootstrap(i)
  PROVE  IInv'
<1>1. /\ i # 0 /\ Fine(i, rt[i], parsed, committed)
      /\ rt[i].started \/ rt[i].suspended \/ rt[i].bound => published = i
  BY SessionAssumption DEF IInv, RunningIsPublished
<1>2. UNCHANGED <<parsed, committed, hidden>> /\ "live" \in Outcomes /\ "fails" \in Outcomes
  BY DEF Bootstrap, Outcomes
<1> DEFINE live == Start(i, rt[i], "live")
           failed == Start(i, rt[i], "fails")
<1>3. /\ Fine(i, live, parsed, committed) /\ live.bound = rt[i].bound /\ ~live.suspended
      /\ Fine(i, failed, parsed, committed) /\ failed.bound = rt[i].bound /\ ~failed.suspended
  BY <1>1, <1>2, StartIsFine
<1> HIDE DEF live, failed
<1>4. CASE rt' = HandedOver(i, live) /\ published' = i
  <2>1. /\ rt'[i] = [live EXCEPT !.made = TRUE, !.bound = TRUE]
        /\ \A j \in Instances \ {i} :
             rt'[j] = IF j = published THEN Gone(rt[j]) ELSE rt[j]
        /\ rt' = [j \in Instances |-> rt'[j]]
    BY <1>4 DEF HandedOver
  <2>2. Fine(i, rt'[i], parsed, committed)
    BY <1>3, <2>1, ZenonT(30) DEF Fine, Runtime, Orderly, OneWay, Quiet, Trusted
  <2>3. ASSUME NEW j \in Instances \ {i}
        PROVE  /\ Fine(j, rt'[j], parsed, committed)
               /\ ~rt'[j].started /\ ~rt'[j].suspended /\ ~rt'[j].bound
    <3>1. Fine(j, rt[j], parsed, committed)
      BY DEF IInv
    <3>2. CASE j # published
      BY <2>1, <3>1, <3>2 DEF IInv, RunningIsPublished
    <3>3. CASE j = published
      <4> DEFINE q == Destroyed(rt[j])
      <4>1. Fine(j, q, parsed, committed) /\ ~q.started /\ ~q.suspended
        BY <3>1, DestroyedIsFine
      <4>2. rt'[j] = [q EXCEPT !.bound = FALSE]
        BY <2>1, <3>3 DEF Gone
      <4> HIDE DEF q
      <4> QED BY <4>1, <4>2 DEF Fine, Runtime, Orderly, Quiet, Trusted
    <3> QED BY <3>2, <3>3
  <2>4. \A j \in Instances : Fine(j, rt'[j], parsed', committed')
    BY <1>2, <2>2, <2>3
  <2>5. \A j \in Instances : rt'[j] \in Runtime
    BY <2>4 DEF Fine
  <2>6. TypeOK'
    BY <1>2, <1>4, <2>1, <2>5 DEF TypeOK, IInv
  <2>7. RunningIsPublished'
    BY <1>4, <2>3 DEF RunningIsPublished
  <2> QED BY <2>4, <2>6, <2>7 DEF IInv
<1>5. CASE ~failed.started /\ rt' = [rt EXCEPT ![i] = [failed EXCEPT !.made = TRUE]]
           /\ UNCHANGED published
  <2>1. rt'[i] = [failed EXCEPT !.made = TRUE] /\ \A j \in Instances \ {i} : rt'[j] = rt[j]
    BY <1>5 DEF IInv, TypeOK
  <2>2. rt' = [j \in Instances |-> rt'[j]]
    BY <1>5 DEF IInv, TypeOK
  <2> DEFINE q == [failed EXCEPT !.made = TRUE]
  <2>3. failed \in Runtime
    BY <1>3 DEF Fine
  <2>4. q \in Runtime
    BY <2>3 DEF Runtime
  <2>5. SameWay(failed, q) /\ q.silence = failed.silence /\ q.beat = failed.beat
        /\ q.retained = failed.retained /\ q.recovers = failed.recovers /\ q.ready = failed.ready
    BY <2>3 DEF SameWay, Runtime
  <2>6. rt'[i] = q
    BY <2>1
  <2> HIDE DEF q
  <2>7. /\ Fine(i, q, parsed, committed)
        /\ q.bound = rt[i].bound /\ ~q.started /\ ~q.suspended
    BY <1>3, <1>5, <2>4, <2>5 DEF Fine, Orderly, Quiet, Trusted, SameWay
  <2> QED BY <1>2, <1>5, <2>1, <2>2, <2>6, <2>7, OneByOne DEF IInv, TypeOK
<1>6. CASE published = 0 /\ rt' = [rt EXCEPT ![i] = [Destroyed(live) EXCEPT !.made = TRUE]]
           /\ UNCHANGED published
  <2> DEFINE q == Destroyed(live)
  <2>1. Fine(i, q, parsed, committed) /\ q.bound = live.bound /\ ~q.started /\ ~q.suspended
    BY <1>3, DestroyedIsFine
  <2>2. rt'[i] = [q EXCEPT !.made = TRUE] /\ \A j \in Instances \ {i} : rt'[j] = rt[j]
    BY <1>6 DEF IInv, TypeOK
  <2> HIDE DEF q
  <2>3. rt' = [j \in Instances |-> rt'[j]]
    BY <1>6 DEF IInv, TypeOK
  <2>4. /\ Fine(i, rt'[i], parsed, committed)
        /\ rt'[i].bound = rt[i].bound /\ ~rt'[i].started /\ ~rt'[i].suspended
    <3>1. q \in Runtime /\ rt'[i] = [q EXCEPT !.made = TRUE]
      BY <2>1, <2>2 DEF Fine
    <3>2. /\ rt'[i] \in Runtime
          /\ rt'[i].bound = q.bound /\ rt'[i].started = q.started /\ rt'[i].suspended = q.suspended
          /\ rt'[i].attached = q.attached /\ rt'[i].listens = q.listens /\ rt'[i].waiter = q.waiter
          /\ rt'[i].cap = q.cap /\ rt'[i].ready = q.ready /\ rt'[i].beat = q.beat
          /\ rt'[i].retained = q.retained /\ rt'[i].silence = q.silence /\ rt'[i].recovers = q.recovers
      BY <3>1 DEF Runtime
    <3> QED BY <1>3, <2>1, <3>2 DEF Fine, Orderly, Quiet, Trusted
  <2> QED BY <1>2, <1>6, <2>2, <2>3, <2>4, OneByOne DEF IInv, TypeOK
<1> QED BY <1>4, <1>5, <1>6 DEF Bootstrap, live, failed

LEMMA DestroyKeeps ==
  ASSUME IInv, NEW i \in Instances, Destroy(i)
  PROVE  IInv'
<1>1. i # 0 /\ Fine(i, rt[i], parsed, committed)
  BY SessionAssumption DEF IInv
<1> DEFINE q == Destroyed(rt[i])
<1>2. Fine(i, q, parsed, committed) /\ ~q.started /\ ~q.suspended
  BY <1>1, DestroyedIsFine
<1>3. /\ rt'[i] = [q EXCEPT !.bound = FALSE] /\ \A j \in Instances \ {i} : rt'[j] = rt[j]
      /\ rt' = [j \in Instances |-> rt'[j]]
      /\ UNCHANGED <<parsed, committed, hidden>>
      /\ published' = IF published = i THEN 0 ELSE published
  BY DEF Destroy, Gone, IInv, TypeOK, Unpublished
<1> HIDE DEF q
<1>4. /\ Fine(i, rt'[i], parsed, committed)
      /\ ~rt'[i].started /\ ~rt'[i].suspended /\ ~rt'[i].bound
  BY <1>2, <1>3 DEF Fine, Runtime, Orderly, Quiet, Trusted
<1>5. \A j \in Instances : Fine(j, rt'[j], parsed', committed')
  BY <1>3, <1>4 DEF IInv
<1>6. \A j \in Instances : rt'[j] \in Runtime
  BY <1>5 DEF Fine
<1>7. TypeOK'
  BY <1>3, <1>6 DEF TypeOK, IInv
<1>8. RunningIsPublished'
  BY <1>3, <1>4 DEF IInv, RunningIsPublished
<1> QED BY <1>5, <1>7, <1>8 DEF IInv

LEMMA RestartKeeps ==
  ASSUME IInv, NEW i \in Instances, Restart(i)
  PROVE  IInv'
<1> DEFINE After == [j \in {i} |-> [how \in Outcomes |-> Start(j, rt[j], how)]]
<1>1. Steps({i}, After) /\ UNCHANGED <<parsed, committed, hidden>>
  BY DEF Restart
<1>2. published = i
  BY DEF Restart, IInv, RunningIsPublished
<1>3. \A how \in Outcomes : After[i][how] = Start(i, rt[i], how)
  OBVIOUS
<1> HIDE DEF After
<1>4. \A j \in Instances : Fine(j, rt[j], parsed, committed)
  BY DEF IInv
<1>5. \A how \in Outcomes :
        /\ Fine(i, After[i][how], parsed', committed')
        /\ After[i][how].bound = rt[i].bound /\ ~After[i][how].suspended
  BY <1>1, <1>3, <1>4, StartIsFine
<1>6. \A j \in Instances : Fine(j, rt[j], parsed', committed')
  BY <1>1, <1>4
<1>7. parsed' \in BOOLEAN /\ committed' \in BOOLEAN /\ hidden' \in BOOLEAN
  BY <1>1 DEF IInv, TypeOK
<1> QED BY <1>1, <1>2, <1>5, <1>6, <1>7, StepsKeepIInv

LEMMA ParsedKeeps ==
  ASSUME IInv, Parsed
  PROVE  IInv'
<1> DEFINE heard == {i \in Instances : rt[i].listens}
           After == [i \in heard |-> [how \in Outcomes |->
                       IF rt[i].started THEN AfterParse(i, rt[i], how)
                       ELSE [rt[i] EXCEPT !.listens = FALSE]]]
<1>1. Steps(heard, After) /\ parsed' = TRUE /\ UNCHANGED <<committed, hidden>>
  BY DEF Parsed
<1>2. \A i \in heard :
        /\ i \in Instances /\ published = i
        /\ rt[i] \in Runtime /\ rt[i].started /\ ~rt[i].suspended /\ ~rt[i].attached
        /\ ~rt[i].waiter /\ ~rt[i].cap /\ (~ReadyMayThrow => Trusted(rt[i]))
  BY WaitingRuntime
<1>3. \A i \in heard, how \in Outcomes : After[i][how] = AfterParse(i, rt[i], how)
  BY <1>2
<1>4. heard \in SUBSET Instances
  OBVIOUS
<1> HIDE DEF After, heard
<1>5. ASSUME NEW i \in heard, NEW how \in Outcomes
      PROVE  /\ Fine(i, After[i][how], parsed', committed')
             /\ After[i][how].bound = rt[i].bound /\ ~After[i][how].suspended
  <2> DEFINE q == AfterParse(i, rt[i], how)
  <2>1. /\ i \in Instances /\ rt[i] \in Runtime /\ rt[i].started /\ ~rt[i].suspended
        /\ ~rt[i].attached /\ ~rt[i].waiter /\ ~rt[i].cap
        /\ ~ReadyMayThrow => Trusted(rt[i])
    BY <1>2
  <2>3. Fine(i, q, TRUE, committed) /\ q.bound = rt[i].bound /\ ~q.suspended
    BY <2>1, AfterParseIsFine
  <2>2. After[i][how] = q
    BY <1>3
  <2> QED BY <1>1, <2>2, <2>3
<1>6. \A j \in Instances : Fine(j, rt[j], parsed', committed')
  BY <1>1 DEF IInv, Fine, Orderly, OneWay
<1>7. parsed' \in BOOLEAN /\ committed' \in BOOLEAN /\ hidden' \in BOOLEAN
  BY <1>1 DEF IInv, TypeOK
<1> QED BY <1>1, <1>2, <1>4, <1>5, <1>6, <1>7, StepsKeepIInv, ZenonT(30)

LEMMA CommitsKeeps ==
  ASSUME IInv, Commits
  PROVE  IInv'
<1> DEFINE waiting == {i \in Instances : rt[i].waiter}
           After == [i \in waiting |-> [how \in Outcomes |-> Hydrated(rt[i], "committed", how)]]
<1>1. Steps(waiting, After) /\ parsed /\ committed' = TRUE /\ UNCHANGED <<parsed, hidden>>
  BY DEF Commits
<1>2. \A i \in waiting :
        /\ i \in Instances /\ published = i
        /\ rt[i] \in Runtime /\ rt[i].started /\ ~rt[i].suspended /\ ~rt[i].attached
        /\ ~rt[i].listens /\ (~ReadyMayThrow => Trusted(rt[i]))
  BY WaitingRuntime
<1>3. \A i \in waiting, how \in Outcomes : After[i][how] = Hydrated(rt[i], "committed", how)
  OBVIOUS
<1>4. waiting \in SUBSET Instances
  OBVIOUS
<1> HIDE DEF After, waiting
<1>5. ASSUME NEW i \in waiting, NEW how \in Outcomes
      PROVE  /\ Fine(i, After[i][how], parsed', committed')
             /\ After[i][how].bound = rt[i].bound /\ ~After[i][how].suspended
  <2> DEFINE q == Hydrated(rt[i], "committed", how)
  <2>1. "committed" \in {"committed", "timed-out"}
    OBVIOUS
  <2>2. Fine(i, q, TRUE, TRUE) /\ q.bound = rt[i].bound /\ ~q.suspended
    <3>1. /\ i \in Instances /\ rt[i] \in Runtime /\ rt[i].started /\ ~rt[i].suspended
          /\ ~rt[i].attached /\ ~rt[i].listens
          /\ ~ReadyMayThrow => Trusted(rt[i])
      BY <1>2
    <3> QED BY <2>1, <3>1, HydratedIsFine
  <2>3. After[i][how] = q
    BY <1>3
  <2>4. parsed' = TRUE /\ committed' = TRUE
    BY <1>1 DEF IInv, TypeOK
  <2> QED BY <2>2, <2>3, <2>4
<1>6. \A j \in Instances : Fine(j, rt[j], parsed', committed')
  BY <1>1 DEF IInv, Fine, Orderly, OneWay
<1>7. parsed' \in BOOLEAN /\ committed' \in BOOLEAN /\ hidden' \in BOOLEAN
  BY <1>1 DEF IInv, TypeOK
<1> QED BY <1>1, <1>2, <1>4, <1>5, <1>6, <1>7, StepsKeepIInv, ZenonT(30)

LEMMA CapFiresKeeps ==
  ASSUME IInv, NEW i \in Instances, CapFires(i)
  PROVE  IInv'
<1> DEFINE After == [j \in {i} |-> [how \in Outcomes |-> Hydrated(rt[j], "timed-out", how)]]
<1>1. Steps({i}, After) /\ rt[i].cap /\ UNCHANGED <<parsed, committed, hidden>>
  BY DEF CapFires
<1>2. /\ published = i /\ parsed
      /\ rt[i] \in Runtime /\ rt[i].started /\ ~rt[i].suspended /\ ~rt[i].attached
      /\ ~rt[i].listens /\ (~ReadyMayThrow => Trusted(rt[i]))
  BY <1>1, WaitingRuntime
<1>3. \A how \in Outcomes : After[i][how] = Hydrated(rt[i], "timed-out", how)
  OBVIOUS
<1> HIDE DEF After
<1>4. ASSUME NEW how \in Outcomes
      PROVE  /\ Fine(i, After[i][how], parsed', committed')
             /\ After[i][how].bound = rt[i].bound /\ ~After[i][how].suspended
  <2> DEFINE q == Hydrated(rt[i], "timed-out", how)
  <2>1. "timed-out" \in {"committed", "timed-out"} /\ "timed-out" # "committed"
    OBVIOUS
  <2>2. parsed = TRUE
    BY <1>2 DEF IInv, TypeOK
  <2>3. Fine(i, q, TRUE, committed) /\ q.bound = rt[i].bound /\ ~q.suspended
    BY <1>2, <2>1, HydratedIsFine
  <2>4. After[i][how] = q
    BY <1>3
  <2> QED BY <1>1, <2>2, <2>3, <2>4
<1>5. \A j \in Instances : Fine(j, rt[j], parsed', committed')
  BY <1>1 DEF IInv
<1>6. parsed' \in BOOLEAN /\ committed' \in BOOLEAN /\ hidden' \in BOOLEAN
  BY <1>1 DEF IInv, TypeOK
<1>7. published = i /\ {i} \in SUBSET Instances
  BY <1>2
<1> QED BY <1>1, <1>4, <1>5, <1>6, <1>7, StepsKeepIInv

LEMMA PageShowsKeeps ==
  ASSUME IInv, PageShows
  PROVE  IInv'
<1> DEFINE bound == {i \in Instances : rt[i].bound}
           After == [i \in bound |-> [how \in Outcomes |-> Start(i, rt[i], how)]]
<1>1. Steps(bound, After) /\ hidden' = FALSE /\ UNCHANGED <<parsed, committed>>
  BY DEF PageShows
<1>2. \A i \in bound : i \in Instances /\ published = i
  BY DEF IInv, RunningIsPublished
<1>3. \A i \in bound, how \in Outcomes : After[i][how] = Start(i, rt[i], how)
  OBVIOUS
<1>4. bound \in SUBSET Instances
  OBVIOUS
<1> HIDE DEF After, bound
<1>5. \A j \in Instances : Fine(j, rt[j], parsed', committed')
  BY <1>1 DEF IInv
<1>6. ASSUME NEW i \in bound, NEW how \in Outcomes
      PROVE  /\ Fine(i, After[i][how], parsed', committed')
             /\ After[i][how].bound = rt[i].bound /\ ~After[i][how].suspended
  BY <1>1, <1>2, <1>3, <1>5, StartIsFine
<1>7. parsed' \in BOOLEAN /\ committed' \in BOOLEAN /\ hidden' \in BOOLEAN
  BY <1>1 DEF IInv, TypeOK
<1> QED BY <1>1, <1>2, <1>4, <1>5, <1>6, <1>7, StepsKeepIInv

LEMMA PageHidesKeeps ==
  ASSUME IInv, PageHides
  PROVE  IInv'
<1>1. /\ hidden' = TRUE /\ UNCHANGED <<published, parsed, committed>>
      /\ rt' = [i \in Instances |-> rt'[i]]
      /\ \A i \in Instances : rt'[i] = IF rt[i].bound THEN Suspended(rt[i]) ELSE rt[i]
  BY DEF PageHides
<1>2. \A i \in Instances :
        /\ Fine(i, rt'[i], parsed, committed)
        /\ rt'[i].started \/ rt'[i].suspended => rt[i].started \/ rt[i].suspended
        /\ rt'[i].bound => rt[i].bound
  BY <1>1, SuspendedIsFine DEF IInv
<1> QED BY <1>1, <1>2, OneByOne

---------------------------------------------------------------------------
(* Messages and time *)

LEMMA TimerTypes ==
  ASSUME NEW r \in Runtime
  PROVE  /\ Timeout \in Nat \ {0} /\ Unset = -1
         /\ r.silence \in Unset..Timeout /\ r.beat \in Unset..Timeout
         /\ ReadyRetries \in Nat /\ r.ready \in 0..ReadyRetries
BY SessionAssumption DEF Runtime, Unset

LEMMA MessageKeeps ==
  ASSUME IInv, Message
  PROVE  IInv'
<1>1. UNCHANGED <<published, parsed, committed, hidden>> /\ rt' = [i \in Instances |-> rt'[i]]
  BY DEF Message
<1>2. ASSUME NEW i \in Instances
      PROVE  /\ Fine(i, rt'[i], parsed, committed)
             /\ rt'[i].started \/ rt'[i].suspended => rt[i].started \/ rt[i].suspended
             /\ rt'[i].bound => rt[i].bound
  <2> DEFINE r == rt[i]
  <2>1. Fine(i, r, parsed, committed) /\ r \in Runtime
    BY DEF IInv, Fine
  <2>2. CASE ~r.attached
    BY <2>1, <2>2 DEF Message
  <2>3. CASE r.attached
    <3> DEFINE q == [r EXCEPT !.retained = TRUE, !.connected = TRUE, !.silence = 0, !.beat = Timeout]
    <3>1. rt'[i] = q
      BY <2>3 DEF Message
    <3>2. 0 \in Unset..Timeout /\ Timeout \in Unset..Timeout /\ 0 # Unset /\ Timeout # Unset
          /\ Timeout + 0 = Timeout
      BY SessionAssumption DEF Unset
    <3> HIDE DEF r
    <3>3. q \in Runtime
      BY <2>1, <3>2 DEF Runtime
    <3>4. SameWay(r, q) /\ q.silence = 0 /\ q.beat = Timeout /\ q.attached
      BY <2>1, <2>3 DEF SameWay, Runtime
    <3>5. r.started /\ OneWay(i, r, parsed, committed) /\ ~r.suspended
      BY <2>1, <2>3 DEF Fine, Orderly, Quiet
    <3> HIDE DEF q
    <3>6. Fine(i, q, parsed, committed)
      BY <3>2, <3>3, <3>4, <3>5 DEF Fine, Orderly, OneWay, SameWay, Trusted
    <3> QED BY <3>1, <3>4, <3>6 DEF SameWay, r
  <2> QED BY <2>2, <2>3
<1> QED BY <1>1, <1>2, OneByOne DEF IInv, TypeOK

LEMMA ReadyFiresKeeps ==
  ASSUME IInv, NEW i \in Instances, ReadyFires(i)
  PROVE  IInv'
<1> DEFINE r == rt[i]
           q == [r EXCEPT !.ready = @ - 1]
<1>1. /\ UNCHANGED <<published, parsed, committed, hidden>> /\ rt' = [j \in Instances |-> rt'[j]]
      /\ r.ready > 0 /\ rt'[i] = q /\ \A j \in Instances \ {i} : rt'[j] = rt[j]
  BY DEF ReadyFires, IInv, TypeOK
<1>2. Fine(i, r, parsed, committed) /\ r \in Runtime
  BY DEF IInv, Fine
<1> HIDE DEF r
<1>3. r.ready - 1 \in 0..ReadyRetries
  BY <1>1, <1>2, TimerTypes
<1>4. q \in Runtime
  BY <1>2, <1>3 DEF Runtime
<1>5. SameWay(r, q) /\ q.silence = r.silence /\ q.beat = r.beat /\ q.retained = r.retained
      /\ q.recovers = r.recovers
  BY <1>2 DEF SameWay, Runtime
<1>6. r.started
  BY <1>1, <1>2 DEF Fine, Orderly, Quiet
<1> HIDE DEF q
<1>7. Fine(i, q, parsed, committed)
  BY <1>2, <1>4, <1>5, <1>6 DEF Fine, Orderly, OneWay, SameWay, Trusted
<1>8. \A j \in Instances :
        /\ Fine(j, rt'[j], parsed, committed)
        /\ rt'[j].started \/ rt'[j].suspended => rt[j].started \/ rt[j].suspended
        /\ rt'[j].bound => rt[j].bound
  BY <1>1, <1>5, <1>7 DEF IInv, SameWay, r
<1> QED BY <1>1, <1>8, OneByOne DEF IInv, TypeOK

LEMMA BeatFiresKeeps ==
  ASSUME IInv, NEW i \in Instances, BeatFires(i)
  PROVE  IInv'
<1> DEFINE r == rt[i]
           q == [r EXCEPT !.silence = Unset, !.beat = Unset, !.retained = FALSE, !.connected = FALSE]
<1>1. Fine(i, r, parsed, committed) /\ r \in Runtime
  BY DEF IInv, Fine
<1>2. r.beat = 0
  BY DEF BeatFires
<1>3. r.started
  BY <1>1, <1>2 DEF Fine, Orderly, Quiet, Unset
<1>4. /\ UNCHANGED <<published, parsed, committed, hidden>> /\ rt' = [j \in Instances |-> rt'[j]]
      /\ rt'[i] = q /\ \A j \in Instances \ {i} : rt'[j] = rt[j]
  BY <1>3 DEF BeatFires, Expired, IInv, TypeOK
<1> HIDE DEF r
<1>5. q \in Runtime
  <2>1. Unset \in Unset..Timeout
    BY SessionAssumption DEF Unset
  <2> QED BY <1>1, <2>1 DEF Runtime
<1>6. SameWay(r, q) /\ ~q.retained
  BY <1>1 DEF SameWay, Runtime
<1> HIDE DEF q
<1>7. Fine(i, q, parsed, committed)
  BY <1>1, <1>3, <1>5, <1>6 DEF Fine, Orderly, OneWay, SameWay, Trusted
<1>8. \A j \in Instances :
        /\ Fine(j, rt'[j], parsed, committed)
        /\ rt'[j].started \/ rt'[j].suspended => rt[j].started \/ rt[j].suspended
        /\ rt'[j].bound => rt[j].bound
  BY <1>4, <1>6, <1>7 DEF IInv, SameWay, r
<1> QED BY <1>4, <1>8, OneByOne DEF IInv, TypeOK

(* While a runtime listens to a trusted sender, the clock moves both counts or none. *)
LEMMA TickKeeps ==
  ASSUME IInv, Tick
  PROVE  IInv'
<1>1. UNCHANGED <<published, parsed, committed, hidden>> /\ rt' = [i \in Instances |-> rt'[i]]
  BY DEF Tick
<1>2. ASSUME NEW i \in Instances
      PROVE  /\ Fine(i, rt'[i], parsed, committed)
             /\ rt'[i].started \/ rt'[i].suspended => rt[i].started \/ rt[i].suspended
             /\ rt'[i].bound => rt[i].bound
  <2> DEFINE r == rt[i]
             silence == IF r.silence \in 0..(Timeout - 1) THEN r.silence + 1 ELSE r.silence
             beat == IF r.beat > 0 THEN r.beat - 1 ELSE r.beat
             q == [r EXCEPT !.silence = silence, !.beat = beat]
  <2>1. Fine(i, r, parsed, committed) /\ r \in Runtime
    BY DEF IInv, Fine
  <2>2. rt'[i] = q
    BY DEF Tick
  <2> HIDE DEF r
  <2>3. /\ silence \in Unset..Timeout /\ beat \in Unset..Timeout
        /\ r.silence # Unset => silence # Unset
        /\ r.silence # Unset /\ r.beat # Unset /\ r.beat + r.silence = Timeout =>
             beat # Unset /\ beat + silence = Timeout
        /\ r.beat = Unset => beat = Unset
    BY <2>1, TimerTypes
  <2> HIDE DEF silence, beat
  <2>4. q \in Runtime
    BY <2>1, <2>3 DEF Runtime
  <2>5. SameWay(r, q) /\ q.silence = silence /\ q.beat = beat /\ q.retained = r.retained
        /\ q.recovers = r.recovers /\ q.ready = r.ready
    BY <2>1 DEF SameWay, Runtime
  <2> HIDE DEF q
  <2>6. Orderly(i, q, parsed, committed)
    BY <2>1, <2>3, <2>5 DEF Fine, Orderly, OneWay, Quiet, SameWay
  <2>7. ~ReadyMayThrow => Trusted(q)
    BY <2>1, <2>3, <2>5 DEF Fine, Trusted, SameWay
  <2> QED BY <2>2, <2>4, <2>5, <2>6, <2>7 DEF Fine, SameWay, r
<1> QED BY <1>1, <1>2, OneByOne DEF IInv, TypeOK

---------------------------------------------------------------------------
(* The theorems *)

LEMMA NextKeeps == IInv /\ [Next]_vars => IInv'
<1> SUFFICES ASSUME IInv, [Next]_vars PROVE IInv'
  OBVIOUS
<1>1. CASE Parsed
  BY <1>1, ParsedKeeps
<1>2. CASE Commits
  BY <1>2, CommitsKeeps
<1>3. CASE PageHides
  BY <1>3, PageHidesKeeps
<1>4. CASE PageShows
  BY <1>4, PageShowsKeeps
<1>5. CASE Message
  BY <1>5, MessageKeeps
<1>6. CASE Tick
  BY <1>6, TickKeeps
<1>7. ASSUME NEW i \in Instances, Bootstrap(i) \/ Destroy(i) \/ Restart(i)
      PROVE  IInv'
  BY <1>7, BootstrapKeeps, DestroyKeeps, RestartKeeps
<1>8. ASSUME NEW i \in Instances, CapFires(i) \/ ReadyFires(i) \/ BeatFires(i)
      PROVE  IInv'
  BY <1>8, CapFiresKeeps, ReadyFiresKeeps, BeatFiresKeeps
<1>9. CASE UNCHANGED vars
  BY <1>9 DEF vars, IInv, TypeOK, RunningIsPublished, Fine, Orderly
<1> QED BY <1>1, <1>2, <1>3, <1>4, <1>5, <1>6, <1>7, <1>8, <1>9 DEF Next

(* The inductive invariant holds of every runtime the page bootstraps. *)
THEOREM Invariance == Spec => []IInv
<1>1. Init => IInv
  BY InitHolds
<1>2. IInv /\ [Next]_vars => IInv'
  BY NextKeeps
<1> QED BY <1>1, <1>2, PTL DEF Spec

(* However many runtimes a page bootstraps, destroys, hides and shows, one at most is
   alive, the page can reach it, and it is quiet, waits in one way or listens
   (core/lifecycle.ts, core/runtime.ts). *)
THEOREM Orderliness == Spec => []OneOrderlySession
<1>1. IInv => OneOrderlySession
  <2> SUFFICES ASSUME IInv PROVE OneOrderlySession
    OBVIOUS
  <2>1. \A i \in Instances : rt[i] \in Runtime /\ Orderly(i, rt[i], parsed, committed)
    BY DEF IInv, Fine
  <2>2. StoppedIsQuiet
    BY <2>1 DEF StoppedIsQuiet, Orderly, Quiet
  <2>3. OneWayToStart
    <3> SUFFICES ASSUME NEW i \in Instances, rt[i].started
                 PROVE  /\ rt[i].attached = (rt[i].waits = "no")
                        /\ rt[i].listens = (rt[i].waits = "parse")
                        /\ rt[i].waiter = (rt[i].waits = "hydration") /\ rt[i].cap = rt[i].waiter
                        /\ rt[i].attached =>
                             /\ parsed
                             /\ i \in Hydrates => rt[i].hydration = "timed-out" \/ committed
      BY DEF OneWayToStart
    <3>1. OneWay(i, rt[i], parsed, committed)
      BY <2>1 DEF Orderly
    <3>2. /\ rt[i].attached \in BOOLEAN /\ rt[i].listens \in BOOLEAN
          /\ rt[i].waiter \in BOOLEAN /\ rt[i].cap \in BOOLEAN
      BY <2>1 DEF Runtime
    <3> QED BY <3>1, <3>2 DEF OneWay
  <2> QED BY <2>2, <2>3 DEF OneOrderlySession, IInv
<1> QED BY <1>1, Invariance, PTL

(* With the ready message the library ships, which does not throw, nothing is retained
   past the trust in its sender, however often the page is hidden meanwhile
   (core/state.ts: HeartbeatTimer.resume). *)
THEOREM TrustEndsOnTime == ~ReadyMayThrow => (Spec => []TrustIsNotRenewed)
<1> SUFFICES ASSUME ~ReadyMayThrow PROVE Spec => []TrustIsNotRenewed
  OBVIOUS
<1>1. IInv => TrustIsNotRenewed
  BY DEF IInv, Fine, Trusted, TrustIsNotRenewed
<1> QED BY <1>1, Invariance, PTL


---------------------------------------------------------------------------
(* PluginManager: the buckets *)

\* The buckets of some members, as a set.
Buckets(members) == UNION {[D -> Nat \ {0}] : D \in SUBSET members}

LEMMA BucketSet ==
  ASSUME NEW M, NEW b
  PROVE  b \in Buckets(M) <=> IsBucket(b, M)
BY DEF Buckets, IsBucket

LEMMA EmptyBucket ==
  ASSUME NEW M
  PROVE  /\ Empty \in Buckets(M) /\ DOMAIN Empty = {}
         /\ \A b \in Buckets(M) : DOMAIN b = {} <=> b = Empty
<1>1. DOMAIN Empty = {} /\ Empty \in [{} -> Nat \ {0}]
  BY DEF Empty
<1>2. ASSUME NEW b \in Buckets(M), DOMAIN b = {}
      PROVE  b = Empty
  <2>1. b = [x \in DOMAIN b |-> b[x]]
    BY BucketSet DEF IsBucket
  <2>2. \A x \in {} : b[x] = Empty[x]
    OBVIOUS
  <2> QED BY <1>1, <1>2, <2>1, <2>2
<1> QED BY <1>1, <1>2, BucketSet DEF IsBucket

\* A bucket that is not empty has a member that was inserted after the others.
LEMMA LastMember ==
  ASSUME NEW M, IsFiniteSet(M), NEW b \in Buckets(M), b # Empty
  PROVE  \E r \in DOMAIN b : \A s \in DOMAIN b : b[s] <= b[r]
<1> DEFINE Endless == {D \in SUBSET DOMAIN b : D # {} /\ ~ \E r \in D : \A s \in D : b[s] <= b[r]}
<1> DEFINE Smaller == StrictSubsetOrdering(DOMAIN b)
<1>1. IsFiniteSet(DOMAIN b) /\ DOMAIN b # {} /\ \A x \in DOMAIN b : b[x] \in Nat
  BY FS_Subset, BucketSet, EmptyBucket DEF IsBucket
<1>2. SUFFICES ASSUME DOMAIN b \in Endless PROVE FALSE
  BY <1>1
<1>3. IsWellFoundedOn(Smaller, SUBSET DOMAIN b)
  BY <1>1, FS_StrictSubsetOrderingWellFounded, FS_FiniteSubsetsOfFinite
<1>4. Endless \subseteq SUBSET DOMAIN b /\ Endless # {}
  BY <1>2
<1> HIDE DEF Smaller, Endless
<1>5. PICK D \in Endless : \A E \in Endless : <<E, D>> \notin Smaller
  BY <1>3, <1>4, WFMin
<1>6. PICK x \in D : TRUE
  BY DEF Endless
<1>7. D \ {x} # {}
  BY <1>1, <1>5, <1>6 DEF Endless
<1>8. <<D \ {x}, D>> \in Smaller
  BY <1>6 DEF Smaller, StrictSubsetOrdering, Endless
<1>9. PICK r \in D \ {x} : \A s \in D \ {x} : b[s] <= b[r]
  BY <1>5, <1>7, <1>8 DEF Endless
<1>10. b[x] \in Nat /\ b[r] \in Nat /\ \A s \in D : b[s] \in Nat
  BY <1>1, <1>6, <1>9 DEF Endless
<1>11. \A s \in D : b[s] <= b[x] \/ b[s] <= b[r]
  BY <1>9, <1>10
<1>12. CASE b[x] <= b[r]
  BY <1>5, <1>9, <1>10, <1>12 DEF Endless
<1>13. CASE b[r] <= b[x]
  BY <1>5, <1>6, <1>9, <1>10, <1>13 DEF Endless
<1> QED BY <1>10, <1>12, <1>13

\* A member is added behind all others.
LEMMA AddedLast ==
  ASSUME NEW M, IsFiniteSet(M), NEW b \in Buckets(M), NEW h \in M
  PROVE  /\ Added(b, h) \in Buckets(M)
         /\ DOMAIN Added(b, h) = DOMAIN b \cup {h}
         /\ \A x \in DOMAIN b : Added(b, h)[x] = b[x]
         /\ h \notin DOMAIN b => \A x \in DOMAIN b : b[x] < Added(b, h)[h]
<1> DEFINE Places == Range(b) \cup {0}
<1>1. DOMAIN b \subseteq M /\ \A x \in DOMAIN b : b[x] \in Nat \ {0}
  BY BucketSet DEF IsBucket
<1>2. \E m \in Places : m \in Nat /\ \A y \in Places : m >= y
  <2>1. CASE b = Empty
    <3>1. Range(b) = {}
      BY <2>1, EmptyBucket DEF Range
    <3>2. 0 \in Places /\ 0 \in Nat /\ \A y \in Places : 0 >= y
      BY <3>1
    <3> QED BY <3>2
  <2>2. CASE b # Empty
    <3>1. PICK r \in DOMAIN b : \A s \in DOMAIN b : b[s] <= b[r]
      BY <2>2, LastMember
    <3>2. b[r] \in Places /\ b[r] \in Nat
      BY <1>1 DEF Range
    <3>3. \A y \in Places : y <= b[r] /\ y \in Nat
      BY <1>1, <3>1 DEF Range
    <3> QED BY <3>2, <3>3
  <2> QED BY <2>1, <2>2
<1>3. Places \subseteq Nat
  BY <1>1 DEF Range
<1>4. Max(Places) \in Nat /\ \A y \in Places : y <= Max(Places)
  BY <1>2, <1>3 DEF Max
<1>5. \A x \in DOMAIN b : b[x] \in Places
  BY DEF Range
<1> HIDE DEF Places
<1>6. \A x \in DOMAIN b : b[x] < 1 + Max(Places)
  BY <1>1, <1>4, <1>5
<1>7. Added(b, h) = [x \in DOMAIN b \cup {h} |-> IF x \in DOMAIN b THEN b[x] ELSE 1 + Max(Places)]
  BY DEF Added, Places
<1>8. Added(b, h) \in [DOMAIN b \cup {h} -> Nat \ {0}]
  BY <1>1, <1>4, <1>7
<1>9. IsBucket(Added(b, h), M)
  BY <1>1, <1>8 DEF IsBucket
<1> QED BY <1>6, <1>7, <1>9, BucketSet

LEMMA WithoutThem ==
  ASSUME NEW M, NEW b \in Buckets(M), NEW hs
  PROVE  /\ Without(b, hs) \in Buckets(M)
         /\ DOMAIN Without(b, hs) = DOMAIN b \ hs
         /\ \A x \in DOMAIN b \ hs : Without(b, hs)[x] = b[x]
<1>1. DOMAIN b \subseteq M /\ b \in [DOMAIN b -> Nat \ {0}]
  BY BucketSet DEF IsBucket
<1>2. Without(b, hs) \in [DOMAIN b \ hs -> Nat \ {0}]
  BY <1>1 DEF Without
<1> QED BY <1>1, <1>2, BucketSet DEF Without, IsBucket

---------------------------------------------------------------------------
(* The layers of the renderers *)

\* No two layers have the same place, and the one in force is the last.
Ordered(b) == \A x, y \in DOMAIN b : b[x] = b[y] => x = y

LEMMA RegistrationsFinite == IsFiniteSet(Registrations) /\ 0 \notin Registrations
BY ManagerAssumption

LEMMA TopIsLast ==
  ASSUME NEW b \in Buckets(Registrations)
  PROVE  /\ b = Empty => Top(b) = 0
         /\ b # Empty => Top(b) \in DOMAIN b /\ \A s \in DOMAIN b : b[s] <= b[Top(b)]
         /\ Top(b) \in Registrations \cup {0}
<1>1. ASSUME b # Empty PROVE Top(b) \in DOMAIN b /\ \A s \in DOMAIN b : b[s] <= b[Top(b)]
  BY <1>1, LastMember, RegistrationsFinite DEF Top
<1>2. DOMAIN b \subseteq Registrations
  BY BucketSet DEF IsBucket
<1> QED BY <1>1, <1>2 DEF Top

LEMMA TopIsUnique ==
  ASSUME NEW b \in Buckets(Registrations), Ordered(b),
         NEW r \in DOMAIN b, \A s \in DOMAIN b : b[s] <= b[r]
  PROVE  Top(b) = r
<1>1. b # Empty /\ \A x \in DOMAIN b : b[x] \in Nat
  BY EmptyBucket, BucketSet DEF IsBucket
<1>2. b[Top(b)] <= b[r] /\ b[r] <= b[Top(b)] /\ Top(b) \in DOMAIN b
  BY <1>1, TopIsLast
<1> QED BY <1>1, <1>2 DEF Ordered

\* A new layer is the one in force.
LEMMA LayerAdded ==
  ASSUME NEW b \in Buckets(Registrations), Ordered(b), NEW r \in Registrations \ DOMAIN b
  PROVE  Ordered(Added(b, r)) /\ Top(Added(b, r)) = r
<1> DEFINE a == Added(b, r)
<1>1. /\ a \in Buckets(Registrations) /\ DOMAIN a = DOMAIN b \cup {r}
      /\ \A x \in DOMAIN b : a[x] = b[x] /\ b[x] < a[r]
  BY AddedLast, RegistrationsFinite
<1>2. \A x \in DOMAIN a : a[x] \in Nat
  BY <1>1, BucketSet DEF IsBucket
<1> HIDE DEF a
<1>3. \A x \in DOMAIN b : a[x] < a[r]
  BY <1>1
<1>4. Ordered(a)
  <2> SUFFICES ASSUME NEW x \in DOMAIN a, NEW y \in DOMAIN a, a[x] = a[y] PROVE x = y
    BY DEF Ordered
  <2>1. CASE x \in DOMAIN b /\ y \in DOMAIN b
    BY <1>1, <2>1 DEF Ordered
  <2>2. CASE x = r \/ y = r
    BY <1>1, <1>2, <1>3, <2>2
  <2> QED BY <1>1, <2>1, <2>2
<1>5. \A s \in DOMAIN a : a[s] <= a[r]
  BY <1>1, <1>2, <1>3
<1> QED BY <1>1, <1>4, <1>5, TopIsUnique DEF a

\* Layers beneath the one in force can go without changing it.
LEMMA LayersRemoved ==
  ASSUME NEW b \in Buckets(Registrations), Ordered(b), NEW gone \in SUBSET Registrations
  PROVE  /\ Ordered(Without(b, gone))
         /\ Top(b) \notin gone => Top(Without(b, gone)) = Top(b)
<1> DEFINE w == Without(b, gone)
<1>1. /\ w \in Buckets(Registrations) /\ DOMAIN w = DOMAIN b \ gone
      /\ \A x \in DOMAIN b \ gone : w[x] = b[x]
  <2>1. w \in Buckets(Registrations)
    BY WithoutThem
  <2> QED BY <2>1 DEF Without
<1> HIDE DEF w
<1>2. Ordered(w)
  BY <1>1 DEF Ordered
<1>3. ASSUME Top(b) \notin gone PROVE Top(w) = Top(b)
  <2>1. CASE b = Empty
    BY <1>1, <2>1, EmptyBucket
  <2>2. CASE b # Empty
    BY <1>1, <1>2, <1>3, <2>2, TopIsLast, TopIsUnique
  <2> QED BY <2>1, <2>2
<1> QED BY <1>2, <1>3 DEF w
---------------------------------------------------------------------------
(* PluginManager: its invariant *)

CallType ==
  {call \in [op : {"use", "unuse", "destroy"}, name : Names \cup {None}, queued : BOOLEAN,
             at : {"queued", "hook", "removing", "sweeping", "sharing", "ended"},
             reg : Registrations \cup {0}, holding : BOOLEAN, rest : Buckets(Registrations),
             by : Registrations \cup {0}] :
     call.name \in IF call.op = "destroy" THEN {None} ELSE Names}
RegType ==
  [name : Names \cup {None}, queued : BOOLEAN, call : Nat,
   place : {"unused", "initializing", "active", "removed", "gone"}, since : Nat,
   scope : {"staging", "active", "closed"},
   hook : {"none", "due", "running", "ended", "failed", "settled"}]
EmissionType ==
  [part : {"idle", "regular", "once", "done"}, left : Buckets(Handlers), runs : Handlers \cup {None}]

Calls == Seq(CallType)
Regs == [Registrations -> RegType]

Pending == {"running", "ended", "failed"}

\* Where a registration is says in which state its scope and its hook are.
Life(cs, g, r) ==
  /\ g.call <= Len(cs)
  /\ g.place = "active" <=> g.since # 0
  /\ g.place \in {"unused", "active", "gone"} => g.hook = "none"
  /\ g.place = "unused" => g.name = None /\ g.scope = "staging"
  /\ g.place = "initializing" =>
       /\ g.hook \in Pending /\ g.scope \in {"staging", "closed"}
       /\ g.call # 0 /\ cs[g.call].at = "hook" /\ cs[g.call].reg = r
  /\ g.place = "active" => g.scope = "active"
  /\ g.place = "removed" => g.hook \in {"due", "settled"} \cup Pending /\ g.scope = "closed"
  /\ g.place = "gone" => g.scope = "closed"
Lives(cs, rs) == \A r \in Registrations : Life(cs, rs[r], r)

\* A name has one life at a time.
OneLife(rs) ==
  \A r, s \in Registrations :
    r # s /\ rs[r].name = rs[s].name /\ rs[r].name # None
      => rs[r].place = "gone" \/ rs[s].place = "gone"

\* What the queue waits for.
Hooks(rs) == {r \in Registrations : rs[r].queued /\ rs[r].hook \in Pending}
Holding(cs) == {c \in DOMAIN cs : cs[c].at = "removing" /\ cs[c].holding}
CountedBy(cs, rs, n) == n = Cardinality(Hooks(rs)) + Cardinality(Holding(cs))

Living(cs, rs, n) ==
  /\ cs \in Calls /\ rs \in Regs /\ n \in Nat
  /\ Lives(cs, rs) /\ OneLife(rs) /\ CountedBy(cs, rs, n)

\* The calls in the queue have not started, and none is there twice.
Waiting(cs, q) ==
  /\ q \in Seq(Nat)
  /\ \A i \in 1..Len(q) : q[i] \in 1..Len(cs) /\ cs[q[i]].at = "queued"
  /\ \A i, j \in 1..Len(q) : q[i] = q[j] => i = j

Mutating ==
  /\ Living(calls, regs, queuedHooks)
  /\ Waiting(calls, queue)
  /\ Len(calls) <= MaxCalls /\ busy \in 0..Len(calls)
  /\ scenario \in Scenarios /\ destroyed \in BOOLEAN /\ tornDown \in BOOLEAN

\* What a scope has acquired is of an active registration, and was made once.
Scoped ==
  /\ made \in [Registrations -> SUBSET scenario.kinds]
  /\ holds \in [Registrations -> SUBSET scenario.kinds]
  /\ \A r \in Registrations : holds[r] \subseteq made[r]
  /\ cleanups \subseteq Registrations
  /\ stack \in Buckets(Registrations) /\ regular \in Buckets(Handlers) /\ once \in Buckets(Handlers)
  /\ \A r \in cleanups : regs[r].scope # "closed"
  /\ \A r \in DOMAIN stack : regs[r].place = "active" /\ "layer" \in made[r]
  /\ \A r \in Registrations :
       <<r, "on">> \in DOMAIN regular \/ <<r, "once">> \in DOMAIN once => regs[r].place = "active"
  /\ Ordered(stack) /\ shown = Top(stack)

\* Who is to be called: a once handler that was is neither held nor made again.
Spent ==
  \A r \in Registrations :
    called[<<r, "once">>] # 0 => "once" \in made[r] /\ "once" \notin holds[r]

\* The page's handler is in one place at most, and nowhere once it was called.
Snapshots(h) == {e \in Emissions : h \in DOMAIN emission[e].left}
PageWaits ==
  /\ PageHandler \notin DOMAIN regular
  /\ called[PageHandler] # 0 => PageHandler \notin DOMAIN once /\ Snapshots(PageHandler) = {}
  /\ PageHandler \in DOMAIN once => Snapshots(PageHandler) = {}
  /\ \A e, f \in Snapshots(PageHandler) : e = f

Calling ==
  /\ called \in [Handlers -> Nat]
  /\ emission \in [Emissions -> EmissionType]
  /\ \A e \in Emissions : emission[e].part = "idle" => emission[e].left = Empty
  /\ Spent
  /\ PageWaits

ManagerInv == Mutating /\ Scoped /\ Calling

---------------------------------------------------------------------------
(* PluginManager: one call or one registration changes *)

Only(cs, ds, c) ==
  ds \in Calls /\ Len(ds) = Len(cs) /\ \A d \in 1..Len(cs) : d # c => ds[d] = cs[d]
OnlyReg(rs, qs, r) == qs \in Regs /\ \A s \in Registrations : s # r => qs[s] = rs[s]

Held(call) == IF call.at = "removing" /\ call.holding THEN 1 ELSE 0
Hooked(g) == IF g.queued /\ g.hook \in Pending THEN 1 ELSE 0

LEMMA CallsAsFunction ==
  ASSUME NEW cs \in Calls
  PROVE  /\ Len(cs) \in Nat /\ DOMAIN cs = 1..Len(cs)
         /\ \A c \in 1..Len(cs) : cs[c] \in CallType
BY DEF Calls

LEMMA CallReplaced ==
  ASSUME NEW cs \in Calls, NEW c \in 1..Len(cs), NEW x \in CallType
  PROVE  Only(cs, [cs EXCEPT ![c] = x], c) /\ [cs EXCEPT ![c] = x][c] = x
<1> DEFINE ds == [cs EXCEPT ![c] = x]
<1>1. cs \in [1..Len(cs) -> CallType] /\ Len(cs) \in Nat
  BY DEF Calls
<1>2. ds \in [1..Len(cs) -> CallType]
  BY <1>1
<1>3. ds \in Calls /\ Len(ds) = Len(cs)
  BY <1>1, <1>2 DEF Calls
<1>4. \A d \in 1..Len(cs) : ds[d] = IF d = c THEN x ELSE cs[d]
  BY <1>1
<1> QED BY <1>3, <1>4 DEF Only

LEMMA FiniteCounts ==
  /\ \A cs \in Calls : IsFiniteSet(Holding(cs)) /\ Cardinality(Holding(cs)) \in Nat
  /\ \A rs : IsFiniteSet(Hooks(rs)) /\ Cardinality(Hooks(rs)) \in Nat
<1>1. ASSUME NEW cs \in Calls
      PROVE  IsFiniteSet(1..Len(cs)) /\ Holding(cs) \in SUBSET (1..Len(cs))
  <2>1. Len(cs) \in Nat /\ DOMAIN cs = 1..Len(cs)
    BY CallsAsFunction
  <2> QED BY <2>1, FS_Interval DEF Holding
<1>2. IsFiniteSet(Registrations) /\ \A rs : Hooks(rs) \in SUBSET Registrations
  BY RegistrationsFinite DEF Hooks
<1> QED BY <1>1, <1>2, FS_Subset, FS_CardinalityType

LEMMA OneLess ==
  ASSUME NEW S, IsFiniteSet(S), NEW x, NEW k, k = IF x \in S THEN 1 ELSE 0
  PROVE  Cardinality(S \ {x}) = Cardinality(S) - k
<1>1. Cardinality(S \ {x}) = IF x \in S THEN Cardinality(S) - 1 ELSE Cardinality(S)
  BY FS_RemoveElement
<1>2. Cardinality(S) \in Nat
  BY FS_CardinalityType
<1> QED BY <1>1, <1>2

LEMMA HoldingChanged ==
  ASSUME NEW cs \in Calls, NEW ds, NEW c \in 1..Len(cs), Only(cs, ds, c)
  PROVE  Cardinality(Holding(ds)) + Held(cs[c]) = Cardinality(Holding(cs)) + Held(ds[c])
<1>1. ds \in Calls /\ DOMAIN ds = 1..Len(cs) /\ DOMAIN cs = 1..Len(cs)
  BY CallsAsFunction DEF Only
<1>2. Holding(ds) \ {c} = Holding(cs) \ {c}
  BY <1>1 DEF Only, Holding
<1>3. /\ IsFiniteSet(Holding(ds)) /\ Cardinality(Holding(ds)) \in Nat
      /\ IsFiniteSet(Holding(cs)) /\ Cardinality(Holding(cs)) \in Nat
  BY <1>1, FiniteCounts
<1>4. Cardinality(Holding(ds) \ {c}) = Cardinality(Holding(ds)) - Held(ds[c])
  <2>1. c \in Holding(ds) <=> ds[c].at = "removing" /\ ds[c].holding
    BY <1>1 DEF Holding
  <2> QED BY <1>3, <2>1, OneLess DEF Held
<1>5. Cardinality(Holding(cs) \ {c}) = Cardinality(Holding(cs)) - Held(cs[c])
  <2>1. c \in Holding(cs) <=> cs[c].at = "removing" /\ cs[c].holding
    BY <1>1 DEF Holding
  <2> QED BY <1>3, <2>1, OneLess DEF Held
<1>6. Held(ds[c]) \in Nat /\ Held(cs[c]) \in Nat
  BY DEF Held
<1>7. Cardinality(Holding(ds) \ {c}) = Cardinality(Holding(cs) \ {c})
  BY <1>2
<1> QED BY <1>3, <1>4, <1>5, <1>6, <1>7

LEMMA HooksChanged ==
  ASSUME NEW rs \in Regs, NEW qs, NEW r \in Registrations, OnlyReg(rs, qs, r)
  PROVE  Cardinality(Hooks(qs)) + Hooked(rs[r]) = Cardinality(Hooks(rs)) + Hooked(qs[r])
<1>1. Hooks(qs) \ {r} = Hooks(rs) \ {r}
  BY DEF OnlyReg, Hooks
<1>2. /\ IsFiniteSet(Hooks(qs)) /\ Cardinality(Hooks(qs)) \in Nat
      /\ IsFiniteSet(Hooks(rs)) /\ Cardinality(Hooks(rs)) \in Nat
  BY FiniteCounts
<1>3. Cardinality(Hooks(qs) \ {r}) = Cardinality(Hooks(qs)) - Hooked(qs[r])
  <2>1. r \in Hooks(qs) <=> qs[r].queued /\ qs[r].hook \in Pending
    BY DEF Hooks
  <2> QED BY <1>2, <2>1, OneLess DEF Hooked
<1>4. Cardinality(Hooks(rs) \ {r}) = Cardinality(Hooks(rs)) - Hooked(rs[r])
  <2>1. r \in Hooks(rs) <=> rs[r].queued /\ rs[r].hook \in Pending
    BY DEF Hooks
  <2> QED BY <1>2, <2>1, OneLess DEF Hooked
<1>5. Hooked(qs[r]) \in Nat /\ Hooked(rs[r]) \in Nat
  BY DEF Hooked
<1>6. Cardinality(Hooks(qs) \ {r}) = Cardinality(Hooks(rs) \ {r})
  BY <1>1
<1> QED BY <1>2, <1>3, <1>4, <1>5, <1>6

LEMMA CallCounts ==
  ASSUME NEW cs \in Calls, NEW rs, NEW n, CountedBy(cs, rs, n),
         NEW c \in 1..Len(cs), NEW ds, Only(cs, ds, c),
         NEW m \in Int, m + Held(cs[c]) = n + Held(ds[c])
  PROVE  CountedBy(ds, rs, m) /\ m \in Nat
<1> DEFINE hooks == Cardinality(Hooks(rs))
           before == Cardinality(Holding(cs))
           after == Cardinality(Holding(ds))
           held == Held(cs[c])
           holding == Held(ds[c])
<1>1. after + held = before + holding
  BY HoldingChanged
<1>2. hooks \in Nat /\ before \in Nat /\ after \in Nat /\ held \in Nat /\ holding \in Nat
  BY FiniteCounts DEF Only, Held
<1>3. n = hooks + before
  BY DEF CountedBy
<1>4. m + held = n + holding
  OBVIOUS
<1> HIDE DEF hooks, before, after, held, holding
<1>5. m = hooks + after
  BY <1>1, <1>2, <1>3, <1>4
<1> QED BY <1>2, <1>5 DEF CountedBy, hooks, after

\* A call that no registration is initialized for changes.
LEMMA CallMoves ==
  ASSUME NEW cs, NEW rs, NEW n, Living(cs, rs, n),
         NEW c \in 1..Len(cs), NEW ds, Only(cs, ds, c),
         \A s \in Registrations : rs[s].place = "initializing" => rs[s].call # c,
         NEW m \in Int, m + Held(cs[c]) = n + Held(ds[c])
  PROVE  Living(ds, rs, m)
<1>1. cs \in Calls /\ rs \in Regs /\ n \in Nat /\ Lives(cs, rs) /\ OneLife(rs) /\ CountedBy(cs, rs, n)
  BY DEF Living
<1>2. Lives(ds, rs)
  <2> SUFFICES ASSUME NEW s \in Registrations PROVE Life(ds, rs[s], s)
    BY DEF Lives
  <2>1. Life(cs, rs[s], s) /\ rs[s].call \in Nat
    BY <1>1 DEF Lives, Regs, RegType
  <2>2. rs[s].place = "initializing" => ds[rs[s].call] = cs[rs[s].call]
    BY <1>1, <2>1, CallsAsFunction DEF Life, Only
  <2> QED BY <2>1, <2>2 DEF Life, Only
<1>3. CountedBy(ds, rs, m) /\ m \in Nat
  BY <1>1, CallCounts
<1> QED BY <1>1, <1>2, <1>3 DEF Living, Only

LEMMA NotItsCall ==
  ASSUME NEW cs, NEW rs, NEW n, Living(cs, rs, n), NEW c, cs[c].at # "hook"
  PROVE  \A s \in Registrations : rs[s].place = "initializing" => rs[s].call # c
BY DEF Living, Lives, Life

\* One registration changes.
LEMMA RegMoves ==
  ASSUME NEW cs, NEW rs, NEW n, Living(cs, rs, n),
         NEW r \in Registrations, NEW qs, OnlyReg(rs, qs, r), Life(cs, qs[r], r),
         OneLife(qs) \/ (qs[r].name = rs[r].name /\ (rs[r].place = "gone" => qs[r].place = "gone")),
         NEW m \in Int, m + Hooked(rs[r]) = n + Hooked(qs[r])
  PROVE  Living(cs, qs, m)
<1>1. cs \in Calls /\ rs \in Regs /\ n \in Nat /\ Lives(cs, rs) /\ OneLife(rs) /\ CountedBy(cs, rs, n)
  BY DEF Living
<1>2. Lives(cs, qs)
  BY <1>1 DEF Lives, OnlyReg
<1>3. OneLife(qs)
  BY <1>1 DEF OneLife, OnlyReg
<1>4. CountedBy(cs, qs, m) /\ m \in Nat
  <2>1. Cardinality(Hooks(qs)) + Hooked(rs[r]) = Cardinality(Hooks(rs)) + Hooked(qs[r])
    BY <1>1, HooksChanged
  <2>2. /\ Cardinality(Hooks(qs)) \in Nat /\ Cardinality(Holding(cs)) \in Nat
        /\ Cardinality(Hooks(rs)) \in Nat /\ Hooked(rs[r]) \in Nat /\ Hooked(qs[r]) \in Nat
    BY <1>1, FiniteCounts DEF OnlyReg, Hooked
  <2>3. n = Cardinality(Hooks(rs)) + Cardinality(Holding(cs))
    BY <1>1 DEF CountedBy
  <2>4. m = Cardinality(Hooks(qs)) + Cardinality(Holding(cs))
    BY <1>1, <2>1, <2>2, <2>3
  <2> QED BY <2>2, <2>4 DEF CountedBy
<1> QED BY <1>1, <1>2, <1>3, <1>4 DEF Living, OnlyReg

---------------------------------------------------------------------------
(* PluginManager: a call starts *)

LEMMA Advanced ==
  ASSUME NEW cs \in Calls, NEW c \in 1..Len(cs),
         NEW at \in {"queued", "hook", "removing", "sweeping", "ended"}
  PROVE  /\ Only(cs, [cs EXCEPT ![c].at = at], c)
         /\ [cs EXCEPT ![c].at = at][c] = [cs[c] EXCEPT !.at = at]
<1>1. cs[c] \in CallType
  BY CallsAsFunction
<1>2. [cs[c] EXCEPT !.at = at] \in CallType
  BY <1>1 DEF CallType
<1>3. [cs EXCEPT ![c].at = at] = [cs EXCEPT ![c] = [cs[c] EXCEPT !.at = at]]
  OBVIOUS
<1> QED BY <1>2, <1>3, CallReplaced

\* A call that held nothing goes on without waiting.
LEMMA GoesOn ==
  ASSUME NEW cs, NEW rs, NEW n, Living(cs, rs, n), NEW c \in 1..Len(cs),
         cs[c].at \in {"queued", "sweeping", "sharing"}, NEW at \in {"ended", "sweeping"}
  PROVE  Living([cs EXCEPT ![c].at = at], rs, n) /\ Only(cs, [cs EXCEPT ![c].at = at], c)
<1> DEFINE ds == [cs EXCEPT ![c].at = at]
<1>1. cs \in Calls /\ n \in Nat
  BY DEF Living
<1>2. Only(cs, ds, c) /\ ds[c] = [cs[c] EXCEPT !.at = at] /\ cs[c] \in CallType
  BY <1>1, Advanced, CallsAsFunction
<1>3. ds[c].at = at
  BY <1>2 DEF CallType
<1>4. Held(cs[c]) = 0 /\ Held(ds[c]) = 0
  BY <1>3 DEF Held
<1>5. cs[c].at # "hook"
  OBVIOUS
<1> HIDE DEF ds
<1>6. Living(ds, rs, n)
  BY <1>1, <1>2, <1>4, <1>5, CallMoves, NotItsCall
<1> QED BY <1>2, <1>6 DEF ds

LEMMA RemovalStarts ==
  ASSUME NEW cs, Living(cs, regs, queuedHooks), NEW c \in 1..Len(cs),
         cs[c].at \in {"queued", "sweeping"}, NEW onward \in {"ended", "sweeping"},
         NEW name, UnregisterNow(cs, c, name, onward)
  PROVE  Living(calls', regs', queuedHooks') /\ Only(cs, calls', c)
<1>1. /\ cs \in Calls /\ queuedHooks \in Nat /\ regs \in Regs
      /\ Lives(cs, regs)
  BY DEF Living
<1>2. /\ Living([cs EXCEPT ![c].at = onward], regs, queuedHooks)
      /\ Only(cs, [cs EXCEPT ![c].at = onward], c)
  BY GoesOn
<1>3. cs[c] \in CallType /\ Held(cs[c]) = 0 /\ cs[c].at # "hook"
  BY <1>1, CallsAsFunction DEF Held
<1>4. ASSUME NEW r \in At("initializing", name),
             regs' = [regs EXCEPT ![r].scope = "closed"],
             calls' = [cs EXCEPT ![c].at = onward], UNCHANGED queuedHooks
      PROVE  Living(calls', regs', queuedHooks') /\ Only(cs, calls', c)
  <2>1. r \in Registrations /\ regs[r].place = "initializing" /\ regs[r] \in RegType
    BY <1>1 DEF At, Regs
  <2>2. /\ regs' \in Regs
        /\ regs'[r] = [regs[r] EXCEPT !.scope = "closed"]
        /\ OnlyReg(regs, regs', r)
    BY <1>1, <1>4, <2>1 DEF Regs, RegType, OnlyReg
  <2>3. Life(calls', regs[r], r)
    BY <1>2, <1>4, <2>1 DEF Living, Lives
  <2>4. /\ Life(calls', regs'[r], r)
        /\ regs'[r].name = regs[r].name /\ regs'[r].place = regs[r].place
        /\ Hooked(regs'[r]) = Hooked(regs[r])
        /\ regs[r].place = "gone" => regs'[r].place = "gone"
    BY <2>1, <2>2, <2>3 DEF Life, Hooked, RegType
  <2>5. queuedHooks \in Int /\ queuedHooks + Hooked(regs[r]) = queuedHooks + Hooked(regs'[r])
    BY <1>1, <2>4
  <2>6. Living(calls', regs', queuedHooks)
    BY <1>1, <1>2, <1>4, <2>1, <2>2, <2>4, <2>5, RegMoves
  <2> QED BY <1>2, <1>4, <2>6
<1>5. ASSUME NEW r \in At("removed", name), ~Destroying(r),
             calls' = [cs EXCEPT ![c].at = "removing", ![c].reg = r, ![c].holding = cs[c].queued],
             queuedHooks' = IF cs[c].queued THEN queuedHooks + 1 ELSE queuedHooks,
             UNCHANGED regs
      PROVE  Living(calls', regs', queuedHooks') /\ Only(cs, calls', c)
  <2> DEFINE x == [cs[c] EXCEPT !.at = "removing", !.reg = r, !.holding = cs[c].queued]
  <2>1. r \in Registrations
    BY DEF At
  <2>2. x \in CallType /\ x.at = "removing" /\ x.holding = cs[c].queued /\ cs[c].queued \in BOOLEAN
    BY <1>3, <2>1 DEF CallType
  <2>3. calls' = [cs EXCEPT ![c] = x]
    BY <1>5
  <2> HIDE DEF x
  <2>4. Only(cs, calls', c) /\ calls'[c] = x
    BY <1>1, <2>2, <2>3, CallReplaced
  <2>5. Held(calls'[c]) = IF cs[c].queued THEN 1 ELSE 0
    BY <2>2, <2>4 DEF Held
  <2>6. queuedHooks' \in Nat /\ queuedHooks' + Held(cs[c]) = queuedHooks + Held(calls'[c])
    BY <1>1, <1>3, <1>5, <2>2, <2>5
  <2>7. Living(calls', regs, queuedHooks')
    BY <1>3, <2>4, <2>6, CallMoves, NotItsCall
  <2> QED BY <1>5, <2>4, <2>7
<1>6. ASSUME NEW r \in At("active", name),
             regs' = [regs EXCEPT ![r] = [@ EXCEPT !.place = "removed", !.since = 0, !.scope = "closed",
                                             !.hook = "due", !.queued = cs[c].queued]],
             calls' = [cs EXCEPT ![c].at = "removing", ![c].reg = r, ![c].holding = FALSE],
             UNCHANGED queuedHooks
      PROVE  Living(calls', regs', queuedHooks') /\ Only(cs, calls', c)
  <2> DEFINE x == [cs[c] EXCEPT !.at = "removing", !.reg = r, !.holding = FALSE]
  <2>1. r \in Registrations /\ regs[r].place = "active" /\ regs[r] \in RegType
    BY <1>1 DEF At, Regs
  <2>2. x \in CallType /\ x.holding = FALSE /\ cs[c].queued \in BOOLEAN
    BY <1>3, <2>1 DEF CallType
  <2>3. calls' = [cs EXCEPT ![c] = x]
    BY <1>6
  <2> HIDE DEF x
  <2>4. Only(cs, calls', c) /\ calls'[c] = x
    BY <1>1, <2>2, <2>3, CallReplaced
  <2>5. Held(calls'[c]) = 0
    BY <2>2, <2>4 DEF Held
  <2>6. Living(calls', regs, queuedHooks)
    BY <1>1, <1>3, <2>4, <2>5, CallMoves, NotItsCall
  <2> DEFINE g == [regs[r] EXCEPT !.place = "removed", !.since = 0, !.scope = "closed",
                                  !.hook = "due", !.queued = cs[c].queued]
  <2>7. g \in RegType
    BY <2>1, <2>2 DEF RegType
  <2>8. regs' = [regs EXCEPT ![r] = g]
    BY <1>6
  <2>9. regs' \in Regs /\ OnlyReg(regs, regs', r) /\ regs'[r] = g
    BY <1>1, <2>1, <2>7, <2>8 DEF Regs, OnlyReg
  <2>10. Life(calls', regs[r], r)
    BY <2>1, <2>6 DEF Living, Lives
  <2>11. /\ g.name = regs[r].name /\ g.call = regs[r].call /\ g.place = "removed" /\ g.since = 0
         /\ g.scope = "closed" /\ g.hook = "due"
    BY <2>1 DEF RegType
  <2> HIDE DEF g
  <2>12. /\ Life(calls', regs'[r], r) /\ regs'[r].name = regs[r].name
         /\ Hooked(regs'[r]) = 0 /\ Hooked(regs[r]) = 0
    BY <2>1, <2>9, <2>10, <2>11 DEF Life, Hooked, Pending
  <2>13. Living(calls', regs', queuedHooks)
    BY <1>1, <2>1, <2>6, <2>9, <2>12, RegMoves
  <2> QED BY <1>6, <2>4, <2>13
<1>7. ASSUME calls' = [cs EXCEPT ![c].at = onward], UNCHANGED <<queuedHooks, regs>>
      PROVE  Living(calls', regs', queuedHooks') /\ Only(cs, calls', c)
  BY <1>2, <1>7
<1> QED BY <1>4, <1>5, <1>6, <1>7 DEF UnregisterNow

LEMMA UseBegins ==
  ASSUME NEW cs, Living(cs, regs, queuedHooks), NEW c \in 1..Len(cs),
         cs[c].at = "queued", UseStarts(cs, c)
  PROVE  Living(calls', regs', queuedHooks') /\ Only(cs, calls', c)
<1>1. /\ cs \in Calls /\ queuedHooks \in Nat /\ regs \in Regs
      /\ Lives(cs, regs) /\ OneLife(regs)
  BY DEF Living
<1>2. CASE calls' = Ended(cs, c) /\ UNCHANGED <<queuedHooks, regs>>
  BY <1>2, GoesOn DEF Ended
<1>3. ASSUME NEW r \in Registrations, regs[r].place = "unused", ~Taken(cs[c].name),
             calls' = [cs EXCEPT ![c].at = "hook", ![c].reg = r],
             regs' = [regs EXCEPT ![r] = [@ EXCEPT !.name = cs[c].name, !.queued = cs[c].queued,
                                     !.call = c, !.place = "initializing", !.hook = "running"]],
             queuedHooks' = IF cs[c].queued THEN queuedHooks + 1 ELSE queuedHooks
      PROVE  Living(calls', regs', queuedHooks') /\ Only(cs, calls', c)
  <2> DEFINE x == [cs[c] EXCEPT !.at = "hook", !.reg = r]
  <2> DEFINE g == [regs[r] EXCEPT !.name = cs[c].name, !.queued = cs[c].queued,
                                  !.call = c, !.place = "initializing", !.hook = "running"]
  <2>1. cs[c] \in CallType /\ regs[r] \in RegType /\ Held(cs[c]) = 0 /\ Len(cs) \in Nat
    BY <1>1, CallsAsFunction DEF Held, Regs
  <2>2. /\ x \in CallType /\ x.at = "hook" /\ x.reg = r
        /\ cs[c].queued \in BOOLEAN /\ cs[c].name \in Names \cup {None}
    BY <2>1 DEF CallType
  <2> HIDE DEF x
  <2>3. /\ g \in RegType /\ g.name = cs[c].name /\ g.queued = cs[c].queued /\ g.call = c
        /\ g.place = "initializing" /\ g.hook = "running"
        /\ g.since = regs[r].since /\ g.scope = regs[r].scope
    <3>1. c \in Nat
      BY <2>1
    <3>2. g \in RegType
      BY <2>1, <2>2, <3>1 DEF RegType
    <3>3. regs[r] = [name |-> regs[r].name, queued |-> regs[r].queued, call |-> regs[r].call,
                     place |-> regs[r].place, since |-> regs[r].since, scope |-> regs[r].scope,
                     hook |-> regs[r].hook]
      BY <2>1 DEF RegType
    <3> QED BY <3>2, <3>3
  <2>4. calls' = [cs EXCEPT ![c] = x] /\ regs' = [regs EXCEPT ![r] = g]
    BY <1>3 DEF x
  <2> HIDE DEF g
  <2>5. Only(cs, calls', c) /\ calls'[c] = x
    BY <1>1, <2>2, <2>4, CallReplaced
  <2>6. Held(calls'[c]) = 0
    BY <2>2, <2>5 DEF Held
  <2>7. Living(calls', regs, queuedHooks)
    BY <1>1, <2>1, <2>5, <2>6, CallMoves, NotItsCall
  <2>8. regs' \in Regs /\ OnlyReg(regs, regs', r) /\ regs'[r] = g
    BY <1>1, <2>3, <2>4 DEF Regs, OnlyReg
  <2>9. Life(cs, regs[r], r)
    BY <1>1 DEF Lives
  <2>10. Life(calls', g, r)
    BY <1>3, <2>2, <2>3, <2>5, <2>9 DEF Life, Pending, Only
  <2>11. OneLife(regs')
    <3>1. \A s \in Registrations : regs[s].place \in {"unused", "initializing", "active", "removed", "gone"}
      BY <1>1 DEF Regs, RegType
    <3>2. \A s \in Registrations :
            regs[s].name = cs[c].name /\ regs[s].name # None => regs[s].place = "gone"
      BY <1>1, <1>3, <3>1 DEF Lives, Life, Taken, At
    <3> QED BY <1>1, <2>3, <2>8, <3>2 DEF OneLife, OnlyReg
  <2>12. Hooked(regs[r]) = 0 /\ Hooked(g) = IF cs[c].queued THEN 1 ELSE 0
    BY <1>3, <2>3, <2>9 DEF Hooked, Pending, Life
  <2>13. queuedHooks' \in Nat /\ queuedHooks' + Hooked(regs[r]) = queuedHooks + Hooked(regs'[r])
    BY <1>1, <1>3, <2>2, <2>8, <2>12
  <2>14. Living(calls', regs', queuedHooks')
    BY <2>7, <2>8, <2>10, <2>11, <2>13, RegMoves
  <2> QED BY <2>5, <2>14
<1> QED BY <1>2, <1>3 DEF UseStarts

LEMMA PluginsInOrder ==
  ASSUME regs \in Regs, NEW cs, Lives(cs, regs)
  PROVE  Plugins \in Buckets(Registrations)
<1>1. \A s \in Registrations : regs[s].place = "active" => regs[s].since \in Nat \ {0}
  BY DEF Lives, Life, Regs, RegType
<1>2. IsBucket(Plugins, Registrations)
  BY <1>1 DEF Plugins, IsBucket
<1> QED BY <1>2, BucketSet

LEMMA DestroyBegins ==
  ASSUME NEW cs, Living(cs, regs, queuedHooks), NEW c \in 1..Len(cs),
         cs[c].at = "queued", DestroyStarts(cs, c)
  PROVE  Living(calls', regs', queuedHooks') /\ Only(cs, calls', c)
<1>1. /\ cs \in Calls /\ queuedHooks \in Nat /\ regs \in Regs
      /\ Lives(cs, regs) /\ OneLife(regs)
  BY DEF Living
<1> DEFINE x == [cs[c] EXCEPT !.at = "sweeping", !.rest = Plugins]
<1>2. cs[c] \in CallType /\ Held(cs[c]) = 0
  BY <1>1, CallsAsFunction DEF Held
<1>3. Plugins \in Buckets(Registrations)
  BY <1>1, PluginsInOrder
<1>4. x \in CallType /\ x.at = "sweeping"
  BY <1>2, <1>3 DEF CallType
<1>5. calls' = [cs EXCEPT ![c] = x]
  BY DEF DestroyStarts
<1> HIDE DEF x
<1>6. Only(cs, calls', c) /\ Held(calls'[c]) = 0
  BY <1>1, <1>4, <1>5, CallReplaced DEF Held
<1>7. Living(calls', regs, queuedHooks)
  BY <1>1, <1>2, <1>6, CallMoves, NotItsCall
<1>8. \A r \in Registrations :
        regs'[r] = IF regs[r].place = "initializing" THEN [regs[r] EXCEPT !.scope = "closed"] ELSE regs[r]
  BY DEF DestroyStarts
<1>9. regs' \in Regs
  <2>1. \A r \in Registrations : regs[r] \in RegType
    BY <1>1 DEF Regs
  <2>2. ASSUME NEW r \in Registrations PROVE regs'[r] \in RegType
    <3>1. regs[r] \in RegType
      BY <2>1
    <3>2. [regs[r] EXCEPT !.scope = "closed"] \in RegType
      BY <3>1 DEF RegType
    <3> QED BY <1>8, <3>1, <3>2
  <2>3. regs' = [r \in Registrations |-> regs'[r]]
    BY DEF DestroyStarts
  <2> QED BY <2>2, <2>3 DEF Regs
<1>10. \A r \in Registrations :
         /\ regs'[r].name = regs[r].name /\ regs'[r].queued = regs[r].queued
         /\ regs'[r].place = regs[r].place /\ regs'[r].hook = regs[r].hook
         /\ regs'[r].call = regs[r].call /\ regs'[r].since = regs[r].since
         /\ regs'[r].scope = IF regs[r].place = "initializing" THEN "closed" ELSE regs[r].scope
  BY <1>1, <1>8 DEF Regs, RegType
<1>11. Lives(calls', regs')
  BY <1>7, <1>10 DEF Living, Lives, Life
<1>12. OneLife(regs')
  BY <1>1, <1>10 DEF OneLife
<1>13. Hooks(regs') = Hooks(regs)
  BY <1>10 DEF Hooks
<1>14. CountedBy(calls', regs', queuedHooks)
  BY <1>7, <1>13 DEF Living, CountedBy
<1> QED BY <1>6, <1>7, <1>9, <1>11, <1>12, <1>14 DEF Living, DestroyStarts

LEMMA Begins ==
  ASSUME NEW cs, Living(cs, regs, queuedHooks), NEW c \in 1..Len(cs),
         cs[c].at = "queued", Starts(cs, c)
  PROVE  Living(calls', regs', queuedHooks') /\ Only(cs, calls', c)
BY UseBegins, DestroyBegins, RemovalStarts DEF Starts

---------------------------------------------------------------------------
(* PluginManager: the queue *)

LEMMA Appended ==
  ASSUME NEW cs, NEW rs, NEW n, Living(cs, rs, n), NEW x \in CallType,
         x.at # "removing"
  PROVE  /\ Living(Append(cs, x), rs, n)
         /\ Len(Append(cs, x)) = Len(cs) + 1 /\ Append(cs, x)[Len(cs) + 1] = x
         /\ \A d \in 1..Len(cs) : Append(cs, x)[d] = cs[d]
<1> DEFINE ds == Append(cs, x)
<1>1. /\ cs \in Calls /\ rs \in Regs /\ n \in Nat /\ Lives(cs, rs) /\ OneLife(rs)
      /\ CountedBy(cs, rs, n)
  BY DEF Living
<1>2. /\ ds \in Calls /\ Len(ds) = Len(cs) + 1 /\ ds[Len(cs) + 1] = x /\ Len(cs) \in Nat
      /\ \A d \in 1..Len(cs) : ds[d] = cs[d]
  BY <1>1 DEF Calls
<1> HIDE DEF ds
<1>3. Lives(ds, rs)
  <2> SUFFICES ASSUME NEW s \in Registrations PROVE Life(ds, rs[s], s)
    BY DEF Lives
  <2>1. Life(cs, rs[s], s) /\ rs[s].call \in Nat
    BY <1>1 DEF Lives, Regs, RegType
  <2>2. rs[s].place = "initializing" => ds[rs[s].call] = cs[rs[s].call]
    BY <1>2, <2>1 DEF Life
  <2> QED BY <1>2, <2>1, <2>2 DEF Life
<1>4. Holding(ds) = Holding(cs)
  <2>1. DOMAIN ds = 1..(Len(cs) + 1) /\ DOMAIN cs = 1..Len(cs)
    BY <1>1, <1>2, CallsAsFunction
  <2> QED BY <1>2, <2>1 DEF Holding
<1>5. CountedBy(ds, rs, n)
  BY <1>1, <1>4 DEF CountedBy
<1>6. Living(ds, rs, n)
  BY <1>1, <1>2, <1>3, <1>5 DEF Living
<1> QED BY <1>2, <1>6 DEF ds

LEMMA WaitingOn ==
  ASSUME NEW cs, NEW q, Waiting(cs, q), NEW ds, NEW c, Only(cs, ds, c),
         \A i \in 1..Len(q) : q[i] # c
  PROVE  Waiting(ds, q)
BY DEF Waiting, Only

LEMMA CallMutates ==
  ASSUME Mutating, NEW op \in {"use", "unuse", "destroy"},
         NEW name \in IF op = "destroy" THEN {None} ELSE Names,
         NEW by \in Registrations \cup {0}, Call(op, name, by)
  PROVE  Mutating'
<1> DEFINE x == [op |-> op, name |-> name, queued |-> ~Direct, at |-> "queued",
                 reg |-> 0, holding |-> FALSE, rest |-> Empty, by |-> by]
<1> DEFINE cs == Append(calls, x)
<1> DEFINE c == Len(calls) + 1
<1>1. /\ Living(calls, regs, queuedHooks) /\ Waiting(calls, queue)
      /\ Len(calls) \in Nat /\ busy \in 0..Len(calls)
      /\ scenario \in Scenarios /\ destroyed \in BOOLEAN /\ tornDown \in BOOLEAN
  BY CallsAsFunction DEF Mutating, Living
<1>2. x \in CallType /\ x.at = "queued"
  BY EmptyBucket DEF CallType, Direct
<1> HIDE DEF x
<1>3. /\ Living(cs, regs, queuedHooks) /\ Len(cs) = c /\ cs[c] = x
      /\ \A d \in 1..Len(calls) : cs[d] = calls[d]
  BY <1>1, <1>2, Appended
<1>4. c <= MaxCalls
  <2>1. scenario.calls \in 0..MaxCalls /\ MaxCalls \in Nat
    BY <1>1, ManagerAssumption
  <2>2. c <= scenario.calls
    BY DEF Call
  <2> QED BY <1>1, <2>1, <2>2
<1>5. Waiting(cs, queue)
  BY <1>1, <1>3 DEF Waiting
<1>6. \A i \in 1..Len(queue) : queue[i] # c
  BY <1>1 DEF Waiting
<1>7. /\ UNCHANGED <<scenario, busy, tornDown>> /\ destroyed' \in BOOLEAN
  BY <1>1 DEF Call
<1>8. CASE Direct
  <2>1. Starts(cs, c) /\ UNCHANGED queue
    BY <1>8 DEF Call, cs, c, x
  <2> HIDE DEF cs, c
  <2>2. c \in 1..Len(cs) /\ cs[c].at = "queued"
    BY <1>1, <1>2, <1>3 DEF c
  <2>3. Living(calls', regs', queuedHooks') /\ Only(cs, calls', c)
    BY <1>3, <2>1, <2>2, Begins
  <2>4. Waiting(calls', queue)
    BY <1>5, <1>6, <2>3, WaitingOn
  <2>5. Len(calls') = c
    BY <1>3, <2>3 DEF Only
  <2>6. busy \in 0..c
    BY <1>1 DEF c
  <2> QED BY <1>1, <1>4, <1>7, <2>1, <2>3, <2>4, <2>5, <2>6 DEF Mutating
<1>9. CASE ~Direct
  <2>1. queue' = Append(queue, c) /\ calls' = cs /\ UNCHANGED <<queuedHooks, regs>>
    BY <1>9 DEF Call, cs, c, x
  <2>2. queue \in Seq(Nat) /\ c \in Nat /\ Len(queue) \in Nat
    BY <1>1 DEF Waiting
  <2> HIDE DEF cs, c
  <2>3. /\ queue' \in Seq(Nat) /\ Len(queue') = Len(queue) + 1 /\ queue'[Len(queue) + 1] = c
        /\ \A i \in 1..Len(queue) : queue'[i] = queue[i]
    BY <2>1, <2>2
  <2>4. c \in 1..Len(cs) /\ cs[c].at = "queued"
    BY <1>1, <1>2, <1>3 DEF c
  <2>5. \A i \in 1..Len(queue') : i \in 1..Len(queue) \/ i = Len(queue) + 1
    BY <2>2, <2>3
  <2>6. \A i \in 1..Len(queue') : queue'[i] \in 1..Len(cs) /\ cs[queue'[i]].at = "queued"
    BY <1>5, <2>3, <2>4, <2>5 DEF Waiting
  <2>7. \A i, j \in 1..Len(queue') : queue'[i] = queue'[j] => i = j
    BY <1>5, <1>6, <2>2, <2>3, <2>5 DEF Waiting
  <2>8. Waiting(calls', queue')
    BY <2>1, <2>3, <2>6, <2>7 DEF Waiting
  <2>9. Len(calls') = c /\ busy \in 0..c
    BY <1>1, <1>3, <2>1 DEF c
  <2> QED BY <1>1, <1>3, <1>4, <1>7, <2>1, <2>8, <2>9 DEF Mutating
<1> QED BY <1>8, <1>9

\* A step on one call that is not in the queue, or on none.
LEMMA MutatingOn ==
  ASSUME Mutating, Living(calls', regs', queuedHooks'),
         calls' = calls \/ \E c \in 1..Len(calls) : calls[c].at # "queued" /\ Only(calls, calls', c),
         queue' = queue, busy' \in 0..Len(calls), scenario' = scenario,
         destroyed' = destroyed, tornDown' \in BOOLEAN
  PROVE  Mutating'
<1>1. Waiting(calls', queue') /\ Len(calls') = Len(calls)
  <2>1. CASE calls' = calls
    BY <2>1 DEF Mutating
  <2>2. ASSUME NEW c \in 1..Len(calls), calls[c].at # "queued", Only(calls, calls', c)
        PROVE  Waiting(calls', queue') /\ Len(calls') = Len(calls)
    <3>1. \A i \in 1..Len(queue) : queue[i] # c
      BY <2>2 DEF Mutating, Waiting
    <3>2. Waiting(calls, queue)
      BY DEF Mutating
    <3>3. Waiting(calls', queue)
      BY <2>2, <3>1, <3>2, WaitingOn
    <3> QED BY <2>2, <3>3 DEF Only
  <2> QED BY <2>1, <2>2
<1> QED BY <1>1 DEF Mutating

\* One more caller of destroy(), which shares the promise of the first.
LEMMA SharingMutates ==
  ASSUME Mutating, NEW by \in Registrations \cup {0}, DestroyAgain(by)
  PROVE  Mutating'
<1> DEFINE x == [op |-> "destroy", name |-> None, queued |-> FALSE, at |-> "sharing",
                 reg |-> 0, holding |-> FALSE, rest |-> Empty, by |-> by]
<1>1. /\ Living(calls, regs, queuedHooks) /\ Waiting(calls, queue)
      /\ Len(calls) \in Nat /\ busy \in 0..Len(calls) /\ scenario \in Scenarios
  BY CallsAsFunction DEF Mutating, Living
<1>2. x \in CallType /\ x.at = "sharing"
  BY EmptyBucket DEF CallType
<1>3. calls' = Append(calls, x)
  BY DEF DestroyAgain
<1> HIDE DEF x
<1>4. /\ Living(calls', regs, queuedHooks) /\ Len(calls') = Len(calls) + 1
      /\ \A d \in 1..Len(calls) : calls'[d] = calls[d]
  BY <1>1, <1>2, <1>3, Appended
<1>5. Len(calls') <= MaxCalls
  <2>1. scenario.calls \in 0..MaxCalls /\ MaxCalls \in Nat /\ Len(calls) < scenario.calls
    BY <1>1, ManagerAssumption DEF DestroyAgain
  <2> QED BY <1>1, <1>4, <2>1
<1>6. UNCHANGED <<scenario, queue, busy, queuedHooks, regs, destroyed, tornDown>>
  BY DEF DestroyAgain, clientVars
<1>7. Waiting(calls', queue)
  <2>1. \A i \in 1..Len(queue) : queue[i] \in 1..Len(calls')
    BY <1>1, <1>4 DEF Waiting
  <2>2. \A i \in 1..Len(queue) : calls'[queue[i]].at = "queued"
    BY <1>1, <1>4 DEF Waiting
  <2> QED BY <1>1, <2>1, <2>2 DEF Waiting
<1>8. busy \in 0..Len(calls')
  BY <1>1, <1>4
<1> QED BY <1>4, <1>5, <1>6, <1>7, <1>8 DEF Mutating

LEMMA QueueMutates ==
  ASSUME Mutating, QueueStarts \/ QueueGoesOn
  PROVE  Mutating'
<1>1. /\ Living(calls, regs, queuedHooks) /\ Waiting(calls, queue)
      /\ Len(calls) \in Nat /\ busy \in 0..Len(calls)
  BY CallsAsFunction DEF Mutating, Living
<1>2. CASE QueueStarts
  <2> DEFINE c == Head(queue)
  <2>1. /\ queue \in Seq(Nat) /\ queue # << >> /\ queue' = Tail(queue) /\ busy' = c
        /\ Starts(calls, c) /\ UNCHANGED <<scenario, destroyed, tornDown>>
    BY <1>1, <1>2 DEF QueueStarts, Waiting, clientVars
  <2>2. /\ Len(queue) \in Nat \ {0} /\ c = queue[1]
        /\ queue' \in Seq(Nat) /\ Len(queue') = Len(queue) - 1
        /\ \A i \in 1..Len(queue') : queue'[i] = queue[i + 1]
    BY <2>1
  <2> HIDE DEF c
  <2>3. c \in 1..Len(calls) /\ calls[c].at = "queued"
    BY <1>1, <2>2 DEF Waiting
  <2>4. Living(calls', regs', queuedHooks') /\ Only(calls, calls', c)
    BY <1>1, <2>1, <2>3, Begins
  <2>5. \A i \in 1..Len(queue') : i + 1 \in 1..Len(queue) /\ i + 1 # 1
    BY <2>2
  <2>6. Waiting(calls, queue') /\ \A i \in 1..Len(queue') : queue'[i] # c
    <3>1. \A i \in 1..Len(queue) : queue[i] \in 1..Len(calls) /\ calls[queue[i]].at = "queued"
      BY <1>1 DEF Waiting
    <3>2. \A i, j \in 1..Len(queue) : queue[i] = queue[j] => i = j
      BY <1>1 DEF Waiting
    <3>3. 1 \in 1..Len(queue) /\ \A i \in 1..Len(queue') : i \in Int
      BY <2>2
    <3>4. \A i \in 1..Len(queue') : queue'[i] # c
      BY <2>2, <2>5, <3>2, <3>3
    <3>5. \A i \in 1..Len(queue') : queue'[i] \in 1..Len(calls) /\ calls[queue'[i]].at = "queued"
      BY <2>2, <2>5, <3>1
    <3>6. \A i, j \in 1..Len(queue') : queue'[i] = queue'[j] => i = j
      <4> SUFFICES ASSUME NEW i \in 1..Len(queue'), NEW j \in 1..Len(queue'), queue'[i] = queue'[j]
                   PROVE  i = j
        OBVIOUS
      <4>1. queue[i + 1] = queue[j + 1] /\ i + 1 \in 1..Len(queue) /\ j + 1 \in 1..Len(queue)
        BY <2>2, <2>5
      <4>2. i + 1 = j + 1
        BY <3>2, <4>1
      <4> QED BY <3>3, <4>2
    <3>7. queue' \in Seq(Nat)
      BY <2>2
    <3> QED BY <3>4, <3>5, <3>6, <3>7 DEF Waiting
  <2>7. Waiting(calls', queue') /\ Len(calls') = Len(calls)
    <3>1. Waiting(calls', queue')
      BY <2>4, <2>6, WaitingOn
    <3>2. Len(calls') = Len(calls)
      BY <2>4 DEF Only
    <3> QED BY <3>1, <3>2
  <2> QED BY <2>1, <2>3, <2>4, <2>7 DEF Mutating
<1>3. CASE QueueGoesOn
  BY <1>1, <1>3, MutatingOn DEF QueueGoesOn, clientVars, Mutating
<1> QED BY <1>2, <1>3

LEMMA SweepMutates ==
  ASSUME Mutating, NEW c \in DOMAIN calls,
         RemovalEnds(c) \/ SweepNext(c) \/ SweepEnds(c) \/ SharedEnds(c)
  PROVE  Mutating'
<1>1. /\ Living(calls, regs, queuedHooks) /\ calls \in Calls /\ queuedHooks \in Nat
      /\ c \in 1..Len(calls) /\ calls[c] \in CallType
      /\ busy \in 0..Len(calls) /\ destroyed \in BOOLEAN /\ tornDown \in BOOLEAN
  BY CallsAsFunction DEF Mutating, Living
<1>2. CASE RemovalEnds(c)
  <2> DEFINE x == [calls[c] EXCEPT !.at = Onward(calls[c]), !.holding = FALSE]
  <2>1. /\ x \in CallType /\ x.holding = FALSE /\ calls[c].at = "removing"
    BY <1>1, <1>2 DEF CallType, Onward, RemovalEnds
  <2>2. calls' = [calls EXCEPT ![c] = x]
    BY <1>2 DEF RemovalEnds
  <2> HIDE DEF x
  <2>3. Only(calls, calls', c) /\ calls'[c] = x
    BY <1>1, <2>1, <2>2, CallReplaced
  <2>4. Held(calls'[c]) = 0 /\ Held(calls[c]) = IF calls[c].holding THEN 1 ELSE 0
    BY <2>1, <2>3 DEF Held
  <2>5. queuedHooks' \in Int /\ queuedHooks' + Held(calls[c]) = queuedHooks + Held(calls'[c])
    BY <1>1, <1>2, <2>4 DEF RemovalEnds
  <2>6. Living(calls', regs, queuedHooks')
    BY <1>1, <2>1, <2>3, <2>5, CallMoves, NotItsCall
  <2>7. UNCHANGED <<scenario, queue, busy, regs, destroyed, tornDown>>
    BY <1>2 DEF RemovalEnds, clientVars
  <2> QED BY <1>1, <2>1, <2>3, <2>6, <2>7, MutatingOn
<1>3. CASE SweepNext(c)
  <2>1. PICK r \in Registrations :
          UnregisterNow([calls EXCEPT ![c].rest = Without(@, {r})], c, regs[r].name, "sweeping")
    BY <1>3 DEF SweepNext
  <2> DEFINE x == [calls[c] EXCEPT !.rest = Without(calls[c].rest, {r})]
  <2> DEFINE cs == [calls EXCEPT ![c] = x]
  <2>2. calls[c].at = "sweeping" /\ UNCHANGED <<scenario, queue, busy, destroyed, tornDown>>
    BY <1>3 DEF SweepNext, clientVars
  <2>3. Without(calls[c].rest, {r}) \in Buckets(Registrations)
    BY <1>1, WithoutThem DEF CallType
  <2>4. x \in CallType /\ x.at = "sweeping"
    BY <1>1, <2>2, <2>3 DEF CallType
  <2>5. [calls EXCEPT ![c].rest = Without(@, {r})] = cs
    OBVIOUS
  <2> HIDE DEF x
  <2>6. Only(calls, cs, c) /\ cs[c] = x
    BY <1>1, <2>4, CallReplaced
  <2> HIDE DEF cs
  <2>7. Held(calls[c]) = 0 /\ Held(cs[c]) = 0
    BY <2>2, <2>4, <2>6 DEF Held
  <2>8. Living(cs, regs, queuedHooks)
    BY <1>1, <2>2, <2>6, <2>7, CallMoves, NotItsCall
  <2>9. Living(calls', regs', queuedHooks') /\ Only(cs, calls', c)
    <3>1. c \in 1..Len(cs) /\ cs[c].at = "sweeping"
      BY <1>1, <2>4, <2>6 DEF Only
    <3>2. UnregisterNow(cs, c, regs[r].name, "sweeping")
      BY <2>1, <2>5
    <3> QED BY <2>8, <3>1, <3>2, RemovalStarts
  <2>10. Only(calls, calls', c)
    BY <2>6, <2>9 DEF Only
  <2> QED BY <1>1, <2>2, <2>9, <2>10, MutatingOn
<1>4. CASE SweepEnds(c)
  <2>1. /\ calls[c].at = "sweeping" /\ calls' = [calls EXCEPT ![c].at = "ended"] /\ tornDown' = TRUE
        /\ UNCHANGED <<scenario, queue, busy, queuedHooks, regs, destroyed>>
    BY <1>4 DEF SweepEnds, Ended
  <2>2. Living(calls', regs', queuedHooks') /\ Only(calls, calls', c)
    BY <1>1, <2>1, GoesOn
  <2> QED BY <1>1, <2>1, <2>2, MutatingOn
<1>5. CASE SharedEnds(c)
  <2>1. /\ calls[c].at = "sharing" /\ calls' = [calls EXCEPT ![c].at = "ended"]
        /\ UNCHANGED <<scenario, queue, busy, queuedHooks, regs, destroyed, tornDown>>
    BY <1>5 DEF SharedEnds, Ended, clientVars
  <2>2. Living(calls', regs', queuedHooks') /\ Only(calls, calls', c)
    BY <1>1, <2>1, GoesOn
  <2> QED BY <1>1, <2>1, <2>2, MutatingOn
<1> QED BY <1>2, <1>3, <1>4, <1>5

---------------------------------------------------------------------------
(* PluginManager: the hooks *)

\* The hook of one registration goes on.
LEMMA HookMoves ==
  ASSUME NEW cs, Living(cs, regs, queuedHooks),
         NEW r \in Registrations, NEW g \in RegType, regs' = [regs EXCEPT ![r] = g],
         regs[r].place # "gone", g.name = regs[r].name, Life(cs, g, r),
         queuedHooks' \in Int, queuedHooks' + Hooked(regs[r]) = queuedHooks + Hooked(g)
  PROVE  Living(cs, regs', queuedHooks') /\ OnlyReg(regs, regs', r) /\ regs'[r] = g
<1>1. regs' \in Regs /\ OnlyReg(regs, regs', r) /\ regs'[r] = g
  BY DEF Living, Regs, OnlyReg
<1>2. /\ Life(cs, regs'[r], r) /\ regs'[r].name = regs[r].name
      /\ queuedHooks' + Hooked(regs[r]) = queuedHooks + Hooked(regs'[r])
  BY <1>1
<1>3. Living(cs, regs', queuedHooks')
  BY <1>1, <1>2, RegMoves
<1> QED BY <1>1, <1>3

LEMMA RegFields ==
  ASSUME NEW g \in RegType
  PROVE  g = [name |-> g.name, queued |-> g.queued, call |-> g.call, place |-> g.place,
              since |-> g.since, scope |-> g.scope, hook |-> g.hook]
BY DEF RegType

LEMMA InitMutates ==
  ASSUME Mutating, NEW r \in Registrations, InitContinues(r)
  PROVE  Mutating'
<1> DEFINE c == regs[r].call
<1>1. /\ Living(calls, regs, queuedHooks) /\ queuedHooks \in Nat /\ calls \in Calls
      /\ regs \in Regs /\ regs[r] \in RegType /\ Lives(calls, regs)
      /\ Life(calls, regs[r], r) /\ regs[r].place = "initializing" /\ regs[r].hook \in {"ended", "failed"}
  BY DEF Mutating, Living, Lives, Regs, InitContinues
<1>2. c \in 1..Len(calls) /\ calls[c].at = "hook" /\ calls[c].reg = r
  BY <1>1, CallsAsFunction DEF Life, RegType
<1>3. queuedHooks' \in Int /\ queuedHooks' + Hooked(regs[r]) = queuedHooks
  BY <1>1 DEF InitContinues, HookReleased, Hooked, Pending, RegType
<1>4. PICK g \in RegType :
        /\ regs' = [regs EXCEPT ![r] = g] /\ g.name = regs[r].name /\ g.call = c
        /\ g.place \in {"active", "gone"} /\ g.hook = "none"
        /\ g.place = "active" => g.since # 0 /\ g.scope = "active"
        /\ g.place = "gone" => g.since = 0 /\ g.scope = "closed"
  <2> DEFINE Turned(p, s, n) == [regs[r] EXCEPT !.place = p, !.hook = "none", !.scope = s, !.since = n]
  <2>1. ASSUME NEW p \in {"active", "gone"}, NEW s \in {"closed", "active"}, NEW n \in Nat
        PROVE  /\ Turned(p, s, n) \in RegType /\ Turned(p, s, n).name = regs[r].name
               /\ Turned(p, s, n).call = c /\ Turned(p, s, n).place = p
               /\ Turned(p, s, n).hook = "none" /\ Turned(p, s, n).since = n
               /\ Turned(p, s, n).scope = s
    <3>1. regs[r] \in RegType
      BY <1>1
    <3>2. Turned(p, s, n) \in RegType
      BY <3>1 DEF RegType
    <3>3. /\ Turned(p, s, n).name = regs[r].name /\ Turned(p, s, n).call = regs[r].call
          /\ Turned(p, s, n).place = p /\ Turned(p, s, n).hook = "none"
          /\ Turned(p, s, n).since = n /\ Turned(p, s, n).scope = s
      BY <3>1 DEF RegType
    <3> QED BY <3>2, <3>3
  <2>2. regs[r].since = 0
    BY <1>1 DEF Life
  <2>3. ASSUME regs[r].scope = "closed", regs' = [regs EXCEPT ![r].place = "gone", ![r].hook = "none"]
        PROVE  regs' = [regs EXCEPT ![r] = Turned("gone", "closed", 0)]
    BY <1>1, <2>2, <2>3, RegFields
  <2>4. ASSUME regs' = [regs EXCEPT ![r].place = "gone", ![r].hook = "none", ![r].scope = "closed"]
        PROVE  regs' = [regs EXCEPT ![r] = Turned("gone", "closed", 0)]
    BY <1>1, <2>2, <2>4, RegFields
  <2>5. ASSUME regs' = [regs EXCEPT ![r].place = "active", ![r].hook = "none", ![r].scope = "active",
                                    ![r].since = Added(Plugins, r)[r]]
        PROVE  regs' = [regs EXCEPT ![r] = Turned("active", "active", Added(Plugins, r)[r])]
    BY <2>5
  <2>6. Added(Plugins, r)[r] \in Nat \ {0}
    <3>1. Plugins \in Buckets(Registrations)
      BY <1>1, PluginsInOrder
    <3>2. Added(Plugins, r) \in Buckets(Registrations) /\ DOMAIN Added(Plugins, r) = DOMAIN Plugins \cup {r}
      BY <3>1, AddedLast, RegistrationsFinite
    <3> QED BY <3>2, BucketSet DEF IsBucket
  <2> HIDE DEF Turned
  <2>7. CASE regs' = [regs EXCEPT ![r] = Turned("gone", "closed", 0)]
    <3>1. LET g == Turned("gone", "closed", 0) IN
          /\ g \in RegType /\ g.name = regs[r].name /\ g.call = c /\ g.place = "gone"
          /\ g.hook = "none" /\ g.since = 0 /\ g.scope = "closed"
      BY <2>1
    <3> QED BY <2>7, <3>1
  <2>8. CASE regs' = [regs EXCEPT ![r] = Turned("active", "active", Added(Plugins, r)[r])]
    <3>1. LET g == Turned("active", "active", Added(Plugins, r)[r]) IN
          /\ g \in RegType /\ g.name = regs[r].name /\ g.call = c /\ g.place = "active"
          /\ g.hook = "none" /\ g.since # 0 /\ g.scope = "active"
      BY <2>1, <2>6
    <3> QED BY <2>8, <3>1
  <2> QED BY <2>3, <2>4, <2>5, <2>7, <2>8 DEF InitContinues
<1>5. Life(calls, g, r) /\ Hooked(g) = 0
  BY <1>1, <1>4 DEF Life, Hooked, Pending
<1>6. Living(calls, regs', queuedHooks') /\ OnlyReg(regs, regs', r) /\ regs'[r] = g
  <2>1. regs[r].place # "gone" /\ queuedHooks' + Hooked(regs[r]) = queuedHooks + Hooked(g)
    BY <1>1, <1>3, <1>5
  <2> QED BY <1>1, <1>3, <1>4, <1>5, <2>1, HookMoves
<1>7. /\ calls' = [calls EXCEPT ![c].at = "ended"]
      /\ UNCHANGED <<scenario, queue, busy, destroyed, tornDown>>
  BY DEF InitContinues, Ended, clientVars
<1> HIDE DEF c
<1>8. Only(calls, calls', c) /\ Held(calls[c]) = 0 /\ Held(calls'[c]) = 0
  <2>1. Only(calls, calls', c) /\ calls'[c] = [calls[c] EXCEPT !.at = "ended"] /\ calls[c] \in CallType
    BY <1>1, <1>2, <1>7, Advanced, CallsAsFunction
  <2> QED BY <1>2, <2>1 DEF Held, CallType
<1>9. \A s \in Registrations : regs'[s].place = "initializing" => regs'[s].call # c
  <2> SUFFICES ASSUME NEW s \in Registrations, regs'[s].place = "initializing" PROVE regs'[s].call # c
    OBVIOUS
  <2>1. s # r /\ regs'[s] = regs[s]
    BY <1>4, <1>6 DEF OnlyReg
  <2>2. Life(calls, regs[s], s)
    BY <1>1 DEF Lives
  <2> QED BY <1>2, <2>1, <2>2 DEF Life
<1>10. Living(calls', regs', queuedHooks')
  <2>1. queuedHooks' + Held(calls[c]) = queuedHooks' + Held(calls'[c])
    BY <1>8
  <2> QED BY <1>2, <1>3, <1>6, <1>8, <1>9, <2>1, CallMoves
<1>11. busy \in 0..Len(calls) /\ tornDown \in BOOLEAN
  BY DEF Mutating
<1> QED BY <1>2, <1>7, <1>8, <1>10, <1>11, MutatingOn

\* The other steps of a hook, and a step that changes neither call nor registration.
LEMMA HooksMutate ==
  ASSUME Mutating, NEW r \in Registrations,
         \/ TeardownStarts(r) \/ TeardownSettles(r) \/ TeardownForgotten(r)
         \/ \E result \in {"ended", "failed"} : HookEnds(r, result)
  PROVE  Mutating'
<1>1. /\ Living(calls, regs, queuedHooks) /\ queuedHooks \in Nat
      /\ regs \in Regs /\ regs[r] \in RegType
      /\ Life(calls, regs[r], r) /\ busy \in 0..Len(calls) /\ tornDown \in BOOLEAN
  BY DEF Mutating, Living, Lives, Regs
<1>2. SUFFICES Living(calls, regs', queuedHooks')
  <2>1. UNCHANGED <<scenario, calls, queue, busy, destroyed, tornDown>>
    BY DEF TeardownStarts, TeardownSettles, TeardownForgotten, HookEnds, clientVars
  <2> QED BY <1>1, <2>1, MutatingOn
<1> DEFINE Turned(p, h) == [regs[r] EXCEPT !.place = p, !.hook = h]
<1>3. ASSUME NEW p \in {"initializing", "removed", "gone"},
             NEW h \in {"none", "running", "ended", "failed", "settled"}
      PROVE  /\ Turned(p, h) \in RegType /\ Turned(p, h).name = regs[r].name
             /\ Turned(p, h).call = regs[r].call /\ Turned(p, h).place = p /\ Turned(p, h).hook = h
             /\ Turned(p, h).since = regs[r].since /\ Turned(p, h).scope = regs[r].scope
             /\ Turned(p, h).queued = regs[r].queued
             /\ [regs EXCEPT ![r].place = p, ![r].hook = h] = [regs EXCEPT ![r] = Turned(p, h)]
             /\ regs[r].place = p => [regs EXCEPT ![r].hook = h] = [regs EXCEPT ![r] = Turned(p, h)]
  BY <1>1 DEF RegType
<1> HIDE DEF Turned
<1>4. ASSUME NEW p \in {"initializing", "removed", "gone"},
             NEW h \in {"none", "running", "ended", "failed", "settled"},
             regs' = [regs EXCEPT ![r] = Turned(p, h)], regs[r].place \in {"initializing", "removed"},
             p = "gone" => h = "none" /\ regs[r].place = "removed",
             p = "removed" => h # "none" /\ regs[r].place = "removed",
             p = "initializing" => h \in Pending /\ regs[r].place = "initializing",
             queuedHooks' \in Int,
             queuedHooks' + Hooked(regs[r]) = queuedHooks + Hooked(Turned(p, h))
      PROVE  Living(calls, regs', queuedHooks')
  <2>1. Life(calls, Turned(p, h), r)
    BY <1>1, <1>3, <1>4 DEF Life, Pending
  <2>2. Turned(p, h) \in RegType /\ Turned(p, h).name = regs[r].name /\ regs[r].place # "gone"
    BY <1>3, <1>4
  <2> QED BY <1>1, <1>4, <2>1, <2>2, HookMoves
<1>5. \A p \in {"initializing", "removed", "gone"},
         h \in {"none", "running", "ended", "failed", "settled"} :
        Hooked(Turned(p, h)) = IF regs[r].queued /\ h \in Pending THEN 1 ELSE 0
  BY <1>3 DEF Hooked
<1>6. Hooked(regs[r]) = IF regs[r].queued /\ regs[r].hook \in Pending THEN 1 ELSE 0
  BY DEF Hooked
<1>7. CASE TeardownStarts(r)
  <2>1. regs[r].hook = "due" /\ regs[r].place = "removed"
    BY <1>1, <1>7 DEF TeardownStarts, Life, Pending, RegType
  <2>2. CASE regs' = [regs EXCEPT ![r].hook = "settled"] /\ UNCHANGED queuedHooks
    <3>1. regs' = [regs EXCEPT ![r] = Turned("removed", "settled")]
      BY <1>3, <2>1, <2>2
    <3>2. /\ Hooked(regs[r]) = 0
          /\ Hooked(Turned("removed", "settled")) = 0
      BY <1>5, <1>6, <2>1 DEF Pending
    <3>3. /\ queuedHooks' \in Int
          /\ queuedHooks' + Hooked(regs[r]) = queuedHooks + Hooked(Turned("removed", "settled"))
      BY <1>1, <2>2, <3>2
    <3> QED BY <1>4, <2>1, <3>1, <3>3
  <2>3. CASE /\ regs' = [regs EXCEPT ![r].hook = "running"]
             /\ queuedHooks' = IF regs[r].queued THEN queuedHooks + 1 ELSE queuedHooks
    <3>1. regs' = [regs EXCEPT ![r] = Turned("removed", "running")]
      BY <1>3, <2>1, <2>3
    <3>2. /\ Hooked(regs[r]) = 0
          /\ Hooked(Turned("removed", "running")) = IF regs[r].queued THEN 1 ELSE 0
      BY <1>5, <1>6, <2>1 DEF Pending
    <3>3. /\ queuedHooks' \in Int
          /\ queuedHooks' + Hooked(regs[r]) = queuedHooks + Hooked(Turned("removed", "running"))
      BY <1>1, <2>3, <3>2
    <3> QED BY <1>4, <2>1, <3>1, <3>3
  <2> QED BY <1>7, <2>2, <2>3 DEF TeardownStarts
<1>8. CASE TeardownSettles(r)
  <2>1. regs[r].place = "removed" /\ regs[r].hook \in {"ended", "failed"}
    BY <1>8 DEF TeardownSettles
  <2>2. regs' = [regs EXCEPT ![r] = Turned("removed", "settled")]
    BY <1>3, <1>8, <2>1 DEF TeardownSettles
  <2>3. queuedHooks' = IF regs[r].queued THEN queuedHooks - 1 ELSE queuedHooks
    BY <1>8 DEF TeardownSettles, HookReleased
  <2> QED BY <1>1, <1>4, <1>5, <1>6, <2>1, <2>2, <2>3 DEF Pending
<1>9. CASE TeardownForgotten(r)
  <2>1. regs[r].hook = "settled" /\ regs[r].place = "removed"
    BY <1>1, <1>9 DEF TeardownForgotten, Life, Pending, RegType
  <2>2. regs' = [regs EXCEPT ![r] = Turned("gone", "none")] /\ queuedHooks' = queuedHooks
    BY <1>3, <1>9 DEF TeardownForgotten
  <2> QED BY <1>1, <1>4, <1>5, <1>6, <2>1, <2>2 DEF Pending
<1>10. ASSUME NEW result \in {"ended", "failed"}, HookEnds(r, result)
       PROVE  Living(calls, regs', queuedHooks')
  <2>1. regs[r].hook = "running" /\ regs[r].place \in {"initializing", "removed"}
    BY <1>1, <1>10 DEF HookEnds, Free, Life, RegType
  <2>2. queuedHooks' = queuedHooks /\ regs' = [regs EXCEPT ![r].hook = result]
    BY <1>10 DEF HookEnds
  <2>3. ASSUME NEW p \in {"initializing", "removed"}, regs[r].place = p
        PROVE  Living(calls, regs', queuedHooks')
    <3>1. regs' = [regs EXCEPT ![r] = Turned(p, result)]
      <4>1. [regs EXCEPT ![r].hook = result] = [regs EXCEPT ![r] = Turned(p, result)]
        BY <1>1, <2>3, RegFields DEF Turned
      <4> QED BY <2>2, <4>1
    <3>2. Hooked(regs[r]) = Hooked(Turned(p, result))
      BY <1>5, <1>6, <2>1 DEF Pending
    <3>3. queuedHooks' \in Int /\ queuedHooks' + Hooked(regs[r]) = queuedHooks + Hooked(Turned(p, result))
      BY <1>1, <2>2, <3>2
    <3> QED BY <1>4, <2>3, <3>1, <3>3 DEF Pending
  <2> QED BY <2>1, <2>3
<1> QED BY <1>7, <1>8, <1>9, <1>10

---------------------------------------------------------------------------
(* PluginManager: the resources of a scope *)

LEMMA HandlersFinite ==
  /\ IsFiniteSet(Handlers)
  /\ \A r \in Registrations, kind \in {"on", "once"} : <<r, kind>> \in Handlers /\ <<r, kind>> # PageHandler
  /\ PageHandler \in Handlers
<1>1. IsFiniteSet({"on", "once"}) /\ IsFiniteSet({PageHandler})
  <2>1. IsFiniteSet({"on"}) /\ IsFiniteSet({"once"}) /\ IsFiniteSet({PageHandler})
    BY FS_Singleton
  <2>2. IsFiniteSet({"on"} \cup {"once"}) /\ {"on", "once"} = {"on"} \cup {"once"}
    BY <2>1, FS_Union
  <2> QED BY <2>1, <2>2
<1>2. IsFiniteSet(Subscription)
  BY <1>1, RegistrationsFinite, FS_Product DEF Subscription
<1>3. IsFiniteSet(Handlers)
  BY <1>1, <1>2, HandlersAssumption, FS_Union
<1> QED BY <1>3, HandlersAssumption, RegistrationsFinite DEF Subscription, PageHandler

\* The buckets of some members grow by members.
Grows(members) ==
  \A b \in Buckets(members), h \in members :
    Added(b, h) \in Buckets(members) /\ DOMAIN Added(b, h) = DOMAIN b \cup {h}

LEMMA BucketsGrow ==
  ASSUME NEW M, IsFiniteSet(M)
  PROVE  Grows(M)
<1>1. ASSUME NEW b \in Buckets(M), NEW h \in M
      PROVE  Added(b, h) \in Buckets(M) /\ DOMAIN Added(b, h) = DOMAIN b \cup {h}
  <2>1. Added(b, h) \in Buckets(M)
    BY AddedLast
  <2> QED BY <2>1 DEF Added
<1> QED BY <1>1 DEF Grows

LEMMA AddedIn ==
  /\ \A b \in Buckets(Registrations), r \in Registrations :
       Added(b, r) \in Buckets(Registrations) /\ DOMAIN Added(b, r) = DOMAIN b \cup {r}
  /\ \A b \in Buckets(Handlers), h \in Handlers :
       Added(b, h) \in Buckets(Handlers) /\ DOMAIN Added(b, h) = DOMAIN b \cup {h}
<1>1. IsFiniteSet(Registrations) /\ IsFiniteSet(Handlers)
  BY RegistrationsFinite, HandlersFinite
<1>2. Grows(Registrations) /\ Grows(Handlers)
  BY <1>1, BucketsGrow
<1> QED BY <1>2 DEF Grows

\* No registration but those of `rs` stops being active, or closes its scope.
Kept(rs) ==
  \A r \in Registrations \ rs :
    /\ regs[r].place = "active" => regs'[r].place = "active"
    /\ regs[r].scope # "closed" => regs'[r].scope # "closed"

LEMMA ScopedKept ==
  ASSUME Scoped, UNCHANGED <<scenario, resourceVars>>, Kept({})
  PROVE  Scoped'
<1>1. UNCHANGED <<scenario, made, holds, cleanups, stack, shown, regular, once>>
  BY DEF resourceVars
<1> QED BY <1>1, BucketSet DEF Scoped, Kept, IsBucket, Ordered

LEMMA ScopedClosed ==
  ASSUME Scoped, NEW rs \in SUBSET Registrations, Close(rs), UNCHANGED scenario, Kept(rs)
  PROVE  Scoped'
<1>1. /\ UNCHANGED <<scenario, made>>
      /\ holds' = [r \in Registrations |-> IF r \in rs THEN {} ELSE holds[r]]
      /\ cleanups' = cleanups \ rs /\ stack' = Without(stack, rs) /\ shown' = ShownAfter(rs)
      /\ regular' = Without(regular, rs \X {"on"}) /\ once' = Without(once, rs \X {"once"})
  BY DEF Close
<1>2. /\ stack \in Buckets(Registrations) /\ regular \in Buckets(Handlers) /\ once \in Buckets(Handlers)
      /\ Ordered(stack) /\ shown = Top(stack) /\ cleanups \subseteq Registrations
      /\ made \in [Registrations -> SUBSET scenario.kinds]
      /\ holds \in [Registrations -> SUBSET scenario.kinds]
      /\ \A r \in Registrations : holds[r] \subseteq made[r]
      /\ \A r \in cleanups : regs[r].scope # "closed"
      /\ \A r \in DOMAIN stack : regs[r].place = "active" /\ "layer" \in made[r]
      /\ \A r \in Registrations :
           <<r, "on">> \in DOMAIN regular \/ <<r, "once">> \in DOMAIN once => regs[r].place = "active"
  BY DEF Scoped
<1>3. /\ stack' \in Buckets(Registrations) /\ DOMAIN stack' = DOMAIN stack \ rs
      /\ regular' \in Buckets(Handlers) /\ DOMAIN regular' = DOMAIN regular \ (rs \X {"on"})
      /\ once' \in Buckets(Handlers) /\ DOMAIN once' = DOMAIN once \ (rs \X {"once"})
  <2>1. stack \in Buckets(Registrations) /\ stack' = Without(stack, rs)
    BY <1>1, <1>2
  <2>2. regular \in Buckets(Handlers) /\ regular' = Without(regular, rs \X {"on"})
    BY <1>1, <1>2
  <2>3. once \in Buckets(Handlers) /\ once' = Without(once, rs \X {"once"})
    BY <1>1, <1>2
  <2>4. stack' \in Buckets(Registrations) /\ DOMAIN stack' = DOMAIN stack \ rs
    BY <2>1, WithoutThem
  <2>5. regular' \in Buckets(Handlers) /\ DOMAIN regular' = DOMAIN regular \ (rs \X {"on"})
    BY <2>2, WithoutThem
  <2>6. once' \in Buckets(Handlers) /\ DOMAIN once' = DOMAIN once \ (rs \X {"once"})
    BY <2>3, WithoutThem
  <2> QED BY <2>4, <2>5, <2>6
<1>4. Ordered(stack') /\ shown' = Top(stack')
  BY <1>1, <1>2, LayersRemoved DEF ShownAfter
<1>5. DOMAIN stack \subseteq Registrations
  BY <1>2, BucketSet DEF IsBucket
<1>6. \A r \in DOMAIN stack' : regs'[r].place = "active" /\ "layer" \in made'[r]
  BY <1>1, <1>2, <1>3, <1>5 DEF Kept
<1>7. \A r \in cleanups' : regs'[r].scope # "closed"
  BY <1>1, <1>2 DEF Kept
<1>8. ASSUME NEW r \in Registrations, <<r, "on">> \in DOMAIN regular' \/ <<r, "once">> \in DOMAIN once'
      PROVE  regs'[r].place = "active"
  <2>1. r \notin rs
    BY <1>3, <1>8
  <2> QED BY <1>2, <1>3, <1>8, <2>1 DEF Kept
<1>9. /\ holds' \in [Registrations -> SUBSET scenario.kinds]
      /\ \A r \in Registrations : holds'[r] \subseteq made[r]
      /\ cleanups' \subseteq Registrations
  BY <1>1, <1>2
<1> QED BY <1>1, <1>2, <1>3, <1>4, <1>6, <1>7, <1>8, <1>9 DEF Scoped

\* What an active scope acquires.
LEMMA ScopedAcquired ==
  ASSUME Scoped, NEW r \in Registrations, NEW kinds \in SUBSET Kinds, Acquire(r, kinds),
         UNCHANGED scenario, Kept({}), regs'[r].place = "active",
         \A s \in Registrations : made[s] \subseteq made'[s] /\ holds'[s] \subseteq made'[s],
         made' \in [Registrations -> SUBSET scenario.kinds],
         holds' \in [Registrations -> SUBSET scenario.kinds],
         cleanups' \in SUBSET Registrations, \A s \in cleanups' : regs'[s].scope # "closed",
         "layer" \in kinds => r \notin DOMAIN stack /\ "layer" \in made'[r]
  PROVE  Scoped'
<1>1. /\ stack \in Buckets(Registrations) /\ regular \in Buckets(Handlers) /\ once \in Buckets(Handlers)
      /\ Ordered(stack) /\ shown = Top(stack)
      /\ \A s \in DOMAIN stack : regs[s].place = "active" /\ "layer" \in made[s]
      /\ \A s \in Registrations :
           <<s, "on">> \in DOMAIN regular \/ <<s, "once">> \in DOMAIN once => regs[s].place = "active"
  BY DEF Scoped
<1>2. DOMAIN stack \subseteq Registrations
  BY <1>1, BucketSet DEF IsBucket
<1>3. /\ stack' \in Buckets(Registrations) /\ Ordered(stack') /\ shown' = Top(stack')
      /\ \A s \in DOMAIN stack' : regs'[s].place = "active" /\ "layer" \in made'[s]
  <2>1. CASE "layer" \in kinds
    <3>1. stack' = Added(stack, r) /\ shown' = r
      BY <2>1 DEF Acquire
    <3>2. stack' \in Buckets(Registrations) /\ DOMAIN stack' = DOMAIN stack \cup {r}
      <4>1. stack \in Buckets(Registrations) /\ IsFiniteSet(Registrations)
        BY <1>1, RegistrationsFinite
      <4>2. Added(stack, r) \in Buckets(Registrations) /\ DOMAIN Added(stack, r) = DOMAIN stack \cup {r}
        BY <4>1, AddedIn
      <4> QED BY <3>1, <4>2
    <3>3. Ordered(stack') /\ shown' = Top(stack')
      BY <1>1, <2>1, <3>1, LayerAdded
    <3> QED BY <1>1, <1>2, <2>1, <3>2, <3>3 DEF Kept
  <2>2. CASE "layer" \notin kinds
    <3>1. stack' = stack /\ shown' = shown
      BY <2>2 DEF Acquire
    <3> QED BY <1>1, <1>2, <3>1 DEF Kept
  <2> QED BY <2>1, <2>2
<1>4. /\ regular' \in Buckets(Handlers) /\ DOMAIN regular' \subseteq DOMAIN regular \cup {<<r, "on">>}
      /\ once' \in Buckets(Handlers) /\ DOMAIN once' \subseteq DOMAIN once \cup {<<r, "once">>}
  <2>1. /\ regular' = IF "on" \in kinds THEN Added(regular, <<r, "on">>) ELSE regular
        /\ once' = IF "once" \in kinds THEN Added(once, <<r, "once">>) ELSE once
    BY DEF Acquire
  <2>2. <<r, "on">> \in Handlers /\ <<r, "once">> \in Handlers
    BY HandlersFinite
  <2>3. /\ Added(regular, <<r, "on">>) \in Buckets(Handlers)
        /\ DOMAIN Added(regular, <<r, "on">>) = DOMAIN regular \cup {<<r, "on">>}
    <3>1. regular \in Buckets(Handlers) /\ IsFiniteSet(Handlers)
      BY <1>1, HandlersFinite
    <3> QED BY <2>2, <3>1, AddedIn
  <2>4. /\ Added(once, <<r, "once">>) \in Buckets(Handlers)
        /\ DOMAIN Added(once, <<r, "once">>) = DOMAIN once \cup {<<r, "once">>}
    <3>1. once \in Buckets(Handlers) /\ IsFiniteSet(Handlers)
      BY <1>1, HandlersFinite
    <3> QED BY <2>2, <3>1, AddedIn
  <2> QED BY <1>1, <2>1, <2>3, <2>4
<1>5. ASSUME NEW s \in Registrations, <<s, "on">> \in DOMAIN regular' \/ <<s, "once">> \in DOMAIN once'
      PROVE  regs'[s].place = "active"
  <2>1. s = r \/ <<s, "on">> \in DOMAIN regular \/ <<s, "once">> \in DOMAIN once
    BY <1>4, <1>5
  <2> QED BY <1>1, <2>1 DEF Kept
<1> QED BY <1>3, <1>4, <1>5 DEF Scoped

\* What the page and the emissions do to the buckets.
LEMMA ScopedEmitted ==
  ASSUME Scoped, UNCHANGED <<scenario, regs, made, cleanups, stack, shown>>,
         holds' \in [Registrations -> SUBSET scenario.kinds],
         \A r \in Registrations : holds'[r] \subseteq holds[r],
         regular' \in Buckets(Handlers), once' \in Buckets(Handlers),
         DOMAIN regular' \subseteq DOMAIN regular,
         DOMAIN once' \subseteq DOMAIN once \cup {PageHandler}
  PROVE  Scoped'
<1>1. \A r \in Registrations : <<r, "once">> # PageHandler
  BY HandlersFinite
<1> QED BY <1>1, BucketSet DEF Scoped, Ordered, IsBucket

LEMMA ScenarioKinds ==
  ASSUME Mutating
  PROVE  scenario.kinds \subseteq Kinds /\ scenario.emissions \subseteq Emissions
BY ManagerAssumption DEF Mutating

\* A registration that stays active and open, or that was neither.
LEMMA KeptOne ==
  ASSUME regs \in Regs, NEW r \in Registrations, NEW g, regs' = [regs EXCEPT ![r] = g]
  PROVE  /\ Kept({r})
         /\ (regs[r].place = "active" => g.place = "active")
              /\ (regs[r].scope # "closed" => g.scope # "closed") => Kept({})
BY DEF Regs, Kept

LEMMA RemovalScoped ==
  ASSUME Scoped, regs \in Regs, UNCHANGED scenario,
         NEW cs, NEW c, NEW name, NEW onward, UnregisterNow(cs, c, name, onward)
  PROVE  Scoped'
<1>1. ASSUME NEW r \in At("initializing", name), regs' = [regs EXCEPT ![r].scope = "closed"], Close({r})
      PROVE  Scoped'
  <2>1. r \in Registrations
    BY DEF At
  <2>2. Kept({r})
    BY <1>1, <2>1, KeptOne
  <2> QED BY <1>1, <2>1, <2>2, ScopedClosed
<1>2. CASE UNCHANGED <<regs, resourceVars>>
  BY <1>2, ScopedKept DEF Kept
<1>3. ASSUME NEW r \in At("active", name), Close({r}),
             regs' = [regs EXCEPT ![r] = [@ EXCEPT !.place = "removed", !.since = 0, !.scope = "closed",
                                             !.hook = "due", !.queued = cs[c].queued]]
      PROVE  Scoped'
  <2>1. r \in Registrations
    BY DEF At
  <2>2. Kept({r})
    BY <1>3, <2>1, KeptOne
  <2> QED BY <1>3, <2>1, <2>2, ScopedClosed
<1> QED BY <1>1, <1>2, <1>3 DEF UnregisterNow

LEMMA StartScoped ==
  ASSUME Scoped, regs \in Regs, UNCHANGED scenario, NEW cs, NEW c, Starts(cs, c)
  PROVE  Scoped'
<1>1. CASE UseStarts(cs, c)
  <2>1. CASE UNCHANGED <<regs, resourceVars>>
    BY <2>1, ScopedKept DEF Kept
  <2>2. ASSUME NEW r \in Registrations, regs[r].place = "unused", UNCHANGED resourceVars,
               regs' = [regs EXCEPT ![r] = [@ EXCEPT !.name = cs[c].name, !.queued = cs[c].queued,
                                       !.call = c, !.place = "initializing", !.hook = "running"]]
        PROVE  Scoped'
    <3> DEFINE g == [regs[r] EXCEPT !.name = cs[c].name, !.queued = cs[c].queued,
                                    !.call = c, !.place = "initializing", !.hook = "running"]
    <3>1. regs[r] \in RegType
      BY DEF Regs
    <3>2. g.scope = regs[r].scope
      BY <3>1 DEF RegType
    <3>3. regs' = [regs EXCEPT ![r] = g]
      BY <2>2
    <3> HIDE DEF g
    <3>4. Kept({})
      BY <2>2, <3>2, <3>3, KeptOne
    <3> QED BY <2>2, <3>4, ScopedKept
  <2> QED BY <1>1, <2>1, <2>2 DEF UseStarts
<1>2. CASE DestroyStarts(cs, c)
  <2> DEFINE pending == {r \in Registrations : regs[r].place = "initializing"}
  <2>1. /\ Close(pending) /\ pending \in SUBSET Registrations
        /\ regs' = [r \in Registrations |->
                      IF r \in pending THEN [regs[r] EXCEPT !.scope = "closed"] ELSE regs[r]]
    BY <1>2 DEF DestroyStarts
  <2> HIDE DEF pending
  <2>2. Kept(pending)
    BY <2>1 DEF Kept
  <2> QED BY <2>1, <2>2, ScopedClosed
<1> QED BY <1>1, <1>2, RemovalScoped DEF Starts

LEMMA InitScoped ==
  ASSUME Mutating, Scoped, regs \in Regs, NEW r \in Registrations, InitContinues(r)
  PROVE  Scoped'
<1>1. /\ regs[r] \in RegType /\ regs[r].place = "initializing" /\ UNCHANGED scenario
  BY DEF InitContinues, Regs
<1>2. CASE regs' = [regs EXCEPT ![r].place = "gone", ![r].hook = "none"] /\ UNCHANGED resourceVars
  <2> DEFINE g == [regs[r] EXCEPT !.place = "gone", !.hook = "none"]
  <2>1. regs' = [regs EXCEPT ![r] = g] /\ g.scope = regs[r].scope
    BY <1>1, <1>2 DEF RegType
  <2> HIDE DEF g
  <2>2. Kept({})
    BY <1>1, <2>1, KeptOne
  <2> QED BY <1>1, <1>2, <2>2, ScopedKept
<1>3. CASE /\ regs' = [regs EXCEPT ![r].place = "gone", ![r].hook = "none", ![r].scope = "closed"]
           /\ Close({r})
  <2>1. regs' = [regs EXCEPT ![r] = [regs[r] EXCEPT !.place = "gone", !.hook = "none", !.scope = "closed"]]
    BY <1>3
  <2>2. Kept({r})
    BY <2>1, KeptOne
  <2> QED BY <1>1, <1>3, <2>2, ScopedClosed
<1>4. CASE /\ regs' = [regs EXCEPT ![r].place = "active", ![r].hook = "none", ![r].scope = "active",
                                   ![r].since = Added(Plugins, r)[r]]
           /\ Acquire(r, holds[r]) /\ UNCHANGED <<made, holds, cleanups>>
  <2> DEFINE g == [regs[r] EXCEPT !.place = "active", !.hook = "none", !.scope = "active",
                                  !.since = Added(Plugins, r)[r]]
  <2>1. regs' = [regs EXCEPT ![r] = g] /\ g.scope = "active" /\ g.place = "active"
    BY <1>1, <1>4 DEF RegType
  <2> HIDE DEF g
  <2>2. Kept({}) /\ regs'[r].place = "active"
    BY <2>1, KeptOne DEF Regs
  <2>3. /\ holds[r] \in SUBSET scenario.kinds
        /\ \A s \in Registrations : holds[s] \subseteq made[s]
        /\ made \in [Registrations -> SUBSET scenario.kinds]
        /\ holds \in [Registrations -> SUBSET scenario.kinds]
        /\ cleanups \in SUBSET Registrations
        /\ \A s \in cleanups : regs[s].scope # "closed"
        /\ r \notin DOMAIN stack
    BY <1>1 DEF Scoped
  <2>4. holds[r] \in SUBSET Kinds
    BY <2>3, ScenarioKinds
  <2>5. \A s \in cleanups : regs'[s].scope # "closed"
    BY <2>2, <2>3 DEF Kept
  <2>6. Acquire(r, holds[r]) /\ made' = made /\ holds' = holds /\ cleanups' = cleanups
    BY <1>4
  <2> QED BY <1>1, <2>2, <2>3, <2>4, <2>5, <2>6, ScopedAcquired
<1> QED BY <1>2, <1>3, <1>4 DEF InitContinues

LEMMA RegisterScoped ==
  ASSUME Scoped, regs \in Regs, Lives(calls, regs), scenario \in Scenarios,
         NEW r \in Registrations, NEW kind \in Kinds, Register(r, kind)
  PROVE  Scoped'
<1>1. /\ UNCHANGED <<scenario, regs>> /\ regs[r].scope # "closed" /\ regs[r].place # "unused"
      /\ kind \in scenario.kinds \ made[r]
      /\ made' = [made EXCEPT ![r] = @ \cup {kind}] /\ holds' = [holds EXCEPT ![r] = @ \cup {kind}]
      /\ cleanups' = IF kind = "cleanup" THEN cleanups \cup {r} ELSE cleanups
  BY DEF Register, callVars
<1>2. /\ made \in [Registrations -> SUBSET scenario.kinds]
      /\ holds \in [Registrations -> SUBSET scenario.kinds]
      /\ \A s \in Registrations : holds[s] \subseteq made[s]
      /\ cleanups \subseteq Registrations /\ \A s \in cleanups : regs[s].scope # "closed"
      /\ \A s \in DOMAIN stack : regs[s].place = "active" /\ "layer" \in made[s]
  BY DEF Scoped
<1>3. /\ made' \in [Registrations -> SUBSET scenario.kinds] /\ made'[r] = made[r] \cup {kind}
      /\ holds' \in [Registrations -> SUBSET scenario.kinds]
      /\ \A s \in Registrations : made[s] \subseteq made'[s] /\ holds'[s] \subseteq made'[s]
  BY <1>1, <1>2
<1>4. cleanups' \in SUBSET Registrations /\ \A s \in cleanups' : regs'[s].scope # "closed"
  BY <1>1, <1>2
<1>5. Kept({})
  BY <1>1 DEF Kept
<1>6. CASE regs[r].scope = "active"
  <2>1. regs'[r].place = "active"
    BY <1>1, <1>6 DEF Lives, Life, Regs, RegType
  <2>2. Acquire(r, {kind})
    BY <1>6 DEF Register
  <2>3. "layer" \in {kind} => r \notin DOMAIN stack /\ "layer" \in made'[r]
    BY <1>1, <1>2, <1>3
  <2>4. {kind} \in SUBSET Kinds
    OBVIOUS
  <2> QED BY <1>1, <1>3, <1>4, <1>5, <2>1, <2>2, <2>3, <2>4, ScopedAcquired
<1>7. CASE regs[r].scope # "active"
  <2>1. UNCHANGED <<stack, shown, regular, once>>
    BY <1>7 DEF Register
  <2>2. DOMAIN stack \subseteq Registrations
    BY BucketSet DEF Scoped, IsBucket
  <2>3. \A s \in DOMAIN stack : regs'[s].place = "active" /\ "layer" \in made'[s]
    BY <1>1, <1>2, <1>3, <2>2
  <2> QED BY <1>1, <1>3, <1>4, <2>1, <2>3 DEF Scoped, Ordered
<1> QED BY <1>6, <1>7

LEMMA HandlerScoped ==
  ASSUME Scoped, NEW e, NEW h \in Handlers, HandlerRuns(e, h)
  PROVE  Scoped'
<1>1. UNCHANGED <<scenario, regs, made, cleanups, stack, shown, regular>>
  BY DEF HandlerRuns, callVars
<1>2. /\ holds \in [Registrations -> SUBSET scenario.kinds]
      /\ regular \in Buckets(Handlers) /\ once \in Buckets(Handlers)
  BY DEF Scoped
<1>3. /\ holds' \in [Registrations -> SUBSET scenario.kinds]
      /\ \A r \in Registrations : holds'[r] \subseteq holds[r]
      /\ once' \in Buckets(Handlers) /\ DOMAIN once' \subseteq DOMAIN once
  <2>1. CASE UNCHANGED <<holds, once>>
    BY <1>2, <2>1
  <2>2. CASE holds' = [holds EXCEPT ![h[1]] = @ \ {"once"}] /\ once' = Without(once, {h})
    <3>1. once' \in Buckets(Handlers) /\ DOMAIN once' = DOMAIN once \ {h}
      BY <1>2, <2>2, WithoutThem
    <3> QED BY <1>2, <2>2, <3>1
  <2> QED BY <2>1, <2>2 DEF HandlerRuns, Consumes
<1> QED BY <1>1, <1>2, <1>3, ScopedEmitted

LEMMA EmissionScoped ==
  ASSUME Scoped, (\E e \in Emissions : EmissionStep(e)) \/ PageSubscribes \/ (\E c : SweepEnds(c))
  PROVE  Scoped'
<1>1. /\ holds \in [Registrations -> SUBSET scenario.kinds]
      /\ regular \in Buckets(Handlers) /\ once \in Buckets(Handlers)
  BY DEF Scoped
<1>2. UNCHANGED <<scenario, regs, made, holds, cleanups, stack, shown>>
  BY DEF EmissionStep, PageSubscribes, SweepEnds, callVars
<1>3. Empty \in Buckets(Handlers) /\ DOMAIN Empty = {}
  BY EmptyBucket
<1>4. /\ regular' \in Buckets(Handlers) /\ DOMAIN regular' \subseteq DOMAIN regular
      /\ once' \in Buckets(Handlers) /\ DOMAIN once' \subseteq DOMAIN once \cup {PageHandler}
  <2>1. CASE \E e \in Emissions : EmissionStep(e)
    BY <1>1, <1>3, <2>1 DEF EmissionStep, Emit, Returns, TakeOnce, EmissionEnds, EmissionStops
  <2>2. CASE PageSubscribes
    <3>1. regular' = regular /\ once' = Added(once, PageHandler)
      BY <2>2 DEF PageSubscribes
    <3>2. PageHandler \in Handlers
      BY HandlersFinite
    <3> QED BY <1>1, <3>1, <3>2, AddedIn
  <2>3. CASE \E c : SweepEnds(c)
    BY <1>3, <2>3 DEF SweepEnds
  <2> QED BY <2>1, <2>2, <2>3
<1> QED BY <1>1, <1>2, <1>4, ScopedEmitted

\* The other steps acquire and release nothing.
LEMMA HooksScoped ==
  ASSUME Scoped, regs \in Regs, Lives(calls, regs),
         \/ QueueGoesOn \/ \E c \in DOMAIN calls : RemovalEnds(c) \/ SharedEnds(c)
         \/ \E r \in Registrations :
              \/ TeardownStarts(r) \/ TeardownSettles(r) \/ TeardownForgotten(r)
              \/ \E result \in {"ended", "failed"} : HookEnds(r, result)
  PROVE  Scoped'
<1>1. UNCHANGED <<scenario, resourceVars>>
  BY DEF QueueGoesOn, RemovalEnds, SharedEnds, TeardownStarts, TeardownSettles, TeardownForgotten,
         HookEnds
<1>2. SUFFICES Kept({})
  BY <1>1, ScopedKept
<1>3. CASE UNCHANGED regs
  BY <1>3 DEF Kept
<1>4. ASSUME NEW r \in Registrations, NEW h, regs' = [regs EXCEPT ![r].hook = h]
      PROVE  Kept({})
  BY <1>4 DEF Kept, Regs, RegType
<1>5. ASSUME NEW r \in Registrations, TeardownForgotten(r)
      PROVE  Kept({})
  <2>1. regs[r].place # "active"
    BY <1>5 DEF TeardownForgotten, Lives, Life
  <2> QED BY <1>5, <2>1 DEF TeardownForgotten, Kept, Regs, RegType
<1> QED BY <1>3, <1>4, <1>5 DEF QueueGoesOn, RemovalEnds, SharedEnds, TeardownStarts,
                                TeardownSettles, HookEnds

---------------------------------------------------------------------------
(* PluginManager: the handlers to be called *)

\* Nothing is called, and nothing comes back to the buckets.
LEMMA CallingKept ==
  ASSUME Calling, UNCHANGED <<emission, called>>,
         \A r \in Registrations : made[r] \subseteq made'[r],
         \A r \in Registrations :
           "once" \in holds'[r] => "once" \in holds[r] \/ "once" \notin made[r],
         PageHandler \in DOMAIN regular' => PageHandler \in DOMAIN regular,
         PageHandler \in DOMAIN once' => PageHandler \in DOMAIN once
  PROVE  Calling'
<1>1. Spent'
  BY DEF Calling, Spent
<1>2. PageWaits'
  BY DEF Calling, PageWaits, Snapshots
<1> QED BY <1>1, <1>2 DEF Calling

LEMMA CallingClosed ==
  ASSUME Calling, Scoped, NEW rs \in SUBSET Registrations, Close(rs), UNCHANGED <<emission, called>>
  PROVE  Calling'
<1>1. /\ made' = made
      /\ holds' = [r \in Registrations |-> IF r \in rs THEN {} ELSE holds[r]]
      /\ regular' = Without(regular, rs \X {"on"}) /\ once' = Without(once, rs \X {"once"})
  BY DEF Close
<1>2. DOMAIN regular' \subseteq DOMAIN regular /\ DOMAIN once' \subseteq DOMAIN once
  BY <1>1 DEF Without
<1> QED BY <1>1, <1>2, CallingKept

LEMMA CallingAcquired ==
  ASSUME Calling, NEW r \in Registrations, NEW kinds, Acquire(r, kinds), UNCHANGED <<emission, called>>,
         \A s \in Registrations : made[s] \subseteq made'[s],
         \A s \in Registrations :
           "once" \in holds'[s] => "once" \in holds[s] \/ "once" \notin made[s]
  PROVE  Calling'
<1>1. PageHandler \notin {<<r, "on">>, <<r, "once">>}
  BY HandlersFinite
<1>2. /\ DOMAIN regular' \subseteq DOMAIN regular \cup {<<r, "on">>}
      /\ DOMAIN once' \subseteq DOMAIN once \cup {<<r, "once">>}
  BY DEF Acquire, Added
<1> QED BY <1>1, <1>2, CallingKept

LEMMA RemovalCalling ==
  ASSUME Calling, Scoped, UNCHANGED <<emission, called>>,
         NEW cs, NEW c, NEW name, NEW onward, UnregisterNow(cs, c, name, onward)
  PROVE  Calling'
<1>1. CASE UNCHANGED resourceVars
  BY <1>1, CallingKept DEF resourceVars
<1>2. ASSUME NEW r \in Registrations, Close({r})
      PROVE  Calling'
  BY <1>2, CallingClosed
<1> QED BY <1>1, <1>2 DEF UnregisterNow, At

LEMMA StartCalling ==
  ASSUME Calling, Scoped, UNCHANGED <<emission, called>>, NEW cs, NEW c, Starts(cs, c)
  PROVE  Calling'
<1>1. CASE UseStarts(cs, c)
  <2>1. UNCHANGED resourceVars
    BY <1>1 DEF UseStarts
  <2> QED BY <2>1, CallingKept DEF resourceVars
<1>2. CASE DestroyStarts(cs, c)
  BY <1>2, CallingClosed DEF DestroyStarts
<1> QED BY <1>1, <1>2, RemovalCalling DEF Starts

LEMMA InitCalling ==
  ASSUME Calling, Scoped, NEW r \in Registrations, InitContinues(r)
  PROVE  Calling'
<1>1. UNCHANGED <<emission, called>>
  BY DEF InitContinues
<1>2. CASE UNCHANGED resourceVars
  BY <1>1, <1>2, CallingKept DEF resourceVars
<1>3. CASE Close({r})
  BY <1>1, <1>3, CallingClosed
<1>4. CASE Acquire(r, holds[r]) /\ UNCHANGED <<made, holds>>
  BY <1>1, <1>4, CallingAcquired
<1> QED BY <1>2, <1>3, <1>4 DEF InitContinues

LEMMA RegisterCalling ==
  ASSUME Calling, Scoped, NEW r \in Registrations, NEW kind \in Kinds, Register(r, kind)
  PROVE  Calling'
<1>1. /\ UNCHANGED <<emission, called>> /\ kind \notin made[r]
      /\ made' = [made EXCEPT ![r] = @ \cup {kind}] /\ holds' = [holds EXCEPT ![r] = @ \cup {kind}]
      /\ Acquire(r, {kind}) \/ UNCHANGED <<regular, once>>
  BY DEF Register
<1>2. /\ made \in [Registrations -> SUBSET scenario.kinds]
      /\ holds \in [Registrations -> SUBSET scenario.kinds]
  BY DEF Scoped
<1>3. /\ \A s \in Registrations : made[s] \subseteq made'[s]
      /\ \A s \in Registrations :
           "once" \in holds'[s] => "once" \in holds[s] \/ "once" \notin made[s]
  BY <1>1, <1>2
<1> QED BY <1>1, <1>3, CallingAcquired, CallingKept

\* One emission changes, and no handler is called.
LEMMA OneEmission ==
  ASSUME Calling, NEW e \in Emissions, NEW x \in EmissionType, emission' = [emission EXCEPT ![e] = x],
         x.part = "idle" => x.left = Empty
  PROVE  /\ emission' \in [Emissions -> EmissionType]
         /\ \A f \in Emissions : emission'[f].part = "idle" => emission'[f].left = Empty
         /\ Snapshots(PageHandler)' \ {e} = Snapshots(PageHandler) \ {e}
         /\ e \in Snapshots(PageHandler)' <=> PageHandler \in DOMAIN x.left
         /\ e \in Snapshots(PageHandler) <=> PageHandler \in DOMAIN emission[e].left
<1>1. emission \in [Emissions -> EmissionType]
  BY DEF Calling
<1>2. emission'[e] = x /\ \A f \in Emissions : f # e => emission'[f] = emission[f]
  BY <1>1
<1>3. \A f \in Emissions : emission'[f].part = "idle" => emission'[f].left = Empty
  BY <1>2 DEF Calling
<1> QED BY <1>1, <1>2, <1>3 DEF Snapshots

LEMMA EmissionCalling ==
  ASSUME Calling, Scoped, NEW e \in Emissions, EmissionStep(e)
  PROVE  Calling'
<1> DEFINE E == emission[e]
<1>1. UNCHANGED <<made, holds, called>>
  BY DEF EmissionStep
<1>2. /\ E \in EmissionType /\ (E.part = "idle" => E.left = Empty) /\ DOMAIN Empty = {}
      /\ regular \in Buckets(Handlers) /\ once \in Buckets(Handlers) /\ Empty \in Buckets(Handlers)
  BY EmptyBucket DEF Calling, Scoped
<1>3. called \in [Handlers -> Nat] /\ Spent /\ PageWaits
  BY DEF Calling
<1>4. Spent'
  BY <1>1, <1>3 DEF Spent
<1>5. E = [part |-> E.part, left |-> E.left, runs |-> E.runs]
  BY <1>2 DEF EmissionType
<1>6. /\ E.left \in Buckets(Handlers) /\ E.runs \in Handlers \cup {None}
      /\ E.part \in {"idle", "regular", "once", "done"}
  BY <1>2 DEF EmissionType
<1>7. emission \in [Emissions -> EmissionType]
  BY DEF Calling
<1>8. PICK p \in {"idle", "regular", "once", "done"}, l \in Buckets(Handlers), h \in Handlers \cup {None} :
        /\ emission' = [emission EXCEPT ![e] = [E EXCEPT !.part = p, !.left = l, !.runs = h]]
        /\ regular' = regular /\ (p = "idle" => l = Empty)
        /\ \/ once' = once /\ l \in {E.left, Empty}
           \/ once' = once /\ l = regular
           \/ once' = Empty /\ l = once /\ E.left = Empty
  <2>1. CASE Emit(e)
    <3>1. /\ emission' = [emission EXCEPT ![e] =
                             [E EXCEPT !.part = "regular", !.left = regular, !.runs = E.runs]]
          /\ UNCHANGED <<regular, once>>
      BY <1>5, <2>1 DEF Emit
    <3> QED BY <1>2, <1>6, <3>1
  <2>2. CASE Returns(e)
    <3>1. /\ emission' = [emission EXCEPT ![e] = [E EXCEPT !.part = E.part, !.left = E.left, !.runs = None]]
          /\ UNCHANGED <<regular, once>>
      BY <1>5, <2>2 DEF Returns
    <3> QED BY <1>2, <1>6, <3>1
  <2>3. CASE TakeOnce(e)
    <3>1. /\ emission' = [emission EXCEPT ![e] = [E EXCEPT !.part = "once", !.left = once, !.runs = E.runs]]
          /\ regular' = regular /\ once' = Empty /\ E.left = Empty
      BY <1>5, <2>3 DEF TakeOnce
    <3> QED BY <1>2, <1>6, <3>1
  <2>4. CASE EmissionEnds(e)
    <3>1. /\ emission' = [emission EXCEPT ![e] =
                             [E EXCEPT !.part = "done", !.left = E.left, !.runs = E.runs]]
          /\ UNCHANGED <<regular, once>>
      BY <1>5, <2>4 DEF EmissionEnds
    <3> QED BY <1>2, <1>6, <3>1
  <2>5. CASE EmissionStops(e)
    <3>1. /\ emission' = [emission EXCEPT ![e] =
                             [E EXCEPT !.part = "done", !.left = Empty, !.runs = E.runs]]
          /\ UNCHANGED <<regular, once>>
      BY <1>5, <2>5 DEF EmissionStops
    <3> QED BY <1>2, <1>6, <3>1
  <2> QED BY <2>1, <2>2, <2>3, <2>4, <2>5 DEF EmissionStep
<1> DEFINE x == [E EXCEPT !.part = p, !.left = l, !.runs = h]
<1>9. x \in EmissionType /\ x.part = p /\ x.left = l
  BY <1>2, <1>8 DEF EmissionType
<1> HIDE DEF x, E
<1>10. emission' = [emission EXCEPT ![e] = x]
  BY <1>8 DEF x
<1>11. /\ emission' \in [Emissions -> EmissionType]
       /\ \A f \in Emissions : emission'[f].part = "idle" => emission'[f].left = Empty
       /\ Snapshots(PageHandler)' \ {e} = Snapshots(PageHandler) \ {e}
       /\ e \in Snapshots(PageHandler)' <=> PageHandler \in DOMAIN l
       /\ e \in Snapshots(PageHandler) <=> PageHandler \in DOMAIN E.left
  <2>1. x.part = "idle" => x.left = Empty
    BY <1>8, <1>9
  <2> QED BY <1>9, <1>10, <2>1, OneEmission DEF E
<1>12. PageWaits'
  <2>1. CASE once' = once /\ (PageHandler \in DOMAIN l => PageHandler \in DOMAIN E.left)
    <3>1. Snapshots(PageHandler)' \subseteq Snapshots(PageHandler)
      BY <1>11, <2>1
    <3> QED BY <1>1, <1>3, <1>8, <2>1, <3>1 DEF PageWaits
  <2>2. CASE once' = once /\ l = regular
    BY <1>3, <1>8, <2>1, <2>2 DEF PageWaits
  <2>3. CASE once' = once /\ l = Empty
    BY <1>2, <1>8, <2>1, <2>3
  <2>4. CASE once' = Empty /\ l = once /\ E.left = Empty
    <3>1. PageHandler \notin DOMAIN once' /\ e \notin Snapshots(PageHandler)
      BY <1>2, <1>11, <2>4
    <3>2. CASE PageHandler \in DOMAIN once
      <4>1. Snapshots(PageHandler) = {} /\ called[PageHandler] = 0
        BY <1>3, <3>2 DEF PageWaits
      <4>2. Snapshots(PageHandler)' \subseteq {e}
        BY <1>11, <4>1
      <4> QED BY <1>1, <1>3, <1>8, <3>1, <4>1, <4>2 DEF PageWaits
    <3>3. CASE PageHandler \notin DOMAIN once
      <4>1. Snapshots(PageHandler)' \subseteq Snapshots(PageHandler)
        BY <1>11, <2>4, <3>3
      <4> QED BY <1>1, <1>3, <1>8, <3>1, <4>1 DEF PageWaits
    <3> QED BY <3>2, <3>3
  <2> QED BY <1>8, <2>1, <2>2, <2>3, <2>4
<1> QED BY <1>1, <1>3, <1>4, <1>11, <1>12 DEF Calling

LEMMA SubscribeCalling ==
  ASSUME Calling, Scoped, PageSubscribes
  PROVE  Calling'
<1>1. /\ UNCHANGED <<emission, called, made, holds, regular>>
      /\ called[PageHandler] = 0 /\ \A e \in Emissions : emission[e].part = "idle"
  BY DEF PageSubscribes
<1>2. Snapshots(PageHandler) = {}
  BY <1>1, EmptyBucket DEF Calling, Snapshots
<1>3. PageWaits'
  BY <1>1, <1>2 DEF Calling, PageWaits, Snapshots
<1> QED BY <1>1, <1>3 DEF Calling, Spent

\* A handler that starts is that of an active registration, and a once handler is fresh.
LEMMA FreshHandler ==
  ASSUME Calling, Scoped, regs \in Regs, Lives(calls, regs), NEW e \in Emissions,
         NEW h \in Handlers, Invoke(e, h), Heard(h)
  PROVE  /\ h \in Subscription =>
              /\ h[1] \in Registrations /\ h = <<h[1], h[2]>> /\ regs[h[1]].place = "active"
              /\ h[2] \in holds[h[1]] /\ h[2] \in made[h[1]]
         /\ h[2] = "once" => called[h] = 0
<1>1. h \in Subscription \/ h = PageHandler
  BY HandlersAssumption
<1>2. CASE h \in Subscription
  <2>1. h[1] \in Registrations /\ h = <<h[1], h[2]>>
    BY <1>2 DEF Subscription
  <2>2. h # PageHandler
    BY <2>1, HandlersFinite, <1>2, RegistrationsFinite DEF PageHandler
  <2>3. regs[h[1]].scope = "active" /\ h[2] \in holds[h[1]]
    BY <2>2 DEF Heard
  <2>4. regs[h[1]].place = "active"
    BY <2>1, <2>3 DEF Lives, Life, Regs, RegType
  <2>5. h[2] \in made[h[1]]
    BY <2>1, <2>3 DEF Scoped
  <2>6. h[2] = "once" => called[h] = 0
    BY <2>1, <2>3 DEF Calling, Spent
  <2> QED BY <2>1, <2>3, <2>4, <2>5, <2>6
<1>3. CASE h = PageHandler
  <2>1. e \in Snapshots(PageHandler)
    BY <1>3 DEF Invoke, IsFirst, Snapshots
  <2>2. called[PageHandler] = 0
    BY <2>1 DEF Calling, PageWaits
  <2>3. h \notin Subscription
    BY <1>3, RegistrationsFinite DEF Subscription, PageHandler
  <2> QED BY <1>3, <2>2, <2>3
<1> QED BY <1>1, <1>2, <1>3

LEMMA HandlerCalling ==
  ASSUME Calling, Scoped, regs \in Regs, Lives(calls, regs), NEW e \in Emissions,
         NEW h \in Handlers, HandlerRuns(e, h)
  PROVE  Calling'
<1> DEFINE E == emission[e]
<1> DEFINE x == [E EXCEPT !.runs = h, !.left = Without(E.left, {h})]
<1>1. /\ UNCHANGED <<made, regular>> /\ Invoke(e, h) /\ h \in DOMAIN E.left
      /\ emission' = [emission EXCEPT ![e] = x]
  BY DEF HandlerRuns, Invoke, IsFirst
<1>2. /\ E \in EmissionType /\ called \in [Handlers -> Nat] /\ Spent /\ PageWaits
      /\ emission \in [Emissions -> EmissionType] /\ (E.part = "idle" => E.left = Empty)
      /\ DOMAIN Empty = {}
  BY EmptyBucket DEF Calling
<1>3. E.left \in Buckets(Handlers)
  BY <1>2 DEF EmissionType
<1>4. /\ Without(E.left, {h}) \in Buckets(Handlers)
      /\ DOMAIN Without(E.left, {h}) = DOMAIN E.left \ {h}
  BY <1>3, WithoutThem
<1>5. x \in EmissionType /\ x.part = E.part /\ x.left = Without(E.left, {h}) /\ E.part # "idle"
  BY <1>1, <1>2, <1>4 DEF EmissionType
<1> HIDE DEF x, E
<1>6. /\ emission' \in [Emissions -> EmissionType]
      /\ \A f \in Emissions : emission'[f].part = "idle" => emission'[f].left = Empty
      /\ Snapshots(PageHandler)' \ {e} = Snapshots(PageHandler) \ {e}
      /\ e \in Snapshots(PageHandler)' <=> PageHandler \in DOMAIN x.left
      /\ e \in Snapshots(PageHandler) <=> PageHandler \in DOMAIN E.left
  BY <1>1, <1>5, OneEmission DEF E
<1>7. Snapshots(PageHandler)' \subseteq Snapshots(PageHandler)
  BY <1>4, <1>5, <1>6
<1>8. h = PageHandler => Snapshots(PageHandler)' = {} /\ e \in Snapshots(PageHandler)
  BY <1>1, <1>2, <1>4, <1>5, <1>6 DEF PageWaits
<1>9. CASE ~Heard(h)
  <2>1. UNCHANGED <<called, holds, once>>
    BY <1>9 DEF HandlerRuns
  <2>2. PageWaits'
    BY <1>1, <1>2, <1>7, <2>1 DEF PageWaits
  <2> QED BY <1>1, <1>2, <1>6, <2>1, <2>2 DEF Calling, Spent
<1>10. CASE Heard(h)
  <2>1. called' = [called EXCEPT ![h] = @ + 1] /\ Consumes(h)
    BY <1>10 DEF HandlerRuns
  <2>2. called' \in [Handlers -> Nat] /\ \A g \in Handlers : g # h => called'[g] = called[g]
    BY <1>2, <2>1
  <2>3. h \in Subscription \/ h = PageHandler
    BY HandlersAssumption
  <2>4. CASE h = PageHandler
    <3>1. UNCHANGED <<holds, once>>
      BY <2>1, <2>4 DEF Consumes
    <3>2. PageHandler \notin DOMAIN once
      BY <1>2, <1>8, <2>4 DEF PageWaits
    <3>3. PageWaits'
      BY <1>1, <1>2, <1>8, <2>4, <3>1, <3>2 DEF PageWaits
    <3>4. Spent'
      BY <1>1, <1>2, <2>2, <2>4, <3>1, HandlersFinite DEF Spent
    <3> QED BY <1>6, <2>2, <3>3, <3>4 DEF Calling
  <2>5. CASE h \in Subscription
    <3>1. /\ h[1] \in Registrations /\ h = <<h[1], h[2]>>
          /\ h[2] \in holds[h[1]] /\ h[2] \in made[h[1]] /\ h[2] \in {"on", "once"}
      BY <1>1, <1>10, <2>5, FreshHandler DEF Subscription
    <3>2. h # PageHandler
      BY <3>1, HandlersFinite
    <3>3. holds \in [Registrations -> SUBSET scenario.kinds]
      BY DEF Scoped
    <3>4. /\ \A r \in Registrations : holds'[r] \subseteq holds[r]
          /\ h[2] = "once" => "once" \notin holds'[h[1]]
          /\ DOMAIN once' \subseteq DOMAIN once
      BY <2>1, <3>1, <3>2, <3>3 DEF Consumes, Without
    <3>5. PageWaits'
      BY <1>1, <1>2, <1>7, <2>2, <3>2, <3>4, HandlersFinite DEF PageWaits
    <3>6. ASSUME NEW r \in Registrations, called'[<<r, "once">>] # 0
          PROVE  "once" \in made'[r] /\ "once" \notin holds'[r]
      <4>1. CASE <<r, "once">> = h
        BY <1>1, <3>1, <3>4, <4>1
      <4>2. CASE <<r, "once">> # h
        <5>1. called[<<r, "once">>] # 0
          BY <2>2, <3>6, <4>2, HandlersFinite
        <5> QED BY <1>1, <1>2, <3>4, <5>1 DEF Spent
      <4> QED BY <4>1, <4>2
    <3> QED BY <1>6, <2>2, <3>5, <3>6 DEF Calling, Spent
  <2> QED BY <2>3, <2>4, <2>5
<1> QED BY <1>9, <1>10

---------------------------------------------------------------------------
(* PluginManager: every step *)

LEMMA MutatingFrame ==
  ASSUME Mutating, UNCHANGED <<scenario, callVars, destroyed, tornDown>>
  PROVE  Mutating'
BY DEF Mutating, callVars

LEMMA CallKeeps ==
  ASSUME ManagerInv, NEW op \in {"use", "unuse", "destroy"},
         NEW name \in IF op = "destroy" THEN {None} ELSE Names,
         NEW by \in Registrations \cup {0}, Call(op, name, by)
  PROVE  ManagerInv'
<1>1. /\ Mutating /\ Scoped /\ Calling /\ regs \in Regs /\ UNCHANGED <<scenario, emission, called>>
  BY DEF ManagerInv, Mutating, Living, Call
<1>2. Mutating'
  BY <1>1, CallMutates
<1>3. CASE \E cs, c : Starts(cs, c)
  BY <1>1, <1>2, <1>3, StartScoped, StartCalling DEF ManagerInv
<1>4. CASE UNCHANGED <<regs, resourceVars>>
  <2>1. Scoped'
    BY <1>1, <1>4, ScopedKept DEF Kept
  <2>2. Calling'
    BY <1>1, <1>4, CallingKept DEF resourceVars
  <2> QED BY <1>2, <2>1, <2>2 DEF ManagerInv
<1> QED BY <1>3, <1>4 DEF Call

LEMMA AskKeeps ==
  ASSUME ManagerInv, NEW op \in {"use", "unuse", "destroy"},
         NEW name \in IF op = "destroy" THEN {None} ELSE Names,
         NEW by \in Registrations \cup {0}, Asks(op, name, by)
  PROVE  ManagerInv'
<1>1. CASE Call(op, name, by)
  BY <1>1, CallKeeps
<1>2. CASE DestroyAgain(by)
  <2>1. Mutating /\ Scoped /\ Calling /\ UNCHANGED <<scenario, regs, resourceVars, emission, called>>
    BY <1>2 DEF ManagerInv, DestroyAgain
  <2>2. Mutating'
    BY <1>2, <2>1, SharingMutates
  <2>3. Scoped'
    BY <2>1, ScopedKept DEF Kept
  <2>4. Calling'
    BY <2>1, CallingKept DEF resourceVars
  <2> QED BY <2>2, <2>3, <2>4 DEF ManagerInv
<1> QED BY <1>1, <1>2 DEF Asks

LEMMA ManagerStepsKeep ==
  ASSUME ManagerInv, ManagerSteps
  PROVE  ManagerInv'
<1>1. Mutating /\ Scoped /\ Calling /\ regs \in Regs /\ Lives(calls, regs)
  BY DEF ManagerInv, Mutating, Living
<1>2. CASE QueueStarts
  <2>1. Starts(calls, Head(queue)) /\ UNCHANGED <<scenario, emission, called>>
    BY <1>2 DEF QueueStarts
  <2> QED BY <1>1, <1>2, <2>1, QueueMutates, StartScoped, StartCalling DEF ManagerInv
<1>3. CASE QueueGoesOn
  <2>1. Calling'
    BY <1>1, <1>3, CallingKept DEF QueueGoesOn, resourceVars
  <2> QED BY <1>1, <1>3, <2>1, QueueMutates, HooksScoped DEF ManagerInv
<1>4. ASSUME NEW c \in DOMAIN calls, RemovalEnds(c)
      PROVE  ManagerInv'
  <2>1. Calling'
    BY <1>1, <1>4, CallingKept DEF RemovalEnds, resourceVars
  <2> QED BY <1>1, <1>4, <2>1, SweepMutates, HooksScoped DEF ManagerInv
<1>5. ASSUME NEW c \in DOMAIN calls, SweepNext(c)
      PROVE  ManagerInv'
  <2>1. PICK r \in Registrations :
          UnregisterNow([calls EXCEPT ![c].rest = Without(@, {r})], c, regs[r].name, "sweeping")
    BY <1>5 DEF SweepNext
  <2>2. UNCHANGED <<scenario, emission, called>>
    BY <1>5 DEF SweepNext
  <2> QED BY <1>1, <1>5, <2>1, <2>2, SweepMutates, RemovalScoped, RemovalCalling DEF ManagerInv
<1>6. ASSUME NEW c \in DOMAIN calls, SweepEnds(c)
      PROVE  ManagerInv'
  <2>1. UNCHANGED <<emission, called, made, holds>> /\ DOMAIN regular' = {} /\ DOMAIN once' = {}
    BY <1>6, EmptyBucket DEF SweepEnds
  <2>2. Calling'
    BY <1>1, <2>1, CallingKept
  <2> QED BY <1>1, <1>6, <2>2, SweepMutates, EmissionScoped DEF ManagerInv
<1>7. ASSUME NEW r \in Registrations, InitContinues(r)
      PROVE  ManagerInv'
  BY <1>1, <1>7, InitMutates, InitScoped, InitCalling DEF ManagerInv
<1>8. ASSUME NEW r \in Registrations, TeardownStarts(r) \/ TeardownSettles(r) \/ TeardownForgotten(r)
      PROVE  ManagerInv'
  <2>1. Calling'
    BY <1>1, <1>8, CallingKept DEF TeardownStarts, TeardownSettles, TeardownForgotten, resourceVars
  <2> QED BY <1>1, <1>8, <2>1, HooksMutate, HooksScoped DEF ManagerInv
<1>9. ASSUME NEW c \in DOMAIN calls, SharedEnds(c)
      PROVE  ManagerInv'
  <2>1. Calling'
    BY <1>1, <1>9, CallingKept DEF SharedEnds, resourceVars
  <2> QED BY <1>1, <1>9, <2>1, SweepMutates, HooksScoped DEF ManagerInv
<1> QED BY <1>2, <1>3, <1>4, <1>5, <1>6, <1>7, <1>8, <1>9 DEF ManagerSteps

LEMMA PluginStepsKeep ==
  ASSUME ManagerInv, PluginSteps
  PROVE  ManagerInv'
<1>1. /\ Mutating /\ Scoped /\ Calling /\ regs \in Regs /\ Lives(calls, regs)
      /\ scenario \in Scenarios
  BY DEF ManagerInv, Mutating, Living
<1>2. ASSUME NEW r \in Registrations, NEW result \in {"ended", "failed"}, HookEnds(r, result)
      PROVE  ManagerInv'
  <2>1. Calling'
    BY <1>1, <1>2, CallingKept DEF HookEnds, resourceVars
  <2> QED BY <1>1, <1>2, <2>1, HooksMutate, HooksScoped DEF ManagerInv
<1>3. ASSUME NEW r \in Registrations, NEW op \in {"use", "unuse"}, NEW name \in Names,
             HookCalls(r, op, name)
      PROVE  ManagerInv'
  BY <1>3, AskKeeps DEF HookCalls
<1>4. ASSUME NEW r \in Registrations, NEW kind \in Kinds, Register(r, kind)
      PROVE  ManagerInv'
  <2>1. Mutating'
    BY <1>1, <1>4, MutatingFrame DEF Register, clientVars
  <2> QED BY <1>1, <1>4, <2>1, RegisterScoped, RegisterCalling DEF ManagerInv
<1>5. ASSUME NEW r \in Registrations, HookCalls(r, "destroy", None)
      PROVE  ManagerInv'
  BY <1>5, AskKeeps DEF HookCalls
<1> QED BY <1>2, <1>3, <1>4, <1>5 DEF PluginSteps

LEMMA PageStepsKeep ==
  ASSUME ManagerInv, PageSteps
  PROVE  ManagerInv'
<1>1. /\ Mutating /\ Scoped /\ Calling /\ regs \in Regs /\ Lives(calls, regs)
      /\ scenario.emissions \subseteq Emissions
  BY ScenarioKinds DEF ManagerInv, Mutating, Living
<1>2. ASSUME NEW op \in {"use", "unuse"}, NEW name \in Names, Asks(op, name, 0)
      PROVE  ManagerInv'
  BY <1>2, AskKeeps
<1>3. CASE Asks("destroy", None, 0)
  BY <1>3, AskKeeps
<1>4. CASE PageSubscribes
  <2>1. Mutating'
    BY <1>1, <1>4, MutatingFrame DEF PageSubscribes, clientVars
  <2> QED BY <1>1, <1>4, <2>1, EmissionScoped, SubscribeCalling DEF ManagerInv
<1>5. ASSUME NEW e \in Emissions, EmissionStep(e)
      PROVE  ManagerInv'
  <2>1. Mutating'
    BY <1>1, <1>5, MutatingFrame DEF EmissionStep, clientVars
  <2> QED BY <1>1, <1>5, <2>1, EmissionScoped, EmissionCalling DEF ManagerInv
<1>6. ASSUME NEW e \in Emissions, NEW h \in Handlers, HandlerRuns(e, h)
      PROVE  ManagerInv'
  <2>1. Mutating'
    BY <1>1, <1>6, MutatingFrame DEF HandlerRuns, clientVars
  <2> QED BY <1>1, <1>6, <2>1, HandlerScoped, HandlerCalling DEF ManagerInv
<1> QED BY <1>1, <1>2, <1>3, <1>4, <1>5, <1>6 DEF PageSteps

LEMMA ManagerStarts ==
  ASSUME ManagerInit
  PROVE  ManagerInv
<1>1. /\ regular = Empty /\ once = Empty /\ stack = Empty
      /\ emission = [e \in Emissions |-> [part |-> "idle", left |-> Empty, runs |-> None]]
      /\ scenario \in Scenarios /\ calls = << >> /\ queue = << >> /\ busy = 0 /\ queuedHooks = 0
      /\ regs = [r \in Registrations |->
                   [name |-> None, queued |-> FALSE, call |-> 0,
                    place |-> "unused", since |-> 0, scope |-> "staging", hook |-> "none"]]
      /\ made = [r \in Registrations |-> {}] /\ holds = [r \in Registrations |-> {}]
      /\ cleanups = {} /\ shown = 0 /\ called = [h \in Handlers |-> 0]
      /\ destroyed = FALSE /\ tornDown = FALSE
  BY DEF ManagerInit, EmitterInit
<1>2. /\ Empty \in Buckets(Registrations) /\ Empty \in Buckets(Handlers) /\ DOMAIN Empty = {}
      /\ Top(Empty) = 0
  BY EmptyBucket, TopIsLast
<1>3. Mutating
  <2>1. calls \in Calls /\ Len(calls) = 0 /\ DOMAIN calls = {}
    BY <1>1 DEF Calls
  <2>2. regs \in Regs /\ Lives(calls, regs) /\ OneLife(regs)
    BY <1>1, <2>1 DEF Regs, RegType, Lives, Life, OneLife
  <2>3. Hooks(regs) = {} /\ Holding(calls) = {}
    BY <1>1, <2>1 DEF Hooks, Holding, Pending
  <2>4. CountedBy(calls, regs, queuedHooks)
    <3>1. Cardinality(Hooks(regs)) = 0 /\ Cardinality(Holding(calls)) = 0 /\ queuedHooks = 0
      BY <1>1, <2>3, FS_EmptySet
    <3> QED BY <3>1 DEF CountedBy
  <2>5. Waiting(calls, queue)
    BY <1>1 DEF Waiting
  <2>6. Len(calls) <= MaxCalls /\ busy \in 0..Len(calls)
    BY <1>1, <2>1, ManagerAssumption
  <2> QED BY <1>1, <2>1, <2>2, <2>4, <2>5, <2>6 DEF Mutating, Living
<1>4. Scoped
  BY <1>1, <1>2 DEF Scoped, Ordered
<1>5. Calling
  <2>1. called \in [Handlers -> Nat] /\ emission \in [Emissions -> EmissionType]
    BY <1>1, <1>2 DEF EmissionType
  <2>2. Spent
    BY <1>1, HandlersFinite DEF Spent
  <2>3. PageWaits
    BY <1>1, <1>2, HandlersFinite DEF PageWaits, Snapshots
  <2> QED BY <1>1, <2>1, <2>2, <2>3 DEF Calling
<1> QED BY <1>3, <1>4, <1>5 DEF ManagerInv

(* plugins/manager.ts, plugins/resource-scope.ts, events/emitter.ts: the invariant of the
   manager, its scopes and the event they subscribe to. *)
THEOREM ManagerInvHolds == ManagerSpec => []ManagerInv
<1>1. ManagerInv /\ [ManagerNext]_managerVars => ManagerInv'
  <2> SUFFICES ASSUME ManagerInv, [ManagerNext]_managerVars PROVE ManagerInv'
    OBVIOUS
  <2>1. CASE ManagerNext
    BY <2>1, ManagerStepsKeep, PluginStepsKeep, PageStepsKeep DEF ManagerNext
  <2>2. CASE UNCHANGED managerVars
    <3>1. Mutating'
      BY <2>2, MutatingFrame DEF ManagerInv, managerVars, clientVars
    <3>2. Scoped'
      BY <2>2, ScopedKept DEF ManagerInv, managerVars, callVars, Kept
    <3>3. Calling'
      BY <2>2, CallingKept DEF ManagerInv, managerVars, resourceVars
    <3> QED BY <3>1, <3>2, <3>3 DEF ManagerInv
  <2> QED BY <2>1, <2>2
<1> QED BY <1>1, ManagerStarts, PTL DEF ManagerSpec

(* plugins/resource-scope.ts:43: what a plugin registered is in use only while the plugin is
   registered, what it acquired itself only while its scope is open, and the renderer in force
   is the last one that is left, however inits, removals and destroy interleave. *)
THEOREM NothingOutlives == ManagerSpec => []NothingOutlivesItsScope
<1>1. ManagerInv => NothingOutlivesItsScope
  BY DEF ManagerInv, Scoped, NothingOutlivesItsScope
<1> QED BY <1>1, ManagerInvHolds, PTL

(* plugins/manager.ts:73: a name has one life at a time, so the hooks of two registrations
   of it never overlap; the count that opens the queue for direct calls is exact. *)
THEOREM HooksTurn == ManagerSpec => []HooksTakeTurns
<1>1. ASSUME ManagerInv PROVE HooksTakeTurns
  <2>1. /\ Living(calls, regs, queuedHooks) /\ Waiting(calls, queue)
        /\ calls \in Calls /\ regs \in Regs /\ queuedHooks \in Nat /\ Lives(calls, regs)
        /\ OneLife(regs) /\ CountedBy(calls, regs, queuedHooks)
        /\ Len(calls) <= MaxCalls /\ busy \in 0..Len(calls)
        /\ destroyed \in BOOLEAN /\ tornDown \in BOOLEAN /\ Scoped /\ Calling
    BY <1>1 DEF ManagerInv, Mutating, Living
  <2>2. OneLifePerName
    BY <2>1 DEF OneLife, OneLifePerName
  <2>3. HooksAreCounted
    BY <2>1 DEF CountedBy, Hooks, Holding, Pending, HooksAreCounted
  <2>4. EmitterTypeOK
    <3>1. IsBucket(regular, Handlers) /\ IsBucket(once, Handlers)
      BY <2>1, BucketSet DEF Scoped
    <3>2. emission \in [Emissions -> EmissionType]
      BY <2>1 DEF Calling
    <3>3. ASSUME NEW e \in Emissions
          PROVE  /\ emission[e] = [part |-> emission[e].part, left |-> emission[e].left,
                                  runs |-> emission[e].runs]
                 /\ emission[e].part \in {"idle", "regular", "once", "done"}
                 /\ IsBucket(emission[e].left, Handlers)
                 /\ emission[e].runs \in Handlers \cup {None}
      <4>1. emission[e] \in EmissionType
        BY <3>2
      <4> QED BY <4>1, BucketSet DEF EmissionType
    <3> QED BY <3>1, <3>2, <3>3 DEF EmitterTypeOK
  <2>5. /\ DOMAIN calls = 1..Len(calls) /\ Len(calls) \in 0..MaxCalls
        /\ \A c \in DOMAIN calls : IsCall(calls[c])
    <3>1. /\ Len(calls) \in Nat /\ DOMAIN calls = 1..Len(calls)
          /\ \A c \in DOMAIN calls : calls[c] \in CallType
      BY <2>1, CallsAsFunction
    <3>2. ASSUME NEW x \in CallType PROVE IsCall(x)
      <4>1. x.rest \in Buckets(Registrations)
        BY DEF CallType
      <4>2. IsBucket(x.rest, Registrations)
        BY <4>1, BucketSet
      <4> QED BY <4>2 DEF CallType, IsCall
    <3> QED BY <2>1, <3>1, <3>2, ManagerAssumption
  <2>6. queue \in Seq(1..Len(calls))
    BY <2>1 DEF Waiting
  <2>7. regs \in [Registrations -> [name : Names \cup {None}, queued : BOOLEAN, call : 0..Len(calls),
                                    place : {"unused", "initializing", "active", "removed", "gone"},
                                    since : Nat,
                                    scope : {"staging", "active", "closed"},
                                    hook : {"none", "due", "running", "ended", "failed", "settled"}]]
    <3>1. ASSUME NEW r \in Registrations
          PROVE  regs[r] \in [name : Names \cup {None}, queued : BOOLEAN, call : 0..Len(calls),
                              place : {"unused", "initializing", "active", "removed", "gone"},
                              since : Nat,
                              scope : {"staging", "active", "closed"},
                              hook : {"none", "due", "running", "ended", "failed", "settled"}]
      <4>1. regs[r] \in RegType /\ regs[r].call <= Len(calls) /\ Len(calls) \in Nat
        BY <2>1, CallsAsFunction DEF Regs, Lives, Life
      <4>2. regs[r].call \in 0..Len(calls)
        BY <4>1 DEF RegType
      <4> QED BY <4>1, <4>2 DEF RegType
    <3> QED BY <2>1, <3>1 DEF Regs
  <2>8. /\ made \in [Registrations -> SUBSET scenario.kinds]
        /\ holds \in [Registrations -> SUBSET scenario.kinds]
        /\ cleanups \subseteq Registrations
        /\ IsBucket(stack, Registrations) /\ shown \in Registrations \cup {0}
        /\ called \in [Handlers -> Nat]
    <3>1. stack \in Buckets(Registrations) /\ shown = Top(stack)
      BY <2>1 DEF Scoped
    <3>2. IsBucket(stack, Registrations) /\ shown \in Registrations \cup {0}
      BY <3>1, TopIsLast, BucketSet
    <3> QED BY <2>1, <3>2 DEF Scoped, Calling
  <2>9. ManagerTypeOK
    BY <2>1, <2>4, <2>5, <2>6, <2>7, <2>8 DEF ManagerTypeOK
  <2> QED BY <2>2, <2>3, <2>9 DEF HooksTakeTurns
<1> QED BY <1>1, ManagerInvHolds, PTL

(* plugins/scoped-events.ts, events/emitter.ts:57: whatever emissions overlap and whatever
   is in their snapshots, a handler whose plugin is removed does not start, nor does a once
   handler a second time. *)
THEOREM GoneStayUncalled == ManagerSpec => GoneIsNotCalled
<1> DEFINE Fresh == \A h \in Handlers : called'[h] > called[h] =>
                      /\ h \in Subscription => regs[h[1]].place = "active"
                      /\ h[2] = "once" => called[h] = 0
<1>1. ManagerInv /\ [ManagerNext]_managerVars => [Fresh]_managerVars
  <2> SUFFICES ASSUME ManagerInv, ManagerNext PROVE Fresh
    OBVIOUS
  <2>1. /\ Scoped /\ Calling /\ regs \in Regs /\ Lives(calls, regs) /\ called \in [Handlers -> Nat]
        /\ scenario.emissions \subseteq Emissions
    BY ScenarioKinds DEF ManagerInv, Mutating, Living, Calling
  <2>2. CASE called' = called
    BY <2>1, <2>2
  <2>3. ASSUME NEW e \in Emissions, NEW h \in Handlers, HandlerRuns(e, h), Heard(h)
        PROVE  Fresh
    <3>1. called' = [called EXCEPT ![h] = @ + 1] /\ Invoke(e, h)
      BY <2>3 DEF HandlerRuns
    <3>2. \A g \in Handlers : g # h => ~(called'[g] > called[g])
      BY <2>1, <3>1
    <3>3. /\ h \in Subscription => regs[h[1]].place = "active"
          /\ h[2] = "once" => called[h] = 0
      BY <2>1, <2>3, <3>1, FreshHandler
    <3> QED BY <3>2, <3>3
  <2>4. CASE ManagerSteps
    BY <2>2, <2>4 DEF ManagerSteps, QueueStarts, QueueGoesOn, RemovalEnds, SweepNext, SweepEnds,
                      SharedEnds, InitContinues, TeardownStarts, TeardownSettles, TeardownForgotten
  <2>5. CASE PluginSteps
    BY <2>2, <2>5 DEF PluginSteps, HookEnds, HookCalls, Asks, Call, DestroyAgain, Register
  <2>6. CASE PageSteps
    <3>1. \/ called' = called
          \/ \E e \in scenario.emissions, h \in Handlers : HandlerRuns(e, h) /\ Heard(h)
      BY <2>6 DEF PageSteps, Asks, Call, DestroyAgain, PageSubscribes, EmissionStep, HandlerRuns
    <3> QED BY <2>1, <2>2, <2>3, <3>1
  <2> QED BY <2>4, <2>5, <2>6 DEF ManagerNext
<1>2. ManagerSpec => [][Fresh]_managerVars
  BY <1>1, ManagerInvHolds, PTL DEF ManagerSpec
<1> QED BY <1>2 DEF GoneIsNotCalled
=============================================================================
