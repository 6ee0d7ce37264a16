---------------------------- MODULE PreviewSession ----------------------------
(* authorizeSession of security/preview-session.ts: a visitor's cookie is put to
   the CMS's /me, alone or with the CMS's own origin, and the form that the CMS
   takes is remembered for the calls that follow.

   The memory is a map for each fetch function. A call reads which map is
   registered when it begins, uses that one to its end, and registers it when it
   learns something, so that two first calls each bring a map of their own. One
   entry of one endpoint is modelled: absent, less than a minute old, or older. *)
EXTENDS Naturals

CONSTANTS
  Calls,       \* one for each request that asks
  Earlier,     \* the map left by calls before these
  None

ASSUME SessionAssumption == Earlier \notin Calls /\ None \notin Calls \cup {Earlier}

VARIABLES
  setup,       \* the forms the CMS takes, and whether the strategy names an origin
  visitor,     \* whose cookie each call carries
  registered,  \* the map that new calls find; None
  maps,        \* the entry of each map
  session,     \* the calls
  expired      \* the sessions whose `exp` has passed

sessionVars == <<setup, visitor, registered, maps, session, expired>>
cmsVars == <<setup, visitor>>

Forms == {"cookie", "origin"}
Books == Calls \cup {Earlier}
\* An editor, a user of another auth collection, someone /me does not know, and no cookie.
Visitors == {"editor", "other", "unknown", "absent"}
Verdicts == {"none", "authorized", "invalid", "unavailable", "expired", "missing-credential"}
Session ==
  [state : {"idle", "asking", "done"}, trip : 1..2, form : Forms, book : Books,
   stale : BOOLEAN, denied : BOOLEAN, cut : BOOLEAN, verdict : Verdicts]

SessionTypeOK ==
  /\ setup \in [takes : (SUBSET Forms) \ {{}}, explicit : BOOLEAN]
  /\ visitor \in [Calls -> Visitors]
  /\ registered \in Books \cup {None}
  /\ maps \in [Books -> {"none", "fresh", "old"}]
  /\ session \in [Calls -> Session]
  /\ expired \in [Calls -> BOOLEAN]

(* `stale`: the call was refused on a lesson that the CMS no longer teaches; `denied`:
   by an answer of /me that permits no second form. *)
Idle(c) ==
  [state |-> "idle", trip |-> 1, form |-> "cookie", book |-> c,
   stale |-> FALSE, denied |-> FALSE, cut |-> FALSE, verdict |-> "none"]

(* A memory from before may tell what the CMS takes no longer. *)
SessionInit ==
  /\ setup \in [takes : (SUBSET Forms) \ {{}}, explicit : BOOLEAN]
  /\ visitor \in [Calls -> Visitors]
  /\ registered \in {Earlier, None}
  /\ maps \in [Books -> {"none", "fresh", "old"}]
  /\ \A b \in Books : maps[b] # "none" => b = registered
  /\ session = [c \in Calls |-> Idle(c)]
  /\ expired = [c \in Calls |-> FALSE]

Other(form) == IF form = "cookie" THEN "origin" ELSE "cookie"

\* The first attempt carries the origin when the strategy names one or the map says so.
Begun(c) ==
  LET book == IF registered = None THEN c ELSE registered
      first == IF setup.explicit \/ maps[book] # "none" THEN "origin" ELSE "cookie"
  IN  IF visitor[c] = "absent"
      THEN [Idle(c) EXCEPT !.state = "done", !.verdict = "missing-credential"]
      ELSE [Idle(c) EXCEPT !.state = "asking", !.form = first, !.book = book]

\* The CMS answers with a user, who may be none of the editors.
Found(c) == visitor[c] \in {"editor", "other"} /\ session[c].form \in setup.takes

\* Known to need the origin: the cookie alone is tried once a minute.
Remembered(s) == s.form = "origin" /\ maps[s.book] = "fresh"

MutAsksAgain(c) ==
  LET s == session[c]
  IN  s.trip = 1 /\ ~Found(c) /\ ~setup.explicit /\ s.form = "cookie"
(* A null user permits one retry in the other form. *)
AsksAgain(c) ==
  LET s == session[c]
  IN  s.trip = 1 /\ ~Found(c) /\ ~setup.explicit /\ ~Remembered(s)

Judged(c) ==
  IF ~Found(c) \/ visitor[c] # "editor" THEN "invalid"
  ELSE IF expired[c] THEN "expired" ELSE "authorized"

\* The lesson stands while it is tried again, as of now.
MutTriedAgain == "none"
TriedAgain == "fresh"
Learned(s) == IF s.form = "origin" THEN "fresh" ELSE "none"

Finished(c, verdict) == [session EXCEPT ![c].state = "done", ![c].verdict = verdict]

(* /me answers: the call asks once more, or knows its verdict. *)
MeAnswers(c) ==
  LET s == session[c]
      again == AsksAgain(c)
      learns == ~again /\ s.trip = 2 /\ Found(c)
  IN /\ s.state = "asking" /\ ~s.cut
     /\ session' = IF again
                   THEN [session EXCEPT ![c].trip = 2, ![c].form = Other(s.form)]
                   ELSE [Finished(c, Judged(c)) EXCEPT ![c].stale = ~Found(c) /\ Remembered(s)]
     /\ maps' = IF learns THEN [maps EXCEPT ![s.book] = Learned(s)]
                ELSE IF again /\ s.form = "origin" THEN [maps EXCEPT ![s.book] = TriedAgain]
                ELSE maps
     /\ registered' = IF learns /\ s.form = "origin" THEN s.book ELSE registered
     /\ UNCHANGED <<cmsVars, expired>>

(* A 401, or an answer without a user to read: only a `user` of null permits the
   other form, so that this one refuses at once, in either trip, and teaches nothing. *)
MeDenies(c) ==
  /\ session[c].state = "asking" /\ ~session[c].cut
  /\ session' = [Finished(c, "invalid") EXCEPT ![c].denied = TRUE]
  /\ UNCHANGED <<cmsVars, registered, maps, expired>>

(* Any other status, a network error, a body that is no JSON or the timeout of the
   call; and the return of a call whose request was aborted, which learns nothing. *)
MeFails(c) ==
  /\ session[c].state = "asking"
  /\ session' = Finished(c, "unavailable")
  /\ UNCHANGED <<cmsVars, registered, maps, expired>>

\* A minute after the cookie alone was last tried.
MinutePasses(b) ==
  /\ maps[b] = "fresh"
  /\ maps' = [maps EXCEPT ![b] = "old"]
  /\ UNCHANGED <<cmsVars, registered, session, expired>>

---------------------------------------------------------------------------
VerdictIsTrue(c) ==
  /\ session[c].verdict = "authorized" => visitor[c] = "editor" /\ session[c].form \in setup.takes
  /\ session[c].verdict = "invalid" /\ visitor[c] = "editor" /\ ~setup.explicit
       => session[c].denied \/ (session[c].stale /\ setup.takes = {"cookie"})

(* An editor whom /me does not deny outright (a 401, no user to read) is refused as
   unknown only on a lesson less than a minute old, and only by a CMS that takes the
   cookie alone: on every other CMS the form that works is found, whatever the calls
   before and beside it, denied ones among them, have left in the memory. Nobody but
   an editor is authorized, and by a form the CMS takes: the draft reads that follow
   send it again. *)
VerdictIsTheCMSs == \A c \in Calls : VerdictIsTrue(c)

(* What was learned of a CMS that needs the origin is not lost: no call that was
   refused, failed or was aborted, and no map brought by another call, takes it
   away from the calls that follow. *)
LessonStays ==
  [][setup.takes = {"origin"} /\ registered # None /\ maps[registered] # "none"
       => registered' # None /\ maps'[registered'] # "none"]_sessionVars
=============================================================================
