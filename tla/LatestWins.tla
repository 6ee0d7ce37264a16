----------------------------- MODULE LatestWins -----------------------------
(* What a document session promises a component that reads it, without a word
   of merges, requests or deadlines: it listens or it does not, every message
   it takes gets the next number, and what it shows is only ever replaced by
   the newest message, while it listens. An answer that comes back late, or
   after the last subscriber has left, is shown to nobody. *)
EXTENDS Naturals

VARIABLES
  active,  \* somebody listens
  newest,  \* the number of the newest message, or of the departure after it
  shown    \* the number of the message on show, 0 for the initial data

latestVars == <<active, newest, shown>>

LatestInit == active = FALSE /\ newest = 0 /\ shown = 0

Begin == ~active /\ active' = TRUE /\ UNCHANGED <<newest, shown>>
Take == active /\ newest' = newest + 1 /\ UNCHANGED <<active, shown>>
Show == active /\ shown' = newest /\ UNCHANGED <<active, newest>>
Leave == active /\ active' = FALSE /\ newest' = newest + 1 /\ UNCHANGED shown

LatestNext == Begin \/ Take \/ Show \/ Leave

LatestSpec == LatestInit /\ [][LatestNext]_latestVars
=============================================================================
