--------------------------- MODULE MCRevisionDisplay ---------------------------
(* Instances of RevisionDisplay for TLC: two islands, the second still to hydrate. *)
EXTENDS RevisionDisplay

TwoIslands == {1, 2}
SecondHydrates == {2}
=============================================================================
