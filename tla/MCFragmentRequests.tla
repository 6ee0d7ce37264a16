-------------------------- MODULE MCFragmentRequests --------------------------
(* Instances of FragmentRequests for TLC: two batches that render the same
   revision number, the first with an element that repeats a boundary. *)
EXTENDS FragmentRequests

TwoBatches == {1, 2}
Elements == 1..5
ElementSignals == <<1, 1, 1, 2, 2>>
ElementBoundaries == <<"a", "b", "a", "a", "b">>
SameRevision == <<1, 1>>
InOrder == [e \in Elements |-> e]
=============================================================================
