-------------------------- MODULE MCPageBindings --------------------------
(* Two nodes and two fields, with the gate active when both nodes are bound. *)
EXTENDS PageBindings, TLC

MCSymmetry == Permutations(Elements) \cup Permutations(Fields)
=============================================================================
