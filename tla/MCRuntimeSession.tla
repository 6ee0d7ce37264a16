-------------------------- MODULE MCRuntimeSession --------------------------
(* Instances of RuntimeSession for TLC. *)
EXTENDS RuntimeSession

ThreeInstances == 1..3
=============================================================================
