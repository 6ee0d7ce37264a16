-------------------------- MODULE MCFragmentEndpoint --------------------------
(* An instance of FragmentEndpoint for TLC. *)
EXTENDS FragmentEndpoint, TLC

CONSTANTS one, two

Good == [door |-> NoAnswer, size |-> 2, declaresMore |-> FALSE, usable |-> TRUE, scoped |-> FALSE,
         within |-> FALSE, known |-> TRUE, visitor |-> "editor"]
Scoped == [Good EXCEPT !.scoped = TRUE, !.within = TRUE, !.visitor = "absent"]
Away == [Good EXCEPT !.door = Says(405, "method")]

\* Alone at the endpoint: bodies, bindings and boundaries of every kind.
Odd ==
  {[Good EXCEPT !.size = 3], [Good EXCEPT !.declaresMore = TRUE], [Good EXCEPT !.usable = FALSE],
   [Good EXCEPT !.known = FALSE], Scoped, [Scoped EXCEPT !.within = FALSE], [Scoped EXCEPT !.size = 4]}
\* Two whose session calls share the memory.
Small(v) == [Good EXCEPT !.size = 1, !.visitor = v]

Takes(forms) == [takes |-> forms, explicit |-> FALSE]
Explicit(forms) == [takes |-> forms, explicit |-> TRUE]

MCWorlds ==
  [input : {(one :> i) @@ (two :> Away) : i \in Odd}, setup : {Takes({"cookie"})},
   conf : Configurations]
  \cup
  [input : {(one :> Small(v)) @@ (two :> Small(u)) : v \in Visitors, u \in {"editor", "unknown"}},
   setup : {Takes(f) : f \in (SUBSET Forms) \ {{}}}, conf : {[total |-> FALSE, drain |-> FALSE]}]
  \cup
  [input : {(one :> Small("editor")) @@ (two :> Away)},
   setup : {Explicit({"cookie"}), Explicit({"origin"})}, conf : {[total |-> TRUE, drain |-> FALSE]}]
=============================================================================
