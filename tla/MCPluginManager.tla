--------------------------- MODULE MCPluginManager ---------------------------
(* Instances of PluginManager for TLC. *)
EXTENDS PluginManager

CONSTANTS p, q, e1, e2

\* Bounds that bring out the queue, the scopes, and the emissions.
Queue == [calls |-> 4, kinds |-> {}, emissions |-> {}]
Scopes == [calls |-> 3, kinds |-> {"layer", "cleanup"}, emissions |-> {}]
Emission == [calls |-> 2, kinds |-> {"on", "once"}, emissions |-> {e1}]
Overlap == [calls |-> 1, kinds |-> {"on", "once"}, emissions |-> {e1, e2}]

MCScenarios == {Queue, Scopes, Emission, Overlap}

MCRegistrations == 1..4
MCHandlers == Subscription \cup {PageHandler}
=============================================================================
