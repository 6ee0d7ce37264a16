-------------------------- MODULE MCUpdatePipeline --------------------------
(* Instances of UpdatePipeline for TLC. *)
EXTENDS UpdatePipeline, TLC

CONSTANTS Title, Body, Venue, a, b

MCValues == {a, b}
ValuesAlike == Permutations(MCValues)

(* A heading and a relationship; a rich text behind handlers that take their
   time, on a site whose documents refer to each other. *)
WithReference ==
  [plain |-> {Title}, rich |-> {}, refs |-> {Venue}, handlers |-> FALSE, relatedSaves |-> FALSE]
WithHandlers ==
  [plain |-> {}, rich |-> {Body}, refs |-> {}, handlers |-> TRUE, relatedSaves |-> TRUE]

BothPages == {WithReference, WithHandlers}
=============================================================================
