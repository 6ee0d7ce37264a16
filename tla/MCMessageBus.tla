--------------------------- MODULE MCMessageBus ---------------------------
(* MessageBus with two trusted origins and one that is never trusted. *)
EXTENDS MessageBus

CONSTANTS Admin, Mirror, Foreign

MCOrigins == {Admin, Mirror, Foreign}
MCAllowed == {Admin, Mirror}
=============================================================================
