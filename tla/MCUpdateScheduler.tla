------------------------ MODULE MCUpdateScheduler ------------------------
(* UpdateScheduler on an ordinary element and an anchor without a box. One tick
   is debounceMs (50 ms by default): the deadline and the frame fallback keep
   their default proportion to it. *)
EXTENDS UpdateScheduler

CONSTANTS Heading, Anchor, a, b

MCElements == {Heading, Anchor}
MCAnchors == {Anchor}
MCValues == {a, b}
=============================================================================
