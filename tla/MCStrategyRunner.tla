-------------------------- MODULE MCStrategyRunner --------------------------
(* Instances of StrategyRunner for TLC. *)
EXTENDS StrategyRunner

CONSTANTS b1, b2

(* Three revisions with a boundary, bindings and a route; the same with a
   connection that is lost and a document that is saved; with a route that is
   refreshed after a save; two boundaries whose patches may be refused, refined and
   cut short. *)
WithRoute ==
  [boundaries |-> {b1}, unfaithful |-> {Bound}, hasRoute |-> TRUE, afterSave |-> FALSE,
   trails |-> FALSE, timeouts |-> FALSE, saves |-> FALSE, revisions |-> 3]
WithDebts == [WithRoute EXCEPT !.timeouts = TRUE, !.saves = TRUE, !.revisions = 2]
AfterSaves == [WithDebts EXCEPT !.afterSave = TRUE]
WithFragments ==
  [WithRoute EXCEPT !.boundaries = {b1, b2}, !.unfaithful = {b1}, !.hasRoute = FALSE,
                    !.trails = TRUE, !.timeouts = TRUE, !.revisions = 2]

AllPages == {WithRoute, WithDebts, AfterSaves, WithFragments}
=============================================================================
