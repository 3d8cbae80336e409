-------------------------- MODULE MCAccountErasure --------------------------
(* Small instances of AccountErasure. *)
EXTENDS AccountErasure, TLC

CONSTANTS player, settings, g1, old, new, app, operator

\* The app, and the operator by the person's new subject.
AppAndOperator == [e \in Erasers |-> IF e = operator THEN new ELSE None]
=============================================================================
