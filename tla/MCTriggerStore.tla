--------------------------- MODULE MCTriggerStore ---------------------------
(* TriggerStore on an instance small enough for TLC.  Requests are model   *)
(* values that differ in nothing but their name.                           *)
EXTENDS TriggerStore

Symmetry == Permutations(Requests)
=============================================================================
