------------------------------ MODULE MCEvents ------------------------------
(* The event hub on small instances: publishers and listeners are interchangeable. *)
EXTENDS Events, TLC

Symmetry == Permutations(Publishers)
=============================================================================
