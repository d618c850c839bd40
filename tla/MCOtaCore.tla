----------------------------- MODULE MCOtaCore -----------------------------
(* Application updates on small instances: the two slots are interchangeable. *)
EXTENDS OtaCore, TLC

Symmetry == Permutations(Slots)
=============================================================================
