------------------------------ MODULE MCFsOps -------------------------------
(* The file operations on small instances; one name is like another. *)
EXTENDS FsOps, TLC

NameSymmetry == Permutations(Names)
=============================================================================
