----------------------------- MODULE MCLibrary -----------------------------
(***************************************************************************)
(* Library on small instances.                                             *)
(***************************************************************************)
EXTENDS Library, TLC

Symmetry == Permutations(Requests)
=============================================================================
