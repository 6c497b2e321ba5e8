----------------------------- MODULE MCListing -----------------------------
(***************************************************************************)
(* Listing on a small instance.                                            *)
(***************************************************************************)
EXTENDS Listing, TLC

\* Rows only differ by their times.
Symmetry == Permutations(Rows)
=============================================================================
