----------------------------- MODULE MCAccounts -----------------------------
(***************************************************************************)
(* Accounts on a small instance.                                           *)
(***************************************************************************)
EXTENDS Accounts, TLC

\* Operations of a kind only differ in what they are asked; so do values.
Symmetry == Permutations(Creators) \cup Permutations(Edits)
            \cup Permutations(Emails) \cup Permutations(Passwords)
=============================================================================
