--------------------------- MODULE MCLoanService ---------------------------
(***************************************************************************)
(* LoanService on small instances.                                         *)
(***************************************************************************)
EXTENDS LoanService
=============================================================================
