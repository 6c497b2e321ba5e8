---------------------------- MODULE MCLoanServer ----------------------------
(***************************************************************************)
(* LoanServer, and LoanService under it, on a small instance.              *)
(***************************************************************************)
EXTENDS LoanServer
=============================================================================
