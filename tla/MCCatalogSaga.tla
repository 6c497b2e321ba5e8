--------------------------- MODULE MCCatalogSaga ---------------------------
(***************************************************************************)
(* CatalogSaga on a small instance.  The runs check liveness or look for   *)
(* one behaviour, so they use no symmetry.                                 *)
(***************************************************************************)
EXTENDS CatalogSaga
=============================================================================
