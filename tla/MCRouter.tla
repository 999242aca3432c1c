------------------------------ MODULE MCRouter ------------------------------
(***************************************************************************)
(* TLC instance of Router.                                                 *)
(***************************************************************************)
EXTENDS Router
=============================================================================
