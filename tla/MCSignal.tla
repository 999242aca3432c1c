------------------------------ MODULE MCSignal ------------------------------
(***************************************************************************)
(* TLC instance of Signal.                                                 *)
(***************************************************************************)
EXTENDS Signal
=============================================================================
