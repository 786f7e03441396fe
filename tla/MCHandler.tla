----------------------------- MODULE MCHandler -----------------------------
(***************************************************************************)
(* Instances of Handler for TLC.                                           *)
(***************************************************************************)
EXTENDS Handler
=============================================================================
