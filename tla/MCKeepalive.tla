---------------------------- MODULE MCKeepalive ----------------------------
(***************************************************************************)
(* Keepalive for TLC; the instances are in the MCKeepalive_*.cfg files.    *)
(***************************************************************************)
EXTENDS Keepalive
=============================================================================
