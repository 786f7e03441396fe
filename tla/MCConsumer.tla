----------------------------- MODULE MCConsumer -----------------------------
(***************************************************************************)
(* Consumer for TLC; the instance is in MCConsumer_all.cfg.                *)
(***************************************************************************)
EXTENDS Consumer
=============================================================================
