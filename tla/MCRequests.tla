----------------------------- MODULE MCRequests -----------------------------
(***************************************************************************)
(* Requests for TLC; the instance is in MCRequests_all.cfg.  Two requests  *)
(* are made together: one with a reply subject of its own beside one on    *)
(* the inbox, or two on the inbox, of which the second may be the first of *)
(* its connection.                                                         *)
(***************************************************************************)
EXTENDS Requests

CONSTANTS e, s, t

MCExplicit == {e}
MCShared == {s, t}
MCUses == {{e, s}, {s, t}}
=============================================================================
