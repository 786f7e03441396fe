---------------------------- MODULE MCWritePath ----------------------------
(***************************************************************************)
(* Instances of WritePath for TLC.                                         *)
(***************************************************************************)
EXTENDS WritePath

AllSetups == [websocket : BOOLEAN, write_delay : BOOLEAN, reads : BOOLEAN,
              coop : BOOLEAN]
DelayedStream == {s \in AllSetups : ~s.websocket /\ s.write_delay /\ ~s.reads /\ ~s.coop}
PlainWebsocket == {s \in AllSetups : s.websocket /\ ~s.write_delay /\ ~s.reads /\ ~s.coop}
=============================================================================
