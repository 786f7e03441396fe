------------------------------ MODULE OpStream ------------------------------
(***************************************************************************)
(* What reading from a connection promises: the ops of the server's stream *)
(* come out one by one and in order, and reading fails only at an op that  *)
(* may be rejected.                                                        *)
(***************************************************************************)
EXTENDS Naturals, Sequences

CONSTANTS
    Op,              \* the ops
    Acceptable(_),   \* op may be delivered
    Rejectable(_)    \* op may fail the connection

VARIABLES
    stream,          \* what the server sends
    ops,             \* the positions in it of the ops delivered so far
    failed

vars == <<stream, ops, failed>>

Init ==
    /\ stream \in Seq(Op)
    /\ ops = <<>>
    /\ failed = FALSE

Upcoming == Len(ops) + 1

Deliver ==
    /\ ~failed
    /\ Upcoming <= Len(stream)
    /\ Acceptable(stream[Upcoming])
    /\ ops' = Append(ops, Upcoming)
    /\ UNCHANGED <<stream, failed>>

Reject ==
    /\ ~failed
    /\ Upcoming <= Len(stream)
    /\ Rejectable(stream[Upcoming])
    /\ failed' = TRUE
    /\ UNCHANGED <<stream, ops>>

Next == Deliver \/ Reject

Spec == Init /\ [][Next]_vars
=============================================================================
