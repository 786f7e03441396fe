------------------------------ MODULE ByteQueue ------------------------------
(***************************************************************************)
(* What the write side of a connection promises: the bytes of the ops are  *)
(* handed over in the order they were enqueued, each of them once, whatever*)
(* the pieces they are kept in and however much the socket takes at a time.*)
(***************************************************************************)
EXTENDS Naturals, Sequences

VARIABLES queue, sent

Init == queue = <<>> /\ sent = <<>>

Put(bytes) == queue' = queue \o bytes /\ UNCHANGED sent

Get(n) ==
    /\ sent' = sent \o SubSeq(queue, 1, n)
    /\ queue' = SubSeq(queue, n + 1, Len(queue))

(* The bytes that are put are the ones that follow all of those before. *)
Seen == Len(sent) + Len(queue)
Next ==
    \/ Len(queue') > Len(queue) /\ Put([i \in 1..Len(queue') - Len(queue) |-> Seen + i])
    \/ \E n \in 0..Len(queue) : Get(n)

Spec == Init /\ [][Next]_<<queue, sent>>
==============================================================================
