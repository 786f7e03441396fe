------------------------------- MODULE Encoder -------------------------------
(***************************************************************************)
(* The write side of a Connection: the StreamEncoder and its BufList under *)
(* poll_write_next and poll_flush of a StreamingConnection, and the frames *)
(* and the send_error of a WebsocketConnection.                            *)
(*                                                                         *)
(* Bytes are numbered in the order the ops hand them over.  An op is a     *)
(* head of one byte, a payload, and a terminator of one byte; Wire has     *)
(* what is in them.  A websocket is a sink that takes whole frames.        *)
(***************************************************************************)
EXTENDS Naturals, SequencesExt

CONSTANTS
    Flatten,        \* WRITE_FLATTEN_THRESHOLD
    Slices,         \* the 64 slices of a vectored write
    Limit,          \* the 8_290_304 bytes of may_enqueue_more_ops
    PayloadLens,    \* the lengths of payloads
    MaxBytes        \* bounds the bytes that are ever enqueued

\* A vectored write has room for more than one slice.
ASSUME EncoderAssumption ==
    /\ Flatten \in Nat /\ Limit \in Nat /\ MaxBytes \in Nat
    /\ Slices \in Nat /\ Slices >= 2
    /\ PayloadLens \subseteq Nat

VARIABLES
    websocket,      \* which Connection this is
    vectored,       \* is_write_vectored of the socket
    bufs,           \* write_buf.bufs: the large pieces
    bufsLen,        \* write_buf.len
    flat,           \* flattened_writes
    mayFlush,       \* may_flush, or should_flush of a websocket
    sendError,      \* send_error
    sinkOpen,       \* the websocket has not begun to close
    sent,           \* the bytes the socket, or the sink, has taken
    unflushed,      \* how many of them are not flushed
    seen,           \* the bytes enqueued so far
    ended           \* the connection has reported an error and is given up

buffers == <<bufs, bufsLen, flat>>
encoderVars == <<websocket, vectored, bufs, bufsLen, flat, mayFlush, sendError,
                 sinkOpen, sent, unflushed, seen, ended>>

EncoderInit ==
    /\ websocket \in BOOLEAN
    /\ vectored \in BOOLEAN
    /\ bufs = <<>> /\ bufsLen = 0 /\ flat = <<>>
    /\ mayFlush = FALSE /\ sendError = FALSE
    /\ sinkOpen = websocket
    /\ sent = <<>> /\ unflushed = 0 /\ seen = 0
    /\ ended = FALSE

(***************************************************************************)
(* BufList and StreamEncoder                                               *)
(***************************************************************************)
Remaining == bufsLen + Len(flat)
Chunk == IF bufs # <<>> THEN bufs[1] ELSE flat

(* chunks_vectored: one slice for each piece, as many as there is room for.*)
Vector ==
    LET pieces == bufs \o (IF flat = <<>> THEN <<>> ELSE <<flat>>)
    IN IF Len(pieces) <= Slices THEN pieces ELSE SubSeq(pieces, 1, Slices)

(* A mutant: what is flattened already is not split off first. *)
WritePayloadFirst(e, payload) ==
    IF Len(payload) < Flatten THEN [e EXCEPT !.flat = @ \o payload]
    ELSE [bufs |-> Append(e.bufs, payload), len |-> e.len + Len(payload), flat |-> e.flat]

(* FrameEncoder::write: the state after payload, given the one before it.  *)
WritePayload(e, payload) ==
    CASE payload = <<>> -> e
      [] Len(payload) < Flatten /\ payload # <<>> -> [e EXCEPT !.flat = @ \o payload]
      [] OTHER ->
           [bufs |-> e.bufs \o (IF e.flat = <<>> THEN <<>> ELSE <<e.flat>>) \o <<payload>>,
            len |-> e.len + Len(e.flat) + Len(payload),
            flat |-> <<>>]

SmallWrite(e, bytes) == [e EXCEPT !.flat = @ \o bytes]

(* encode, seen from here. *)
EncodeOp(e, p) ==
    LET Fresh(a, b) == [i \in 1..b - a |-> seen + a + i]
    IN SmallWrite(WritePayload(SmallWrite(e, Fresh(0, 1)), Fresh(1, 1 + p)), Fresh(1 + p, 2 + p))

(* A mutant: a piece of which one byte is left is popped as well. *)
PoppedEarly(n) == {k \in 1..Len(bufs) : Len(FlattenSeq(SubSeq(bufs, 1, k))) <= n + 1}

(* BufList::advance: whole pieces are popped, the last one is cut. *)
Popped(n) == {k \in 1..Len(bufs) : Len(FlattenSeq(SubSeq(bufs, 1, k))) <= n}

BufListAdvance(n) ==
    LET gone == {0} \cup Popped(n)
        k == CHOOSE j \in gone : \A i \in gone : i <= j
        cut == n - Len(FlattenSeq(SubSeq(bufs, 1, k)))
        rest == SubSeq(bufs, k + 1, Len(bufs))
    IN /\ bufs' = IF rest = <<>> \/ cut = 0 THEN rest
                  ELSE <<SubSeq(rest[1], cut + 1, Len(rest[1]))>> \o Tail(rest)
       /\ bufsLen' = bufsLen - n

(* StreamEncoder::advance: the pieces first, what is left off the flat one.*)
Advance(n) ==
    LET mid == IF bufsLen < n THEN bufsLen ELSE n
    IN /\ BufListAdvance(mid)
       /\ flat' = SubSeq(flat, n - mid + 1, Len(flat))

(***************************************************************************)
(* Connection                                                              *)
(***************************************************************************)
MayEnqueueMoreOps == IF websocket THEN ~sendError ELSE Remaining < Limit

(* enqueue_write_op of a StreamingConnection. *)
EnqueueStream(p) ==
    LET e == EncodeOp([bufs |-> bufs, len |-> bufsLen, flat |-> flat], p)
    IN /\ ~websocket
       /\ bufs' = e.bufs /\ bufsLen' = e.len /\ flat' = e.flat
       /\ UNCHANGED <<mayFlush, sendError, sent, unflushed>>

(* A mutant: the error of start_send is dropped. *)
EnqueueFrameUnchecked(p) ==
    /\ websocket
    /\ sent' = IF sinkOpen THEN sent \o [i \in 1..p + 2 |-> seen + i] ELSE sent
    /\ unflushed' = IF sinkOpen THEN unflushed + p + 2 ELSE unflushed
    /\ mayFlush' = TRUE
    /\ UNCHANGED <<buffers, sendError>>

(* enqueue_write_op of a WebsocketConnection: with an error stored nothing *)
(* is done; a frame the sink refuses leaves the error to be reported.      *)
EnqueueFrame(p) ==
    /\ websocket
    /\ IF sendError
       THEN UNCHANGED <<sent, unflushed, sendError, mayFlush>>
       ELSE /\ sent' = IF sinkOpen THEN sent \o [i \in 1..p + 2 |-> seen + i] ELSE sent
            /\ unflushed' = IF sinkOpen THEN unflushed + p + 2 ELSE unflushed
            /\ sendError' = ~sinkOpen
            /\ mayFlush' = TRUE
    /\ UNCHANGED buffers

(* A command is enqueued when there is room; a PING or a PONG, which has  *)
(* no payload, without asking.                                             *)
EnqueueWriteOp(p) ==
    /\ ~ended
    /\ p = 0 \/ MayEnqueueMoreOps
    /\ seen + p + 2 <= MaxBytes
    /\ EnqueueStream(p) \/ EnqueueFrame(p)
    /\ seen' = seen + p + 2
    /\ UNCHANGED <<websocket, vectored, sinkOpen, ended>>

(* A mutant: a write in pieces offers the large ones only. *)
OfferedLarge == IF vectored THEN FlattenSeq(bufs) ELSE Chunk

(* What a write offers the socket. *)
Offered == IF Len(Chunk) < Remaining /\ vectored THEN FlattenSeq(Vector) ELSE Chunk

(* A mutant: writing does not ask for a flush. *)
PollWriteNextQuiet(n) ==
    /\ ~websocket /\ ~ended /\ Remaining > 0
    /\ n \in 1..Len(Offered)
    /\ sent' = sent \o SubSeq(Offered, 1, n)
    /\ unflushed' = unflushed + n
    /\ Advance(n)
    /\ UNCHANGED <<websocket, vectored, mayFlush, sendError, sinkOpen, seen, ended>>

(* poll_write_next: the socket takes n bytes, of one chunk or of several.  *)
PollWriteNext(n) ==
    /\ ~websocket /\ ~ended /\ Remaining > 0
    /\ n \in 1..Len(Offered)
    /\ sent' = sent \o SubSeq(Offered, 1, n)
    /\ unflushed' = unflushed + n
    /\ Advance(n)
    /\ mayFlush' = TRUE
    /\ UNCHANGED <<websocket, vectored, sendError, sinkOpen, seen, ended>>

PollWritePending ==
    /\ ~websocket /\ ~ended /\ Remaining > 0
    /\ mayFlush' = FALSE
    /\ UNCHANGED <<websocket, vectored, buffers, sendError, sinkOpen, sent, unflushed, seen, ended>>

(* poll_flush, when it is ready. *)
FlushStream ==
    /\ ~websocket
    /\ unflushed' = 0 /\ mayFlush' = FALSE
    /\ UNCHANGED <<sendError, ended>>

(* A stored error is taken out and reported instead; should_flush is never *)
(* reset.                                                                  *)
FlushSink ==
    /\ websocket
    /\ IF sendError THEN sendError' = FALSE /\ ended' = TRUE /\ UNCHANGED unflushed
       ELSE unflushed' = 0 /\ UNCHANGED <<sendError, ended>>
    /\ UNCHANGED mayFlush

PollFlush ==
    /\ ~ended
    /\ FlushStream \/ FlushSink
    /\ UNCHANGED <<websocket, vectored, buffers, sinkOpen, sent, seen>>

(* poll_read_next of a websocket reports the stored error, or the close    *)
(* frame of the server: the handler gives the connection up.               *)
PollReadNext ==
    /\ websocket /\ ~ended
    /\ sendError \/ ~sinkOpen
    /\ sendError' = FALSE
    /\ ended' = TRUE
    /\ UNCHANGED <<websocket, vectored, buffers, mayFlush, sinkOpen, sent, unflushed, seen>>

(* The server begins the closing handshake: start_send fails from now on.  *)
ServerCloses ==
    /\ websocket /\ sinkOpen
    /\ sinkOpen' = FALSE
    /\ UNCHANGED <<websocket, vectored, buffers, mayFlush, sendError, sent, unflushed, seen, ended>>

EncoderNext ==
    \/ \E p \in PayloadLens : EnqueueWriteOp(p)
    \/ \E n \in 1..MaxBytes : PollWriteNext(n)
    \/ PollWritePending
    \/ PollFlush
    \/ PollReadNext
    \/ ServerCloses

EncoderSpec == EncoderInit /\ [][EncoderNext]_encoderVars

(* The handler keeps writing and flushing while there is something to.     *)
EncoderFairness ==
    /\ WF_encoderVars(\E n \in 1..MaxBytes : PollWriteNext(n))
    /\ WF_encoderVars(mayFlush /\ unflushed > 0 /\ PollFlush)

FairEncoderSpec == EncoderSpec /\ EncoderFairness

-----------------------------------------------------------------------------
Content == FlattenSeq(bufs) \o flat

(* BufList::remaining and has_remaining assert it: len is the sum of the   *)
(* pieces, and none of them is empty.  poll_write_next asserts the rest:   *)
(* there is a chunk when something remains, and at least two slices when   *)
(* the first chunk is not everything.                                      *)
EncoderTypeOK ==
    /\ bufsLen = Len(FlattenSeq(bufs))
    /\ \A k \in DOMAIN bufs : bufs[k] # <<>>
    /\ Remaining > 0 => Chunk # <<>>
    /\ Len(Chunk) < Remaining => Len(Vector) >= 2
    /\ websocket => Remaining = 0

(* streaming.rs:110-144: what the socket took and nobody has flushed is    *)
(* not forgotten: once there is nothing left to write, a flush is due.     *)
NothingStaysUnflushed ==
    ~websocket /\ unflushed > 0 /\ Remaining = 0 => mayFlush

(* websocket.rs:105-121: an op that is accepted and not sent has been      *)
(* reported, or is about to be.                                            *)
LossIsReported ==
    websocket /\ Len(sent) < seen => sendError \/ ended

(* An op that was accepted is written and due to be flushed, or its loss   *)
(* is reported.                                                            *)
NothingIsLost == NothingStaysUnflushed /\ LossIsReported

(* No assertion of BufList and poll_write_next fails, and no op is lost in *)
(* silence.                                                                *)
EncoderInv == EncoderTypeOK /\ NothingIsLost

(* The encoder is a queue of bytes; a websocket's sink takes them as they  *)
(* are enqueued, up to the first frame it refuses.                         *)
Queue == INSTANCE ByteQueue WITH queue <- Content, sent <- sent

IsAQueue == Queue!Init /\ [][~websocket => Queue!Next]_<<Content, sent>>

(* What is enqueued is written and flushed in the end. *)
AllIsFlushed == ~websocket => []<>(unflushed = 0 /\ Remaining = 0)
==============================================================================
