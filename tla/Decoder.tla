------------------------------ MODULE Decoder ------------------------------
(***************************************************************************)
(* Reading ServerOps from a connection: decode, the loop over              *)
(* DecoderStatus in watermelon-proto/src/proto/decoder/mod.rs, and the     *)
(* poll_read_next that feeds it, of the streaming connection (chunks of    *)
(* any size, one decoder) and, with framed, of the websocket one (whole    *)
(* messages, a new decoder for every op).                                  *)
(*                                                                         *)
(* The bytes themselves are left out.  The server's stream is a sequence   *)
(* of frames, known by the lengths of their parts, and the decoder a       *)
(* position in it: what it finds there is a frame if one starts at that    *)
(* very byte, and garbage otherwise.  Lengths count the CRLF that ends a   *)
(* control line; the one that ends a payload is added by FrameLen.         *)
(***************************************************************************)
EXTENDS Naturals, Sequences

CONSTANTS
    Frames,      \* the frames the server may send
    MaxFrames,   \* how many of them
    MaxHead,     \* MAX_HEAD_LEN
    MaxMsg,      \* MAX_MSG_LEN
    Transports   \* of framed: streaming, websocket

CRLF == 2
OkLen == 5       \* "+OK\r\n"
PingLen == 6     \* "PING\r\n", and the least that a MSG could be

\* OK stands for "+OK" and PING for PING and PONG, in which nothing is parsed;
\* LINE for -ERR and INFO.
Kind == {"OK", "PING", "LINE", "MSG", "HMSG"}

\* line: the control line.  header, payload: as declared in it.  fault: the
\* part that cannot be parsed.
Frame == [kind : Kind, line : Nat, header : Nat, payload : Nat,
          fault : {"none", "line", "headers"}]

ASSUME DecoderAssumption ==
    /\ Frames \subseteq Frame
    /\ MaxFrames \in Nat
    /\ MaxHead \in Nat \ {0}
    /\ MaxMsg \in Nat
    /\ Transports \subseteq BOOLEAN
ASSUME FrameAssumption ==
    \A f \in Frames :
        /\ f.line > CRLF
        /\ f.kind = "OK" => f.line = OkLen /\ f.fault = "none"
        /\ f.kind = "PING" => f.line = PingLen /\ f.fault = "none"
        /\ f.kind \in {"MSG", "HMSG"} => f.line >= PingLen
        /\ f.kind # "HMSG" => f.header = 0 /\ f.fault # "headers"
        /\ f.kind \notin {"MSG", "HMSG"} => f.payload = 0

VARIABLES
    framed,            \* a websocket's decode_frame, not StreamDecoder
    stream,            \* what the server sends
    got,               \* bytes of it that were put into the read buffer
    pos,               \* bytes of it that were taken out
    status,            \* DecoderStatus
    last_bytes_read,
    header_len,
    payload_len,
    message,           \* the message status is about
    pc,                \* "decode", "read" (the socket) or "failed"
    ops                \* ops returned, as their place in stream

given == <<framed, stream>>
position == <<got, pos>>
partial == <<header_len, payload_len, message>>
decoder == <<status, last_bytes_read, partial>>
vars == <<framed, stream, got, pos, status, last_bytes_read, header_len, payload_len,
          message, pc, ops>>

-----------------------------------------------------------------------------
IsMessage(f) == f.kind \in {"MSG", "HMSG"}

FrameLen(f) == f.line + IF IsMessage(f) THEN f.header + f.payload + CRLF ELSE 0

\* Where the frames of a stream end.
Ends(frames) ==
    LET end[n \in 0..Len(frames)] ==
            IF n = 0 THEN 0 ELSE end[n - 1] + FrameLen(frames[n])
    IN  end

\* Where frame i starts; one more than there are starts where the last ends.
Start(i) == Ends(stream)[i - 1]

Buffered == got - pos

\* CrlfFinder: where the CRLFs end.
CrlfEnds ==
    UNION {LET f == stream[i]
               body == Start(i) + f.line
           IN  {body} \cup (IF IsMessage(f) THEN {Start(i + 1)} ELSE {})
                      \cup (IF f.kind = "HMSG" THEN {body + f.header} ELSE {}) :
           i \in 1..Len(stream)}
LineEnds == {e \in CrlfEnds : pos + CRLF <= e /\ e <= got}
LineEnd == CHOOSE e \in LineEnds : \A other \in LineEnds : e <= other

\* What there is at pos.
AtFrame == \E i \in 1..Len(stream) : Start(i) = pos
Here == CHOOSE i \in 1..Len(stream) : Start(i) = pos

StartsWithOk == AtFrame /\ stream[Here].kind = "OK" /\ Buffered >= OkLen

\* The errors of decode_msg, decode_hmsg, -ERR, INFO and InvalidCommand.
BadLine(f) ==
    \/ f.fault = "line"
    \/ IsMessage(f) /\ f.header + f.payload > MaxMsg

Init ==
    /\ framed \in Transports
    /\ stream \in UNION {[1..n -> Frames] : n \in 0..MaxFrames}
    /\ got = 0
    /\ pos = 0
    /\ status = "ControlLine"
    /\ last_bytes_read = 0
    /\ header_len = 0
    /\ payload_len = 0
    /\ message = 0
    /\ pc = "decode"
    /\ ops = <<>>

-----------------------------------------------------------------------------
\* decode returns Some: to the handler, which polls again.  decode_frame
\* starts every op from a new status.
ReturnOp(i, n, read) ==
    /\ ops' = Append(ops, i)
    /\ pos' = pos + n
    /\ status' = "ControlLine"
    /\ last_bytes_read' = IF framed THEN 0 ELSE read
    /\ UNCHANGED <<given, got, partial, pc>>

\* decode returns None: more bytes are read, but for decode_frame an op that
\* is not complete is an error.
ReturnNone(read) ==
    /\ pc' = IF framed THEN "failed" ELSE "read"
    /\ last_bytes_read' = read
    /\ UNCHANGED <<given, position, status, partial, ops>>

Fail(n) ==
    /\ pc' = "failed"
    /\ pos' = pos + n
    /\ UNCHANGED <<given, got, last_bytes_read, partial, ops>>

\* decode is called, for a websocket only on what is left of a message.
InControlLine ==
    /\ pc = "decode"
    /\ status = "ControlLine"
    /\ framed => Buffered > 0

\* The fast path for "+OK".
FastOk ==
    /\ InControlLine
    /\ StartsWithOk
    /\ ReturnOp(Here, OkLen, last_bytes_read)

NoProgress ==
    /\ InControlLine
    /\ ~StartsWithOk
    /\ last_bytes_read = Buffered
    /\ ReturnNone(last_bytes_read)

SearchLine ==
    /\ InControlLine
    /\ ~StartsWithOk
    /\ last_bytes_read # Buffered

\* Mutant of NoLine: MAX_HEAD_LEN is not enforced.
NoLineUnlimited ==
    /\ SearchLine
    /\ LineEnds = {}
    /\ ReturnNone(Buffered)

NoLine ==
    /\ SearchLine
    /\ LineEnds = {}
    /\ Buffered < MaxHead
    /\ ReturnNone(Buffered)

HeadTooLong ==
    /\ SearchLine
    /\ LineEnds = {}
    /\ Buffered >= MaxHead
    /\ Fail(0)
    /\ UNCHANGED status

\* PING, PONG, -ERR, INFO and any other "+OK".
ControlOp ==
    /\ SearchLine
    /\ LineEnds # {}
    /\ AtFrame
    /\ ~IsMessage(stream[Here])
    /\ ~BadLine(stream[Here])
    /\ ReturnOp(Here, LineEnd - pos, last_bytes_read)

\* decode_msg and decode_hmsg
MessageHead ==
    /\ SearchLine
    /\ LineEnds # {}
    /\ AtFrame
    /\ LET f == stream[Here]
       IN  /\ IsMessage(f)
           /\ ~BadLine(f)
           /\ status' = IF f.kind = "HMSG" THEN "Headers" ELSE "Payload"
           /\ header_len' = f.header
           /\ payload_len' = f.payload
    /\ message' = Here
    /\ pos' = LineEnd
    /\ last_bytes_read' = 0
    /\ UNCHANGED <<given, got, pc, ops>>

InvalidLine ==
    /\ SearchLine
    /\ LineEnds # {}
    /\ AtFrame => BadLine(stream[Here])
    /\ Fail(LineEnd - pos)
    /\ UNCHANGED status

InHeaders == pc = "decode" /\ status = "Headers"

HeadersIncomplete ==
    /\ InHeaders
    /\ Buffered < header_len
    /\ ReturnNone(0)

\* decode_headers
DecodeHeaders ==
    /\ InHeaders
    /\ Buffered >= header_len
    /\ stream[message].fault # "headers"
    /\ pos' = pos + header_len
    /\ status' = "Payload"
    /\ UNCHANGED <<given, got, last_bytes_read, partial, pc, ops>>

\* decode_headers returns early, and the status it took is not put back.
InvalidHeaders ==
    /\ InHeaders
    /\ Buffered >= header_len
    /\ stream[message].fault = "headers"
    /\ Fail(header_len)
    /\ status' = "Poisoned"

InPayload == pc = "decode" /\ status = "Payload"

PayloadIncomplete ==
    /\ InPayload
    /\ Buffered < payload_len + CRLF
    /\ ReturnNone(0)

\* Mutant of DecodePayload: the CRLF is taken out without waiting for it.
PayloadWithoutWait ==
    /\ InPayload
    /\ Buffered >= payload_len
    /\ ReturnOp(message, payload_len + CRLF, 0)

\* Mutant of DecodePayload: the CRLF is not taken out.
PayloadWithoutCrlf ==
    /\ InPayload
    /\ Buffered >= payload_len + CRLF
    /\ ReturnOp(message, payload_len, 0)

\* Mutant of DecodePayload: the bytes after it count as already read.
PayloadKeepsCount ==
    /\ InPayload
    /\ Buffered >= payload_len + CRLF
    /\ ReturnOp(message, payload_len + CRLF, Buffered - (payload_len + CRLF))

DecodePayload ==
    /\ InPayload
    /\ Buffered >= payload_len + CRLF
    /\ ReturnOp(message, payload_len + CRLF, 0)

\* residual_frame is empty.
NextMessage ==
    /\ framed
    /\ pc = "decode"
    /\ Buffered = 0
    /\ status = "ControlLine"
    /\ pc' = "read"
    /\ UNCHANGED <<given, position, decoder, ops>>

\* The socket (external) has bytes: any number of a stream's, and for a
\* websocket a message with some whole frames.
ReadSome ==
    /\ pc = "read"
    /\ got' \in IF framed THEN {Start(i) : i \in 2..Len(stream) + 1}
                          ELSE got + 1..Start(Len(stream) + 1)
    /\ got' > got
    /\ pc' = "decode"
    /\ UNCHANGED <<given, pos, decoder, ops>>

Decode ==
    \/ FastOk \/ NoProgress \/ NoLine \/ HeadTooLong \/ ControlOp
    \/ MessageHead \/ InvalidLine
    \/ HeadersIncomplete \/ DecodeHeaders \/ InvalidHeaders
    \/ PayloadIncomplete \/ DecodePayload

Next == Decode \/ NextMessage \/ ReadSome

Spec == Init /\ [][Next]_vars

-----------------------------------------------------------------------------
\* Type invariant of the decoder: it never takes out a byte that was not read.
TypeOK ==
    /\ framed \in Transports
    /\ stream \in Seq(Frames)
    /\ got \in Nat
    /\ pos \in 0..got
    /\ status \in {"ControlLine", "Headers", "Payload", "Poisoned"}
    /\ last_bytes_read \in Nat
    /\ header_len \in Nat
    /\ payload_len \in Nat
    /\ message \in 0..Len(stream)
    /\ pc \in {"decode", "read", "failed"}
    /\ ops \in Seq(1..Len(stream))

\* A frame that is well formed may still be refused for its length.
Acceptable(f) == f.fault = "none" /\ (IsMessage(f) => f.header + f.payload <= MaxMsg)
Rejectable(f) == ~Acceptable(f) \/ f.line > MaxHead

Abstract == INSTANCE OpStream
    WITH Op <- Frames, failed <- (pc = "failed")

\* However the bytes are cut, decode returns the server's ops one by one, in
\* order, none twice and none missing, and it fails only at an op that is
\* malformed or too long: the decoder never loses its place in the stream.
ReadsTheStream == Abstract!Spec

\* poll_read_next waits for the socket only while the next op is incomplete:
\* decode returns None only if it cannot get on.
WaitsOnlyForBytes ==
    pc = "read" =>
        \/ Len(ops) = Len(stream)
        \/ got < Start(Len(ops) + 2)

\* ... at least as long as neither -ERR nor INFO has been read, which leave
\* last_bytes_read behind: the traffic of an established connection never waits
\* behind a complete op.
SteadyNeverStalls ==
    (\A i \in 1..Len(stream) : stream[i].kind # "LINE") => WaitsOnlyForBytes

\* The read buffer never has to grow beyond one head or one body at its limit
\* before something is taken out of it or the connection fails.
BufferIsBounded ==
    pc = "read" => Buffered < MaxHead \/ Buffered < MaxMsg + CRLF

\* The assertion of the fast path: no byte of this "+OK" was looked at before.
FastOkIsFresh == InControlLine /\ StartsWithOk => last_bytes_read = 0

\* The read buffer neither grows without limit nor keeps a complete op waiting.
NeverStuck == BufferIsBounded /\ SteadyNeverStalls

\* decode takes out only what was read (its slices never panic), and the read
\* buffer moves on.
DecoderInv == TypeOK /\ NeverStuck
=============================================================================
