------------------------------- MODULE MCCodec -------------------------------
(***************************************************************************)
(* Instances for TLC of what a connection is made of: the Decoder, the     *)
(* Encoder and what goes over the Wire.  They share no state, and a        *)
(* behavior is that of one of them: component says whose.                  *)
(***************************************************************************)
EXTENDS Decoder, Encoder, Wire

VARIABLE component

-----------------------------------------------------------------------------
\* Frames of the lengths they have on the wire.
FrameOf(kind, line, header, payload, fault) ==
    [kind |-> kind, line |-> line, header |-> header, payload |-> payload,
     fault |-> fault]

OkFrame == FrameOf("OK", 5, 0, 0, "none")           \* +OK
Ping == FrameOf("PING", 6, 0, 0, "none")            \* PING
ErrFrame == FrameOf("LINE", 9, 0, 0, "none")        \* -ERR ''
Msg == FrameOf("MSG", 11, 0, 1, "none")             \* MSG a 1 1
Empty == FrameOf("MSG", 11, 0, 0, "none")           \* MSG a 1 0
Hmsg == FrameOf("HMSG", 16, 12, 1, "none")          \* HMSG a 1 12 13, NATS/1.0
TooBig == FrameOf("MSG", 12, 0, 14, "none")         \* MSG a 1 14, over MaxMsg
BadErr == FrameOf("LINE", 8, 0, 0, "line")          \* -ERR '
BadHmsg == FrameOf("HMSG", 16, 12, 0, "headers")    \* no NATS/1.0
LongLine == FrameOf("LINE", 18, 0, 0, "none")       \* over MaxHead

AllFrames == {OkFrame, Ping, ErrFrame, Msg, Empty, Hmsg, TooBig, BadErr, BadHmsg, LongLine}

MCLetters == {"a", "b", "A"}

\* Every string of at most three of these, and what a control line could break on.
Awkward == {"a", ".", "*", ">", " ", Crlf}
MCRawSubjects == UNION {[1..n -> Awkward] : n \in 0..3}
MCDestinations == {<<"a">>, <<"a", ".", "*">>, <<"a", " ">>, <<">", ".">>}
MCRawGroups == {<<"a">>, <<"a", " ">>, <<"tab">>, <<"a", ".", "a">>}
MCRawNames == {<<"a">>, <<"A">>, <<"b", " ">>, <<>>, <<":">>, <<"high">>}
MCRawValues == {<<>>, <<" ", "a", ":">>, <<"a">>, <<Crlf>>}
MCPayloads == {<<>>, <<"a", Crlf, " ">>}
MCStatusLines ==
    {<<>>, <<" ", "4", "0", "4">>, <<" ", "4", "0", "9", " ", "a", " ", "b">>,
     <<" ", "4", "0", "9", " ", " ">>, <<" ", "0", "9", "9">>, <<" ", "5", "0">>,
     <<" ", "5", "0", "3", "a">>, <<" ", "a", "0", "3">>, <<" ", "1", "0", "0", "tab", "b", " ">>}

-----------------------------------------------------------------------------
\* Where the others stay meanwhile.
NoDecoder == framed = FALSE /\ stream = <<>>
NoEncoder == websocket = FALSE /\ vectored = FALSE

MCInit ==
    /\ component \in {"decoder", "encoder", "wire"}
    /\ IF component = "decoder" THEN TRUE ELSE NoDecoder
    /\ IF component = "encoder" THEN TRUE ELSE NoEncoder
    /\ Init /\ EncoderInit /\ WireInit

MCNext ==
    /\ UNCHANGED component
    /\ \/ component = "decoder" /\ Next /\ UNCHANGED <<encoderVars, wireVars>>
       \/ component = "encoder" /\ EncoderNext /\ UNCHANGED <<vars, wireVars>>
       \/ component = "wire" /\ WireNext /\ UNCHANGED <<vars, encoderVars>>

MCSpec ==
    /\ MCInit /\ [][MCNext]_<<component, vars, encoderVars, wireVars>>
    /\ component = "encoder" => EncoderFairness
=============================================================================
