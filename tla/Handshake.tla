----------------------------- MODULE Handshake -----------------------------
(***************************************************************************)
(* What easy_connect does on an established TCP connection: the TLS and   *)
(* websocket upgrades, the server's INFO, the CONNECT with its            *)
(* credentials, the zstd upgrade, and the PING whose PONG ends it.  Each  *)
(* await is an action, so that the server, which is external, moves in    *)
(* between.  An op on the wire carries the layers it was written through. *)
(***************************************************************************)
EXTENDS Naturals, SequencesExt

CONSTANTS
    Peers,      \* the addresses, options and servers to connect with
    MaxPings    \* PINGs a server may send during the handshake

Peer == [
    tls : BOOLEAN,           \* Protocol::TLS; FALSE is PossiblyPlain
    websocket : BOOLEAN,     \* Transport::Websocket
    auth : {"none", "password", "creds"},
    level : BOOLEAN,         \* zstd_compression_level is Some
    tls_required : BOOLEAN,  \* the server's INFO ...
    nonce : BOOLEAN,
    zstd : BOOLEAN,
    authorizes : BOOLEAN]    \* ... and whether it takes the credentials

ASSUME HandshakeAssumption ==
    /\ Peers \subseteq Peer
    /\ MaxPings \in Nat
    \* A server takes no TLS inside of a websocket.
    /\ \A p \in Peers : p.websocket /\ p.tls_required => p.tls

VARIABLES
    peer,       \* the connection's member of Peers
    stage,      \* the await of connect the client is at
    security,   \* ConnectionSecurity, TRUE for Tls
    halves,     \* ConnectionCompression: Plain, or the halves of a ZstdStream
                \* that hold the socket
    encoder,    \* ops that have been encoded and not written
    wire,       \* ops written and not read by the server
    inbound,    \* ops of the server that have not been read
    pings,      \* PINGs read from the server
    server,     \* greeting, waiting for the CONNECT, open or gone
    srvZstd,    \* the server compresses
    garbled     \* somebody read an op through the wrong layers

shake == <<stage, security, halves, encoder, wire, inbound, pings, server,
           srvZstd, garbled>>
io == <<encoder, wire, inbound>>
peerSide == <<server, srvZstd>>

Plain == {"plain"}

ShakeOff ==
    /\ stage = "off"
    /\ security = FALSE
    /\ halves = Plain
    /\ encoder = <<>>
    /\ wire = <<>>
    /\ inbound = <<>>
    /\ pings = 0
    /\ server = "greeting"
    /\ srvZstd = FALSE
    /\ garbled = FALSE

ShakeInit == ShakeOff /\ peer \in Peers

\* The connection is dropped: an error, a timeout or a lost connection.
ShakeDrop ==
    /\ stage' = "off"
    /\ security' = FALSE
    /\ halves' = Plain
    /\ encoder' = <<>>
    /\ wire' = <<>>
    /\ inbound' = <<>>
    /\ pings' = 0
    /\ server' = "greeting"
    /\ srvZstd' = FALSE
    /\ garbled' = FALSE

InProgress == stage \notin {"off", "ok", "panicked"}

-----------------------------------------------------------------------------
Compressed == halves # Plain

\* Writing or flushing a ZstdStream moves the socket to the encoder first,
\* reading it to the decoder.  A half without the socket panics in unwrap.
Through(half) == IF Compressed /\ halves # {} THEN {half} ELSE halves

\* The client encodes ops and writes all that is encoded, or panics.
WriteAndFlush(ops, next) ==
    /\ halves' = Through("encoder")
    /\ wire' = wire \o [i \in DOMAIN (encoder \o ops) |->
                 [op |-> (encoder \o ops)[i], tls |-> security,
                  zstd |-> Compressed]]
    /\ encoder' = <<>>
    /\ stage' = IF Compressed /\ "encoder" \notin halves' THEN "panicked"
                ELSE next

Arrived(ops) == inbound # <<>> /\ Head(inbound).op \in ops

\* The client reads one op and goes on at the stage next.
Read(next) ==
    /\ halves' = Through("decoder")
    /\ inbound' = Tail(inbound)
    /\ garbled' = (garbled \/ Head(inbound).zstd # Compressed
                           \/ Head(inbound).tls # security)
    /\ stage' = IF Compressed /\ "decoder" \notin halves' THEN "panicked"
                ELSE next

-----------------------------------------------------------------------------
(***************************************************************************)
(* The client.                                                             *)
(***************************************************************************)
\* The TCP connection is up.
StartShake ==
    /\ stage = "off"
    /\ stage' = IF peer.tls THEN "tls" ELSE "info"
    /\ UNCHANGED <<security, halves, io, pings, peerSide, garbled>>

\* upgrade_tls, which must not meet a Tls connection.
UpgradeTls(next) ==
    /\ stage' = IF security THEN "panicked" ELSE next
    /\ security' = TRUE
    /\ UNCHANGED <<halves, io, pings, peerSide, garbled>>

\* The scheme asks for TLS, before any NATS op.
TlsFirst == stage = "tls" /\ UpgradeTls("info")

\* Mutant of LaterTls: the protocol of the address is left out.
LaterTlsAlways == ~peer.websocket /\ peer.tls_required

\* The pair of protocol and tls_required that asks for TLS after the INFO.
LaterTls == ~peer.websocket /\ ~peer.tls /\ peer.tls_required

ReadInfo ==
    /\ stage = "info"
    /\ Arrived({"INFO"})
    /\ Read(IF LaterTls THEN "upgrade" ELSE "connect")
    /\ UNCHANGED <<security, encoder, wire, pings, peerSide>>

\* The new StreamingConnection starts with an empty encoder and decoder.
TlsAfterInfo == stage = "upgrade" /\ UpgradeTls("connect")

\* prepare_for_auth of a creds file without a nonce to sign.
MissingNonce == stage = "connect" /\ peer.auth = "creds" /\ ~peer.nonce

\* non_standard.zstd of the Connect
Zstd == ~peer.websocket /\ peer.level /\ peer.zstd

WriteConnect ==
    /\ stage = "connect"
    /\ ~MissingNonce
    /\ WriteAndFlush(<<"CONNECT">>, "after")
    /\ UNCHANGED <<security, inbound, pings, peerSide, garbled>>

\* ZstdStream::new
ZstdStart == {"decoder"}

\* Mutant of AfterConnect: the PING is written before the upgrade.
PingBeforeUpgrade ==
    /\ stage = "after"
    /\ encoder' = <<>>
    /\ wire' = Append(wire, [op |-> "PING", tls |-> security, zstd |-> FALSE])
    /\ halves' = IF Zstd THEN ZstdStart ELSE halves
    /\ stage' = "reply"
    /\ UNCHANGED <<security, inbound, pings, peerSide, garbled>>

\* after_connect: upgrade_zstd; the PING is then encoded.
AfterConnect ==
    /\ stage = "after"
    /\ halves' = IF Zstd THEN ZstdStart ELSE halves
    /\ encoder' = Append(encoder, "PING")
    /\ stage' = "ping"
    /\ UNCHANGED <<security, wire, inbound, pings, peerSide, garbled>>

WritePing ==
    /\ stage = "ping"
    /\ WriteAndFlush(<<>>, "reply")
    /\ UNCHANGED <<security, inbound, pings, peerSide, garbled>>

\* Mutant of ReadReply: the loop ends with the first success.
ReadReplyOnce ==
    /\ stage = "reply"
    /\ Arrived({"OK", "PONG"})
    /\ Read("ok")
    /\ UNCHANGED <<security, encoder, wire, pings, peerSide>>

\* Mutant of ReadReply: a PING is skipped.
ReadReplySkipsPing ==
    /\ stage = "reply"
    /\ \/ Arrived({"OK"}) /\ Read("reply") /\ UNCHANGED pings
       \/ Arrived({"PING"}) /\ Read("reply") /\ pings' = pings + 1
       \/ Arrived({"PONG"}) /\ Read("ok") /\ UNCHANGED pings
    /\ UNCHANGED <<security, encoder, wire, peerSide>>

\* The loop of proto_connect: +OK, a PING (answered in the encoder only) ...
ReadReply ==
    /\ stage = "reply"
    /\ \/ /\ Arrived({"OK"})
          /\ Read("reply")
          /\ UNCHANGED <<encoder, pings>>
       \/ /\ Arrived({"PING"})
          /\ Read("reply")
          /\ encoder' = Append(encoder, "PONG")
          /\ pings' = pings + 1
       \* ... or the PONG, which ends it.
       \/ /\ Arrived({"PONG"})
          /\ Read("ok")
          /\ UNCHANGED <<encoder, pings>>
    /\ UNCHANGED <<security, wire, peerSide>>

\* The errors of connect: a nonce is missing, an op is not expected, or the
\* server is gone.
ShakeFails ==
    /\ InProgress
    /\ \/ MissingNonce
       \/ server = "gone" /\ inbound = <<>>
       \/ stage = "info" /\ Arrived({"ERR", "OK", "PING", "PONG"})
       \/ stage = "reply" /\ Arrived({"ERR", "INFO"})

ClientShake ==
    \/ TlsFirst \/ ReadInfo \/ TlsAfterInfo \/ WriteConnect \/ AfterConnect
    \/ WritePing \/ ReadReply

-----------------------------------------------------------------------------
(***************************************************************************)
(* The server.                                                             *)
(***************************************************************************)
SrvTls == peer.tls \/ (peer.tls_required /\ server # "greeting")

Reply(ops, compressed) == inbound' = inbound \o [i \in DOMAIN ops |->
                  [op |-> ops[i], tls |-> SrvTls, zstd |-> compressed]]

ServerGreets ==
    /\ server = "greeting"
    /\ stage = "info"
    /\ server' = "waiting"
    /\ UNCHANGED srvZstd
    /\ Reply(<<"INFO">>, srvZstd)
    /\ UNCHANGED <<stage, security, halves, encoder, wire, pings, garbled>>

\* A CONNECT is acknowledged (verbose) or refused, and a PING is answered.
ServerReads ==
    /\ server \in {"waiting", "open"}
    /\ wire # <<>>
    /\ wire' = Tail(wire)
    /\ garbled' = (garbled \/ Head(wire).tls # SrvTls
                           \/ Head(wire).zstd # srvZstd)
    /\ \/ /\ Head(wire).op = "CONNECT"
          /\ srvZstd' = Zstd
          /\ IF peer.authorizes THEN server' = "open" /\ Reply(<<"OK">>, Zstd)
             ELSE server' = "gone" /\ Reply(<<"ERR">>, Zstd)
       \/ /\ Head(wire).op = "PING"
          /\ Reply(<<"PONG">>, srvZstd)
          /\ UNCHANGED <<server, srvZstd>>
       \/ /\ Head(wire).op = "PONG"
          /\ UNCHANGED <<inbound, server, srvZstd>>
    /\ UNCHANGED <<stage, security, halves, encoder, pings>>

\* The bound on its PINGs.
MayPing == pings + Len(SelectSeq(inbound, LAMBDA m : m.op = "PING")) < MaxPings

ServerPings ==
    /\ server = "open"
    /\ InProgress
    /\ MayPing
    /\ UNCHANGED srvZstd
    /\ Reply(<<"PING">>, srvZstd)
    /\ UNCHANGED <<stage, security, halves, encoder, wire, pings, server,
                   garbled>>

\* The server closes the connection, or refuses the client with its first op.
ServerGoes ==
    /\ InProgress
    /\ server # "gone"
    /\ server' = "gone"
    /\ UNCHANGED srvZstd
    /\ \/ UNCHANGED inbound
       \/ server = "greeting" /\ stage = "info" /\ Reply(<<"ERR">>, srvZstd)
    /\ UNCHANGED <<stage, security, halves, encoder, wire, pings, garbled>>

ServerShake == ServerGreets \/ ServerReads \/ ServerPings

-----------------------------------------------------------------------------
Layered(ops) == [op : ops, tls : BOOLEAN, zstd : BOOLEAN]

ShakeTypeOK ==
    /\ peer \in Peers
    /\ stage \in {"off", "tls", "info", "upgrade", "connect", "after", "ping",
                  "reply", "ok", "panicked"}
    /\ security \in BOOLEAN
    /\ halves \in {Plain, {}, {"decoder"}, {"encoder"}}
    /\ encoder \in Seq({"PING", "PONG"})
    /\ wire \in Seq(Layered({"CONNECT", "PING", "PONG"}))
    /\ inbound \in Seq(Layered({"INFO", "OK", "ERR", "PING", "PONG"}))
    /\ pings \in Nat
    /\ server \in {"greeting", "waiting", "open", "gone"}
    /\ srvZstd \in BOOLEAN
    /\ garbled \in BOOLEAN

\* The unreachable! and unwrap calls of upgrade_tls, upgrade_zstd and
\* MaybeConnection are never reached: TLS is entered at most once, and the
\* socket of a ZstdStream is always in the half that is used.
NeverPanics == stage # "panicked"

\* Client and server enter TLS and zstd at the same op, in both directions.
LayersAgree == ~garbled

\* connect returns when the server has answered all of it: no +OK is left for
\* the handler, whose in_flight_commands start empty.
CleanHandover ==
    stage = "ok" =>
        /\ \A i \in DOMAIN wire : wire[i].op = "PONG"
        /\ \A i \in DOMAIN inbound : inbound[i].op # "OK"

\* A PING of the handshake is answered by the handler's first write: the PONG
\* stays in the encoder the connection is handed over with.
PingsAreAnswered == stage = "ok" => encoder = [i \in 1..pings |-> "PONG"]

=============================================================================
