-------------------------- MODULE LifecycleProofs --------------------------
(***************************************************************************)
(* Proofs about Lifecycle, for any addresses, lookups, servers and bounds: *)
(* how HappyEyeballs goes through the addresses, where client and server   *)
(* are in the handshake, and the task around both; and about Keepalive,    *)
(* for every interval, latency and lag that satisfy its assumptions.       *)
(*                                                                         *)
(* The handshake's invariant is a table of its stages.  What is in a       *)
(* channel depends on whether the server has read the CONNECT: until then  *)
(* it has said nothing but its INFO (Unread), and from then on it answers  *)
(* through the layers that both sides end up with (Answered).              *)
(***************************************************************************)
EXTENDS Lifecycle, Keepalive, SequenceTheorems, TLAPS

-----------------------------------------------------------------------------
(***************************************************************************)
(* The dial.                                                               *)
(***************************************************************************)
\* No attempt at an address with a server is lost.
Attempted == \A k \in DOMAIN tried :
    tried[k] \in accepting => tried[k] \in connecting \cup completed

\* last_attempted is the last of tried.
LastIsLast == last_attempted = IF tried = <<>> THEN NoAddr ELSE tried[Len(tried)]

\* FamiliesInterleave, by position.
Turns == \A k \in 1..Len(tried) - 1 : ~OtherFamily(tried[k], tried[k + 1]) =>
    /\ \A j \in k + 2..Len(tried) : ~OtherFamily(tried[j], tried[k])
    /\ \A i \in 1..Len(dns_received) : ~OtherFamily(dns_received[i], tried[k])

DialInv == DialTypeOK /\ Attempted /\ LastIsLast /\ Turns

-----------------------------------------------------------------------------
(***************************************************************************)
(* The handshake.                                                          *)
(***************************************************************************)
\* The layers of the connection once it is made, and the client's ops on it.
Final == peer.tls \/ peer.tls_required
ConnectOp == [op |-> "CONNECT", tls |-> Final, zstd |-> FALSE]
PingOp == [op |-> "PING", tls |-> Final, zstd |-> Zstd]
Early == {"off", "tls", "info", "upgrade", "connect"}
Late == {"after", "ping", "reply", "ok"}

\* What the client is at each stage.
ClientIs ==
    /\ peer \in Peers /\ stage \in Early \cup Late
    /\ garbled = FALSE /\ pings \in Nat
    /\ stage \in {"off", "tls", "upgrade"} => security = FALSE
    /\ stage = "tls" => peer.tls
    /\ stage = "info" => security = peer.tls
    /\ stage = "upgrade" => LaterTls
    /\ stage \in Late \cup {"connect"} => security = Final
    /\ stage \in Early \cup {"after"} => halves = Plain /\ encoder = <<>>
    /\ stage = "ping" => /\ halves = IF Zstd THEN {"decoder"} ELSE Plain
                         /\ encoder = <<"PING">>
    /\ stage \in {"reply", "ok"} =>
        /\ IF Zstd THEN halves \in {{"decoder"}, {"encoder"}} ELSE halves = Plain
        /\ encoder = [i \in 1..pings |-> "PONG"]
    /\ stage \notin {"reply", "ok"} => pings = 0

\* The server's first op, before there is anything to read from the client.
Greets ==
    /\ stage \in Early => wire = <<>> /\ srvZstd = FALSE
    /\ stage \in {"off", "tls"} => server \in {"greeting", "gone"} /\ inbound = <<>>
    /\ stage = "info" =>
        /\ server \in {"greeting", "waiting", "gone"}
        /\ server = "greeting" => inbound = <<>>
        /\ \/ inbound = <<>>
           \/ \E op \in {"INFO", "ERR"} :
                inbound = <<[op |-> op, tls |-> peer.tls, zstd |-> FALSE]>>
    /\ stage \in {"upgrade", "connect"} => server \in {"waiting", "gone"} /\ inbound = <<>>

\* The CONNECT is on its way.
Unread ==
    /\ srvZstd = FALSE /\ server \in {"waiting", "gone"} /\ inbound = <<>>
    /\ wire = IF stage \in {"after", "ping"} THEN <<ConnectOp>> ELSE <<ConnectOp, PingOp>>
    /\ stage # "ok"

\* The CONNECT was read.  The +OK is the first answer, the PONG comes once
\* nothing is on the wire.
Answer(i) ==
    /\ inbound[i].op \in {"OK", "ERR", "PING", "PONG"}
    /\ inbound[i].tls = Final /\ inbound[i].zstd = Zstd
    /\ inbound[i].op = "OK" => i = 1
    /\ inbound[i].op = "PONG" => wire = <<>> /\ stage \in {"reply", "ok"}
Answered ==
    /\ srvZstd = Zstd /\ server \in {"open", "gone"}
    /\ wire = <<>> \/ (stage = "reply" /\ wire = <<PingOp>>)
    /\ inbound \in Seq(Layered({"INFO", "OK", "ERR", "PING", "PONG"}))
    /\ \A i \in 1..Len(inbound) : Answer(i)
    /\ stage = "ok" => \A i \in 1..Len(inbound) : inbound[i].op # "OK"

ShakeInv == ClientIs /\ Greets /\ (stage \in Late => Unread \/ Answered)

-----------------------------------------------------------------------------
(***************************************************************************)
(* The steps of the dial.                                                  *)
(***************************************************************************)
\* What DialInv says of connect_tcp.
LEMMA DialImplies == DialInv => DialTypeOK /\ GivesUpAfterAll /\ FamiliesInterleave
<1> SUFFICES ASSUME DialInv PROVE DialTypeOK /\ GivesUpAfterAll /\ FamiliesInterleave
  OBVIOUS
<1>1. tried \in Seq(Addrs) /\ dns_received \in Seq(Addrs)
  BY DEF DialInv, DialTypeOK
<1>2. GivesUpAfterAll
  BY DEF DialInv, Attempted, GivesUpAfterAll, GivesUp, MayAttempt, ToSet
<1>3. FamiliesInterleave
  <2> SUFFICES ASSUME NEW k \in 1..(Len(tried) - 1), ~OtherFamily(tried[k], tried[k + 1]),
                      NEW a \in ToSet(SubSeq(tried, k + 2, Len(tried))) \cup ToSet(dns_received)
               PROVE  ~OtherFamily(a, tried[k])
    BY DEF FamiliesInterleave
  <2>1. CASE a \in ToSet(dns_received)
    <3>1. PICK i \in DOMAIN dns_received : a = dns_received[i]
      BY <2>1 DEF ToSet
    <3>2. i \in 1..Len(dns_received)
      BY <1>1, <3>1
    <3> QED
      BY <3>1, <3>2 DEF DialInv, Turns
  <2>2. CASE a \in ToSet(SubSeq(tried, k + 2, Len(tried)))
    <3> DEFINE later == SubSeq(tried, k + 2, Len(tried))
    <3>1. \A i \in k + 2..Len(tried) : tried[i] \in Addrs
      BY <1>1
    <3>2. /\ later \in Seq(Addrs)
          /\ Len(later) = IF k + 2 <= Len(tried) THEN Len(tried) - (k + 2) + 1 ELSE 0
          /\ \A i \in 1..Len(tried) - (k + 2) + 1 : later[i] = tried[k + 2 + i - 1]
      BY <1>1, <3>1, SubSeqProperties
    <3> HIDE DEF later
    <3>3. PICK i \in DOMAIN later : a = later[i]
      BY <2>2 DEF ToSet, later
    <3>4. i \in 1..Len(later)
      BY <3>2, <3>3
    <3>5. i \in 1..Len(tried) - (k + 2) + 1
      BY <1>1, <3>2, <3>4
    <3>6. a = tried[k + 2 + i - 1]
      BY <3>2, <3>3, <3>5
    <3>7. k + 2 + i - 1 \in k + 2..Len(tried)
      BY <1>1, <3>5
    <3> QED
      BY <3>6, <3>7 DEF DialInv, Turns
  <2> QED
    BY <2>1, <2>2
<1> QED
  BY <1>2, <1>3 DEF DialInv

\* A dial that was dropped, or not begun, is one.
LEMMA DialDropped ==
    ASSUME accepting \subseteq Addrs, UNCHANGED accepting, DialDrop
    PROVE  DialInv'
<1>1. <<>> \in Seq(Addrs) /\ Len(<<>>) = 0 /\ DOMAIN <<>> = {}
  OBVIOUS
<1>2. tried' = <<>> /\ dns_received' = <<>> /\ connecting' = {} /\ completed' = {}
      /\ last_attempted' = NoAddr /\ delay' = "none" /\ dialPc' = "off"
  BY DEF DialDrop
<1>3. DialTypeOK'
  BY <1>1, <1>2 DEF DialTypeOK, DialOff
<1> QED
  BY <1>1, <1>2, <1>3 DEF DialInv, Attempted, LastIsLast, Turns

LEMMA DialInitInv == DialInit => DialInv
<1> SUFFICES ASSUME DialInit PROVE DialInv
  OBVIOUS
<1>1. <<>> \in Seq(Addrs) /\ Len(<<>>) = 0 /\ DOMAIN <<>> = {}
  OBVIOUS
<1>2. tried = <<>> /\ dns_received = <<>> /\ connecting = {} /\ completed = {}
      /\ last_attempted = NoAddr /\ delay = "none" /\ dialPc = "off" /\ accepting \subseteq Addrs
  BY DEF DialInit, DialOff
<1>3. DialTypeOK
  BY <1>1, <1>2 DEF DialTypeOK, DialOff
<1> QED
  BY <1>1, <1>2, <1>3 DEF DialInv, Attempted, LastIsLast, Turns

\* The lookup gives addresses.
LEMMA LookupInv ==
    ASSUME DialInv, UNCHANGED accepting, NEW records \in Lookups, Lookup(records)
    PROVE  DialInv'
<1>1. /\ dialPc = "off" /\ dialPc' = "polling" /\ dns_received' = records
      /\ UNCHANGED <<connecting, completed, last_attempted, tried, delay>>
  BY DEF Lookup, attempts
<1>2. tried = <<>>
  BY <1>1 DEF DialInv, DialTypeOK, DialOff
<1>3. records \in Seq(Addrs)
  BY DialAssumption
<1>4. DialTypeOK'
  BY <1>1, <1>3 DEF DialInv, DialTypeOK
<1>5. Turns'
  BY <1>1, <1>2 DEF Turns
<1> QED
  BY <1>1, <1>4, <1>5 DEF DialInv, Attempted, LastIsLast

\* next_dns_record takes a record, one of the last family only if all are.
LEMMA NextRecordIs ==
    ASSUME NEW s \in Seq(Addrs), NEW i \in 1..Len(s), NextRecord(i, s), last_attempted # NoAddr,
           ~OtherFamily(last_attempted, s[i])
    PROVE  \A j \in 1..Len(s) : ~OtherFamily(s[j], last_attempted)
<1>1. DOMAIN s = 1..Len(s)
  OBVIOUS
<1>2. i \notin Preferred(s)
  BY DEF Preferred, OtherFamily
<1>3. Preferred(s) = {}
  BY <1>2 DEF NextRecord
<1> QED
  BY <1>1, <1>3 DEF Preferred

\* A record is removed.
LEMMA RemoveIs ==
    ASSUME NEW s \in Seq(Addrs), NEW i \in 1..Len(s)
    PROVE  /\ RemoveAt(s, i) \in Seq(Addrs)
           /\ \A j \in 1..Len(RemoveAt(s, i)) :
                \E k \in 1..Len(s) : RemoveAt(s, i)[j] = s[k]
<1> DEFINE front == SubSeq(s, 1, i - 1)
           back == SubSeq(s, i + 1, Len(s))
<1>1. Len(s) \in Nat /\ \A j \in 1..Len(s) : s[j] \in Addrs
  OBVIOUS
<1>2. /\ front \in Seq(Addrs) /\ Len(front) = i - 1
      /\ \A j \in 1..i - 1 : front[j] = s[j]
  <2>1. \A j \in 1..i - 1 : s[j] \in Addrs
    BY <1>1
  <2> QED
    BY <1>1, <2>1, SubSeqProperties
<1>3. /\ back \in Seq(Addrs) /\ Len(back) = Len(s) - i
      /\ \A j \in 1..Len(s) - i : back[j] = s[i + j]
  <2>1. \A j \in i + 1..Len(s) : s[j] \in Addrs
    BY <1>1
  <2>2. /\ back \in Seq(Addrs)
        /\ Len(back) = IF i + 1 <= Len(s) THEN Len(s) - (i + 1) + 1 ELSE 0
        /\ \A j \in 1..Len(s) - (i + 1) + 1 : back[j] = s[i + 1 + j - 1]
    BY <1>1, <2>1, SubSeqProperties
  <2> HIDE DEF back
  <2>3. Len(back) = Len(s) - i
    BY <1>1, <2>2
  <2>4. ASSUME NEW j \in 1..Len(s) - i PROVE back[j] = s[i + j]
    <3>1. j \in 1..Len(s) - (i + 1) + 1 /\ i + 1 + j - 1 = i + j
      BY <1>1
    <3> QED
      BY <2>2, <3>1
  <2> QED
    BY <2>2, <2>3, <2>4
<1> HIDE DEF front, back
<1>4. /\ front \o back \in Seq(Addrs) /\ Len(front \o back) = Len(front) + Len(back)
      /\ \A j \in 1..Len(front) + Len(back) : (front \o back)[j] =
            IF j <= Len(front) THEN front[j] ELSE back[j - Len(front)]
  BY <1>2, <1>3, ConcatProperties
<1>5. RemoveAt(s, i) = front \o back
  BY DEF RemoveAt, front, back
<1>6. ASSUME NEW j \in 1..Len(front) + Len(back)
      PROVE  \E k \in 1..Len(s) : (front \o back)[j] = s[k]
  <2>1. CASE j <= Len(front)
    <3>1. j \in 1..i - 1 /\ j \in 1..Len(s)
      BY <1>1, <1>2, <2>1
    <3> QED
      BY <1>2, <1>4, <2>1, <3>1
  <2>2. CASE ~(j <= Len(front))
    <3>1. j - Len(front) \in 1..Len(s) - i /\ i + (j - Len(front)) \in 1..Len(s)
      BY <1>1, <1>2, <1>3, <2>2
    <3> QED
      BY <1>3, <1>4, <2>2, <3>1
  <2> QED
    BY <2>1, <2>2
<1> QED
  BY <1>4, <1>5, <1>6

\* An attempt.
LEMMA AttemptInv == ASSUME DialInv, UNCHANGED accepting, Attempt PROVE DialInv'
<1>1. tried \in Seq(Addrs) /\ dns_received \in Seq(Addrs) /\ DOMAIN dns_received = 1..Len(dns_received)
  BY DEF DialInv, DialTypeOK
<1>2. PICK i \in 1..Len(dns_received) :
        /\ NextRecord(i, dns_received)
        /\ dns_received' = RemoveAt(dns_received, i)
        /\ last_attempted' = dns_received[i]
        /\ connecting' = connecting \cup {dns_received[i]}
        /\ tried' = Append(tried, dns_received[i])
  BY <1>1 DEF Attempt
<1> DEFINE record == dns_received[i]
<1>3. record \in Addrs
  BY <1>1
<1>4. completed = {} /\ completed' = {} /\ dialPc = "polling" /\ dialPc' = "polling" /\ delay' = "running"
  BY DEF Attempt, MayAttempt
<1>5. /\ dns_received' \in Seq(Addrs)
      /\ \A j \in 1..Len(dns_received') : \E k \in 1..Len(dns_received) : dns_received'[j] = dns_received[k]
  BY <1>1, <1>2, RemoveIs
<1>6. /\ tried' \in Seq(Addrs) /\ Len(tried') = Len(tried) + 1 /\ Len(tried) \in Nat
      /\ \A k \in 1..Len(tried) : tried'[k] = tried[k]
      /\ tried'[Len(tried) + 1] = record
      /\ DOMAIN tried = 1..Len(tried) /\ DOMAIN tried' = 1..Len(tried')
  BY <1>1, <1>2, <1>3
<1> HIDE DEF record
<1>7. DialTypeOK'
  BY <1>2, <1>3, <1>4, <1>5, <1>6 DEF DialInv, DialTypeOK, record
<1>8. Attempted'
  <2> SUFFICES ASSUME NEW k \in 1..Len(tried'), tried'[k] \in accepting
               PROVE  tried'[k] \in connecting' \cup completed'
    BY <1>6 DEF Attempted
  <2>1. CASE k = Len(tried) + 1
    BY <1>2, <1>6, <2>1 DEF record
  <2>2. CASE k \in 1..Len(tried)
    BY <1>2, <1>4, <1>6, <2>2 DEF DialInv, Attempted
  <2> QED
    BY <1>6, <2>1, <2>2
<1>9. LastIsLast'
  <2>1. tried' # <<>>
    BY <1>6
  <2> QED
    BY <1>2, <1>6, <2>1 DEF LastIsLast, record
<1>10. Turns'
  <2> SUFFICES ASSUME NEW k \in 1..Len(tried), ~OtherFamily(tried'[k], tried'[k + 1])
               PROVE  /\ \A j \in k + 2..Len(tried) + 1 : ~OtherFamily(tried'[j], tried'[k])
                      /\ \A j \in 1..Len(dns_received') : ~OtherFamily(dns_received'[j], tried'[k])
    BY <1>6 DEF Turns
  <2>1. CASE k = Len(tried)
    <3>1. last_attempted = tried[k] /\ tried'[k] = tried[k] /\ tried'[k + 1] = record
      BY <1>6, <2>1 DEF DialInv, LastIsLast
    <3>2. tried[k] \in Addrs
      BY <1>1
    <3>3. \A j \in 1..Len(dns_received) : ~OtherFamily(dns_received[j], tried[k])
      BY <1>1, <1>2, <3>1, <3>2, NextRecordIs, DialAssumption DEF record
    <3>4. k + 2..Len(tried) + 1 = {}
      BY <1>6, <2>1
    <3> QED
      BY <1>5, <3>1, <3>3, <3>4
  <2>2. CASE k \in 1..Len(tried) - 1
    <3>1. tried'[k] = tried[k] /\ tried'[k + 1] = tried[k + 1]
      BY <1>6, <2>2
    <3>2. /\ \A j \in k + 2..Len(tried) : ~OtherFamily(tried[j], tried[k])
          /\ \A j \in 1..Len(dns_received) : ~OtherFamily(dns_received[j], tried[k])
      BY <2>2, <3>1 DEF DialInv, Turns
    <3>3. ~OtherFamily(record, tried[k])
      BY <3>2 DEF record
    <3>4. ASSUME NEW j \in k + 2..Len(tried) + 1 PROVE ~OtherFamily(tried'[j], tried'[k])
      <4>1. CASE j = Len(tried) + 1
        BY <1>6, <3>1, <3>3, <4>1
      <4>2. CASE j # Len(tried) + 1
        <5>1. j \in k + 2..Len(tried) /\ j \in 1..Len(tried)
          BY <1>6, <4>2
        <5> QED
          BY <1>6, <3>1, <3>2, <5>1
      <4> QED
        BY <4>1, <4>2
    <3> QED
      BY <1>5, <3>1, <3>2, <3>4
  <2>3. k = Len(tried) \/ k \in 1..Len(tried) - 1
    <3>1. Len(tried) \in Nat
      BY <1>6
    <3>2. \A m \in Nat : \A j \in 1..m : j = m \/ j \in 1..m - 1
      OBVIOUS
    <3> QED
      BY <3>1, <3>2
  <2> QED
    BY <2>1, <2>2, <2>3
<1> QED
  BY <1>7, <1>8, <1>9, <1>10 DEF DialInv

\* The other iterations of poll_next, and the end of an attempt.
LEMMA DialStepInv ==
    ASSUME DialInv, UNCHANGED accepting,
           DialStep \/ DelayElapses \/ (\E a \in Addrs : AttemptEnds(a)) \/ UNCHANGED dial
    PROVE  DialInv'
<1>1. CASE JoinError
  <2>1. PICK a \in completed \ accepting : completed' = completed \ {a}
    BY <1>1 DEF JoinError
  <2>2. UNCHANGED <<dialPc, dns_received, connecting, last_attempted, delay, tried>> /\ dialPc = "polling"
    BY <1>1 DEF JoinError
  <2> QED
    BY <2>1, <2>2 DEF DialInv, DialTypeOK, Attempted, LastIsLast, Turns
<1>2. CASE Attempt
  BY <1>2, AttemptInv
<1>3. CASE Exhausted \/ Park \/ Wake
  <2>1. UNCHANGED <<attempts, dns_received>> /\ dialPc' \in {"polling", "parked"}
        /\ delay' \in {delay, "none"}
    BY <1>3 DEF Exhausted, Park, Wake
  <2>2. DialTypeOK'
    BY <2>1 DEF DialInv, DialTypeOK, attempts
  <2> QED
    BY <2>1, <2>2 DEF DialInv, Attempted, LastIsLast, Turns, attempts
<1>4. CASE DelayElapses
  <2>1. UNCHANGED <<attempts, dns_received, dialPc>> /\ delay = "running" /\ delay' = "elapsed"
    BY <1>4 DEF DelayElapses
  <2>2. DialTypeOK'
    BY <2>1 DEF DialInv, DialTypeOK, DialOff, attempts
  <2> QED
    BY <2>1, <2>2 DEF DialInv, Attempted, LastIsLast, Turns, attempts
<1>5. ASSUME NEW a \in Addrs, AttemptEnds(a) PROVE DialInv'
  <2>1. /\ a \in connecting /\ connecting' = connecting \ {a} /\ completed' = completed \cup {a}
        /\ UNCHANGED <<dialPc, dns_received, last_attempted, delay, tried>>
    BY <1>5 DEF AttemptEnds
  <2>2. DialTypeOK'
    BY <2>1 DEF DialInv, DialTypeOK, DialOff
  <2>3. Attempted'
    BY <2>1 DEF DialInv, Attempted
  <2> QED
    BY <2>1, <2>2, <2>3 DEF DialInv, LastIsLast, Turns
<1>6. CASE UNCHANGED dial
  BY <1>6 DEF dial, DialInv, DialTypeOK, DialOff, Attempted, LastIsLast, Turns
<1> QED
  BY <1>1, <1>2, <1>3, <1>4, <1>5, <1>6 DEF DialStep

-----------------------------------------------------------------------------
(***************************************************************************)
(* The steps of the handshake.                                             *)
(***************************************************************************)
Ops == Layered({"INFO", "OK", "ERR", "PING", "PONG", "CONNECT"})

LEMMA SmallSeqs ==
    /\ <<>> \in Seq(Ops)
    /\ \A a \in Ops : <<a>> \in Seq(Ops) /\ Tail(<<a>>) = <<>>
    /\ \A a, b \in Ops : /\ <<a, b>> \in Seq(Ops) /\ Append(<<a>>, b) = <<a, b>>
                         /\ Head(<<a, b>>) = a /\ Tail(<<a, b>>) = <<b>>
<1> SUFFICES ASSUME NEW S
             PROVE  /\ <<>> \in Seq(S)
                    /\ \A a \in S : <<a>> \in Seq(S) /\ Tail(<<a>>) = <<>>
                    /\ \A a, b \in S : /\ <<a, b>> \in Seq(S) /\ Append(<<a>>, b) = <<a, b>>
                                       /\ Head(<<a, b>>) = a /\ Tail(<<a, b>>) = <<b>>
  OBVIOUS
<1>1. ASSUME NEW a \in S PROVE <<a>> \in Seq(S) /\ Tail(<<a>>) = <<>>
  OBVIOUS
<1>2. ASSUME NEW a \in S, NEW b \in S
      PROVE  /\ <<a, b>> \in Seq(S) /\ Append(<<a>>, b) = <<a, b>>
             /\ Head(<<a, b>>) = a /\ Tail(<<a, b>>) = <<b>>
  <2>1. <<a>> \in Seq(S) /\ <<a, b>> \in Seq(S) /\ <<b>> \in Seq(S)
    OBVIOUS
  <2>2. Append(<<a>>, b) = <<a, b>>
    <3> DEFINE t == Append(<<a>>, b)
    <3>1. t \in Seq(S) /\ Len(t) = 2 /\ t[1] = a /\ t[2] = b
      BY <2>1, AppendProperties
    <3> HIDE DEF t
    <3>2. \A i \in 1..Len(t) : t[i] = <<a, b>>[i]
      BY <3>1
    <3> QED
      BY <2>1, <3>1, <3>2, SeqEqual DEF t
  <2>3. Head(<<a, b>>) = a
    BY <2>1
  <2>4. Tail(<<a, b>>) = <<b>>
    BY <2>1, HeadTailProperties, SeqEqual
  <2> QED
    BY <2>1, <2>2, <2>3, <2>4
<1> QED
  BY <1>1, <1>2

\* The options and the server are of one kind for good.
LEMMA PeerIs ==
    ASSUME peer \in Peers
    PROVE  /\ peer.tls \in BOOLEAN /\ peer.tls_required \in BOOLEAN
           /\ Zstd \in BOOLEAN /\ Final \in BOOLEAN
           /\ LaterTls <=> (~peer.tls /\ Final)
<1>1. peer \in Peer /\ (peer.websocket /\ peer.tls_required => peer.tls)
  BY HandshakeAssumption
<1>2. /\ peer.tls \in BOOLEAN /\ peer.tls_required \in BOOLEAN /\ peer.websocket \in BOOLEAN
      /\ peer.level \in BOOLEAN /\ peer.zstd \in BOOLEAN
  BY <1>1 DEF Peer
<1> QED
  BY <1>1, <1>2 DEF Zstd, Final, LaterTls

\* The server's op is on its way to the client ...
LEMMA ReplyIs ==
    ASSUME NEW op, NEW c, inbound \in Seq(Ops), Reply(<<op>>, c),
           [op |-> op, tls |-> SrvTls, zstd |-> c] \in Ops
    PROVE  inbound' = Append(inbound, [op |-> op, tls |-> SrvTls, zstd |-> c])
<1> DEFINE r == [op |-> op, tls |-> SrvTls, zstd |-> c]
<1>1. [i \in DOMAIN <<op>> |-> [op |-> <<op>>[i], tls |-> SrvTls, zstd |-> c]] = <<r>>
  OBVIOUS
<1>2. inbound' = inbound \o <<r>>
  BY <1>1 DEF Reply
<1> HIDE DEF r
<1>3. Append(inbound, r) = inbound \o <<r>>
  BY AppendIsConcat DEF r
<1> QED
  BY <1>2, <1>3 DEF r

\* ... and the client's on its way to the server.
LEMMA WrittenIs ==
    ASSUME NEW op, NEW ops, NEW next, wire \in Seq(Ops), encoder \o ops = <<op>>,
           WriteAndFlush(ops, next),
           [op |-> op, tls |-> security, zstd |-> Compressed] \in Ops
    PROVE  /\ wire' = Append(wire, [op |-> op, tls |-> security, zstd |-> Compressed])
           /\ encoder' = <<>>
           /\ halves' = Through("encoder")
           /\ stage' = IF Compressed /\ "encoder" \notin halves' THEN "panicked" ELSE next
<1> DEFINE r == [op |-> op, tls |-> security, zstd |-> Compressed]
           t == encoder \o ops
<1>1. wire' = wire \o [i \in DOMAIN t |-> [op |-> t[i], tls |-> security, zstd |-> Compressed]]
  BY DEF WriteAndFlush
<1>2. t = <<op>>
  OBVIOUS
<1> HIDE DEF t
<1>3. [i \in DOMAIN t |-> [op |-> t[i], tls |-> security, zstd |-> Compressed]] = <<r>>
  BY <1>2
<1>4. wire' = wire \o <<r>>
  BY <1>1, <1>3
<1> HIDE DEF r
<1>5. Append(wire, r) = wire \o <<r>>
  BY AppendIsConcat DEF r
<1> QED
  BY <1>4, <1>5 DEF r, WriteAndFlush

\* Reading moves the socket to the decoder's half, and never panics.
LEMMA ReadIs ==
    ASSUME ShakeInv, NEW next, Read(next), stage \in {"info", "reply"}
    PROVE  /\ stage' = next /\ inbound' = Tail(inbound)
           /\ garbled' = (Head(inbound).zstd # Compressed \/ Head(inbound).tls # security)
           /\ stage = "info" => halves' = Plain
           /\ stage = "reply" => IF Zstd THEN halves' \in {{"decoder"}, {"encoder"}}
                                        ELSE halves' = Plain
           /\ Compressed <=> stage = "reply" /\ Zstd
<1>1. "decoder" # "plain" /\ "encoder" # "plain" /\ {"decoder"} # Plain /\ {"encoder"} # Plain
      /\ {"decoder"} # {} /\ {"encoder"} # {} /\ "decoder" \in {"decoder"}
  BY DEF Plain
<1> QED
  BY <1>1 DEF ShakeInv, ClientIs, Read, Through, Compressed, Early, Late

\* No connection.
LEMMA ShakeDropped ==
    ASSUME peer \in Peers, UNCHANGED peer, ShakeDrop PROVE ShakeInv'
BY DEF ShakeDrop, ShakeInv, ClientIs, Greets, Early, Late

LEMMA ShakeInitInv == ShakeInit => ShakeInv
BY DEF ShakeInit, ShakeOff, ShakeInv, ClientIs, Greets, Early, Late

\* TLS comes first when the scheme asks for it.
LEMMA StartInv == ASSUME ShakeInv, UNCHANGED peer, StartShake PROVE ShakeInv'
BY PeerIs DEF StartShake, io, peerSide, ShakeInv, ClientIs, Greets, Early, Late

\* upgrade_tls is called once at most.
LEMMA TlsInv ==
    ASSUME ShakeInv, UNCHANGED peer, TlsFirst \/ TlsAfterInfo PROVE ShakeInv'
<1>1. CASE TlsFirst
  <2>1. /\ stage = "tls" /\ stage' = "info" /\ security' = TRUE /\ peer.tls /\ Zstd \in BOOLEAN
        /\ UNCHANGED <<halves, encoder, wire, inbound, pings, server, srvZstd, garbled, peer>>
    BY <1>1, PeerIs DEF TlsFirst, UpgradeTls, io, peerSide, ShakeInv, ClientIs
  <2> QED
    BY <2>1 DEF ShakeInv, ClientIs, Greets, Early, Late
<1>2. CASE TlsAfterInfo
  <2>1. /\ stage = "upgrade" /\ stage' = "connect" /\ security' = TRUE /\ Final
        /\ UNCHANGED <<halves, encoder, wire, inbound, pings, server, srvZstd, garbled, peer>>
    BY <1>2, PeerIs DEF TlsAfterInfo, UpgradeTls, io, peerSide, ShakeInv, ClientIs
  <2>2. Final'
    BY <2>1 DEF Final
  <2> QED
    BY <2>1, <2>2 DEF ShakeInv, ClientIs, Greets, Early, Late
<1> QED
  BY <1>1, <1>2

\* The INFO is read through the layers it was written through.
LEMMA ReadInfoInv == ASSUME ShakeInv, UNCHANGED peer, ReadInfo PROVE ShakeInv'
<1>1. /\ stage = "info" /\ inbound # <<>> /\ Head(inbound).op = "INFO"
      /\ UNCHANGED <<security, encoder, wire, pings, server, srvZstd>>
      /\ Read(IF LaterTls THEN "upgrade" ELSE "connect")
  BY DEF ReadInfo, Arrived, peerSide
<1>2. inbound = <<[op |-> "INFO", tls |-> peer.tls, zstd |-> FALSE]>> /\ server # "greeting"
  BY <1>1 DEF ShakeInv, Greets
<1>3. Head(inbound) = [op |-> "INFO", tls |-> peer.tls, zstd |-> FALSE] /\ Tail(inbound) = <<>>
  BY <1>2
<1>4. /\ stage' = IF LaterTls THEN "upgrade" ELSE "connect"
      /\ inbound' = <<>> /\ halves' = Plain
      /\ garbled' = (Head(inbound).zstd # Compressed \/ Head(inbound).tls # security)
      /\ ~Compressed
  BY <1>1, <1>3, ReadIs
<1>5. security = peer.tls /\ peer \in Peers
  BY <1>1 DEF ShakeInv, ClientIs
<1>6. garbled' = FALSE
  <2>1. Head(inbound).zstd = FALSE /\ Head(inbound).tls = security
    BY <1>3, <1>5
  <2>2. Compressed = FALSE
    BY <1>4 DEF Compressed
  <2> QED
    BY <1>4, <2>1, <2>2, Zenon
<1>7. ClientIs'
  <2>1. CASE LaterTls
    <3>1. security = FALSE /\ LaterTls'
      BY <1>5, <2>1, PeerIs DEF LaterTls
    <3> QED
      BY <1>1, <1>4, <1>6, <2>1, <3>1 DEF ShakeInv, ClientIs, Early, Late
  <2>2. CASE ~LaterTls
    <3>1. security = Final' /\ peer' = peer
      BY <1>5, <2>2, PeerIs DEF Final
    <3> QED
      BY <1>1, <1>4, <1>6, <2>2, <3>1 DEF ShakeInv, ClientIs, Early, Late
  <2> QED
    BY <2>1, <2>2
<1> QED
  BY <1>1, <1>2, <1>4, <1>7 DEF ShakeInv, Greets, Early, Late

\* The CONNECT is written.
LEMMA WriteConnectInv == ASSUME ShakeInv, UNCHANGED peer, WriteConnect PROVE ShakeInv'
<1>1. /\ stage = "connect" /\ WriteAndFlush(<<"CONNECT">>, "after")
      /\ UNCHANGED <<security, inbound, pings, server, srvZstd, garbled, peer>>
  BY DEF WriteConnect, peerSide
<1>2. /\ halves = Plain /\ encoder = <<>> /\ wire = <<>> /\ security = Final
      /\ peer \in Peers /\ ~Compressed
  BY <1>1 DEF ShakeInv, ClientIs, Greets, Compressed, Early, Late
<1>3. [op |-> "CONNECT", tls |-> security, zstd |-> Compressed] = ConnectOp /\ ConnectOp \in Ops
  <2>1. Compressed = FALSE
    BY <1>2 DEF Compressed
  <2>2. ConnectOp \in Ops
    BY <1>2, PeerIs DEF ConnectOp, Ops, Layered
  <2>3. [op |-> "CONNECT", tls |-> security, zstd |-> Compressed] = ConnectOp
    BY <1>2, <2>1, Zenon DEF ConnectOp
  <2> QED
    BY <2>2, <2>3
<1>4. wire \in Seq(Ops) /\ encoder \o <<"CONNECT">> = <<"CONNECT">>
  BY <1>2
<1>5. /\ wire' = Append(wire, ConnectOp) /\ encoder' = <<>>
      /\ halves' = Through("encoder")
      /\ stage' = IF Compressed /\ "encoder" \notin halves' THEN "panicked" ELSE "after"
  BY <1>1, <1>3, <1>4, WrittenIs
<1>6. wire' = <<ConnectOp>> /\ halves' = Plain /\ stage' = "after"
  BY <1>2, <1>5 DEF Through
<1>7. ConnectOp' = ConnectOp /\ Final' = Final /\ LaterTls' = LaterTls
  BY <1>1 DEF ConnectOp, Final, LaterTls
<1>8. ClientIs'
  BY <1>1, <1>2, <1>5, <1>6, <1>7 DEF ShakeInv, ClientIs, Early, Late
<1>9. Greets' /\ Unread'
  BY <1>1, <1>6, <1>7 DEF ShakeInv, Greets, Unread, Early, Late
<1> QED
  BY <1>8, <1>9 DEF ShakeInv

\* The connection is compressed from here on, if it is, and the PING waits.
LEMMA AfterConnectInv == ASSUME ShakeInv, UNCHANGED peer, AfterConnect PROVE ShakeInv'
<1>1. /\ stage = "after" /\ stage' = "ping" /\ halves' = (IF Zstd THEN {"decoder"} ELSE halves)
      /\ encoder' = Append(encoder, "PING")
      /\ UNCHANGED <<security, wire, inbound, pings, server, srvZstd, garbled, peer>>
  BY DEF AfterConnect, peerSide, ZstdStart
<1>2. halves = Plain /\ encoder = <<>> /\ security = Final /\ (Unread \/ Answered)
  BY <1>1 DEF ShakeInv, ClientIs, Early, Late
<1>3. encoder' = <<"PING">>
  BY <1>1, <1>2
<1>4. ConnectOp' = ConnectOp /\ PingOp' = PingOp /\ Final' = Final /\ Zstd' = Zstd
      /\ LaterTls' = LaterTls
  BY <1>1 DEF ConnectOp, PingOp, Final, Zstd, LaterTls
<1>5. ClientIs'
  BY <1>1, <1>2, <1>3, <1>4 DEF ShakeInv, ClientIs, Early, Late
<1>6. CASE Unread
  <2>1. Unread'
    BY <1>1, <1>4, <1>6 DEF Unread
  <2> QED
    BY <1>1, <1>5, <2>1 DEF ShakeInv, Greets, Early, Late
<1>7. CASE Answered
  <2>1. Answered'
    BY <1>1, <1>4, <1>7 DEF Answered, Answer
  <2> QED
    BY <1>1, <1>5, <2>1 DEF ShakeInv, Greets, Early, Late
<1> QED
  BY <1>2, <1>6, <1>7

\* The PING is written through the layers of the connection.
LEMMA WritePingInv == ASSUME ShakeInv, UNCHANGED peer, WritePing PROVE ShakeInv'
<1>1. /\ stage = "ping" /\ WriteAndFlush(<<>>, "reply")
      /\ UNCHANGED <<security, inbound, pings, server, srvZstd, garbled, peer>>
  BY DEF WritePing, peerSide
<1>2. /\ halves = (IF Zstd THEN {"decoder"} ELSE Plain) /\ encoder = <<"PING">> /\ pings = 0
      /\ security = Final /\ peer \in Peers /\ (Unread \/ Answered)
  BY <1>1 DEF ShakeInv, ClientIs, Early, Late
<1>3. /\ {"decoder"} # Plain /\ {"decoder"} # {} /\ Zstd \in BOOLEAN /\ Final \in BOOLEAN
      /\ (Compressed <=> Zstd)
  BY <1>2, PeerIs DEF Plain, Compressed
<1>4. PingOp \in Ops /\ ConnectOp \in Ops
  BY <1>3 DEF PingOp, ConnectOp, Ops, Layered
<1>5. [op |-> "PING", tls |-> security, zstd |-> Compressed] = PingOp
  <2>1. Compressed = Zstd
    BY <1>3 DEF Compressed
  <2> QED
    BY <1>2, <2>1 DEF PingOp
<1>6. wire \in Seq(Ops) /\ encoder \o <<>> = <<"PING">> /\ (Unread => wire = <<ConnectOp>>)
  <2>1. wire = <<ConnectOp>> \/ wire = <<>>
    BY <1>1, <1>2 DEF Unread, Answered
  <2>2. wire \in Seq(Ops)
    BY <1>4, <2>1, SmallSeqs
  <2> QED
    BY <1>1, <1>2, <2>2 DEF Unread
<1>7. /\ wire' = Append(wire, PingOp) /\ encoder' = <<>>
      /\ halves' = Through("encoder")
      /\ stage' = IF Compressed /\ "encoder" \notin halves' THEN "panicked" ELSE "reply"
  BY <1>1, <1>4, <1>5, <1>6, WrittenIs
<1>8. halves' = (IF Zstd THEN {"encoder"} ELSE Plain) /\ stage' = "reply"
  BY <1>2, <1>3, <1>7 DEF Through
<1>9. ConnectOp' = ConnectOp /\ PingOp' = PingOp /\ Final' = Final /\ Zstd' = Zstd
      /\ LaterTls' = LaterTls
  BY <1>1 DEF ConnectOp, PingOp, Final, Zstd, LaterTls
<1>10. encoder' = [i \in 1..pings' |-> "PONG"]
  BY <1>1, <1>2, <1>7
<1>11. ClientIs'
  BY <1>1, <1>2, <1>8, <1>9, <1>10 DEF ShakeInv, ClientIs, Early, Late
<1>12. CASE Unread
  <2>1. wire' = <<ConnectOp, PingOp>>
    <3>1. wire' = Append(<<ConnectOp>>, PingOp)
      BY <1>6, <1>7, <1>12
    <3> QED
      BY <1>4, <3>1, SmallSeqs
  <2>2. Unread'
    BY <1>1, <1>8, <1>9, <1>12, <2>1 DEF Unread
  <2> QED
    BY <1>8, <1>11, <2>2 DEF ShakeInv, Greets, Early, Late
<1>13. CASE Answered
  <2>1. wire' = <<PingOp>>
    BY <1>1, <1>7, <1>13 DEF Answered
  <2>2. \A i \in 1..Len(inbound) : inbound[i].op # "PONG"
    BY <1>1, <1>13 DEF Answered, Answer
  <2>3. Answered'
    BY <1>1, <1>8, <1>9, <1>13, <2>1, <2>2 DEF Answered, Answer
  <2> QED
    BY <1>8, <1>11, <2>3 DEF ShakeInv, Greets, Early, Late
<1> QED
  BY <1>2, <1>12, <1>13

\* The reply loop: the +OK is the first answer, and the PONG the last.
LEMMA ReadReplyInv == ASSUME ShakeInv, UNCHANGED peer, ReadReply PROVE ShakeInv'
<1>1. /\ stage = "reply" /\ inbound # <<>>
      /\ UNCHANGED <<security, wire, server, srvZstd, peer>>
  BY DEF ReadReply, Arrived, peerSide
<1>2. Answered /\ ClientIs /\ security = Final /\ peer \in Peers
  BY <1>1 DEF ShakeInv, ClientIs, Unread, Late
<1>3. ConnectOp' = ConnectOp /\ PingOp' = PingOp /\ Final' = Final /\ Zstd' = Zstd
      /\ LaterTls' = LaterTls
  BY <1>1 DEF ConnectOp, PingOp, Final, Zstd, LaterTls
<1>4. /\ Tail(inbound) \in Seq(Layered({"INFO", "OK", "ERR", "PING", "PONG"}))
      /\ Len(Tail(inbound)) = Len(inbound) - 1 /\ Len(inbound) \in Nat \ {0}
      /\ \A i \in 1..Len(Tail(inbound)) : Tail(inbound)[i] = inbound[i + 1]
      /\ Head(inbound) = inbound[1]
  <2> DEFINE S == Layered({"INFO", "OK", "ERR", "PING", "PONG"})
  <2>1. inbound \in Seq(S)
    BY <1>2 DEF Answered
  <2> HIDE DEF S
  <2>2. /\ Tail(inbound) \in Seq(S) /\ Len(Tail(inbound)) = Len(inbound) - 1
        /\ \A i \in 1..Len(Tail(inbound)) : Tail(inbound)[i] = inbound[i + 1]
    BY <1>1, <2>1, HeadTailProperties
  <2>3. Len(inbound) \in Nat \ {0} /\ Head(inbound) = inbound[1]
    BY <1>1, <2>1
  <2> QED
    BY <2>2, <2>3 DEF S
<1>5. ASSUME NEW next \in {"reply", "ok"}, Read(next), next = "ok" => wire = <<>>
      PROVE  /\ stage' = next /\ garbled' = FALSE /\ Answered'
             /\ IF Zstd THEN halves' \in {{"decoder"}, {"encoder"}} ELSE halves' = Plain
  <2>1. /\ stage' = next /\ inbound' = Tail(inbound)
        /\ garbled' = (Head(inbound).zstd # Compressed \/ Head(inbound).tls # security)
        /\ IF Zstd THEN halves' \in {{"decoder"}, {"encoder"}} ELSE halves' = Plain
        /\ Compressed <=> Zstd
    BY <1>1, <1>5, ReadIs
  <2>2. garbled' = FALSE
    <3>1. Compressed = Zstd
      BY <1>2, <2>1, PeerIs DEF Compressed
    <3>2. Head(inbound).zstd = Zstd /\ Head(inbound).tls = security
      BY <1>2, <1>4 DEF Answered, Answer
    <3> QED
      BY <2>1, <3>1, <3>2, Zenon
  <2>3. ASSUME NEW i \in 1..Len(inbound') PROVE Answer(i)' /\ inbound'[i].op # "OK"
    <3>1. i \in Nat \ {0} /\ i + 1 \in 1..Len(inbound) /\ i + 1 # 1 /\ inbound'[i] = inbound[i + 1]
      BY <1>4, <2>1, <2>3
    <3>2. Answer(i + 1)
      BY <1>2, <3>1 DEF Answered
    <3> QED
      BY <1>1, <1>3, <2>1, <3>1, <3>2 DEF Answer
  <2>4. Answered'
    BY <1>1, <1>2, <1>3, <1>4, <1>5, <2>1, <2>3 DEF Answered
  <2> QED
    BY <2>1, <2>2, <2>4
<1>6. ASSUME stage' \in {"reply", "ok"}, garbled' = FALSE, Answered', pings' \in Nat,
             encoder' = [i \in 1..pings' |-> "PONG"],
             IF Zstd THEN halves' \in {{"decoder"}, {"encoder"}} ELSE halves' = Plain
      PROVE  ShakeInv'
  <2>1. ClientIs'
    BY <1>1, <1>2, <1>3, <1>6 DEF ClientIs, Early, Late
  <2> QED
    BY <1>6, <2>1 DEF ShakeInv, Greets, Early, Late
<1>7. pings \in Nat /\ encoder = [i \in 1..pings |-> "PONG"]
  BY <1>1, <1>2 DEF ClientIs
<1>8. CASE Arrived({"OK"}) /\ Read("reply") /\ UNCHANGED <<encoder, pings>>
  BY <1>5, <1>6, <1>7, <1>8
<1>9. CASE Arrived({"PING"}) /\ Read("reply") /\ encoder' = Append(encoder, "PONG") /\ pings' = pings + 1
  <2>1. encoder' = [i \in 1..pings' |-> "PONG"]
    BY <1>7, <1>9
  <2> QED
    BY <1>5, <1>6, <1>7, <1>9, <2>1
<1>10. CASE Arrived({"PONG"}) /\ Read("ok") /\ UNCHANGED <<encoder, pings>>
  <2>1. Head(inbound).op = "PONG"
    BY <1>10 DEF Arrived
  <2>2. wire = <<>>
    BY <1>2, <1>4, <2>1 DEF Answered, Answer
  <2> QED
    BY <1>5, <1>6, <1>7, <1>10, <2>2
<1> QED
  BY <1>8, <1>9, <1>10 DEF ReadReply

LEMMA ClientShakeInv == ASSUME ShakeInv, UNCHANGED peer, ClientShake PROVE ShakeInv'
BY TlsInv, ReadInfoInv, WriteConnectInv, AfterConnectInv, WritePingInv, ReadReplyInv DEF ClientShake

\* What the server adds to what it has answered.
LEMMA AnsweredGrows ==
    ASSUME peer \in Peers, UNCHANGED peer, NEW op \in {"OK", "ERR", "PING", "PONG"},
           Reply(<<op>>, Zstd), SrvTls = Final,
           inbound \in Seq(Layered({"INFO", "OK", "ERR", "PING", "PONG"})),
           op = "OK" => inbound = <<>>
    PROVE  /\ inbound' \in Seq(Layered({"INFO", "OK", "ERR", "PING", "PONG"}))
           /\ Len(inbound') = Len(inbound) + 1 /\ Len(inbound) \in Nat
           /\ \A i \in 1..Len(inbound) : inbound'[i] = inbound[i]
           /\ inbound'[Len(inbound) + 1] = [op |-> op, tls |-> Final, zstd |-> Zstd]
<1> DEFINE S == Layered({"INFO", "OK", "ERR", "PING", "PONG"})
           r == [op |-> op, tls |-> SrvTls, zstd |-> Zstd]
<1>1. r \in S /\ r \in Ops
  BY PeerIs DEF Ops, Layered
<1>2. inbound \in Seq(Ops)
  <2>1. S \subseteq Ops
    BY DEF Ops, Layered
  <2>2. inbound \in Seq(S)
    OBVIOUS
  <2> HIDE DEF S, Ops
  <2> QED
    BY <2>1, <2>2
<1>3. inbound' = Append(inbound, r)
  BY <1>1, <1>2, ReplyIs
<1>4. inbound \in Seq(S)
  OBVIOUS
<1> HIDE DEF S, r
<1>5. /\ inbound' \in Seq(S) /\ Len(inbound') = Len(inbound) + 1 /\ Len(inbound) \in Nat
      /\ \A i \in 1..Len(inbound) : inbound'[i] = inbound[i]
      /\ inbound'[Len(inbound) + 1] = r
  BY <1>1, <1>3, <1>4, AppendProperties
<1> QED
  BY <1>5 DEF S, r

\* The INFO is the server's first op.
LEMMA ServerGreetsInv == ASSUME ShakeInv, UNCHANGED peer, ServerGreets PROVE ShakeInv'
<1>1. /\ stage = "info" /\ server = "greeting" /\ server' = "waiting" /\ Reply(<<"INFO">>, srvZstd)
      /\ UNCHANGED <<stage, security, halves, encoder, wire, pings, srvZstd, garbled, peer>>
  BY DEF ServerGreets
<1>2. inbound = <<>> /\ wire = <<>> /\ srvZstd = FALSE /\ peer \in Peers
  BY <1>1 DEF ShakeInv, ClientIs, Greets, Early
<1>3. SrvTls = peer.tls
  BY <1>1, <1>2, PeerIs DEF SrvTls
<1>4. inbound' = <<[op |-> "INFO", tls |-> peer.tls, zstd |-> FALSE]>>
  <2> DEFINE m == [op |-> "INFO", tls |-> peer.tls, zstd |-> FALSE]
  <2>1. m \in Ops
    BY <1>2, PeerIs DEF Ops, Layered
  <2>2. [op |-> "INFO", tls |-> SrvTls, zstd |-> srvZstd] = m
    BY <1>2, <1>3
  <2>3. inbound' = Append(<<>>, m)
    BY <1>1, <1>2, <2>1, <2>2, ReplyIs, SmallSeqs
  <2> HIDE DEF m
  <2> QED
    BY <2>3 DEF m
<1>5. ClientIs'
  BY <1>1 DEF ShakeInv, ClientIs, Early, Late
<1> QED
  BY <1>1, <1>2, <1>4, <1>5 DEF ShakeInv, Greets, Early, Late

\* The server reads the CONNECT, and enters the layers the client is in; or
\* it reads the PING, which is the client's last op.
LEMMA ServerReadsInv == ASSUME ShakeInv, UNCHANGED peer, ServerReads PROVE ShakeInv'
<1>1. /\ server \in {"waiting", "open"} /\ wire # <<>> /\ wire' = Tail(wire)
      /\ garbled' = (garbled \/ Head(wire).tls # SrvTls \/ Head(wire).zstd # srvZstd)
      /\ UNCHANGED <<stage, security, halves, encoder, pings, peer>>
  BY DEF ServerReads
<1>2. /\ stage \in Late /\ garbled = FALSE /\ peer \in Peers /\ (Unread \/ Answered)
  BY <1>1 DEF ShakeInv, ClientIs, Greets
<1>3. ConnectOp' = ConnectOp /\ PingOp' = PingOp /\ Final' = Final /\ Zstd' = Zstd
      /\ LaterTls' = LaterTls
  BY <1>1 DEF ConnectOp, PingOp, Final, Zstd, LaterTls
<1>4. SrvTls = Final /\ Final \in BOOLEAN /\ Zstd \in BOOLEAN
  BY <1>1, <1>2, PeerIs DEF SrvTls, Final
<1>5. ConnectOp \in Ops /\ PingOp \in Ops
  BY <1>4 DEF ConnectOp, PingOp, Ops, Layered
<1>6. ASSUME garbled' = FALSE, Answered' PROVE ShakeInv'
  <2>1. ClientIs'
    BY <1>1, <1>2, <1>3, <1>6 DEF ShakeInv, ClientIs, Early, Late
  <2> QED
    BY <1>1, <1>2, <1>6, <2>1 DEF ShakeInv, Greets, Early, Late
<1>7. CASE Unread
  <2>1. /\ srvZstd = FALSE /\ inbound = <<>> /\ stage # "ok"
        /\ wire = IF stage \in {"after", "ping"} THEN <<ConnectOp>> ELSE <<ConnectOp, PingOp>>
    BY <1>7 DEF Unread
  <2>2. Head(wire) = ConnectOp
    <3>1. wire = <<ConnectOp>> \/ wire = <<ConnectOp, PingOp>>
      BY <2>1
    <3>2. Head(<<ConnectOp>>) = ConnectOp
      OBVIOUS
    <3> QED
      BY <1>5, <3>1, <3>2, SmallSeqs
  <2>3. wire' = IF stage \in {"after", "ping"} THEN <<>> ELSE <<PingOp>>
    BY <1>1, <1>5, <2>1, SmallSeqs
  <2>4. Head(wire).op = "CONNECT" /\ Head(wire).tls = Final /\ Head(wire).zstd = FALSE
    BY <2>2 DEF ConnectOp
  <2>5. garbled' = FALSE
    BY <1>1, <1>2, <1>4, <2>1, <2>4, Zenon
  <2>6. PICK op \in {"OK", "ERR"} : Reply(<<op>>, Zstd) /\ srvZstd' = Zstd /\ server' \in {"open", "gone"}
    BY <2>4 DEF ServerReads
  <2>7. /\ inbound' \in Seq(Layered({"INFO", "OK", "ERR", "PING", "PONG"}))
        /\ Len(inbound') = 1
        /\ inbound'[1] = [op |-> op, tls |-> Final, zstd |-> Zstd]
    <3>1. Len(inbound) = 0 /\ inbound \in Seq(Layered({"INFO", "OK", "ERR", "PING", "PONG"}))
      BY <2>1
    <3> QED
      BY <1>1, <1>2, <1>4, <2>1, <2>6, <3>1, AnsweredGrows
  <2>8. Answered'
    BY <1>1, <1>2, <1>3, <2>1, <2>3, <2>6, <2>7 DEF Answered, Answer, Late
  <2> QED
    BY <1>6, <2>5, <2>8
<1>8. CASE Answered
  <2>1. /\ srvZstd = Zstd /\ wire = <<PingOp>> /\ stage = "reply"
        /\ inbound \in Seq(Layered({"INFO", "OK", "ERR", "PING", "PONG"}))
        /\ \A i \in 1..Len(inbound) : Answer(i)
    BY <1>1, <1>8 DEF Answered
  <2>2. wire' = <<>> /\ Head(wire) = PingOp
    BY <1>1, <1>5, <2>1, SmallSeqs
  <2>3. Head(wire).op = "PING" /\ Head(wire).tls = Final /\ Head(wire).zstd = Zstd
    BY <2>2 DEF PingOp
  <2>4. garbled' = FALSE
    BY <1>1, <1>2, <1>4, <2>1, <2>3, Zenon
  <2>5. Reply(<<"PONG">>, Zstd) /\ UNCHANGED <<server, srvZstd>>
    BY <2>1, <2>3 DEF ServerReads
  <2>6. /\ inbound' \in Seq(Layered({"INFO", "OK", "ERR", "PING", "PONG"}))
        /\ Len(inbound') = Len(inbound) + 1 /\ Len(inbound) \in Nat
        /\ \A i \in 1..Len(inbound) : inbound'[i] = inbound[i]
        /\ inbound'[Len(inbound) + 1] = [op |-> "PONG", tls |-> Final, zstd |-> Zstd]
    BY <1>1, <1>2, <1>4, <2>1, <2>5, AnsweredGrows
  <2>7. ASSUME NEW i \in 1..Len(inbound') PROVE Answer(i)'
    <3>1. CASE i = Len(inbound) + 1
      BY <1>1, <1>3, <2>1, <2>2, <2>6, <3>1 DEF Answer
    <3>2. CASE i # Len(inbound) + 1
      <4>1. i \in 1..Len(inbound) /\ Answer(i) /\ inbound'[i] = inbound[i]
        BY <2>1, <2>6, <3>2
      <4> QED
        BY <1>1, <1>3, <2>1, <2>2, <4>1 DEF Answer
    <3> QED
      BY <3>1, <3>2
  <2>8. Answered'
    BY <1>1, <1>3, <1>8, <2>1, <2>2, <2>5, <2>6, <2>7 DEF Answered
  <2> QED
    BY <1>6, <2>4, <2>8
<1> QED
  BY <1>2, <1>7, <1>8

\* A PING of the server, once it has taken the client's credentials.
LEMMA ServerPingsInv == ASSUME ShakeInv, UNCHANGED peer, ServerPings PROVE ShakeInv'
<1>1. /\ server = "open" /\ stage # "ok" /\ Reply(<<"PING">>, srvZstd)
      /\ UNCHANGED <<stage, security, halves, encoder, wire, pings, server, srvZstd, garbled, peer>>
  BY DEF ServerPings, InProgress
<1>2. Answered /\ stage \in Late /\ peer \in Peers
  BY <1>1 DEF ShakeInv, ClientIs, Greets, Unread, Early, Late
<1>3. ConnectOp' = ConnectOp /\ PingOp' = PingOp /\ Final' = Final /\ Zstd' = Zstd
      /\ LaterTls' = LaterTls
  BY <1>1 DEF ConnectOp, PingOp, Final, Zstd, LaterTls
<1>4. SrvTls = Final
  BY <1>1, <1>2, PeerIs DEF SrvTls, Final
<1>5. /\ srvZstd = Zstd /\ inbound \in Seq(Layered({"INFO", "OK", "ERR", "PING", "PONG"}))
      /\ \A i \in 1..Len(inbound) : Answer(i)
  BY <1>2 DEF Answered
<1>6. /\ inbound' \in Seq(Layered({"INFO", "OK", "ERR", "PING", "PONG"}))
      /\ Len(inbound') = Len(inbound) + 1 /\ Len(inbound) \in Nat
      /\ \A i \in 1..Len(inbound) : inbound'[i] = inbound[i]
      /\ inbound'[Len(inbound) + 1] = [op |-> "PING", tls |-> Final, zstd |-> Zstd]
  BY <1>1, <1>2, <1>4, <1>5, AnsweredGrows
<1>7. ASSUME NEW i \in 1..Len(inbound') PROVE Answer(i)'
  <2>1. CASE i = Len(inbound) + 1
    BY <1>1, <1>3, <1>6, <2>1 DEF Answer
  <2>2. CASE i # Len(inbound) + 1
    <3>1. i \in 1..Len(inbound) /\ Answer(i) /\ inbound'[i] = inbound[i]
      BY <1>5, <1>6, <2>2
    <3> QED
      BY <1>1, <1>3, <3>1 DEF Answer
  <2> QED
    BY <2>1, <2>2
<1>8. Answered'
  BY <1>1, <1>2, <1>3, <1>6, <1>7 DEF Answered
<1>9. ClientIs'
  BY <1>1, <1>3 DEF ShakeInv, ClientIs, Early, Late
<1> QED
  BY <1>1, <1>2, <1>8, <1>9 DEF ShakeInv, Greets, Early, Late

\* The server is lost, or refuses the client before it greets it.
LEMMA ServerGoesInv == ASSUME ShakeInv, UNCHANGED peer, ServerGoes PROVE ShakeInv'
<1>1. /\ server # "gone" /\ server' = "gone"
      /\ UNCHANGED <<stage, security, halves, encoder, wire, pings, srvZstd, garbled, peer>>
      /\ \/ UNCHANGED inbound
         \/ server = "greeting" /\ stage = "info" /\ Reply(<<"ERR">>, srvZstd)
  BY DEF ServerGoes
<1>2. ConnectOp' = ConnectOp /\ PingOp' = PingOp /\ Final' = Final /\ Zstd' = Zstd
      /\ LaterTls' = LaterTls
  BY <1>1 DEF ConnectOp, PingOp, Final, Zstd, LaterTls
<1>3. ClientIs' /\ peer \in Peers
  BY <1>1, <1>2 DEF ShakeInv, ClientIs, Early, Late
<1>4. CASE UNCHANGED inbound
  <2>1. Greets'
    BY <1>1, <1>4 DEF ShakeInv, Greets, Early
  <2>2. Unread => Unread'
    BY <1>1, <1>2, <1>4 DEF Unread
  <2>3. Answered => Answered'
    BY <1>1, <1>2, <1>4 DEF Answered, Answer
  <2> QED
    BY <1>1, <1>3, <2>1, <2>2, <2>3 DEF ShakeInv
<1>5. CASE server = "greeting" /\ stage = "info" /\ Reply(<<"ERR">>, srvZstd)
  <2>1. inbound = <<>> /\ srvZstd = FALSE /\ wire = <<>>
    BY <1>5 DEF ShakeInv, Greets, Early
  <2> DEFINE m == [op |-> "ERR", tls |-> peer.tls, zstd |-> FALSE]
  <2>2. m \in Ops /\ SrvTls = peer.tls
    BY <1>3, <1>5, PeerIs DEF Ops, Layered, SrvTls
  <2>3. [op |-> "ERR", tls |-> SrvTls, zstd |-> srvZstd] = m
    BY <2>1, <2>2
  <2>4. inbound' = Append(<<>>, m)
    BY <1>5, <2>1, <2>2, <2>3, ReplyIs, SmallSeqs
  <2>5. inbound' = <<m>>
    <3> HIDE DEF m
    <3> QED
      BY <2>4
  <2> QED
    BY <1>1, <1>3, <1>5, <2>1, <2>5 DEF ShakeInv, Greets, Early, Late
<1> QED
  BY <1>1, <1>4, <1>5

LEMMA ServerShakeInv ==
    ASSUME ShakeInv, UNCHANGED peer, ServerShake \/ ServerGoes PROVE ShakeInv'
BY ServerGreetsInv, ServerReadsInv, ServerPingsInv, ServerGoesInv DEF ServerShake

-----------------------------------------------------------------------------
(***************************************************************************)
(* The two halves of connect.                                              *)
(***************************************************************************)
\* Sequences of up to two elements.
LEMMA ShortSeqs ==
    ASSUME NEW S
    PROVE  <<>> \in Seq(S) /\ \A a, b \in S : <<a>> \in Seq(S) /\ <<a, b>> \in Seq(S)
OBVIOUS

\* What ShakeInv says of the handshake.
LEMMA ShakeImplies ==
    ShakeInv => ShakeTypeOK /\ NeverPanics /\ LayersAgree /\ CleanHandover /\ PingsAreAnswered
<1> SUFFICES ASSUME ShakeInv
             PROVE  ShakeTypeOK /\ NeverPanics /\ LayersAgree /\ CleanHandover /\ PingsAreAnswered
  OBVIOUS
<1>1. peer \in Peers /\ stage \in Early \cup Late /\ pings \in Nat /\ garbled = FALSE
  BY DEF ShakeInv, ClientIs
<1>2. security \in BOOLEAN /\ server \in {"greeting", "waiting", "open", "gone"} /\ srvZstd \in BOOLEAN
  BY <1>1, PeerIs DEF ShakeInv, ClientIs, Greets, Unread, Answered, Early, Late
<1>3. halves \in {Plain, {}, {"decoder"}, {"encoder"}}
  BY <1>1 DEF ShakeInv, ClientIs, Early, Late
<1>4. encoder \in Seq({"PING", "PONG"})
  <2>1. encoder = <<>> \/ encoder = <<"PING">> \/ encoder = [i \in 1..pings |-> "PONG"]
    BY <1>1 DEF ShakeInv, ClientIs, Early, Late
  <2>2. [i \in 1..pings |-> "PONG"] \in Seq({"PING", "PONG"})
    BY <1>1
  <2> QED
    BY <2>1, <2>2, ShortSeqs
<1>5. wire \in Seq(Layered({"CONNECT", "PING", "PONG"}))
  <2> DEFINE S == Layered({"CONNECT", "PING", "PONG"})
  <2>1. ConnectOp \in S /\ PingOp \in S
    BY <1>1, PeerIs DEF Layered, ConnectOp, PingOp
  <2>2. wire = <<>> \/ wire = <<ConnectOp>> \/ wire = <<PingOp>> \/ wire = <<ConnectOp, PingOp>>
    BY <1>1 DEF ShakeInv, Greets, Unread, Answered
  <2> HIDE DEF S, ConnectOp, PingOp
  <2>3. wire \in Seq(S)
    BY <2>1, <2>2, ShortSeqs
  <2> QED
    BY <2>3 DEF S
<1>6. inbound \in Seq(Layered({"INFO", "OK", "ERR", "PING", "PONG"}))
  <2> DEFINE S == Layered({"INFO", "OK", "ERR", "PING", "PONG"})
  <2>1. \A op \in {"INFO", "ERR"} : [op |-> op, tls |-> peer.tls, zstd |-> FALSE] \in S
    BY <1>1, PeerIs DEF Layered
  <2>2. inbound = <<>> \/ inbound \in Seq(S)
        \/ \E op \in {"INFO", "ERR"} : inbound = <<[op |-> op, tls |-> peer.tls, zstd |-> FALSE]>>
    BY <1>1 DEF ShakeInv, Greets, Unread, Answered, Early
  <2>3. inbound = <<>> \/ inbound \in Seq(S) \/ \E m \in S : inbound = <<m>>
    BY <2>1, <2>2
  <2> HIDE DEF S
  <2>4. inbound \in Seq(S)
    BY <2>3, ShortSeqs
  <2> QED
    BY <2>4 DEF S
<1>7. ShakeTypeOK
  BY <1>1, <1>2, <1>3, <1>4, <1>5, <1>6 DEF ShakeTypeOK, Early, Late
<1>8. NeverPanics /\ LayersAgree /\ PingsAreAnswered
  BY <1>1 DEF NeverPanics, LayersAgree, PingsAreAnswered, ShakeInv, ClientIs, Early, Late
<1>9. CleanHandover
  <2> SUFFICES ASSUME stage = "ok"
               PROVE  /\ \A i \in DOMAIN wire : wire[i].op = "PONG"
                      /\ \A i \in DOMAIN inbound : inbound[i].op # "OK"
    BY DEF CleanHandover
  <2>1. Answered
    BY DEF ShakeInv, Unread, Late
  <2>2. wire = <<>> /\ \A i \in 1..Len(inbound) : inbound[i].op # "OK"
    BY <2>1 DEF Answered
  <2>3. DOMAIN inbound = 1..Len(inbound)
    BY <1>6
  <2> QED
    BY <2>2, <2>3
<1> QED
  BY <1>7, <1>8, <1>9

\* What a step of Lifecycle is for the dial ...
DialMoves ==
    \/ DialDrop
    \/ \E records \in Lookups : Lookup(records)
    \/ DialStep \/ DelayElapses \/ (\E a \in Addrs : AttemptEnds(a)) \/ UNCHANGED dial

\* ... and for the handshake.
ShakeMoves ==
    ShakeDrop \/ StartShake \/ ClientShake \/ ServerShake \/ ServerGoes \/ UNCHANGED shake

LEMMA StepMoves ==
    [Next]_vars => DialMoves /\ ShakeMoves /\ UNCHANGED <<accepting, peer>>
<1> SUFFICES ASSUME [Next]_vars PROVE DialMoves /\ ShakeMoves /\ UNCHANGED <<accepting, peer>>
  OBVIOUS
<1>1. UNCHANGED <<accepting, peer>>
  BY DEF Next, vars, frozen
<1>2. CASE UNCHANGED vars
  BY <1>1, <1>2 DEF vars, DialMoves, ShakeMoves
<1>3. CASE SleepEnds \/ BeginShutdown \/ Serve \/ HandlerCloses \/ Enqueue \/ Close \/ Disconnected
  BY <1>1, <1>3 DEF SleepEnds, BeginShutdown, Serve, HandlerCloses, Enqueue, Close, Disconnected,
     Recycle, DialMoves, ShakeMoves
<1>8. CASE StartWriting \/ WriteDone \/ FlushDone
  BY <1>1, <1>8 DEF StartWriting, WriteDone, FlushDone, Transmit, DialMoves, ShakeMoves
<1>4. CASE ConnectError \/ ConnectFault \/ ShutDown \/ DropClient
  BY <1>1, <1>4 DEF ConnectError, ConnectFault, ConnectFails, ShutDown, DropClient, DialMoves, ShakeMoves
<1>5. CASE Dialing
  BY <1>1, <1>5 DEF Dialing, DialMoves, ShakeMoves
<1>6. CASE TcpConnected \/ Shaking \/ Connected
  BY <1>1, <1>6 DEF TcpConnected, Shaking, Connected, DialMoves, ShakeMoves
<1>7. CASE TimePasses \/ (\E a \in Addrs : AttemptDone(a)) \/ ServerActs \/ ServerFault
  BY <1>1, <1>7 DEF TimePasses, AttemptDone, ServerActs, ServerFault, DialMoves, ShakeMoves
<1> QED
  BY <1>2, <1>3, <1>4, <1>5, <1>6, <1>7, <1>8 DEF Next, TaskStep, AppStep, Faults, Environment

LEMMA ConnectStep ==
    ASSUME DialInv, ShakeInv, [Next]_vars PROVE DialInv' /\ ShakeInv'
<1>1. DialMoves /\ ShakeMoves /\ UNCHANGED <<accepting, peer>>
  BY StepMoves
<1>2. DialInv'
  <2>1. accepting \subseteq Addrs
    BY DEF DialInv, DialTypeOK
  <2> QED
    BY <1>1, <2>1, DialDropped, LookupInv, DialStepInv DEF DialMoves
<1>3. ShakeInv'
  <2>1. peer \in Peers
    BY DEF ShakeInv, ClientIs
  <2>2. CASE UNCHANGED shake
    <3>1. /\ UNCHANGED <<stage, security, halves, encoder, wire, inbound, pings, server, srvZstd,
                         garbled, peer>>
      BY <1>1, <2>2 DEF shake, io, peerSide
    <3>2. ConnectOp' = ConnectOp /\ PingOp' = PingOp /\ Final' = Final /\ Zstd' = Zstd
          /\ LaterTls' = LaterTls
      BY <3>1 DEF ConnectOp, PingOp, Final, Zstd, LaterTls
    <3>3. ClientIs' /\ Greets'
      BY <3>1, <3>2 DEF ShakeInv, ClientIs, Greets
    <3>4. (Unread => Unread') /\ (Answered => Answered')
      BY <3>1, <3>2 DEF Unread, Answered, Answer
    <3> QED
      BY <3>1, <3>3, <3>4 DEF ShakeInv
  <2> QED
    BY <1>1, <2>1, <2>2, ShakeDropped, StartInv, ClientShakeInv, ServerShakeInv DEF ShakeMoves
<1> QED
  BY <1>2, <1>3

LEMMA ConnectInit == Init => DialInv /\ ShakeInv
BY DialInitInv, ShakeInitInv DEF Init

\* For any addresses, lookups, servers and bounds: connect_tcp gives up only
\* when every address was attempted and has no server, its next_dns_record
\* takes the families in turns, and what easy_connect hands over is complete:
\* both sides at the same layers, no unreachable! and no unwrap reached, no +OK
\* left for the handler and every PING of the handshake answered.
THEOREM ConnectIsSound == Spec => []ConnectInv
<1>1. Init => DialInv /\ ShakeInv
  BY ConnectInit
<1>2. DialInv /\ ShakeInv /\ [Next]_vars => DialInv' /\ ShakeInv'
  BY ConnectStep
<1>3. DialInv /\ ShakeInv => ConnectInv
  BY DialImplies, ShakeImplies DEF ConnectInv
<1> QED
  BY <1>1, <1>2, <1>3, PTL DEF Spec

-----------------------------------------------------------------------------
(***************************************************************************)
(* The task.                                                               *)
(***************************************************************************)
TaskTypeOK ==
    /\ task \in {"sleeping", "connecting", "serving", "gone", "failed", "aborted"}
    /\ eager \in BOOLEAN
    /\ backoff \in 0..MaxDelay
    /\ commands \in 0..sent
    /\ cmdOpen \in BOOLEAN
    /\ shutdownMsg \in BOOLEAN
    /\ isConnected \in BOOLEAN
    /\ shutting_down \in BOOLEAN
    /\ closes \in 0..MaxCloses
    /\ sent \in 0..MaxCommands
    /\ faults \in 0..MaxFaults

\* Nothing is connected but while the task is connecting.
NoShake == stage # "off" => task = "connecting"

\* The first error of a series makes the delay MinDelay.
BackoffStarts == backoff = 0 \/ MinDelay <= backoff

TaskInv == TaskTypeOK /\ NoShake /\ ConnectedIsServing /\ BackoffStarts

OutputTypeOK == buffered \in BOOLEAN /\ writing \in BOOLEAN /\ flushing \in BOOLEAN

LEMMA TaskImplies == DialInv /\ ShakeInv /\ TaskInv /\ OutputTypeOK => LifecycleInv
<1>1. TaskTypeOK => commands \in 0..MaxCommands
  BY LifecycleAssumption DEF TaskTypeOK
<1> QED
  BY <1>1, DialImplies, ShakeImplies
     DEF TaskInv, TaskTypeOK, OutputTypeOK, NoShake, LifecycleInv, LifecycleTypeOK

LEMMA TaskInit == Init => TaskInv
<1> SUFFICES ASSUME Init PROVE TaskInv
  OBVIOUS
<1>1. /\ eager \in BOOLEAN /\ task \in {"connecting", "sleeping"} /\ backoff = 0 /\ commands = 0
      /\ cmdOpen = TRUE /\ shutdownMsg = FALSE /\ isConnected = FALSE /\ shutting_down = FALSE
      /\ closes = 0 /\ sent = 0 /\ faults = 0 /\ stage = "off"
  BY DEF Init, ShakeInit, ShakeOff
<1>2. TaskTypeOK
  <2>1. /\ backoff \in 0..MaxDelay /\ commands \in 0..sent /\ closes \in 0..MaxCloses
        /\ sent \in 0..MaxCommands /\ faults \in 0..MaxFaults
    BY <1>1, LifecycleAssumption
  <2> QED
    BY <1>1, <2>1 DEF TaskTypeOK
<1> QED
  BY <1>1, <1>2 DEF TaskInv, NoShake, ConnectedIsServing, BackoffStarts

\* The delay after an error, in relation to the one before.
LEMMA NextDelayIs ==
    ASSUME backoff \in 0..MaxDelay, BackoffStarts
    PROVE  /\ NextDelay \in MinDelay..MaxDelay
           /\ NextDelay = MaxDelay \/ NextDelay >= 2 * backoff
BY LifecycleAssumption DEF NextDelay, Bounded, BackoffStarts

\* The connecting task, and what ends it.
LEMMA ConnectingInv ==
    ASSUME TaskInv,
           \/ SleepEnds \/ Dialing \/ TcpConnected \/ Shaking \/ Connected \/ ShutDown
           \/ ConnectError \/ ConnectFault
    PROVE  TaskInv'
<1> USE LifecycleAssumption DEF handler, output
<1>1. CASE SleepEnds \/ Dialing \/ TcpConnected \/ Shaking
  <2>1. /\ task \in {"sleeping", "connecting"} /\ task' = "connecting"
        /\ UNCHANGED <<eager, backoff, commands, cmdOpen, shutdownMsg, isConnected, shutting_down,
                       closes, sent, faults>>
    BY <1>1 DEF SleepEnds, Dialing, TcpConnected, Shaking, channels, requested
  <2> QED
    BY <2>1 DEF TaskInv, TaskTypeOK, NoShake, ConnectedIsServing, BackoffStarts
<1>2. CASE Connected
  <2>1. /\ task' = "serving" /\ isConnected' = TRUE /\ eager' = FALSE /\ stage' = "off"
        /\ shutting_down' = FALSE
        /\ UNCHANGED <<backoff, commands, cmdOpen, shutdownMsg, closes, sent, faults>>
    BY <1>2 DEF Connected, ShakeDrop, channels, requested
  <2> QED
    BY <2>1 DEF TaskInv, TaskTypeOK, NoShake, ConnectedIsServing, BackoffStarts
<1>3. CASE ShutDown
  <2>1. /\ task \in {"sleeping", "connecting"} /\ task' = "gone" /\ stage' = "off" /\ commands' = 0
        /\ cmdOpen' = FALSE /\ shutdownMsg' = FALSE
        /\ UNCHANGED <<eager, backoff, isConnected, shutting_down, closes, sent, faults>>
    BY <1>3 DEF ShutDown, ShutsDown, ShakeDrop, requested
  <2>2. isConnected' = FALSE
    BY <2>1 DEF TaskInv, TaskTypeOK, ConnectedIsServing
  <2>3. commands' \in 0..sent'
    BY <2>1 DEF TaskInv, TaskTypeOK
  <2>4. TaskTypeOK'
    BY <2>1, <2>2, <2>3 DEF TaskInv, TaskTypeOK
  <2> QED
    BY <2>1, <2>2, <2>4 DEF TaskInv, NoShake, ConnectedIsServing, BackoffStarts
<1>4. CASE ConnectError \/ ConnectFault
  <2>1. /\ task = "connecting" /\ stage' = "off" /\ task' = (IF eager THEN "failed" ELSE "sleeping")
        /\ backoff' = (IF eager THEN backoff ELSE NextDelay)
        /\ cmdOpen' = (cmdOpen /\ ~eager)
        /\ UNCHANGED <<eager, commands, shutdownMsg, isConnected, shutting_down, closes, sent>>
    BY <1>4 DEF ConnectError, ConnectFault, ConnectFails, ShakeDrop, requested
  <2>2. faults' \in 0..MaxFaults
    BY <1>4 DEF ConnectError, ConnectFault, TaskInv, TaskTypeOK
  <2>3. backoff' \in 0..MaxDelay /\ BackoffStarts'
    BY <2>1, NextDelayIs DEF TaskInv, TaskTypeOK, BackoffStarts
  <2>4. cmdOpen' \in BOOLEAN
    BY <2>1
  <2>5. isConnected' = FALSE
    BY <2>1 DEF TaskInv, TaskTypeOK, ConnectedIsServing
  <2>6. TaskTypeOK'
    BY <2>1, <2>2, <2>3, <2>4 DEF TaskInv, TaskTypeOK
  <2> QED
    BY <2>1, <2>3, <2>5, <2>6 DEF TaskInv, NoShake, ConnectedIsServing
<1> QED
  BY <1>1, <1>2, <1>3, <1>4

\* The serving task, and what ends it.
LEMMA ServingInv ==
    ASSUME TaskInv,
           \/ BeginShutdown \/ Serve \/ StartWriting \/ WriteDone \/ FlushDone \/ HandlerCloses
           \/ Disconnected
    PROVE  TaskInv'
<1> USE LifecycleAssumption DEF handler, output
<1>1. CASE BeginShutdown
  <2>1. /\ task' = task /\ stage' = stage /\ shutting_down' = TRUE /\ shutdownMsg' = FALSE
        /\ cmdOpen' = FALSE
        /\ UNCHANGED <<eager, backoff, commands, isConnected, closes, sent, faults>>
    BY <1>1 DEF BeginShutdown, shake, requested
  <2> QED
    BY <2>1 DEF TaskInv, TaskTypeOK, NoShake, ConnectedIsServing, BackoffStarts
<1>2. CASE Serve
  <2>1. /\ task' = task /\ stage' = stage /\ commands > 0 /\ commands' = commands - 1
        /\ UNCHANGED <<eager, backoff, cmdOpen, shutdownMsg, shutting_down, isConnected, closes, sent,
                       faults>>
    BY <1>2 DEF Serve, shake, requested
  <2> QED
    BY <2>1 DEF TaskInv, TaskTypeOK, NoShake, ConnectedIsServing, BackoffStarts
<1>3. CASE HandlerCloses
  <2>1. /\ task = "serving" /\ task' = "gone" /\ stage' = stage /\ isConnected' = FALSE
        /\ shutting_down' = TRUE /\ shutdownMsg' = FALSE /\ commands' = 0
        /\ UNCHANGED <<eager, backoff, cmdOpen, closes, sent, faults>>
    BY <1>3 DEF HandlerCloses, shake, requested
  <2>2. commands' \in 0..sent'
    BY <2>1 DEF TaskInv, TaskTypeOK
  <2> QED
    BY <2>1, <2>2 DEF TaskInv, TaskTypeOK, NoShake, ConnectedIsServing, BackoffStarts
<1>4. CASE Disconnected
  <2>1. /\ task = "serving" /\ task' = "sleeping" /\ stage' = stage /\ isConnected' = FALSE
        /\ backoff' = MinDelay /\ shutting_down' = FALSE /\ faults < MaxFaults /\ faults' = faults + 1
        /\ UNCHANGED <<eager, commands, cmdOpen, shutdownMsg, closes, sent>>
    BY <1>4 DEF Disconnected, Recycle, shake, channels, requested
  <2>2. backoff' \in 0..MaxDelay /\ MinDelay <= backoff' /\ faults' \in 0..MaxFaults
    BY <2>1 DEF TaskInv, TaskTypeOK
  <2>3. TaskTypeOK'
    BY <2>1, <2>2 DEF TaskInv, TaskTypeOK
  <2> QED
    BY <2>1, <2>2, <2>3 DEF TaskInv, NoShake, ConnectedIsServing, BackoffStarts
<1>5. CASE StartWriting \/ WriteDone \/ FlushDone
  <2>1. /\ task' = task /\ stage' = stage
        /\ UNCHANGED <<eager, backoff, commands, cmdOpen, shutdownMsg, shutting_down, isConnected,
                       closes, sent, faults>>
    BY <1>5 DEF StartWriting, WriteDone, FlushDone, Transmit, shake, channels, requested
  <2> QED
    BY <2>1 DEF TaskInv, TaskTypeOK, NoShake, ConnectedIsServing, BackoffStarts
<1> QED
  BY <1>1, <1>2, <1>3, <1>4, <1>5

\* The application and the environment.
LEMMA AroundInv ==
    ASSUME TaskInv,
           \/ Enqueue \/ Close \/ DropClient \/ TimePasses \/ (\E a \in Addrs : AttemptDone(a))
           \/ ServerActs \/ ServerFault \/ UNCHANGED vars
    PROVE  TaskInv'
<1> USE LifecycleAssumption DEF handler, output
<1>1. CASE Enqueue
  <2>1. /\ task' = task /\ stage' = stage /\ sent < MaxCommands /\ sent' = sent + 1
        /\ commands' = commands + 1
        /\ UNCHANGED <<eager, backoff, cmdOpen, shutdownMsg, shutting_down, isConnected, closes, faults>>
    BY <1>1 DEF Enqueue, shake
  <2> QED
    BY <2>1 DEF TaskInv, TaskTypeOK, NoShake, ConnectedIsServing, BackoffStarts
<1>2. CASE Close
  <2>1. /\ task' = task /\ stage' = stage /\ closes < MaxCloses /\ closes' = closes + 1
        /\ shutdownMsg' = TRUE
        /\ UNCHANGED <<eager, backoff, commands, cmdOpen, shutting_down, isConnected, sent, faults>>
    BY <1>2 DEF Close, shake
  <2> QED
    BY <2>1 DEF TaskInv, TaskTypeOK, NoShake, ConnectedIsServing, BackoffStarts
<1>3. CASE DropClient
  <2>1. /\ task' = "aborted" /\ stage' = "off" /\ commands' = 0 /\ cmdOpen' = FALSE
        /\ UNCHANGED <<eager, backoff, shutdownMsg, shutting_down, isConnected, closes, sent, faults>>
    BY <1>3 DEF DropClient, ShakeDrop, requested
  <2>2. commands' \in 0..sent'
    BY <2>1 DEF TaskInv, TaskTypeOK
  <2>3. TaskTypeOK'
    BY <2>1, <2>2 DEF TaskInv, TaskTypeOK
  <2> QED
    BY <2>1, <2>3 DEF TaskInv, NoShake, ConnectedIsServing, BackoffStarts
<1>4. CASE TimePasses \/ (\E a \in Addrs : AttemptDone(a)) \/ ServerActs \/ ServerFault
  <2>1. /\ task = "connecting" /\ task' = task
        /\ UNCHANGED <<eager, backoff, commands, cmdOpen, shutdownMsg, shutting_down, isConnected,
                       closes, sent>>
    BY <1>4 DEF TimePasses, AttemptDone, ServerActs, ServerFault, Aside, channels, requested
  <2>2. \/ faults' = faults
        \/ faults < MaxFaults /\ faults' = faults + 1
    BY <1>4 DEF TimePasses, AttemptDone, ServerActs, ServerFault
  <2>3. faults' \in 0..MaxFaults
    BY <2>2 DEF TaskInv, TaskTypeOK
  <2>4. TaskTypeOK'
    BY <2>1, <2>3 DEF TaskInv, TaskTypeOK
  <2> QED
    BY <2>1, <2>4 DEF TaskInv, NoShake, ConnectedIsServing, BackoffStarts
<1>5. CASE UNCHANGED vars
  <2>1. UNCHANGED <<task, stage, eager, backoff, commands, cmdOpen, shutdownMsg, shutting_down,
                    isConnected, closes, sent, faults>>
    BY <1>5 DEF vars, shake, channels, requested
  <2> QED
    BY <2>1 DEF TaskInv, TaskTypeOK, NoShake, ConnectedIsServing, BackoffStarts
<1> QED
  BY <1>1, <1>2, <1>3, <1>4, <1>5

LEMMA TaskStepInv == ASSUME TaskInv, [Next]_vars PROVE TaskInv'
BY ConnectingInv, ServingInv, AroundInv DEF Next, TaskStep, AppStep, Faults, Environment

\* What is left to write and to flush.
LEMMA OutputStep == ASSUME OutputTypeOK, [Next]_vars PROVE OutputTypeOK'
<1>1. CASE UNCHANGED output
  BY <1>1 DEF output, OutputTypeOK
<1>2. CASE Connected
  BY <1>2 DEF Connected, OutputTypeOK
<1>3. CASE Serve \/ StartWriting \/ WriteDone \/ FlushDone
  BY <1>3 DEF Serve, StartWriting, WriteDone, FlushDone, OutputTypeOK
<1>4. CASE Disconnected
  BY <1>4 DEF Disconnected, Recycle, OutputTypeOK
<1>5. \/ UNCHANGED output \/ Connected \/ Disconnected
      \/ Serve \/ StartWriting \/ WriteDone \/ FlushDone
  BY DEF Next, TaskStep, AppStep, Faults, Environment, SleepEnds, Dialing, TcpConnected, Shaking,
     ShutDown, ConnectError, BeginShutdown, HandlerCloses, Enqueue, Close, DropClient, ConnectFault,
     ServerFault, TimePasses, ServerActs, AttemptDone, Aside, ConnectFails, vars, handler
<1> QED
  BY <1>1, <1>2, <1>3, <1>4, <1>5

\* The state of the task is consistent for any delays and bounds: the task owns
\* a handshake only while Handler::connect runs, and QuickInfo::is_connected is
\* set only while a handler serves (or was aborted while it did), through every
\* recycle, shutdown and failed attempt.
THEOREM LifecycleIsConsistent == Spec => []LifecycleInv
<1>1. Init => DialInv /\ ShakeInv /\ TaskInv /\ OutputTypeOK
  BY ConnectInit, TaskInit DEF Init, OutputTypeOK
<1>2. DialInv /\ ShakeInv /\ TaskInv /\ OutputTypeOK /\ [Next]_vars =>
        DialInv' /\ ShakeInv' /\ TaskInv' /\ OutputTypeOK'
  BY ConnectStep, TaskStepInv, OutputStep
<1>3. DialInv /\ ShakeInv /\ TaskInv /\ OutputTypeOK => LifecycleInv
  BY TaskImplies
<1> QED
  BY <1>1, <1>2, <1>3, PTL DEF Spec

\* The loop of connect doubles its delay with every failed attempt, up to
\* MAX_RECONNECT_DELAY, and starts over at MIN_RECONNECT_DELAY after a
\* connection was lost: a delay below MIN_RECONNECT_DELAY is only ever zero, so
\* raising it to the minimum is never less than doubling it.
THEOREM BackoffDoubles == Spec => BackoffGrows
<1>1. Init => TaskInv
  BY TaskInit
<1>2. TaskInv /\ [Next]_vars => TaskInv'
  BY TaskStepInv
<1>3. TaskInv /\ [Next]_vars =>
        [task = "connecting" /\ task' = "sleeping" =>
            /\ MinDelay <= backoff' /\ backoff' <= MaxDelay
            /\ backoff' = MaxDelay \/ backoff' >= 2 * backoff]_vars
  <2> SUFFICES ASSUME TaskInv, [Next]_vars, task = "connecting", task' = "sleeping"
               PROVE  /\ MinDelay <= backoff' /\ backoff' <= MaxDelay
                      /\ backoff' = MaxDelay \/ backoff' >= 2 * backoff
    OBVIOUS
  <2>1. ConnectFails /\ ~eager
    BY DEF Next, TaskStep, AppStep, Faults, Environment, SleepEnds, Dialing, TcpConnected, Shaking,
       Connected, ShutDown, ConnectError, BeginShutdown, Serve, StartWriting, WriteDone, FlushDone,
       Transmit, HandlerCloses, Enqueue, Close, DropClient, ConnectFault, Disconnected, Recycle, ServerFault, TimePasses, ServerActs,
       AttemptDone, Aside, ConnectFails, vars
  <2>2. backoff' = NextDelay /\ backoff \in 0..MaxDelay /\ BackoffStarts
    BY <2>1 DEF ConnectFails, TaskInv, TaskTypeOK
  <2>3. NextDelay \in MinDelay..MaxDelay /\ (NextDelay = MaxDelay \/ NextDelay >= 2 * backoff)
    BY <2>2, NextDelayIs
  <2> QED
    BY <2>2, <2>3, LifecycleAssumption
<1> QED
  BY <1>1, <1>2, <1>3, PTL DEF Spec, BackoffGrows

\* A handler that is shutting down has closed its command channel, and so it is
\* closed for the handlers that come after it.
ShutIsClosed == shutting_down => ~cmdOpen

CloseInv == TaskInv /\ ShutIsClosed /\ CloseIsRemembered

LEMMA CloseStep == ASSUME CloseInv, [Next]_vars PROVE ShutIsClosed' /\ CloseIsRemembered'
<1> USE DEF CloseInv, ShutIsClosed, CloseIsRemembered, Running
<1>1. cmdOpen \in BOOLEAN /\ closes \in Nat
  BY LifecycleAssumption DEF TaskInv, TaskTypeOK
<1>2. CASE UNCHANGED <<channels, shutting_down, closes>> /\ task \notin {"gone", "failed", "aborted"}
  BY <1>2 DEF channels
<1>3. CASE UNCHANGED vars
  BY <1>3 DEF vars, handler, channels, requested
<1>4. CASE ConnectError \/ ConnectFault
  <2>1. /\ task = "connecting" /\ UNCHANGED <<shutdownMsg, shutting_down, closes>>
        /\ cmdOpen' = (cmdOpen /\ ~eager)
    BY <1>4 DEF ConnectError, ConnectFault, ConnectFails, handler, requested
  <2> QED
    BY <1>1, <2>1
<1>5. CASE ShutDown \/ HandlerCloses
  <2>1. task' = "gone"
    BY <1>5 DEF ShutDown, HandlerCloses
  <2>2. ~cmdOpen' \/ (UNCHANGED cmdOpen /\ NoMoreCommands)
    BY <1>5 DEF ShutDown, HandlerCloses
  <2> QED
    BY <1>1, <2>1, <2>2 DEF NoMoreCommands
<1>6. CASE BeginShutdown
  BY <1>6 DEF BeginShutdown
<1>7. CASE Connected \/ Disconnected
  <2>1. /\ task \in {"connecting", "serving"} /\ shutting_down' = FALSE
        /\ UNCHANGED <<closes, shutdownMsg, cmdOpen>>
    BY <1>7 DEF Connected, Disconnected, Recycle, channels, requested
  <2> QED
    BY <1>1, <2>1
<1>8. CASE Close
  BY <1>8 DEF Close, handler
<1>9. CASE DropClient
  BY <1>9 DEF DropClient
<1>10. CASE Serve \/ Enqueue
  <2>1. UNCHANGED <<closes, shutdownMsg, cmdOpen, shutting_down>>
    BY <1>10 DEF Serve, Enqueue, requested, handler
  <2>2. task' = task
    BY <1>10 DEF Serve, Enqueue
  <2> QED
    BY <2>1, <2>2
<1>11. CASE SleepEnds \/ Dialing \/ TcpConnected \/ Shaking \/ StartWriting \/ WriteDone \/ FlushDone
            \/ TimePasses \/ ServerActs \/ (\E a \in Addrs : AttemptDone(a)) \/ ServerFault
  <2>1. UNCHANGED <<channels, shutting_down, closes>> /\ task \notin {"gone", "failed", "aborted"}
    BY <1>11 DEF SleepEnds, Dialing, TcpConnected, Shaking, StartWriting, WriteDone, FlushDone,
       Transmit, TimePasses, ServerActs, AttemptDone, ServerFault, Aside, handler, requested
  <2> QED
    BY <1>2, <2>1
<1> QED
  BY <1>3, <1>4, <1>5, <1>6, <1>7, <1>8, <1>9, <1>10, <1>11
     DEF Next, TaskStep, AppStep, Faults, Environment

\* A call of Client::close survives lost connections and failed attempts, any
\* number of them: BeginShutdown takes the message but closes the channel that
\* recycle hands on, and nothing opens it again.
THEOREM CloseSurvivesReconnects == Spec => []CloseIsRemembered
<1>1. Init => CloseInv
  <2>1. Init => TaskInv
    BY TaskInit
  <2> QED
    BY <2>1 DEF Init, CloseInv, ShutIsClosed, CloseIsRemembered
<1>2. CloseInv /\ [Next]_vars => CloseInv'
  BY TaskStepInv, CloseStep DEF CloseInv
<1>3. CloseInv => CloseIsRemembered
  BY DEF CloseInv
<1> QED
  BY <1>1, <1>2, <1>3, PTL DEF Spec

-----------------------------------------------------------------------------
(***************************************************************************)
(* The keepalive.  That only a dead server is dropped rests on two clocks  *)
(* running against each other: while PINGs are unanswered, what their      *)
(* answer is overdue by and what the timer has left add up to an interval  *)
(* for each of them (Overdue), and an answer that has arrived is read      *)
(* before the timer elapses (AnswerInTime).  That a dead one is dropped in *)
(* time rests on what the PINGs sent so far may have cost (Allowance).     *)
(***************************************************************************)
Clocks ==
    /\ late <= Lag
    /\ late > 0 => Woken
    /\ pc = "read" => late = 0
    /\ ~silent /\ pingsOut > 0 => owed <= Latency

Overdue ==
    ~silent =>
        /\ pingsOut = 1 /\ pending_pings = 1 /\ ~(pc = "read" /\ handled)
             => owed + timer >= Interval
        /\ pingsOut = 2 => owed + timer >= 2 * Interval

AnswerInTime ==
    ~silent /\ pc = "idle" /\ pending_pings = 2 /\ pongsIn > 0
        => timer + late > Lag

Allowance ==
    IF pending_pings = 0 THEN Interval
    ELSE IF pending_pings = 1 THEN 2 * Interval + Lag
    ELSE 3 * Interval + 2 * Lag

Spent ==
    /\ pc = "idle" => quiet + timer <= Allowance + late
    /\ pc = "read" /\ ~handled /\ ~Readable => quiet + timer <= Allowance

PingerInv ==
    /\ TypeOK
    /\ PendingIsOutstanding
    /\ Clocks
    /\ Overdue
    /\ AnswerInTime
    /\ Spent
    /\ OnlyDeadIsDropped
    /\ DeadIsDroppedInTime

-----------------------------------------------------------------------------
\* PingerInv holds of a fresh Pinger.
LEMMA PingerInitInv == PingerInit => PingerInv
<1> SUFFICES ASSUME PingerInit PROVE PingerInv
  OBVIOUS
<1> USE KeepaliveAssumption, HealthyAssumption
   DEF PingerInit, PingerInv, TypeOK, PendingIsOutstanding, Clocks, Overdue, AnswerInTime,
       Spent, Allowance, OnlyDeadIsDropped, DeadIsDroppedInTime, Readable, Woken
<1>0. handled \in BOOLEAN /\ silent \in BOOLEAN
  BY Zenon
<1>1. TypeOK /\ PendingIsOutstanding /\ OnlyDeadIsDropped
  BY <1>0, SMT
<1>2. Clocks /\ AnswerInTime /\ Overdue
  BY SMT
<1>3. Spent /\ DeadIsDroppedInTime
  BY SMT
<1> QED
  BY <1>1, <1>2, <1>3

\* The steps of Handler::poll keep PingerInv.
LEMMA PollInv == PingerInv /\ Poll => PingerInv'
<1> SUFFICES ASSUME PingerInv, Poll PROVE PingerInv'
  OBVIOUS
<1> USE KeepaliveAssumption, HealthyAssumption
     DEF PingerInv, TypeOK, PendingIsOutstanding, Clocks, Overdue, AnswerInTime, Spent,
         Allowance, OnlyDeadIsDropped, DeadIsDroppedInTime, Readable, Woken,
         outgoing, incoming, pinger, clocks
<1>1. CASE PollNoPing
  <2> USE <1>1 DEF PollNoPing
  <2>0. handled' \in BOOLEAN
    BY Zenon
  <2>1. TypeOK' /\ PendingIsOutstanding' /\ OnlyDeadIsDropped'
    BY <2>0, SMT
  <2>2. Clocks' /\ AnswerInTime'
    BY SMT
  <2>3. Overdue'
    BY SMT
  <2>4. Spent'
    BY SMT
  <2>5. DeadIsDroppedInTime'
    BY SMT
  <2> QED
    BY <2>1, <2>2, <2>3, <2>4, <2>5
<1>2. CASE DoPing
  <2> USE <1>2 DEF DoPing
  <2>0. handled' \in BOOLEAN
    BY Zenon
  <2>1. TypeOK' /\ PendingIsOutstanding' /\ OnlyDeadIsDropped'
    BY <2>0, SMT
  <2>2. Clocks' /\ AnswerInTime'
    BY SMT
  <2>3. Overdue'
    BY SMT
  <2>4. Spent'
    BY SMT
  <2>5. DeadIsDroppedInTime'
    BY SMT
  <2> QED
    BY <2>1, <2>2, <2>3, <2>4, <2>5
<1>3. CASE TooManyInFlightPings
  BY <1>3, SMT DEF TooManyInFlightPings
<1>4. CASE ReadPong
  BY <1>4, SMT DEF ReadPong
<1>5. CASE ReadPing
  BY <1>5, SMT DEF ReadPing
<1>6. CASE ReadOther
  BY <1>6, SMT DEF ReadOther
<1>7. CASE ReadDone
  BY <1>7, SMT DEF ReadDone
<1> QED
  BY <1>1, <1>2, <1>3, <1>4, <1>5, <1>6, <1>7 DEF Poll

\* The server's steps keep PingerInv.
LEMMA ServerInv == PingerInv /\ Server => PingerInv'
<1> SUFFICES ASSUME PingerInv, Server PROVE PingerInv'
  OBVIOUS
<1> USE KeepaliveAssumption, HealthyAssumption
     DEF PingerInv, TypeOK, PendingIsOutstanding, Clocks, Overdue, AnswerInTime, Spent,
         Allowance, OnlyDeadIsDropped, DeadIsDroppedInTime, Readable, Woken,
         outgoing, incoming, pinger, clocks
<1>1. CASE ServerPong
  BY <1>1, SMT DEF ServerPong
<1>2. CASE ServerPing
  BY <1>2, SMT DEF ServerPing
<1>3. CASE ServerTakesPong
  BY <1>3, SMT DEF ServerTakesPong
<1>4. CASE ServerOther
  BY <1>4, SMT DEF ServerOther
<1>5. CASE GoSilent
  BY <1>5, SMT DEF GoSilent
<1> QED
  BY <1>1, <1>2, <1>3, <1>4, <1>5 DEF Server

\* Time keeps PingerInv.
LEMMA TickInv == PingerInv /\ Tick => PingerInv'
<1> SUFFICES ASSUME PingerInv, Tick PROVE PingerInv'
  OBVIOUS
<1> USE KeepaliveAssumption, HealthyAssumption
     DEF PingerInv, TypeOK, PendingIsOutstanding, Clocks, Overdue, AnswerInTime, Spent,
         Allowance, OnlyDeadIsDropped, DeadIsDroppedInTime, Readable, Woken,
         outgoing, incoming, Tick
<1>1. TypeOK' /\ PendingIsOutstanding' /\ OnlyDeadIsDropped'
  BY SMT
<1>2. Clocks' /\ AnswerInTime'
  BY SMT
<1>3. Overdue'
  BY SMT
<1>4. Spent' /\ DeadIsDroppedInTime'
  BY SMT
<1> QED
  BY <1>1, <1>2, <1>3, <1>4

\* PingerInv is an invariant of the keepalive.
THEOREM KeepaliveInv == PingerSpec => []PingerInv
<1>1. PingerInv /\ UNCHANGED pingerVars => PingerInv'
  BY DEF PingerInv, TypeOK, PendingIsOutstanding, Clocks, Overdue, AnswerInTime, Spent,
         Allowance, OnlyDeadIsDropped, DeadIsDroppedInTime, Readable, Woken, pingerVars
<1>2. PingerInv /\ [PingerNext]_pingerVars => PingerInv'
  BY <1>1, PollInv, ServerInv, TickInv DEF PingerNext
<1> QED
  BY <1>2, PingerInitInv, PTL DEF PingerSpec

\* pending_pings never drifts from the PINGs that are really outstanding, and
\* never exceeds two (pinger.rs, handle_pong and do_ping).
THEOREM PingsAreCounted == PingerSpec => []PendingIsOutstanding
<1>1. PingerInv => PendingIsOutstanding
  BY DEF PingerInv
<1> QED
  BY <1>1, KeepaliveInv, PTL

\* A server that answers within Latency is never disconnected by
\* TooManyInFlightPings, whatever else happens (handler/mod.rs, poll).
THEOREM HealthyIsKept == PingerSpec => []OnlyDeadIsDropped
<1>1. PingerInv => OnlyDeadIsDropped
  BY DEF PingerInv
<1> QED
  BY <1>1, KeepaliveInv, PTL

\* A connection never stays quiet for longer than three intervals and the
\* delays of three polls.
THEOREM DeadIsFound == PingerSpec => []DeadIsDroppedInTime
<1>1. PingerInv => DeadIsDroppedInTime
  BY DEF PingerInv
<1> QED
  BY <1>1, KeepaliveInv, PTL
=============================================================================
