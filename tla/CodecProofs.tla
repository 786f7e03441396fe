----------------------------- MODULE CodecProofs -----------------------------
(***************************************************************************)
(* Proofs about Decoder and Encoder.                                       *)
(*                                                                         *)
(* The decoder, for any frames the server may send, any number of them and *)
(* any limits: where the frames of a stream start is a recursive function, *)
(* and that it has the values its definition asks for, and grows, takes an *)
(* induction; SetInduction states it for the set of the numbers that have  *)
(* a property.                                                             *)
(*                                                                         *)
(* The encoder, for payloads of any length, any threshold, any number of   *)
(* slices from two on and any limit: the bytes that wait are the pieces of *)
(* the BufList one after the other, and then the flat buffer.  FlattenSeq, *)
(* the bytes of some pieces, is a recursive function too.                  *)
(***************************************************************************)
EXTENDS Decoder, Encoder, SequenceTheorems, WellFoundedInduction, TLAPS

LEMMA SetInduction ==
    ASSUME NEW S, 0 \in S, \A n \in Nat : n \in S => n + 1 \in S
    PROVE  Nat \subseteq S
<1>1. IsWellFoundedOn(OpToRel(<, Nat), Nat)
  BY NatLessThanWellFounded
<1> DEFINE R == OpToRel(<, Nat)
           T == Nat \ S
<1>2. \A y, x \in Nat : y < x => <<y, x>> \in R
  BY DEF OpToRel
<1> HIDE DEF R
<1>3. SUFFICES ASSUME T # {} PROVE FALSE
  OBVIOUS
<1>4. PICK x \in T : \A y \in T : <<y, x>> \notin R
  BY <1>1, <1>3, WFMin DEF R
<1>5. x # 0 /\ x - 1 \in Nat /\ x - 1 < x
  BY <1>4
<1>6. x - 1 \in S
  BY <1>2, <1>4, <1>5
<1> QED
  BY <1>4, <1>5, <1>6

-----------------------------------------------------------------------------
(***************************************************************************)
(* The frames of a stream.                                                 *)
(***************************************************************************)
LEMMA FrameLenType ==
    ASSUME NEW f \in Frames
    PROVE  f \in Frame /\ FrameLen(f) \in Nat /\ FrameLen(f) >= f.line /\ f.line > CRLF
<1>1. f \in Frame /\ f.line > CRLF
  BY DecoderAssumption, FrameAssumption
<1>2. f.line \in Nat /\ f.header \in Nat /\ f.payload \in Nat
  BY <1>1 DEF Frame
<1> QED
  BY <1>1, <1>2 DEF FrameLen, CRLF

\* The function that Ends defines exists.
LEMMA EndsExist ==
    ASSUME NEW frames \in Seq(Frames)
    PROVE  \E e : e = [n \in 0..Len(frames) |->
                          IF n = 0 THEN 0 ELSE e[n - 1] + FrameLen(frames[n])]
<1> DEFINE Is(e, N) == e = [n \in 0..N |-> IF n = 0 THEN 0 ELSE e[n - 1] + FrameLen(frames[n])]
           S == {N \in Nat : \E e : Is(e, N)}
<1>1. 0 \in S
  <2>1. Is([n \in 0..0 |-> 0], 0)
    OBVIOUS
  <2> QED
    BY <2>1
<1>2. ASSUME NEW N \in Nat, N \in S PROVE N + 1 \in S
  <2>1. PICK e : Is(e, N)
    BY <1>2
  <2> DEFINE longer == [n \in 0..N + 1 |->
                           IF n = N + 1 THEN e[N] + FrameLen(frames[N + 1]) ELSE e[n]]
  <2>2. \A n \in 0..N : n \in 0..N + 1 /\ n # N + 1 /\ longer[n] = e[n]
    OBVIOUS
  <2>3. ASSUME NEW n \in 0..N + 1
        PROVE  longer[n] = IF n = 0 THEN 0 ELSE longer[n - 1] + FrameLen(frames[n])
    <3>1. CASE n = N + 1
      <4>1. n # 0 /\ n - 1 = N /\ N \in 0..N
        BY <3>1
      <4>2. longer[N] = e[N] /\ longer[n] = e[N] + FrameLen(frames[n])
        BY <2>2, <3>1, <4>1
      <4> HIDE DEF longer
      <4> QED
        BY <4>1, <4>2
    <3>2. CASE n # N + 1
      <4>1. n \in 0..N /\ (n # 0 => n - 1 \in 0..N)
        BY <3>2
      <4>2. e[n] = IF n = 0 THEN 0 ELSE e[n - 1] + FrameLen(frames[n])
        BY <2>1, <4>1
      <4>3. longer[n] = e[n] /\ (n # 0 => longer[n - 1] = e[n - 1])
        BY <2>2, <4>1
      <4> HIDE DEF longer, Is
      <4> QED
        BY <4>2, <4>3
    <3> QED
      BY <3>1, <3>2
  <2>4. longer = [n \in 0..N + 1 |-> longer[n]]
    OBVIOUS
  <2> HIDE DEF longer
  <2>5. Is(longer, N + 1)
    BY <2>3, <2>4
  <2> HIDE DEF Is
  <2>6. N + 1 \in Nat
    OBVIOUS
  <2> QED
    BY <2>5, <2>6
<1> HIDE DEF S
<1>3. Nat \subseteq S
  BY <1>1, <1>2, SetInduction
<1>4. Len(frames) \in S
  BY <1>3
<1> QED
  BY <1>4 DEF S

\* Ends is that function.
LEMMA EndsAre ==
    ASSUME NEW frames \in Seq(Frames)
    PROVE  /\ Ends(frames)[0] = 0
           /\ \A n \in 1..Len(frames) :
                Ends(frames)[n] = Ends(frames)[n - 1] + FrameLen(frames[n])
<1> DEFINE Is(e) == e = [n \in 0..Len(frames) |->
                            IF n = 0 THEN 0 ELSE e[n - 1] + FrameLen(frames[n])]
<1>1. Ends(frames) = CHOOSE e : Is(e)
  BY DEF Ends
<1>2. Is(Ends(frames))
  BY <1>1, EndsExist
<1> DEFINE ends == Ends(frames)
<1>3. ends = [n \in 0..Len(frames) |->
                 IF n = 0 THEN 0 ELSE ends[n - 1] + FrameLen(frames[n])]
  BY <1>2
<1> HIDE DEF ends
<1>4. \A n \in 0..Len(frames) :
         ends[n] = IF n = 0 THEN 0 ELSE ends[n - 1] + FrameLen(frames[n])
  BY <1>3
<1>5. Len(frames) \in Nat
  OBVIOUS
<1> QED
  BY <1>4, <1>5 DEF ends

\* The frames start one after the other, at least a CRLF and a byte apart.
LEMMA StartsGrow ==
    ASSUME stream \in Seq(Frames)
    PROVE  /\ Len(stream) \in Nat
           /\ \A i \in 1..Len(stream) : stream[i] \in Frames
           /\ Start(1) = 0
           /\ \A i \in 1..Len(stream) : Start(i + 1) = Start(i) + FrameLen(stream[i])
           /\ \A i \in 1..Len(stream) + 1 : Start(i) \in Nat
           /\ \A i, j \in 1..Len(stream) + 1 :
                i < j => Start(i) + FrameLen(stream[i]) <= Start(j)
<1>1. Len(stream) \in Nat /\ \A i \in 1..Len(stream) : stream[i] \in Frames
  OBVIOUS
<1>2. Start(1) = 0 /\ \A i \in 1..Len(stream) : Start(i + 1) = Start(i) + FrameLen(stream[i])
  <2>1. \A i \in 1..Len(stream) : i + 1 - 1 = i
    BY <1>1
  <2> QED
    BY <2>1, EndsAre DEF Start
<1>3. \A i \in 1..Len(stream) : FrameLen(stream[i]) \in Nat
  BY <1>1, FrameLenType
<1> DEFINE S == {k \in Nat : k <= Len(stream) => Start(k + 1) \in Nat}
<1>4. 0 \in S
  BY <1>2
<1>5. ASSUME NEW k \in Nat, k \in S PROVE k + 1 \in S
  <2>1. SUFFICES ASSUME k + 1 <= Len(stream) PROVE Start(k + 1 + 1) \in Nat
    OBVIOUS
  <2>2. k + 1 \in 1..Len(stream) /\ Start(k + 1) \in Nat
    BY <1>1, <1>5, <2>1
  <2> QED
    BY <1>2, <1>3, <2>2
<1> HIDE DEF S
<1>6. Nat \subseteq S
  BY <1>4, <1>5, SetInduction
<1>7. \A i \in 1..Len(stream) + 1 : Start(i) \in Nat
  <2>1. ASSUME NEW i \in 1..Len(stream) + 1 PROVE Start(i) \in Nat
    <3>1. i - 1 \in Nat /\ i - 1 <= Len(stream) /\ i - 1 + 1 = i
      BY <1>1
    <3>2. i - 1 \in S
      BY <1>6, <3>1
    <3> QED
      BY <3>1, <3>2 DEF S
  <2> QED
    BY <2>1
<1> DEFINE G == {k \in Nat : \A i \in 1..Len(stream) :
                                i + k <= Len(stream) => Start(i + 1) <= Start(i + 1 + k)}
<1>8. 0 \in G
  <2>1. ASSUME NEW i \in 1..Len(stream) PROVE Start(i + 1) <= Start(i + 1 + 0)
    <3>1. i + 1 + 0 = i + 1 /\ i + 1 \in 1..Len(stream) + 1
      BY <1>1
    <3>2. Start(i + 1) \in Nat
      BY <1>7, <3>1
    <3> QED
      BY <3>1, <3>2
  <2> QED
    BY <2>1
<1>9. ASSUME NEW k \in Nat, k \in G PROVE k + 1 \in G
  <2>1. SUFFICES ASSUME NEW i \in 1..Len(stream), i + (k + 1) <= Len(stream)
                 PROVE  Start(i + 1) <= Start(i + 1 + (k + 1))
    OBVIOUS
  <2>2. i + k <= Len(stream) /\ i + 1 + k \in 1..Len(stream) /\ i + 1 \in 1..Len(stream) + 1
        /\ i + 1 + k \in 1..Len(stream) + 1 /\ i + 1 + (k + 1) = i + 1 + k + 1
    BY <1>1, <2>1
  <2>3. Start(i + 1) <= Start(i + 1 + k)
    BY <1>9, <2>2
  <2>4. Start(i + 1 + k + 1) = Start(i + 1 + k) + FrameLen(stream[i + 1 + k])
    BY <1>2, <2>2
  <2>5. Start(i + 1) \in Nat /\ Start(i + 1 + k) \in Nat /\ FrameLen(stream[i + 1 + k]) \in Nat
    BY <1>3, <1>7, <2>2
  <2>6. Start(i + 1) <= Start(i + 1 + k + 1)
    BY <2>3, <2>4, <2>5
  <2> QED
    BY <2>2, <2>6
<1> HIDE DEF G
<1>10. Nat \subseteq G
  BY <1>8, <1>9, SetInduction
<1>11. ASSUME NEW i \in 1..Len(stream) + 1, NEW j \in 1..Len(stream) + 1, i < j
       PROVE  Start(i) + FrameLen(stream[i]) <= Start(j)
  <2>1. i \in 1..Len(stream) /\ j - (i + 1) \in Nat /\ i + (j - (i + 1)) <= Len(stream)
        /\ i + 1 + (j - (i + 1)) = j
    BY <1>1, <1>11
  <2>2. Start(i + 1) <= Start(i + 1 + (j - (i + 1)))
    BY <1>10, <2>1 DEF G
  <2>3. Start(i + 1) <= Start(j)
    BY <2>1, <2>2
  <2> QED
    BY <1>2, <2>1, <2>3
<1> QED
  BY <1>1, <1>2, <1>7, <1>11

\* What ends in frame i.
LEMMA CrlfEndsAre ==
    /\ \A e : e \in CrlfEnds <=>
        \E i \in 1..Len(stream) :
            \/ e = Start(i) + stream[i].line
            \/ IsMessage(stream[i]) /\ e = Start(i + 1)
            \/ stream[i].kind = "HMSG" /\ e = Start(i) + stream[i].line + stream[i].header
BY DEF CrlfEnds

\* Where the decoder is at the start of a frame, it finds that frame and the
\* CRLF of its control line, if that has been read.
LEMMA AtTheStart ==
    ASSUME stream \in Seq(Frames), got \in Nat, got <= Start(Len(stream) + 1),
           NEW n \in 0..Len(stream), pos = Start(n + 1)
    PROVE  /\ n < Len(stream) => AtFrame /\ Here = n + 1
           /\ n = Len(stream) => ~AtFrame /\ LineEnds = {}
           /\ n < Len(stream) /\ pos + stream[n + 1].line <= got =>
                LineEnds # {} /\ LineEnd = pos + stream[n + 1].line
           /\ n < Len(stream) /\ got < pos + stream[n + 1].line => LineEnds = {}
<1>1. /\ Len(stream) \in Nat
      /\ \A i \in 1..Len(stream) : stream[i] \in Frames
      /\ \A i \in 1..Len(stream) : Start(i + 1) = Start(i) + FrameLen(stream[i])
      /\ \A i \in 1..Len(stream) + 1 : Start(i) \in Nat
      /\ \A i, j \in 1..Len(stream) + 1 : i < j => Start(i) + FrameLen(stream[i]) <= Start(j)
  BY StartsGrow
<1>2. \A i \in 1..Len(stream) :
         /\ stream[i].line \in Nat /\ stream[i].header \in Nat /\ stream[i].payload \in Nat
         /\ FrameLen(stream[i]) \in Nat /\ stream[i].line > 2
         /\ stream[i].line <= FrameLen(stream[i])
         /\ stream[i].kind = "HMSG" => stream[i].line + stream[i].header <= FrameLen(stream[i])
  <2>1. ASSUME NEW i \in 1..Len(stream), NEW f, f = stream[i]
        PROVE  /\ f.line \in Nat /\ f.header \in Nat /\ f.payload \in Nat
               /\ FrameLen(f) \in Nat /\ f.line > 2 /\ f.line <= FrameLen(f)
               /\ f.kind = "HMSG" => f.line + f.header <= FrameLen(f)
    <3>1. f \in Frames
      BY <1>1, <2>1
    <3>2. f \in Frame /\ FrameLen(f) \in Nat /\ f.line > 2
      BY <3>1, FrameLenType DEF CRLF
    <3>3. f.line \in Nat /\ f.header \in Nat /\ f.payload \in Nat
      BY <3>2 DEF Frame
    <3>4. f.line <= FrameLen(f)
      BY <3>1, FrameLenType
    <3>5. ASSUME f.kind = "HMSG" PROVE f.line + f.header <= FrameLen(f)
      <4>1. FrameLen(f) = f.line + (f.header + f.payload + 2)
        BY <3>5 DEF FrameLen, IsMessage, CRLF
      <4> QED
        BY <3>3, <4>1
    <3> QED
      BY <3>2, <3>3, <3>4, <3>5
  <2> QED
    BY <2>1
<1>3. pos \in Nat /\ n + 1 \in 1..Len(stream) + 1
  BY <1>1
<1>4. ASSUME NEW i \in 1..Len(stream), Start(i) = pos PROVE i = n + 1
  <2>1. i \in 1..Len(stream) + 1
    BY <1>1
  <2>2. ~(i < n + 1) /\ ~(n + 1 < i)
    <3>1. CASE i < n + 1
      <4>1. Start(i) + FrameLen(stream[i]) <= Start(n + 1)
        BY <1>1, <1>3, <2>1, <3>1
      <4>2. FrameLen(stream[i]) \in Nat /\ FrameLen(stream[i]) > 2
        BY <1>2
      <4> QED
        BY <1>3, <1>4, <4>1, <4>2
    <3>2. CASE n + 1 < i
      <4>1. n + 1 \in 1..Len(stream)
        BY <1>1, <3>2
      <4>2. Start(n + 1) + FrameLen(stream[n + 1]) <= Start(i)
        BY <1>1, <1>3, <2>1, <3>2
      <4>3. FrameLen(stream[n + 1]) \in Nat /\ FrameLen(stream[n + 1]) > 2
        BY <1>2, <4>1
      <4> QED
        BY <1>3, <1>4, <4>2, <4>3
    <3> QED
      BY <3>1, <3>2
  <2> QED
    BY <1>3, <2>1, <2>2
<1>5. n < Len(stream) => AtFrame /\ Here = n + 1
  <2>1. SUFFICES ASSUME n < Len(stream) PROVE AtFrame /\ Here = n + 1
    OBVIOUS
  <2>2. n + 1 \in 1..Len(stream)
    BY <1>1, <2>1
  <2> QED
    BY <1>4, <2>2 DEF AtFrame, Here
<1>6. n = Len(stream) => ~AtFrame
  BY <1>1, <1>4 DEF AtFrame
\* A CRLF ends before pos, or no earlier than the control line at pos does.
<1>7. ASSUME NEW e \in CrlfEnds, pos + 2 <= e
      PROVE  e \in Nat /\ n < Len(stream) /\ pos + stream[n + 1].line <= e
  <2>1. PICK i \in 1..Len(stream) :
            \/ e = Start(i) + stream[i].line
            \/ IsMessage(stream[i]) /\ e = Start(i + 1)
            \/ stream[i].kind = "HMSG" /\ e = Start(i) + stream[i].line + stream[i].header
    BY CrlfEndsAre
  <2>2. Start(i) \in Nat /\ i \in 1..Len(stream) + 1 /\ Start(i + 1) = Start(i) + FrameLen(stream[i])
    BY <1>1
  <2>3. e \in Nat /\ Start(i) + stream[i].line <= e /\ e <= Start(i) + FrameLen(stream[i])
    <3>1. /\ stream[i].line \in Nat /\ stream[i].header \in Nat /\ FrameLen(stream[i]) \in Nat
          /\ stream[i].line <= FrameLen(stream[i])
      BY <1>2
    <3>2. CASE e = Start(i) + stream[i].line
      BY <2>2, <3>1, <3>2
    <3>3. CASE e = Start(i + 1)
      BY <2>2, <3>1, <3>3
    <3>4. CASE stream[i].kind = "HMSG" /\ e = Start(i) + stream[i].line + stream[i].header
      <4> DEFINE line == stream[i].line
                 header == stream[i].header
                 start == Start(i)
                 len == FrameLen(stream[i])
      <4>1. line + header <= len
        BY <1>2, <3>4
      <4>2. e = start + line + header /\ line \in Nat /\ header \in Nat /\ len \in Nat
        BY <3>1, <3>4
      <4>3. start \in Nat
        BY <2>2
      <4> HIDE DEF line, header, start, len
      <4>4. e \in Nat /\ start + line <= e /\ e <= start + len
        BY <4>1, <4>2, <4>3
      <4> QED
        BY <4>4 DEF line, start, len
    <3> QED
      BY <2>1, <3>2, <3>3, <3>4
  <2>4. ~(i < n + 1)
    <3>1. SUFFICES ASSUME i < n + 1 PROVE FALSE
      OBVIOUS
    <3>2. Start(i) + FrameLen(stream[i]) <= pos
      BY <1>1, <1>3, <2>2, <3>1
    <3> QED
      BY <1>2, <1>3, <1>7, <2>2, <2>3, <3>2
  <2>5. CASE i = n + 1
    BY <1>1, <2>3, <2>5
  <2>6. CASE n + 1 < i
    <3>1. n + 1 \in 1..Len(stream) /\ n < Len(stream)
      BY <1>1, <2>2, <2>6
    <3>2. pos + FrameLen(stream[n + 1]) <= Start(i)
      BY <1>1, <1>3, <2>2, <2>6, <3>1
    <3>3. /\ stream[n + 1].line \in Nat /\ FrameLen(stream[n + 1]) \in Nat
          /\ stream[n + 1].line <= FrameLen(stream[n + 1]) /\ stream[i].line \in Nat
      BY <1>2, <3>1
    <3> DEFINE here == stream[n + 1].line
               there == stream[i].line
    <3>4. here \in Nat /\ there \in Nat /\ here <= FrameLen(stream[n + 1])
          /\ Start(i) + there <= e /\ e \in Nat
      BY <2>3, <3>3
    <3> HIDE DEF here, there
    <3>5. pos + here <= e
      BY <1>3, <2>2, <3>2, <3>3, <3>4
    <3> QED
      BY <3>1, <3>4, <3>5 DEF here
  <2> QED
    BY <1>1, <2>4, <2>5, <2>6
<1>8. n = Len(stream) => LineEnds = {}
  BY <1>1, <1>7 DEF LineEnds, CRLF
<1>9. n < Len(stream) /\ got < pos + stream[n + 1].line => LineEnds = {}
  <2>1. SUFFICES ASSUME n < Len(stream), got < pos + stream[n + 1].line,
                        NEW e \in LineEnds
                 PROVE  FALSE
    OBVIOUS
  <2>2. e \in CrlfEnds /\ pos + 2 <= e /\ e <= got
    BY <2>1 DEF LineEnds, CRLF
  <2>3. n + 1 \in 1..Len(stream)
    BY <1>1, <2>1
  <2> QED
    BY <1>2, <1>3, <1>7, <2>1, <2>2, <2>3
<1>10. n < Len(stream) /\ pos + stream[n + 1].line <= got =>
          LineEnds # {} /\ LineEnd = pos + stream[n + 1].line
  <2>1. SUFFICES ASSUME n < Len(stream), pos + stream[n + 1].line <= got
                 PROVE  LineEnds # {} /\ LineEnd = pos + stream[n + 1].line
    OBVIOUS
  <2> DEFINE end == pos + stream[n + 1].line
  <2>2. n + 1 \in 1..Len(stream)
    BY <1>1, <2>1
  <2>3. end \in Nat /\ pos + 2 <= end
    BY <1>2, <1>3, <2>2
  <2>4. end \in CrlfEnds
    BY <2>2, CrlfEndsAre
  <2>5. end \in LineEnds
    BY <2>1, <2>3, <2>4 DEF LineEnds, CRLF
  <2>6. \A e \in LineEnds : e \in Nat /\ end <= e
    BY <1>7 DEF LineEnds, CRLF
  <2> HIDE DEF end
  <2>7. \A e \in LineEnds : (\A other \in LineEnds : e <= other) => e = end
    BY <2>3, <2>5, <2>6
  <2>8. LineEnd = end
    BY <2>5, <2>6, <2>7 DEF LineEnd
  <2> QED
    BY <2>5, <2>8 DEF end
<1> QED
  BY <1>5, <1>6, <1>8, <1>9, <1>10

-----------------------------------------------------------------------------
(***************************************************************************)
(* The invariant.                                                          *)
(***************************************************************************)
Done == Len(ops)

\* The ops are those of the stream, in order.
Order == ops = [i \in 1..Done |-> i] /\ Done <= Len(stream)

\* What is read is a part of the stream, and of a websocket whole frames.
Reads ==
    /\ got <= Start(Len(stream) + 1)
    /\ framed => \E i \in 1..Len(stream) + 1 : got = Start(i)

\* The head that was decoded is that of the next message.
InMessage ==
    LET f == stream[message]
    IN  /\ Done < Len(stream) /\ message = Done + 1
        /\ IsMessage(f) /\ f.fault # "line"
        /\ header_len = f.header /\ payload_len = f.payload
        /\ header_len + payload_len <= MaxMsg

\* Until it fails, the decoder is at the start of a part of the next frame, and
\* its status says of which.
Places == pc # "failed" =>
    /\ status # "Poisoned"
    /\ status = "ControlLine" => pos = Start(Done + 1)
    /\ status = "Headers" =>
         /\ InMessage /\ stream[message].kind = "HMSG"
         /\ pos = Start(Done + 1) + stream[message].line
    /\ status = "Payload" =>
         /\ InMessage /\ stream[message].fault = "none"
         /\ pos = Start(Done + 1) + stream[message].line + stream[message].header

\* last_bytes_read is less than what would be a complete op.
Steady == \A i \in 1..Len(stream) : stream[i].kind # "LINE"
Bound == IF Done < Len(stream) /\ IsMessage(stream[Done + 1])
         THEN stream[Done + 1].line ELSE PingLen
Counts ==
    /\ last_bytes_read < MaxHead
    /\ framed /\ pc # "failed" => last_bytes_read = 0
    /\ Steady => last_bytes_read < Bound

IInv == TypeOK /\ Order /\ Reads /\ Places /\ Counts /\ NeverStuck

-----------------------------------------------------------------------------
(***************************************************************************)
(* What the invariant says of the next frame.                              *)
(***************************************************************************)
LEMMA FrameFacts ==
    ASSUME NEW f \in Frames
    PROVE  /\ f.line \in Nat /\ f.header \in Nat /\ f.payload \in Nat
           /\ f.kind \in Kind /\ f.fault \in {"none", "line", "headers"}
           /\ f.line > 2
           /\ f.kind = "OK" => f.line = 5 /\ f.fault = "none"
           /\ f.kind = "PING" => f.line = 6 /\ f.fault = "none"
           /\ IsMessage(f) => f.line >= 6 /\ FrameLen(f) = f.line + f.header + f.payload + 2
           /\ ~IsMessage(f) => FrameLen(f) = f.line /\ f.fault # "headers"
           /\ f.kind # "HMSG" => f.header = 0 /\ f.fault # "headers"
<1>1. /\ f \in Frame
      /\ f.line > 2
      /\ f.kind = "OK" => f.line = 5 /\ f.fault = "none"
      /\ f.kind = "PING" => f.line = 6 /\ f.fault = "none"
      /\ f.kind \in {"MSG", "HMSG"} => f.line >= 6
      /\ f.kind # "HMSG" => f.header = 0 /\ f.fault # "headers"
  BY DecoderAssumption, FrameAssumption DEF CRLF, OkLen, PingLen
<1>2. /\ f.line \in Nat /\ f.header \in Nat /\ f.payload \in Nat
      /\ f.kind \in Kind /\ f.fault \in {"none", "line", "headers"}
  BY <1>1 DEF Frame
<1>3. ASSUME IsMessage(f)
      PROVE  f.line >= 6 /\ FrameLen(f) = f.line + f.header + f.payload + 2
  <2>1. FrameLen(f) = f.line + (f.header + f.payload + 2)
    BY <1>3 DEF FrameLen, CRLF
  <2>2. f.line >= 6
    BY <1>1, <1>3 DEF IsMessage
  <2> QED
    BY <1>2, <2>1, <2>2
<1>4. ASSUME ~IsMessage(f) PROVE FrameLen(f) = f.line /\ f.fault # "headers"
  <2>1. FrameLen(f) = f.line
    BY <1>2, <1>4 DEF FrameLen
  <2> QED
    BY <1>1, <1>4, <2>1 DEF IsMessage
<1> QED
  BY <1>1, <1>2, <1>3, <1>4

\* The next frame and where it ends.
LEMMA NextFrame ==
    ASSUME IInv, Done < Len(stream)
    PROVE  /\ Done \in Nat /\ Done + 1 \in 1..Len(stream) /\ stream[Done + 1] \in Frames
           /\ Start(Done + 1) \in Nat /\ Start(Done + 2) \in Nat
           /\ Start(Done + 2) = Start(Done + 1) + FrameLen(stream[Done + 1])
           /\ Start(Done + 2) <= Start(Len(stream) + 1)
<1>1. stream \in Seq(Frames) /\ Done \in Nat /\ Len(stream) \in Nat
  BY DEF IInv, TypeOK, Done
<1> HIDE DEF Done
<1>2. Done + 1 \in 1..Len(stream) /\ Done + 1 + 1 = Done + 2 /\ Done + 2 \in 1..Len(stream) + 1
      /\ Len(stream) + 1 \in 1..Len(stream) + 1 /\ Done + 1 \in 1..Len(stream) + 1
  BY <1>1
<1>3. /\ stream[Done + 1] \in Frames /\ Start(Done + 1) \in Nat /\ Start(Done + 2) \in Nat
      /\ Start(Done + 2) = Start(Done + 1) + FrameLen(stream[Done + 1])
  BY <1>1, <1>2, StartsGrow
<1>4. Start(Done + 2) <= Start(Len(stream) + 1)
  <2>1. CASE Done + 2 = Len(stream) + 1
    BY <1>3, <2>1
  <2>2. CASE Done + 2 < Len(stream) + 1
    <3>1. Start(Done + 2) + FrameLen(stream[Done + 2]) <= Start(Len(stream) + 1)
      BY <1>1, <1>2, <2>2, StartsGrow
    <3>2. stream[Done + 2] \in Frames
      BY <1>1, <2>2
    <3>3. FrameLen(stream[Done + 2]) \in Nat /\ Start(Len(stream) + 1) \in Nat
      BY <1>1, <1>2, <3>2, FrameLenType, StartsGrow
    <3> QED
      BY <1>3, <3>1, <3>3
  <2> QED
    BY <1>1, <1>2, <2>1, <2>2
<1> QED
  BY <1>1, <1>2, <1>3, <1>4

\* In a control line, decode finds what AtTheStart says.
LEMMA AtLine ==
    ASSUME IInv, InControlLine
    PROVE  /\ pos = Start(Done + 1) /\ pos \in Nat /\ got \in Nat /\ pos <= got /\ ~(pc = "failed")
           /\ Done < Len(stream) => AtFrame /\ Here = Done + 1
           /\ Done = Len(stream) => ~AtFrame /\ LineEnds = {} /\ pos = got
           /\ Done < Len(stream) /\ pos + stream[Done + 1].line <= got =>
                LineEnds # {} /\ LineEnd = pos + stream[Done + 1].line
           /\ Done < Len(stream) /\ got < pos + stream[Done + 1].line => LineEnds = {}
<1>1. stream \in Seq(Frames) /\ Done \in 0..Len(stream) /\ pos = Start(Done + 1)
  BY DEF IInv, TypeOK, Order, Places, InControlLine, Done
<1>2. got \in Nat /\ got <= Start(Len(stream) + 1) /\ pos \in Nat /\ pos <= got
  BY DEF IInv, TypeOK, Reads
<1>3. Done = Len(stream) => pos = got
  BY <1>1, <1>2
<1> HIDE DEF Done
<1> QED
  BY <1>1, <1>2, <1>3, AtTheStart DEF InControlLine

\* A websocket's message ends with a frame.
LEMMA WholeFrames ==
    ASSUME IInv, framed, Done < Len(stream), Start(Done + 1) < got
    PROVE  Start(Done + 2) <= got
<1>1. PICK i \in 1..Len(stream) + 1 : got = Start(i)
  BY DEF IInv, Reads
<1>2. stream \in Seq(Frames) /\ Done \in Nat /\ Len(stream) \in Nat
  BY DEF IInv, TypeOK, Done
<1> HIDE DEF Done
<1>3. /\ \A j \in 1..Len(stream) + 1 : Start(j) \in Nat
      /\ \A j, k \in 1..Len(stream) + 1 : j < k => Start(j) + FrameLen(stream[j]) <= Start(k)
      /\ \A j \in 1..Len(stream) : stream[j] \in Frames
  BY <1>2, StartsGrow
<1>4. ASSUME NEW j \in 1..Len(stream) + 1, NEW k \in 1..Len(stream) + 1, j < k
      PROVE  Start(j) <= Start(k)
  <2>1. j \in 1..Len(stream)
    BY <1>2, <1>4
  <2>2. FrameLen(stream[j]) \in Nat
    BY <1>3, <2>1, FrameLenType
  <2> QED
    BY <1>3, <1>4, <2>2
<1>5. Done + 1 \in 1..Len(stream) + 1 /\ Done + 2 \in 1..Len(stream) + 1
  BY <1>2
<1>6. ~(i <= Done + 1)
  <2>1. SUFFICES ASSUME i <= Done + 1 PROVE FALSE
    OBVIOUS
  <2>2. Start(i) <= Start(Done + 1)
    <3>1. CASE i = Done + 1
      BY <1>3, <1>5, <3>1
    <3>2. CASE i < Done + 1
      BY <1>4, <1>5, <3>2
    <3> QED
      BY <1>2, <2>1, <3>1, <3>2
  <2> QED
    BY <1>1, <1>3, <1>5, <2>2
<1>7. CASE i = Done + 2
  BY <1>1, <1>3, <1>7
<1>8. CASE Done + 2 < i
  BY <1>1, <1>4, <1>5, <1>8
<1> QED
  BY <1>1, <1>2, <1>6, <1>7, <1>8

-----------------------------------------------------------------------------
(***************************************************************************)
(* The ways in which decode returns.  The abstract steps are those of      *)
(* OpStream.                                                               *)
(***************************************************************************)
LEMMA SameStream == ASSUME stream' = stream PROVE \A i : Start(i)' = Start(i)
BY DEF Start

\* decode returns the next op, all of which it has taken.
LEMMA ReturnOpInv ==
    ASSUME IInv, pc = "decode", Done < Len(stream), Acceptable(stream[Done + 1]),
           NEW k \in Nat, pos + k = Start(Done + 2), pos + k <= got,
           NEW read \in Nat, read < MaxHead, framed \/ (Steady => read < PingLen),
           ReturnOp(Done + 1, k, read)
    PROVE  IInv' /\ Abstract!Deliver
<1>1. /\ ops' = Append(ops, Done + 1) /\ pos' = Start(Done + 2) /\ status' = "ControlLine"
      /\ last_bytes_read' = IF framed THEN 0 ELSE read
      /\ UNCHANGED <<framed, stream, got, header_len, payload_len, message, pc>>
  BY DEF ReturnOp, given, partial
<1>2. Done \in Nat /\ Done + 1 \in 1..Len(stream) /\ Start(Done + 2) \in Nat
  BY NextFrame
<1>3. /\ ops \in Seq(1..Len(stream)) /\ Len(stream) \in Nat /\ stream \in Seq(Frames)
      /\ ops = [i \in 1..Done |-> i]
  BY DEF IInv, TypeOK, Order
<1>4. ops' \in Seq(1..Len(stream)) /\ Done' = Done + 1 /\ ops' = [i \in 1..Done' |-> i]
  <2>1. ops' \in Seq(1..Len(stream)) /\ Len(ops') = Len(ops) + 1
        /\ \A i \in 1..Len(ops') : ops'[i] = IF i \in 1..Len(ops) THEN ops[i] ELSE Done + 1
    BY <1>1, <1>2, <1>3
  <2>2. \A i \in 1..Done + 1 : ops'[i] = i
    BY <1>2, <1>3, <2>1 DEF Done
  <2>3. ops' = [i \in 1..Len(ops') |-> ops'[i]]
    BY <2>1
  <2> QED
    BY <2>1, <2>2, <2>3 DEF Done
<1> HIDE DEF Done
<1>5. TypeOK'
  BY <1>1, <1>2, <1>3, <1>4, DecoderAssumption DEF IInv, TypeOK
<1>6. Order'
  BY <1>1, <1>2, <1>3, <1>4 DEF Order
<1>7. \A i : Start(i)' = Start(i)
  BY <1>1, SameStream
<1>8. Reads'
  BY <1>1, <1>7 DEF IInv, Reads
<1>9. Places'
  BY <1>1, <1>2, <1>4, <1>7 DEF Places
<1>10. Bound' \in Nat /\ Bound' >= PingLen
  <2>1. CASE Bound' = PingLen
    BY <2>1 DEF PingLen
  <2>2. CASE Done' < Len(stream') /\ IsMessage(stream'[Done' + 1])
    <3>1. stream[Done' + 1] \in Frames /\ IsMessage(stream[Done' + 1])
      BY <1>1, <1>2, <1>3, <1>4, <2>2
    <3> QED
      BY <1>1, <2>2, <3>1, FrameFacts DEF Bound, PingLen
  <2> QED
    BY <2>1, <2>2 DEF Bound
<1>11. Counts'
  <2>1. last_bytes_read' < MaxHead
    BY <1>1, DecoderAssumption
  <2>2. framed' => last_bytes_read' = 0
    BY <1>1
  <2>3. Steady' = Steady
    BY <1>1 DEF Steady
  <2>4. Steady => last_bytes_read' < Bound'
    BY <1>1, <1>10 DEF PingLen
  <2> QED
    BY <2>1, <2>2, <2>3, <2>4 DEF Counts
<1>12. NeverStuck'
  BY <1>1 DEF NeverStuck, BufferIsBounded, SteadyNeverStalls, WaitsOnlyForBytes
<1>13. Abstract!Deliver
  BY <1>1, <1>2 DEF Abstract!Deliver, Abstract!Upcoming, Acceptable, Done
<1> QED
  BY <1>5, <1>6, <1>8, <1>9, <1>11, <1>12, <1>13 DEF IInv

\* decode of a stream returns for want of bytes.
LEMMA ReturnNoneInv ==
    ASSUME IInv, pc = "decode", ~framed,
           NEW read \in Nat, read < MaxHead, Steady => read < Bound,
           Buffered < MaxHead \/ Buffered < MaxMsg + CRLF,
           Steady => Done = Len(stream) \/ got < Start(Done + 2),
           ReturnNone(read)
    PROVE  IInv' /\ UNCHANGED <<stream, ops, pc = "failed">>
<1>1. /\ pc' = "read" /\ last_bytes_read' = read
      /\ UNCHANGED <<framed, stream, got, pos, status, header_len, payload_len, message, ops>>
  BY DEF ReturnNone, given, position, partial
<1>2. \A i : Start(i)' = Start(i)
  BY <1>1, SameStream
<1>3. Done' = Done
  BY <1>1 DEF Done
<1> HIDE DEF Done
<1>4. TypeOK'
  BY <1>1 DEF IInv, TypeOK
<1>5. Order' /\ Reads' /\ Places'
  BY <1>1, <1>2, <1>3 DEF IInv, Order, Reads, Places, InMessage
<1>6. Counts'
  BY <1>1, <1>3 DEF Counts, Steady, Bound
<1>7. NeverStuck'
  <2>1. BufferIsBounded'
    BY <1>1 DEF BufferIsBounded, Buffered
  <2>2. SteadyNeverStalls'
    BY <1>1, <1>2 DEF SteadyNeverStalls, WaitsOnlyForBytes, Steady, Done
  <2> QED
    BY <2>1, <2>2 DEF NeverStuck
<1>8. UNCHANGED <<stream, ops, pc = "failed">>
  BY <1>1
<1> QED
  BY <1>4, <1>5, <1>6, <1>7, <1>8 DEF IInv

\* decode fails, at an op that it may reject.
LEMMA FailInv ==
    ASSUME IInv, pc = "decode", Done < Len(stream), Rejectable(stream[Done + 1]),
           NEW k \in Nat, pos + k <= got, status' \in {status, "Poisoned"},
           Fail(k)
    PROVE  IInv' /\ Abstract!Reject
<1>1. /\ pc' = "failed" /\ pos' = pos + k
      /\ UNCHANGED <<framed, stream, got, last_bytes_read, header_len, payload_len, message, ops>>
  BY DEF Fail, given, partial
<1>2. \A i : Start(i)' = Start(i)
  BY <1>1, SameStream
<1>3. Done' = Done
  BY <1>1 DEF Done
<1>4. TypeOK'
  BY <1>1 DEF IInv, TypeOK
<1>5. Order' /\ Reads' /\ Places'
  BY <1>1, <1>2, <1>3 DEF IInv, Order, Reads, Places
<1>6. Counts' /\ NeverStuck'
  BY <1>1, <1>3
     DEF IInv, Counts, Steady, Bound, NeverStuck, BufferIsBounded, SteadyNeverStalls,
         WaitsOnlyForBytes
<1>7. Abstract!Reject
  <2>1. Done + 1 <= Len(stream)
    BY NextFrame
  <2>2. Rejectable(stream[Len(ops) + 1]) /\ Len(ops) + 1 <= Len(stream)
    BY <2>1 DEF Done
  <2>3. (pc = "failed") = FALSE /\ (pc = "failed")' = TRUE /\ UNCHANGED <<stream, ops>>
    BY <1>1
  <2> QED
    BY <2>2, <2>3 DEF Abstract!Reject, Abstract!Upcoming, Rejectable, Acceptable
<1> QED
  BY <1>4, <1>5, <1>6, <1>7 DEF IInv

-----------------------------------------------------------------------------
(***************************************************************************)
(* The control line.                                                       *)
(***************************************************************************)
\* What OpStream makes of a step.
AbstractStep == Abstract!Next \/ UNCHANGED <<stream, ops, pc = "failed">>

\* The fast path of "+OK".
LEMMA FastOkInv == ASSUME IInv, FastOk PROVE IInv' /\ AbstractStep
<1> DEFINE f == stream[Done + 1]
<1>1. InControlLine /\ pc = "decode" /\ AtFrame /\ stream[Here].kind = "OK" /\ Buffered >= 5
      /\ ReturnOp(Here, 5, last_bytes_read)
  BY DEF FastOk, InControlLine, StartsWithOk, OkLen
<1>2. Done < Len(stream) /\ Here = Done + 1 /\ pos = Start(Done + 1)
      /\ pos \in Nat /\ got \in Nat
  BY <1>1, AtLine DEF IInv, Order, TypeOK, Done
<1>3. f \in Frames /\ Start(Done + 2) = pos + FrameLen(f)
  BY <1>2, NextFrame
<1>4. f.kind = "OK" /\ f.fault = "none" /\ ~IsMessage(f) /\ FrameLen(f) = 5
  BY <1>1, <1>2, <1>3, FrameFacts DEF IsMessage
<1>5. Acceptable(f)
  BY <1>4 DEF Acceptable
<1>6. last_bytes_read \in Nat /\ last_bytes_read < MaxHead /\ (Steady => last_bytes_read < PingLen)
  BY <1>4 DEF IInv, TypeOK, Counts, Bound
<1>7. pos + 5 = Start(Done + 2) /\ pos + 5 <= got
  BY <1>1, <1>2, <1>3, <1>4 DEF Buffered
<1> HIDE DEF f, Done
<1>8. IInv' /\ Abstract!Deliver
  BY <1>1, <1>2, <1>5, <1>6, <1>7, ReturnOpInv DEF f
<1> QED
  BY <1>8 DEF AbstractStep, Abstract!Next

\* Any other control line that is an op.
LEMMA ControlOpInv == ASSUME IInv, ControlOp PROVE IInv' /\ AbstractStep
<1> DEFINE f == stream[Done + 1]
<1>1. InControlLine /\ pc = "decode" /\ AtFrame /\ LineEnds # {}
      /\ ~IsMessage(stream[Here]) /\ ~BadLine(stream[Here])
      /\ ReturnOp(Here, LineEnd - pos, last_bytes_read)
  BY DEF ControlOp, SearchLine, InControlLine
<1>2. Done < Len(stream) /\ Here = Done + 1 /\ pos = Start(Done + 1)
      /\ pos \in Nat /\ got \in Nat
  BY <1>1, AtLine DEF IInv, Order, TypeOK, Done
<1>3. f \in Frames /\ Start(Done + 2) = pos + FrameLen(f)
  BY <1>2, NextFrame
<1>4. ~IsMessage(f) /\ f.fault # "line"
  BY <1>1, <1>2 DEF BadLine
<1>5. f.fault = "none" /\ FrameLen(f) = f.line /\ f.line \in Nat
  BY <1>3, <1>4, FrameFacts
<1>6. Acceptable(f)
  BY <1>4, <1>5 DEF Acceptable
<1>7. last_bytes_read \in Nat /\ last_bytes_read < MaxHead /\ (Steady => last_bytes_read < PingLen)
  BY <1>4 DEF IInv, TypeOK, Counts, Bound
<1> DEFINE line == f.line
<1>8. line \in Nat /\ (pos + line <= got => LineEnd = pos + line) /\ (got < pos + line => LineEnds = {})
  BY <1>1, <1>2, <1>5, AtLine
<1>9. Start(Done + 2) = pos + line
  BY <1>3, <1>5
<1> HIDE DEF f, Done, line
<1>10. LineEnd - pos \in Nat /\ LineEnd - pos = line /\ pos + (LineEnd - pos) = Start(Done + 2)
       /\ pos + (LineEnd - pos) <= got
  BY <1>1, <1>2, <1>8, <1>9
<1>11. IInv' /\ Abstract!Deliver
  BY <1>1, <1>2, <1>6, <1>7, <1>10, ReturnOpInv DEF f
<1> QED
  BY <1>11 DEF AbstractStep, Abstract!Next

\* What has been read of a frame whose line has no end yet is less than it.
LEMMA NoLineFacts ==
    ASSUME IInv, InControlLine, LineEnds = {}
    PROVE  /\ ~framed
           /\ Done < Len(stream) => Buffered < stream[Done + 1].line
           /\ Done = Len(stream) => Buffered = 0
           /\ Done < Len(stream) => got < Start(Done + 2)
<1>1. /\ pos = Start(Done + 1) /\ pos \in Nat /\ got \in Nat /\ pos <= got
      /\ Done = Len(stream) => pos = got
      /\ Done < Len(stream) => ~(pos + stream[Done + 1].line <= got)
  BY AtLine
<1>2. ASSUME Done < Len(stream)
      PROVE  Buffered < stream[Done + 1].line /\ got < Start(Done + 2)
             /\ Start(Done + 2) \in Nat
  <2> DEFINE line == stream[Done + 1].line
             len == FrameLen(stream[Done + 1])
  <2>1. stream[Done + 1] \in Frames /\ Start(Done + 2) = pos + len
    BY <1>1, <1>2, NextFrame
  <2>2. line \in Nat /\ len \in Nat /\ line <= len
    BY <2>1, FrameLenType, FrameFacts
  <2>3. ~(pos + line <= got)
    BY <1>1, <1>2
  <2> HIDE DEF line, len
  <2>4. Buffered < line /\ got < Start(Done + 2) /\ Start(Done + 2) \in Nat
    BY <1>1, <2>1, <2>2, <2>3 DEF Buffered
  <2> QED
    BY <2>4 DEF line
<1>3. Done = Len(stream) \/ Done < Len(stream)
  BY DEF Done, IInv, TypeOK, Order
<1>4. ~framed
  <2>1. SUFFICES ASSUME framed PROVE FALSE
    OBVIOUS
  <2>2. pos < got
    BY <1>1, <2>1 DEF InControlLine, Buffered
  <2>3. Done < Len(stream)
    BY <1>1, <1>3, <2>2
  <2>4. Start(Done + 2) <= got
    BY <1>1, <2>1, <2>2, <2>3, WholeFrames
  <2> QED
    BY <1>1, <1>2, <2>3, <2>4
<1>5. Done = Len(stream) => Buffered = 0
  BY <1>1 DEF Buffered
<1> QED
  BY <1>2, <1>4, <1>5

\* A steady line that is not complete is shorter than any op that is.
LEMMA NoLineInv == ASSUME IInv, NoLine PROVE IInv' /\ AbstractStep
<1>1. InControlLine /\ LineEnds = {} /\ Buffered < MaxHead /\ ReturnNone(Buffered) /\ pc = "decode"
  BY DEF NoLine, SearchLine, InControlLine
<1>2. /\ ~framed
      /\ Done < Len(stream) => Buffered < stream[Done + 1].line
      /\ Done = Len(stream) => Buffered = 0
      /\ Done < Len(stream) => got < Start(Done + 2)
  BY <1>1, NoLineFacts
<1>3. Buffered \in Nat
  BY <1>1, AtLine DEF Buffered
<1>4. Done = Len(stream) \/ Done < Len(stream)
  BY DEF Done, IInv, TypeOK, Order
<1>5. ASSUME Steady PROVE Buffered < Bound
  <2>1. CASE Done = Len(stream)
    <3>1. Bound = PingLen
      BY <2>1 DEF Bound, IInv, TypeOK
    <3> QED
      BY <1>2, <2>1, <3>1 DEF PingLen
  <2>2. CASE Done < Len(stream)
    <3>1. stream[Done + 1] \in Frames /\ Done + 1 \in 1..Len(stream)
      BY <2>2, NextFrame
    <3>2. CASE IsMessage(stream[Done + 1])
      BY <1>2, <2>2, <3>2 DEF Bound
    <3>3. CASE ~IsMessage(stream[Done + 1])
      <4>1. stream[Done + 1].kind \in {"OK", "PING"}
        BY <1>5, <3>1, <3>3, FrameFacts DEF Steady, Kind, IsMessage
      <4>2. stream[Done + 1].line \in {5, 6}
        BY <3>1, <4>1, FrameFacts
      <4>3. Bound = 6
        BY <3>3 DEF Bound, PingLen
      <4>4. Buffered < stream[Done + 1].line
        BY <1>2, <2>2
      <4> QED
        BY <1>3, <4>2, <4>3, <4>4
    <3> QED
      BY <3>2, <3>3
  <2> QED
    BY <1>4, <2>1, <2>2
<1>6. IInv' /\ UNCHANGED <<stream, ops, pc = "failed">>
  BY <1>1, <1>2, <1>3, <1>4, <1>5, ReturnNoneInv
<1> QED
  BY <1>6 DEF AbstractStep

\* That nothing was read since is only missed where it is not an op.
LEMMA NoProgressInv == ASSUME IInv, NoProgress PROVE IInv' /\ AbstractStep
<1>1. InControlLine /\ ~StartsWithOk /\ last_bytes_read = Buffered /\ ReturnNone(last_bytes_read)
      /\ pc = "decode"
  BY DEF NoProgress, InControlLine
<1>2. /\ pos = Start(Done + 1) /\ pos \in Nat /\ got \in Nat /\ pos <= got
      /\ Done < Len(stream) => AtFrame /\ Here = Done + 1
  BY <1>1, AtLine
<1>3. last_bytes_read \in Nat /\ last_bytes_read < MaxHead /\ (Steady => last_bytes_read < Bound)
      /\ (framed => last_bytes_read = 0)
  BY <1>1 DEF IInv, TypeOK, Counts
<1>4. ~framed
  BY <1>1, <1>2, <1>3 DEF InControlLine, Buffered
<1>5. Done = Len(stream) \/ Done < Len(stream)
  BY DEF Done, IInv, TypeOK, Order
<1>6. ASSUME Steady, Done < Len(stream) PROVE got < Start(Done + 2)
  <2> DEFINE f == stream[Done + 1]
             line == f.line
  <2>1. f \in Frames /\ Done + 1 \in 1..Len(stream) /\ Start(Done + 2) = pos + FrameLen(f)
    BY <1>2, <1>6, NextFrame
  <2>2. line \in Nat /\ FrameLen(f) \in Nat /\ line <= FrameLen(f)
    BY <2>1, FrameLenType, FrameFacts
  <2>3. Buffered < line
    <3>1. CASE IsMessage(f)
      BY <1>1, <1>3, <1>6, <3>1 DEF Bound
    <3>2. CASE ~IsMessage(f)
      <4>1. f.kind \in {"OK", "PING"}
        BY <1>6, <2>1, <3>2, FrameFacts DEF Steady, Kind, IsMessage
      <4>2. CASE f.kind = "OK"
        <5>1. Buffered < 5
          BY <1>1, <1>2, <1>6, <4>2 DEF StartsWithOk, OkLen, Buffered
        <5> QED
          BY <2>1, <4>2, <5>1, FrameFacts
      <4>3. CASE f.kind = "PING"
        <5>1. Buffered < 6
          BY <1>1, <1>3, <1>6, <3>2 DEF Bound, PingLen
        <5> QED
          BY <2>1, <4>3, <5>1, FrameFacts
      <4> QED
        BY <4>1, <4>2, <4>3
    <3> QED
      BY <3>1, <3>2
  <2> HIDE DEF line, f
  <2> QED
    BY <1>2, <2>1, <2>2, <2>3 DEF Buffered
<1>7. IInv' /\ UNCHANGED <<stream, ops, pc = "failed">>
  BY <1>1, <1>3, <1>4, <1>5, <1>6, ReturnNoneInv
<1> QED
  BY <1>7 DEF AbstractStep

\* A head is only too long where its line is.
LEMMA HeadTooLongInv == ASSUME IInv, HeadTooLong PROVE IInv' /\ AbstractStep
<1>1. /\ InControlLine /\ pc = "decode" /\ LineEnds = {} /\ Buffered >= MaxHead
      /\ Fail(0) /\ status' = status
  BY DEF HeadTooLong, SearchLine, InControlLine
<1>2. /\ Done < Len(stream) => Buffered < stream[Done + 1].line
      /\ Done = Len(stream) => Buffered = 0
  BY <1>1, NoLineFacts
<1>3. pos \in Nat /\ got \in Nat /\ pos <= got /\ Buffered \in Nat
  BY <1>1, AtLine DEF Buffered
<1>4. Done < Len(stream)
  BY <1>1, <1>2, DecoderAssumption DEF Done, IInv, TypeOK, Order
<1>5. stream[Done + 1].line > MaxHead
  <2>1. stream[Done + 1].line \in Nat
    BY <1>4, NextFrame, FrameFacts
  <2> QED
    BY <1>1, <1>2, <1>3, <1>4, <2>1, DecoderAssumption
<1>6. IInv' /\ Abstract!Reject
  BY <1>1, <1>3, <1>4, <1>5, FailInv DEF Rejectable
<1> QED
  BY <1>6 DEF AbstractStep, Abstract!Next

\* A control line is only refused for what is wrong with it.
LEMMA InvalidLineInv == ASSUME IInv, InvalidLine PROVE IInv' /\ AbstractStep
<1>1. /\ InControlLine /\ pc = "decode" /\ LineEnds # {}
      /\ AtFrame => BadLine(stream[Here])
      /\ Fail(LineEnd - pos) /\ status' = status
  BY DEF InvalidLine, SearchLine, InControlLine
<1>2. /\ pos \in Nat /\ got \in Nat /\ pos <= got
      /\ Done < Len(stream) => AtFrame /\ Here = Done + 1
      /\ Done = Len(stream) => LineEnds = {}
      /\ Done < Len(stream) /\ pos + stream[Done + 1].line <= got =>
           LineEnd = pos + stream[Done + 1].line
      /\ Done < Len(stream) /\ got < pos + stream[Done + 1].line => LineEnds = {}
  BY <1>1, AtLine
<1>3. Done < Len(stream)
  BY <1>1, <1>2 DEF Done, IInv, TypeOK, Order
<1> DEFINE line == stream[Done + 1].line
<1>4. line \in Nat
  BY <1>3, NextFrame, FrameFacts
<1>5. (pos + line <= got => LineEnd = pos + line) /\ ~(got < pos + line)
  BY <1>1, <1>2, <1>3
<1> HIDE DEF line
<1>6. LineEnd - pos \in Nat /\ pos + (LineEnd - pos) <= got
  BY <1>2, <1>4, <1>5
<1>7. stream[Done + 1] \in Frames /\ BadLine(stream[Done + 1])
  BY <1>1, <1>2, <1>3, NextFrame
<1>8. Rejectable(stream[Done + 1])
  <2> DEFINE f == stream[Done + 1]
  <2>1. f.header \in Nat /\ f.payload \in Nat /\ MaxMsg \in Nat
    BY <1>7, FrameFacts, DecoderAssumption
  <2>2. CASE f.fault = "line"
    BY <2>2 DEF Rejectable, Acceptable
  <2>3. CASE IsMessage(f) /\ f.header + f.payload > MaxMsg
    <3>1. ~(f.header + f.payload <= MaxMsg)
      BY <2>1, <2>3
    <3> QED
      BY <2>3, <3>1 DEF Rejectable, Acceptable
  <2> QED
    BY <1>7, <2>2, <2>3 DEF BadLine
<1>9. IInv' /\ Abstract!Reject
  BY <1>1, <1>3, <1>6, <1>8, FailInv
<1> QED
  BY <1>9 DEF AbstractStep, Abstract!Next

\* The head of a message leads into its headers or its payload.
LEMMA MessageHeadInv == ASSUME IInv, MessageHead PROVE IInv' /\ AbstractStep
<1> DEFINE f == stream[Done + 1]
           line == f.line
<1>1. /\ InControlLine /\ pc = "decode" /\ LineEnds # {} /\ AtFrame
      /\ IsMessage(stream[Here]) /\ ~BadLine(stream[Here])
      /\ status' = IF stream[Here].kind = "HMSG" THEN "Headers" ELSE "Payload"
      /\ header_len' = stream[Here].header /\ payload_len' = stream[Here].payload
      /\ message' = Here /\ pos' = LineEnd /\ last_bytes_read' = 0
      /\ UNCHANGED <<framed, stream, got, pc, ops>>
  BY DEF MessageHead, SearchLine, InControlLine, given
<1>2. Done < Len(stream) /\ Here = Done + 1 /\ pos = Start(Done + 1)
      /\ pos \in Nat /\ got \in Nat
  BY <1>1, AtLine DEF IInv, Order, TypeOK, Done
<1>3. f \in Frames /\ Done + 1 \in 1..Len(stream)
  BY <1>2, NextFrame
<1>4. IsMessage(f) /\ ~BadLine(f)
  BY <1>1, <1>2
<1>5. /\ f.line \in Nat /\ f.header \in Nat /\ f.payload \in Nat /\ line >= 6
      /\ f.fault \in {"none", "line", "headers"}
      /\ f.kind # "HMSG" => f.header = 0 /\ f.fault # "headers"
  BY <1>3, <1>4, FrameFacts
<1>6. f.fault # "line" /\ f.header + f.payload <= MaxMsg
  <2>1. f.fault # "line" /\ ~(f.header + f.payload > MaxMsg)
    BY <1>4 DEF BadLine
  <2> QED
    BY <1>5, <2>1, DecoderAssumption
<1>7. LineEnd = pos + line /\ pos + line <= got
  <2>1. (pos + line <= got => LineEnd = pos + line) /\ (got < pos + line => LineEnds = {})
    BY <1>1, <1>2, AtLine
  <2>2. line \in Nat
    BY <1>5
  <2> HIDE DEF line
  <2> QED
    BY <1>1, <1>2, <2>1, <2>2
<1>8. Done' = Done /\ stream'[message'] = f /\ stream'[Done' + 1] = f
  BY <1>1, <1>2 DEF Done
<1>9. \A i : Start(i)' = Start(i)
  BY <1>1, SameStream
<1> HIDE DEF f, Done
<1>10. TypeOK'
  <2>1. pos' \in 0..got'
    BY <1>1, <1>2, <1>5, <1>7
  <2>2. message' \in 0..Len(stream')
    BY <1>1, <1>2, <1>3
  <2>3. header_len' \in Nat /\ payload_len' \in Nat
    BY <1>1, <1>2, <1>5 DEF f
  <2>4. status' \in {"ControlLine", "Headers", "Payload", "Poisoned"}
    BY <1>1
  <2> QED
    BY <1>1, <2>1, <2>2, <2>3, <2>4 DEF IInv, TypeOK
<1>11. Order' /\ Reads'
  BY <1>1, <1>8, <1>9 DEF IInv, Order, Reads
<1>12. InMessage'
  <2>1. message' = Done' + 1 /\ Done' < Len(stream')
    BY <1>1, <1>2, <1>8
  <2>2. header_len' = f.header /\ payload_len' = f.payload
    BY <1>1, <1>2 DEF f
  <2> QED
    BY <1>4, <1>6, <1>8, <2>1, <2>2 DEF InMessage, IsMessage
<1>13. Places'
  <2>1. pos' = Start(Done + 1)' + f.line
    BY <1>1, <1>2, <1>7, <1>8, <1>9
  <2>2. f.kind # "HMSG" => f.fault = "none" /\ pos' = Start(Done + 1)' + f.line + f.header
    <3>1. pos + f.line = pos + f.line + 0
      BY <1>2, <1>5
    <3> QED
      BY <1>1, <1>2, <1>5, <1>6, <1>7, <1>8, <1>9, <3>1
  <2>3. status' = IF f.kind = "HMSG" THEN "Headers" ELSE "Payload"
    BY <1>1, <1>2 DEF f
  <2> QED
    BY <1>8, <1>12, <2>1, <2>2, <2>3 DEF Places
<1>14. Counts'
  <2>1. Bound' = line
    BY <1>1, <1>2, <1>4, <1>8 DEF Bound, IsMessage
  <2> QED
    BY <1>1, <1>5, <2>1, DecoderAssumption DEF Counts
<1>15. NeverStuck'
  BY <1>1 DEF NeverStuck, BufferIsBounded, SteadyNeverStalls, WaitsOnlyForBytes
<1> QED
  BY <1>1, <1>10, <1>11, <1>13, <1>14, <1>15 DEF IInv, AbstractStep

-----------------------------------------------------------------------------
(***************************************************************************)
(* The headers and the payload.                                            *)
(***************************************************************************)
\* In the headers ...
LEMMA HeadersFacts ==
    ASSUME IInv, InHeaders
    PROVE  LET f == stream[Done + 1] IN
           /\ Done < Len(stream) /\ message = Done + 1 /\ f \in Frames
           /\ f.kind = "HMSG" /\ IsMessage(f) /\ f.fault # "line"
           /\ header_len = f.header /\ payload_len = f.payload
           /\ header_len \in Nat /\ payload_len \in Nat /\ f.line \in Nat /\ f.line >= 6
           /\ header_len + payload_len <= MaxMsg
           /\ pos = Start(Done + 1) + f.line
           /\ pos \in Nat /\ got \in Nat /\ pos <= got /\ Start(Done + 1) \in Nat
           /\ Start(Done + 2) = pos + header_len + payload_len + 2
           /\ last_bytes_read = 0 \/ ~framed
<1> DEFINE f == stream[Done + 1]
<1>1. InMessage /\ stream[message].kind = "HMSG" /\ pos = Start(Done + 1) + stream[message].line
  BY DEF IInv, Places, InHeaders
<1>2. /\ Done < Len(stream) /\ message = Done + 1 /\ IsMessage(f) /\ f.fault # "line"
      /\ header_len = f.header /\ payload_len = f.payload
      /\ header_len + payload_len <= MaxMsg
      /\ f.kind = "HMSG" /\ pos = Start(Done + 1) + f.line
  BY <1>1 DEF InMessage
<1>3. f \in Frames /\ Start(Done + 1) \in Nat /\ Start(Done + 2) = Start(Done + 1) + FrameLen(f)
  BY <1>2, NextFrame
<1>4. f.line \in Nat /\ f.line >= 6 /\ FrameLen(f) = f.line + f.header + f.payload + 2
  BY <1>2, <1>3, FrameFacts
<1>5. /\ header_len \in Nat /\ payload_len \in Nat /\ pos \in Nat /\ got \in Nat /\ pos <= got
      /\ (last_bytes_read = 0 \/ ~framed)
  BY DEF IInv, TypeOK, Counts, InHeaders
<1> DEFINE line == f.line
<1>6. line \in Nat /\ pos = Start(Done + 1) + line
      /\ Start(Done + 2) = Start(Done + 1) + (line + header_len + payload_len + 2)
  BY <1>2, <1>3, <1>4
<1> HIDE DEF line
<1>7. Start(Done + 2) = pos + header_len + payload_len + 2
  BY <1>3, <1>5, <1>6
<1> QED
  BY <1>2, <1>3, <1>4, <1>5, <1>7

\* ... and in the payload of a message.
LEMMA PayloadFacts ==
    ASSUME IInv, InPayload
    PROVE  LET f == stream[Done + 1] IN
           /\ Done < Len(stream) /\ message = Done + 1 /\ f \in Frames
           /\ Acceptable(f)
           /\ payload_len \in Nat /\ payload_len <= MaxMsg
           /\ Start(Done + 1) \in Nat /\ Start(Done + 1) < pos
           /\ pos \in Nat /\ got \in Nat /\ pos <= got
           /\ Start(Done + 2) = pos + payload_len + 2
<1> DEFINE f == stream[Done + 1]
<1>1. InMessage /\ stream[message].fault = "none"
      /\ pos = Start(Done + 1) + stream[message].line + stream[message].header
  BY DEF IInv, Places, InPayload
<1>2. /\ Done < Len(stream) /\ message = Done + 1 /\ IsMessage(f)
      /\ header_len = f.header /\ payload_len = f.payload
      /\ header_len + payload_len <= MaxMsg
      /\ f.fault = "none" /\ pos = Start(Done + 1) + f.line + f.header
  BY <1>1 DEF InMessage
<1>3. f \in Frames /\ Start(Done + 1) \in Nat /\ Start(Done + 2) = Start(Done + 1) + FrameLen(f)
  BY <1>2, NextFrame
<1>4. f.line \in Nat /\ f.line >= 6 /\ FrameLen(f) = f.line + f.header + f.payload + 2
  BY <1>2, <1>3, FrameFacts
<1>5. header_len \in Nat /\ payload_len \in Nat /\ pos \in Nat /\ got \in Nat /\ pos <= got
  BY DEF IInv, TypeOK
<1>6. Acceptable(f)
  BY <1>2 DEF Acceptable
<1> DEFINE line == f.line
<1>7. line \in Nat /\ line >= 6 /\ pos = Start(Done + 1) + line + header_len
      /\ Start(Done + 2) = Start(Done + 1) + (line + header_len + payload_len + 2)
  BY <1>2, <1>3, <1>4
<1> HIDE DEF line
<1>8. Start(Done + 2) = pos + payload_len + 2 /\ Start(Done + 1) < pos
  BY <1>3, <1>5, <1>7
<1>9. payload_len <= MaxMsg
  BY <1>2, <1>5, DecoderAssumption
<1> QED
  BY <1>2, <1>3, <1>5, <1>6, <1>8, <1>9

\* The decoder waits for a part of the message, which no websocket cuts.
LEMMA IncompleteInv ==
    ASSUME IInv, HeadersIncomplete \/ PayloadIncomplete
    PROVE  IInv' /\ AbstractStep
<1>1. pc = "decode" /\ ReturnNone(0)
  BY DEF HeadersIncomplete, PayloadIncomplete, InHeaders, InPayload
<1>2. /\ Done < Len(stream) /\ Start(Done + 1) \in Nat /\ Start(Done + 1) < got
      /\ Start(Done + 2) \in Nat /\ got < Start(Done + 2) /\ Buffered < MaxMsg + CRLF
      /\ got \in Nat
  <2>1. CASE HeadersIncomplete
    <3>1. InHeaders /\ Buffered < header_len
      BY <2>1 DEF HeadersIncomplete
    <3> DEFINE line == stream[Done + 1].line
    <3>2. /\ Done < Len(stream) /\ line \in Nat /\ line >= 6
          /\ header_len \in Nat /\ payload_len \in Nat /\ header_len + payload_len <= MaxMsg
          /\ pos = Start(Done + 1) + line /\ Start(Done + 1) \in Nat
          /\ pos \in Nat /\ got \in Nat /\ pos <= got
          /\ Start(Done + 2) = pos + header_len + payload_len + 2
      BY <3>1, HeadersFacts
    <3> DEFINE first == Start(Done + 1)
               last == Start(Done + 2)
    <3>3. first \in Nat /\ pos = first + line /\ last = pos + header_len + payload_len + 2
      BY <3>2
    <3> HIDE DEF line, first, last
    <3>4. got < pos + header_len
      BY <3>1, <3>2 DEF Buffered
    <3>5. last \in Nat /\ got < last /\ first < got
      BY <3>2, <3>3, <3>4
    <3>6. Buffered < MaxMsg + CRLF
      BY <3>1, <3>2, DecoderAssumption DEF Buffered, CRLF
    <3> QED
      BY <3>2, <3>5, <3>6 DEF first, last
  <2>2. CASE PayloadIncomplete
    <3>1. InPayload /\ Buffered < payload_len + 2
      BY <2>2 DEF PayloadIncomplete, CRLF
    <3>2. /\ Done < Len(stream) /\ payload_len \in Nat /\ payload_len <= MaxMsg
          /\ Start(Done + 1) \in Nat /\ Start(Done + 1) < pos
          /\ pos \in Nat /\ got \in Nat /\ pos <= got
          /\ Start(Done + 2) = pos + payload_len + 2
      BY <3>1, PayloadFacts
    <3> HIDE DEF Done
    <3> QED
      BY <3>1, <3>2, DecoderAssumption DEF Buffered, CRLF
  <2> QED
    BY <2>1, <2>2
<1>3. ~framed
  <2>1. SUFFICES ASSUME framed PROVE FALSE
    OBVIOUS
  <2>2. Start(Done + 2) <= got
    BY <1>2, <2>1, WholeFrames
  <2> QED
    BY <1>2, <2>2
<1>4. Bound \in Nat /\ Bound > 0
  <2>1. stream[Done + 1] \in Frames
    BY <1>2, NextFrame
  <2>2. stream[Done + 1].line \in Nat /\ stream[Done + 1].line > 2
    BY <2>1, FrameFacts
  <2> QED
    BY <2>2 DEF Bound, PingLen
<1>5. IInv' /\ UNCHANGED <<stream, ops, pc = "failed">>
  BY <1>1, <1>2, <1>3, <1>4, ReturnNoneInv, DecoderAssumption
<1> QED
  BY <1>5 DEF AbstractStep

\* The headers lead into the payload ...
LEMMA DecodeHeadersInv == ASSUME IInv, DecodeHeaders PROVE IInv' /\ AbstractStep
<1> DEFINE f == stream[Done + 1]
           line == f.line
<1>1. /\ InHeaders /\ pc = "decode" /\ Buffered >= header_len /\ stream[message].fault # "headers"
      /\ pos' = pos + header_len /\ status' = "Payload"
      /\ UNCHANGED <<framed, stream, got, last_bytes_read, header_len, payload_len, message, pc, ops>>
  BY DEF DecodeHeaders, InHeaders, given, partial
<1>2. /\ message = Done + 1 /\ f \in Frames /\ f.fault # "line"
      /\ header_len \in Nat /\ header_len = f.header
      /\ pos \in Nat /\ got \in Nat /\ pos <= got /\ pos = Start(Done + 1) + line
  BY <1>1, HeadersFacts
<1>3. f.fault = "none"
  BY <1>1, <1>2, FrameFacts
<1>4. Done' = Done
  BY <1>1 DEF Done
<1>5. \A i : Start(i)' = Start(i)
  BY <1>1, SameStream
<1> HIDE DEF Done
<1>6. TypeOK'
  <2>1. pos' \in 0..got'
    BY <1>1, <1>2 DEF Buffered
  <2> QED
    BY <1>1, <2>1 DEF IInv, TypeOK
<1>7. Order' /\ Reads'
  BY <1>1, <1>4, <1>5 DEF IInv, Order, Reads
<1>8. Places'
  <2>1. InMessage'
    BY <1>1, <1>4 DEF IInv, Places, InHeaders, InMessage
  <2>2. stream'[message'].fault = "none"
    BY <1>1, <1>2, <1>3
  <2>3. pos' = Start(Done + 1) + stream'[message'].line + stream'[message'].header
    BY <1>1, <1>2
  <2>4. Start(Done + 1)' = Start(Done + 1)
    BY <1>4, <1>5
  <2> QED
    BY <1>1, <2>1, <2>2, <2>3, <2>4 DEF Places
<1>9. Counts'
  BY <1>1, <1>4 DEF IInv, Counts, Steady, Bound
<1>10. NeverStuck'
  BY <1>1 DEF NeverStuck, BufferIsBounded, SteadyNeverStalls, WaitsOnlyForBytes
<1> QED
  BY <1>1, <1>6, <1>7, <1>8, <1>9, <1>10 DEF IInv, AbstractStep

\* ... unless they are refused.
LEMMA InvalidHeadersInv == ASSUME IInv, InvalidHeaders PROVE IInv' /\ AbstractStep
<1>1. /\ InHeaders /\ pc = "decode" /\ Buffered >= header_len /\ stream[message].fault = "headers"
      /\ Fail(header_len) /\ status' = "Poisoned"
  BY DEF InvalidHeaders, InHeaders
<1>2. /\ Done < Len(stream) /\ message = Done + 1 /\ header_len \in Nat
      /\ pos \in Nat /\ got \in Nat
  BY <1>1, HeadersFacts
<1>3. Rejectable(stream[Done + 1])
  BY <1>1, <1>2 DEF Rejectable, Acceptable
<1>4. pos + header_len <= got
  BY <1>1, <1>2 DEF Buffered
<1>5. IInv' /\ Abstract!Reject
  BY <1>1, <1>2, <1>3, <1>4, FailInv
<1> QED
  BY <1>5 DEF AbstractStep, Abstract!Next

\* The payload ends the message.
LEMMA DecodePayloadInv == ASSUME IInv, DecodePayload PROVE IInv' /\ AbstractStep
<1>1. /\ InPayload /\ pc = "decode" /\ Buffered >= payload_len + 2
      /\ ReturnOp(message, payload_len + 2, 0)
  BY DEF DecodePayload, InPayload, CRLF
<1>2. /\ Done < Len(stream) /\ message = Done + 1 /\ Acceptable(stream[Done + 1])
      /\ payload_len \in Nat /\ pos \in Nat /\ got \in Nat
      /\ Start(Done + 2) = pos + payload_len + 2
  BY <1>1, PayloadFacts
<1> HIDE DEF Done
<1>3. pos + (payload_len + 2) = Start(Done + 2) /\ pos + (payload_len + 2) <= got
      /\ payload_len + 2 \in Nat
  BY <1>1, <1>2 DEF Buffered
<1>4. IInv' /\ Abstract!Deliver
  BY <1>1, <1>2, <1>3, ReturnOpInv, DecoderAssumption DEF PingLen
<1> QED
  BY <1>4 DEF AbstractStep, Abstract!Next

-----------------------------------------------------------------------------
(***************************************************************************)
(* The connection.                                                         *)
(***************************************************************************)
\* Nothing is left of a websocket's message.
LEMMA NextMessageInv == ASSUME IInv, NextMessage PROVE IInv' /\ AbstractStep
<1>1. /\ pc = "decode" /\ Buffered = 0 /\ status = "ControlLine" /\ pc' = "read"
      /\ UNCHANGED <<framed, stream, got, pos, status, last_bytes_read, header_len, payload_len,
                     message, ops>>
  BY DEF NextMessage, given, position, decoder, partial
<1>2. Done' = Done
  BY <1>1 DEF Done
<1>3. \A i : Start(i)' = Start(i)
  BY <1>1, SameStream
<1>4. pos = Start(Done + 1) /\ pos \in Nat /\ got \in Nat /\ got = pos
  BY <1>1 DEF IInv, TypeOK, Places, Buffered
<1>5. Done = Len(stream) \/ got < Start(Done + 2)
  <2>1. CASE Done < Len(stream)
    <3>1. stream[Done + 1] \in Frames /\ Start(Done + 2) = pos + FrameLen(stream[Done + 1])
      BY <1>4, <2>1, NextFrame
    <3>2. FrameLen(stream[Done + 1]) \in Nat /\ FrameLen(stream[Done + 1]) > 0
      <4>1. stream[Done + 1].line > 2 /\ stream[Done + 1].line \in Nat
        BY <3>1, FrameFacts
      <4> QED
        BY <3>1, <4>1, FrameLenType
    <3> QED
      BY <1>4, <3>1, <3>2
  <2> QED
    BY <2>1 DEF Done, IInv, TypeOK, Order
<1>6. NeverStuck'
  <2>1. BufferIsBounded'
    BY <1>1, <1>4, DecoderAssumption DEF BufferIsBounded, Buffered
  <2>2. SteadyNeverStalls'
    BY <1>1, <1>3, <1>5 DEF SteadyNeverStalls, WaitsOnlyForBytes, Done
  <2> QED
    BY <2>1, <2>2 DEF NeverStuck
<1> HIDE DEF Done
<1>7. TypeOK'
  BY <1>1 DEF IInv, TypeOK
<1>8. Order' /\ Reads'
  BY <1>1, <1>2, <1>3 DEF IInv, Order, Reads
<1>9. Places'
  <2>1. Start(Done + 1)' = Start(Done + 1)
    BY <1>2, <1>3
  <2> QED
    BY <1>1, <1>4, <2>1 DEF Places
<1>10. Counts'
  BY <1>1, <1>2 DEF IInv, Counts, Steady, Bound
<1> QED
  BY <1>1, <1>6, <1>7, <1>8, <1>9, <1>10 DEF IInv, AbstractStep

\* Bytes arrive.
LEMMA ReadSomeInv == ASSUME IInv, ReadSome PROVE IInv' /\ AbstractStep
<1>1. /\ pc = "read" /\ pc' = "decode" /\ got' > got
      /\ got' \in IF framed THEN {Start(i) : i \in 2..Len(stream) + 1}
                            ELSE got + 1..Start(Len(stream) + 1)
      /\ UNCHANGED <<framed, stream, pos, status, last_bytes_read, header_len, payload_len,
                     message, ops>>
  BY DEF ReadSome, given, decoder, partial
<1>2. Done' = Done
  BY <1>1 DEF Done
<1>3. \A i : Start(i)' = Start(i)
  BY <1>1, SameStream
<1>4. /\ stream \in Seq(Frames) /\ Len(stream) \in Nat
      /\ got \in Nat /\ pos \in Nat /\ pos <= got
  BY DEF IInv, TypeOK
<1>5. /\ \A i \in 1..Len(stream) + 1 : Start(i) \in Nat /\ Start(i) <= Start(Len(stream) + 1)
  <2>1. ASSUME NEW i \in 1..Len(stream) + 1
        PROVE  Start(i) \in Nat /\ Start(i) <= Start(Len(stream) + 1)
    <3>1. Start(i) \in Nat /\ Start(Len(stream) + 1) \in Nat
      <4>1. Len(stream) + 1 \in 1..Len(stream) + 1
        BY <1>4
      <4> QED
        BY <1>4, <4>1, StartsGrow
    <3>2. CASE i = Len(stream) + 1
      BY <3>1, <3>2
    <3>3. CASE i < Len(stream) + 1
      <4>1. i \in 1..Len(stream) /\ Len(stream) + 1 \in 1..Len(stream) + 1
        BY <1>4, <3>3
      <4>2. Start(i) + FrameLen(stream[i]) <= Start(Len(stream) + 1)
        BY <1>4, <3>3, <4>1, StartsGrow
      <4>3. FrameLen(stream[i]) \in Nat
        BY <1>4, <4>1, StartsGrow, FrameLenType
      <4> QED
        BY <3>1, <4>2, <4>3
    <3> QED
      BY <1>4, <3>2, <3>3
  <2> QED
    BY <2>1
<1>6. got' \in Nat /\ got' <= Start(Len(stream) + 1)
      /\ (framed => \E i \in 1..Len(stream) + 1 : got' = Start(i))
  <2>1. CASE framed
    <3>1. PICK i \in 2..Len(stream) + 1 : got' = Start(i)
      BY <1>1, <2>1
    <3>2. i \in 1..Len(stream) + 1
      BY <1>4, <3>1
    <3> QED
      BY <1>5, <3>1, <3>2
  <2>2. CASE ~framed
    <3>1. Len(stream) + 1 \in 1..Len(stream) + 1
      BY <1>4
    <3>2. Start(Len(stream) + 1) \in Nat
      BY <1>5, <3>1
    <3> QED
      BY <1>1, <1>4, <2>2, <3>2
  <2> QED
    BY <2>1, <2>2
<1>7. pos' \in 0..got'
  BY <1>1, <1>4, <1>6
<1> HIDE DEF Done
<1>8. TypeOK'
  BY <1>1, <1>6, <1>7 DEF IInv, TypeOK
<1>9. Reads'
  BY <1>1, <1>3, <1>6 DEF Reads
<1>10. Order'
  BY <1>1, <1>2 DEF IInv, Order
<1>11. Places'
  <2>1. Start(Done + 1)' = Start(Done + 1)
    BY <1>2, <1>3
  <2>2. InMessage => InMessage'
    BY <1>1, <1>2 DEF InMessage
  <2> QED
    BY <1>1, <2>1, <2>2 DEF IInv, Places
<1>12. Counts'
  BY <1>1, <1>2 DEF IInv, Counts, Steady, Bound
<1>13. NeverStuck'
  BY <1>1 DEF NeverStuck, BufferIsBounded, SteadyNeverStalls, WaitsOnlyForBytes
<1> QED
  BY <1>1, <1>8, <1>9, <1>10, <1>11, <1>12, <1>13 DEF IInv, AbstractStep

-----------------------------------------------------------------------------
\* Nothing is read yet.
LEMMA InitInv == Init => IInv /\ Abstract!Init
<1> SUFFICES ASSUME Init PROVE IInv /\ Abstract!Init
  OBVIOUS
<1>1. stream \in Seq(Frames)
  <2>1. PICK n \in 0..MaxFrames : stream \in [1..n -> Frames]
    BY DEF Init
  <2>2. n \in Nat
    BY DecoderAssumption
  <2> QED
    BY <2>1, <2>2
<1>2. /\ framed \in Transports /\ got = 0 /\ pos = 0 /\ status = "ControlLine"
      /\ last_bytes_read = 0 /\ header_len = 0 /\ payload_len = 0 /\ message = 0
      /\ pc = "decode" /\ ops = <<>>
  BY DEF Init
<1>3. Len(stream) \in Nat /\ Done = 0 /\ Start(1) = 0
  BY <1>1, <1>2, StartsGrow DEF Done
<1>4. TypeOK
  BY <1>1, <1>2, <1>3 DEF TypeOK
<1>5. Order
  BY <1>2, <1>3 DEF Order
<1>6. Reads
  <2>1. Len(stream) + 1 \in 1..Len(stream) + 1 /\ 1 \in 1..Len(stream) + 1
    BY <1>3
  <2>2. Start(Len(stream) + 1) \in Nat
    BY <1>1, <2>1, StartsGrow
  <2> QED
    BY <1>2, <1>3, <2>1, <2>2 DEF Reads
<1>7. Places
  BY <1>2, <1>3 DEF Places
<1>8. Counts
  <2>1. Bound \in Nat /\ Bound > 0
    <3>1. CASE Bound = PingLen
      BY <3>1 DEF PingLen
    <3>2. CASE Done < Len(stream) /\ IsMessage(stream[Done + 1])
      <4>1. stream[Done + 1] \in Frames
        BY <1>1, <1>3, <3>2
      <4>2. stream[Done + 1].line \in Nat /\ stream[Done + 1].line > 2
        BY <4>1, FrameFacts
      <4> QED
        BY <3>2, <4>2 DEF Bound
    <3> QED
      BY <3>1, <3>2 DEF Bound
  <2> QED
    BY <1>2, <2>1, DecoderAssumption DEF Counts
<1>9. NeverStuck
  BY <1>2 DEF NeverStuck, BufferIsBounded, SteadyNeverStalls, WaitsOnlyForBytes
<1>10. Abstract!Init
  BY <1>1, <1>2 DEF Abstract!Init
<1> QED
  BY <1>4, <1>5, <1>6, <1>7, <1>8, <1>9, <1>10 DEF IInv

\* Every step keeps the invariant, and is one of OpStream or leaves it alone.
LEMMA NextInv == ASSUME IInv, [Next]_vars PROVE IInv' /\ AbstractStep
<1>1. CASE UNCHANGED vars
  <2>1. UNCHANGED <<framed, stream, got, pos, status, last_bytes_read, header_len, payload_len,
                    message, pc, ops>>
    BY <1>1 DEF vars
  <2>2. \A i : Start(i)' = Start(i)
    BY <2>1, SameStream
  <2>3. TypeOK' /\ Order' /\ Done' = Done
    BY <2>1 DEF IInv, TypeOK, Order, Done
  <2>4. Reads' /\ Counts'
    BY <2>1, <2>2, <2>3 DEF IInv, Reads, Counts, Steady, Bound
  <2>5. Places'
    <3>1. Start(Done + 1)' = Start(Done + 1) /\ (InMessage => InMessage')
      BY <2>1, <2>2, <2>3 DEF InMessage
    <3> QED
      BY <2>1, <3>1 DEF IInv, Places
  <2>6. NeverStuck'
    BY <2>1, <2>2
       DEF IInv, NeverStuck, BufferIsBounded, SteadyNeverStalls, WaitsOnlyForBytes, Buffered
  <2> QED
    BY <2>1, <2>3, <2>4, <2>5, <2>6 DEF IInv, AbstractStep
<1> QED
  BY <1>1, FastOkInv, NoProgressInv, NoLineInv, HeadTooLongInv, ControlOpInv, MessageHeadInv,
     InvalidLineInv, IncompleteInv, DecodeHeadersInv, InvalidHeadersInv, DecodePayloadInv,
     NextMessageInv, ReadSomeInv
     DEF Next, Decode

\* For any frames and limits: decode never takes out a byte that was not read
\* (the slices of decoder/mod.rs would panic); a connection whose read buffer
\* grows is one in which a head or a body within its limits is not complete; and
\* without an -ERR or an INFO in between no complete op waits for bytes
\* (decode's None, poll_read_next).
THEOREM DecoderKeepsUp == Spec => []DecoderInv
<1>1. Init => IInv
  BY InitInv
<1>2. IInv /\ [Next]_vars => IInv'
  BY NextInv
<1>3. IInv => DecoderInv
  BY DEF IInv, DecoderInv
<1> QED
  BY <1>1, <1>2, <1>3, PTL DEF Spec

\* For any frames, limits and ways in which the bytes are cut: the decoder
\* implements OpStream.  It returns the ops of the stream in order, each once,
\* and fails only at one that is malformed or too long.
THEOREM DecoderReadsTheStream == Spec => ReadsTheStream
<1>1. Init => IInv /\ Abstract!Init
  BY InitInv
<1>2. IInv /\ [Next]_vars => IInv' /\ [Abstract!Next]_(Abstract!vars)
  BY NextInv DEF AbstractStep, Abstract!vars
<1> QED
  BY <1>1, <1>2, PTL DEF Spec, ReadsTheStream, Abstract!Spec

-----------------------------------------------------------------------------
(***************************************************************************)
(* The encoder: the bytes of some pieces.                                  *)
(***************************************************************************)
Bytes == Seq(Nat)
Pieces == Seq(Bytes)

LEMMA Associative == \A a, b, c \in Bytes : (a \o b) \o c = a \o (b \o c)
BY ConcatAssociative DEF Bytes

LEMMA ConcatType == \A a, b \in Bytes : a \o b \in Bytes
BY ConcatProperties DEF Bytes

-----------------------------------------------------------------------------
(***************************************************************************)
(* The bytes of some pieces.                                               *)
(***************************************************************************)
\* What FlattenSeq defines: the bytes of the first i pieces.
Joins(f, s) == f = [i \in 1..Len(s) |-> IF i = 1 THEN s[i] ELSE f[i - 1] \o s[i]]

LEMMA JoinsExtend ==
    ASSUME NEW s \in Pieces, NEW x \in Bytes, NEW f, Joins(f, s)
    PROVE  Joins([i \in 1..Len(s) + 1 |->
                     IF i <= Len(s) THEN f[i] ELSE IF s = <<>> THEN x ELSE f[Len(s)] \o x],
                 Append(s, x))
<1> DEFINE N == Len(s)
           t == Append(s, x)
           last == IF s = <<>> THEN x ELSE f[Len(s)] \o x
           g == [i \in 1..N + 1 |-> IF i <= N THEN f[i] ELSE last]
<1>1. N \in Nat /\ Len(t) = N + 1 /\ (\A i \in 1..N : t[i] = s[i]) /\ t[N + 1] = x
  BY AppendProperties, LenProperties DEF Pieces
<1>2. (s = <<>>) <=> (N = 0)
  BY EmptySeq DEF Pieces
<1>3. \A i \in 1..N : f[i] = IF i = 1 THEN s[i] ELSE f[i - 1] \o s[i]
  BY DEF Joins
<1>4. last = IF N + 1 = 1 THEN x ELSE f[N] \o x
  BY <1>1, <1>2
<1> HIDE DEF N, t, last
<1>5. (\A i \in 1..N : g[i] = f[i]) /\ g[N + 1] = last
  BY <1>1
<1> HIDE DEF g
<1>6. ASSUME NEW i \in 1..N + 1 PROVE g[i] = IF i = 1 THEN t[i] ELSE g[i - 1] \o t[i]
  <2>1. CASE i \in 1..N
    <3>1. i = 1 \/ i - 1 \in 1..N
      BY <1>1, <2>1
    <3> QED
      BY <1>1, <1>3, <1>5, <2>1, <3>1
  <2>2. CASE i = N + 1
    <3>1. i # 1 => i - 1 = N /\ N \in 1..N
      BY <1>1, <2>2
    <3>2. i = 1 <=> N + 1 = 1
      BY <2>2
    <3> QED
      BY <1>1, <1>4, <1>5, <2>2, <3>1, <3>2
  <2> QED
    BY <1>1, <2>1, <2>2
<1>7. g = [i \in 1..N + 1 |-> g[i]]
  BY DEF g
<1>8. g = [i \in 1..N + 1 |-> IF i = 1 THEN t[i] ELSE g[i - 1] \o t[i]]
  BY <1>6, <1>7
<1>9. Joins(g, t)
  BY <1>1, <1>8 DEF Joins
<1> QED
  BY <1>9 DEF g, N, t, last

LEMMA JoinsExist == \A s \in Pieces : \E f : Joins(f, s)
<1> DEFINE S == {n \in Nat : \A s \in Pieces : Len(s) = n => \E f : Joins(f, s)}
<1>1. 0 \in S
  <2>1. ASSUME NEW s \in Pieces, Len(s) = 0 PROVE \E f : Joins(f, s)
    <3> DEFINE f == [i \in 1..Len(s) |-> 0]
    <3>1. \A i \in 1..Len(s) : FALSE
      BY <2>1
    <3>2. f = [i \in 1..Len(s) |-> IF i = 1 THEN s[i] ELSE f[i - 1] \o s[i]]
      BY <3>1
    <3> QED
      BY <3>2 DEF Joins
  <2> QED
    BY <2>1
<1>2. ASSUME NEW n \in Nat, n \in S PROVE n + 1 \in S
  <2>1. ASSUME NEW s \in Pieces, Len(s) = n + 1 PROVE \E f : Joins(f, s)
    <3>1. s # <<>>
      BY <2>1
    <3>2. PICK r \in Pieces, x \in Bytes : s = Append(r, x)
      BY <3>1, SequenceEmptyOrAppend DEF Pieces
    <3>3. Len(r) = n
      BY <2>1, <3>2, AppendProperties, LenProperties DEF Pieces
    <3>4. PICK f : Joins(f, r)
      BY <1>2, <3>3
    <3> QED
      BY <3>2, <3>4, JoinsExtend
  <2> QED
    BY <2>1
<1> HIDE DEF S
<1>3. Nat \subseteq S
  BY <1>1, <1>2, SetInduction
<1>4. \A s \in Pieces : Len(s) \in S
  BY <1>3, LenProperties DEF Pieces
<1> QED
  BY <1>4 DEF S

\* There is one such function.
LEMMA JoinsUnique ==
    ASSUME NEW s \in Pieces, NEW f, Joins(f, s), NEW g, Joins(g, s)
    PROVE  f = g
<1> DEFINE N == Len(s)
           S == {n \in Nat : n + 1 \in 1..N => f[n + 1] = g[n + 1]}
<1>1. N \in Nat
  BY LenProperties DEF Pieces
<1>2. \A i \in 1..N : /\ f[i] = IF i = 1 THEN s[i] ELSE f[i - 1] \o s[i]
                      /\ g[i] = IF i = 1 THEN s[i] ELSE g[i - 1] \o s[i]
  BY DEF Joins
<1>3. f = [i \in 1..N |-> f[i]] /\ g = [i \in 1..N |-> g[i]]
  BY DEF Joins
<1> HIDE DEF N
<1>4. 0 \in S
  BY <1>2
<1>5. ASSUME NEW n \in Nat, n \in S PROVE n + 1 \in S
  <2>1. SUFFICES ASSUME n + 1 + 1 \in 1..N PROVE f[n + 1 + 1] = g[n + 1 + 1]
    OBVIOUS
  <2>2. n + 1 \in 1..N /\ n + 1 + 1 # 1 /\ n + 1 + 1 - 1 = n + 1
    BY <1>1, <2>1
  <2>3. f[n + 1] = g[n + 1]
    BY <1>5, <2>2
  <2> QED
    BY <1>2, <2>1, <2>2, <2>3
<1> HIDE DEF S
<1>6. Nat \subseteq S
  BY <1>4, <1>5, SetInduction
<1>7. ASSUME NEW i \in 1..N PROVE f[i] = g[i]
  <2>1. i - 1 \in S /\ i - 1 + 1 = i
    BY <1>1, <1>6
  <2> QED
    BY <1>7, <2>1 DEF S
<1> QED
  BY <1>3, <1>7

LEMMA FlattenIs ==
    ASSUME NEW s \in Pieces, s # <<>>, NEW f, Joins(f, s)
    PROVE  FlattenSeq(s) = f[Len(s)]
<1>1. Len(s) # 0
  BY EmptySeq DEF Pieces
<1>2. FlattenSeq(s) = (CHOOSE g : Joins(g, s))[Len(s)]
  BY <1>1 DEF FlattenSeq, Joins
<1>3. Joins(CHOOSE g : Joins(g, s), s)
  OBVIOUS
<1>4. (CHOOSE g : Joins(g, s)) = f
  BY <1>3, JoinsUnique
<1> QED
  BY <1>2, <1>4

LEMMA FlattenEmpty == FlattenSeq(<<>>) = <<>>
BY DEF FlattenSeq

\* One piece more.
LEMMA FlattenAppend ==
    ASSUME NEW s \in Pieces, NEW x \in Bytes
    PROVE  /\ Append(s, x) \in Pieces
           /\ FlattenSeq(Append(s, x)) = IF s = <<>> THEN x ELSE FlattenSeq(s) \o x
<1>1. PICK f : Joins(f, s)
  BY JoinsExist
<1> DEFINE g == [i \in 1..Len(s) + 1 |->
                    IF i <= Len(s) THEN f[i] ELSE IF s = <<>> THEN x ELSE f[Len(s)] \o x]
<1>2. Joins(g, Append(s, x))
  BY <1>1, JoinsExtend
<1>3. Append(s, x) \in Pieces /\ Append(s, x) # <<>> /\ Len(Append(s, x)) = Len(s) + 1
      /\ Len(s) \in Nat
  BY AppendProperties, LenProperties DEF Pieces
<1>4. g[Len(s) + 1] = IF s = <<>> THEN x ELSE f[Len(s)] \o x
  BY <1>3
<1> HIDE DEF g
<1>5. FlattenSeq(Append(s, x)) = g[Len(s) + 1]
  BY <1>2, <1>3, FlattenIs
<1>6. s # <<>> => FlattenSeq(s) = f[Len(s)]
  BY <1>1, FlattenIs
<1> QED
  BY <1>3, <1>4, <1>5, <1>6

\* The bytes of the pieces are those of the first ones, and then of the others.
LEMMA FlattenType == \A s \in Pieces : FlattenSeq(s) \in Bytes
<1> DEFINE S == {n \in Nat : \A s \in Pieces : Len(s) = n => FlattenSeq(s) \in Bytes}
<1>1. 0 \in S
  <2>1. \A s \in Pieces : Len(s) = 0 => s = <<>>
    BY EmptySeq DEF Pieces
  <2>2. <<>> \in Bytes
    BY EmptySeq DEF Bytes
  <2> QED
    BY <2>1, <2>2, FlattenEmpty
<1>2. ASSUME NEW n \in Nat, n \in S PROVE n + 1 \in S
  <2>1. ASSUME NEW s \in Pieces, Len(s) = n + 1 PROVE FlattenSeq(s) \in Bytes
    <3>1. s # <<>>
      BY <2>1
    <3>2. PICK r \in Pieces, x \in Bytes : s = Append(r, x)
      BY <3>1, SequenceEmptyOrAppend DEF Pieces
    <3>3. Len(r) = n
      BY <2>1, <3>2, AppendProperties, LenProperties DEF Pieces
    <3>4. FlattenSeq(r) \in Bytes
      BY <1>2, <3>3
    <3>5. FlattenSeq(r) \o x \in Bytes
      BY <3>4, ConcatProperties DEF Bytes
    <3> QED
      BY <3>2, <3>5, FlattenAppend
  <2> QED
    BY <2>1
<1> HIDE DEF S
<1>3. Nat \subseteq S
  BY <1>1, <1>2, SetInduction
<1>4. \A s \in Pieces : Len(s) \in S
  BY <1>3, LenProperties DEF Pieces
<1> QED
  BY <1>4 DEF S

LEMMA FlattenConcat ==
    ASSUME NEW s \in Pieces
    PROVE  \A t \in Pieces : /\ s \o t \in Pieces
                             /\ FlattenSeq(s \o t) = FlattenSeq(s) \o FlattenSeq(t)
<1> DEFINE Joined(t) == FlattenSeq(s \o t) = FlattenSeq(s) \o FlattenSeq(t)
           S == {n \in Nat : \A t \in Pieces : Len(t) = n => Joined(t)}
<1>1. FlattenSeq(s) \in Bytes
  BY FlattenType
<1>2. 0 \in S
  <2>1. \A t \in Pieces : Len(t) = 0 => t = <<>>
    BY EmptySeq DEF Pieces
  <2>2. s \o <<>> = s /\ FlattenSeq(s) \o <<>> = FlattenSeq(s)
    BY <1>1, ConcatEmptySeq DEF Pieces, Bytes
  <2> QED
    BY <2>1, <2>2, FlattenEmpty
<1>3. ASSUME NEW n \in Nat, n \in S PROVE n + 1 \in S
  <2>1. ASSUME NEW t \in Pieces, Len(t) = n + 1 PROVE Joined(t)
    <3>1. t # <<>>
      BY <2>1
    <3>2. PICK r \in Pieces, x \in Bytes : t = Append(r, x)
      BY <3>1, SequenceEmptyOrAppend DEF Pieces
    <3>3. Len(r) = n
      BY <2>1, <3>2, AppendProperties, LenProperties DEF Pieces
    <3>4. Joined(r)
      BY <1>3, <3>3
    <3>5. s \o r \in Pieces /\ <<x>> \in Pieces
      BY ConcatProperties DEF Pieces
    <3>6. s \o t = Append(s \o r, x)
      <4>1. t = r \o <<x>> /\ Append(s \o r, x) = (s \o r) \o <<x>>
        BY <3>2, <3>5, AppendIsConcat DEF Pieces
      <4> QED
        BY <3>5, <4>1, ConcatAssociative DEF Pieces
    <3>7. /\ FlattenSeq(t) = IF r = <<>> THEN x ELSE FlattenSeq(r) \o x
          /\ FlattenSeq(s \o t) = IF s \o r = <<>> THEN x ELSE FlattenSeq(s \o r) \o x
      BY <3>2, <3>5, <3>6, FlattenAppend
    <3>8. (s \o r = <<>>) <=> (s = <<>> /\ r = <<>>)
      BY ConcatEqualIffEmpty DEF Pieces
    <3>9. FlattenSeq(r) \in Bytes /\ <<>> \in Bytes /\ <<>> \o x = x
      BY FlattenType, EmptySeq, ConcatEmptySeq DEF Bytes
    <3>10. (FlattenSeq(s) \o FlattenSeq(r)) \o x = FlattenSeq(s) \o (FlattenSeq(r) \o x)
      BY <1>1, <3>9, Associative
    <3>11. FlattenSeq(s \o r) = FlattenSeq(s) \o FlattenSeq(r)
      BY <3>4
    <3>12. CASE r = <<>>
      <4>1. s \o r = s /\ FlattenSeq(t) = x
        BY <3>7, <3>12, ConcatEmptySeq DEF Pieces
      <4> QED
        BY <3>7, <3>8, <3>9, <3>12, <4>1, FlattenEmpty
    <3>13. CASE r # <<>>
      BY <3>7, <3>8, <3>10, <3>11, <3>13
    <3> QED
      BY <3>12, <3>13
  <2> QED
    BY <2>1
<1> HIDE DEF S
<1>4. Nat \subseteq S
  BY <1>2, <1>3, SetInduction
<1>5. ASSUME NEW t \in Pieces PROVE Joined(t)
  <2>1. Len(t) \in S
    BY <1>4, LenProperties DEF Pieces
  <2> QED
    BY <2>1 DEF S
<1>6. \A t \in Pieces : s \o t \in Pieces
  BY ConcatProperties DEF Pieces
<1> QED
  BY <1>5, <1>6

LEMMA FlattenOne ==
    ASSUME NEW x \in Bytes
    PROVE  <<x>> \in Pieces /\ FlattenSeq(<<x>>) = x
<1>1. <<>> \in Pieces /\ Append(<<>>, x) = <<x>>
  BY EmptySeq DEF Pieces
<1> QED
  BY <1>1, FlattenAppend

-----------------------------------------------------------------------------
(***************************************************************************)
(* What is left when the first bytes are taken.                            *)
(***************************************************************************)
Take(s, n) == SubSeq(s, 1, n)
Drop(s, n) == SubSeq(s, n + 1, Len(s))

LEMMA TakeDropType ==
    ASSUME NEW s \in Bytes, NEW n \in 0..Len(s)
    PROVE  /\ Take(s, n) \in Bytes /\ Len(Take(s, n)) = n
           /\ \A i \in 1..n : Take(s, n)[i] = s[i]
           /\ Drop(s, n) \in Bytes /\ Len(Drop(s, n)) = Len(s) - n
           /\ \A i \in 1..Len(s) - n : Drop(s, n)[i] = s[n + i]
<1> DEFINE N == Len(s)
<1>1. N \in Nat /\ \A i \in 1..N : s[i] \in Nat
  BY LenProperties, ElementOfSeq DEF Bytes
<1>2. n \in 0..N /\ Drop(s, n) = SubSeq(s, n + 1, N)
  BY DEF Drop
<1> HIDE DEF N
<1>3. /\ n \in Nat /\ n \in Int /\ n + 1 \in Int /\ N \in Int /\ 1 \in Int
      /\ \A i \in 1..n : i \in 1..N
      /\ \A i \in n + 1..N : i \in 1..N
  BY <1>1, <1>2
<1>4. /\ Take(s, n) \in Bytes /\ Len(Take(s, n)) = n
      /\ \A i \in 1..n : Take(s, n)[i] = s[i]
  <2>1. /\ SubSeq(s, 1, n) \in Seq(Nat)
        /\ Len(SubSeq(s, 1, n)) = IF 1 <= n THEN n - 1 + 1 ELSE 0
        /\ \A i \in 1..n - 1 + 1 : SubSeq(s, 1, n)[i] = s[1 + i - 1]
    BY <1>1, <1>3, SubSeqProperties
  <2>2. n - 1 + 1 = n /\ (~(1 <= n) => n = 0) /\ \A i \in 1..n : 1 + i - 1 = i
    BY <1>3
  <2> QED
    BY <2>1, <2>2 DEF Take, Bytes
<1>5. /\ Drop(s, n) \in Bytes /\ Len(Drop(s, n)) = N - n
      /\ \A i \in 1..N - n : Drop(s, n)[i] = s[n + i]
  <2>1. /\ SubSeq(s, n + 1, N) \in Seq(Nat)
        /\ Len(SubSeq(s, n + 1, N)) = IF n + 1 <= N THEN N - (n + 1) + 1 ELSE 0
        /\ \A i \in 1..N - (n + 1) + 1 : SubSeq(s, n + 1, N)[i] = s[n + 1 + i - 1]
    BY <1>1, <1>3, SubSeqProperties
  <2>2. /\ N - (n + 1) + 1 = N - n /\ (~(n + 1 <= N) => N - n = 0)
        /\ \A i \in 1..N - n : n + 1 + i - 1 = n + i
    BY <1>1, <1>2
  <2> QED
    BY <1>2, <2>1, <2>2 DEF Bytes
<1> QED
  BY <1>4, <1>5 DEF N

\* Of two sequences, when the bytes taken are of the first one only.
LEMMA TakeDropFirst ==
    ASSUME NEW s \in Bytes, NEW t \in Bytes, NEW n \in 0..Len(s)
    PROVE  Take(s \o t, n) = Take(s, n) /\ Drop(s \o t, n) = Drop(s, n) \o t
<1> DEFINE L == Len(s)
           M == Len(t)
           u == s \o t
<1>1. /\ u \in Bytes /\ Len(u) = L + M /\ L \in Nat /\ M \in Nat
      /\ \A i \in 1..L + M : u[i] = IF i <= L THEN s[i] ELSE t[i - L]
  BY ConcatProperties, LenProperties DEF Bytes
<1>2. n \in 0..L
  OBVIOUS
<1>3. n \in 0..Len(u)
  BY <1>1, <1>2
<1>4. /\ Take(s, n) \in Bytes /\ Len(Take(s, n)) = n
      /\ \A i \in 1..n : Take(s, n)[i] = s[i]
      /\ Drop(s, n) \in Bytes /\ Len(Drop(s, n)) = L - n
      /\ \A i \in 1..L - n : Drop(s, n)[i] = s[n + i]
  BY TakeDropType
<1> DEFINE d == Drop(s, n)
<1>5. d \in Bytes /\ Len(d) = L - n /\ Len(t) = M /\ t \in Bytes
  BY <1>4
<1> HIDE DEF L, M, u, d
<1>6. /\ Take(u, n) \in Bytes /\ Len(Take(u, n)) = n
      /\ \A i \in 1..n : Take(u, n)[i] = u[i]
      /\ Drop(u, n) \in Bytes /\ Len(Drop(u, n)) = Len(u) - n
      /\ \A i \in 1..Len(u) - n : Drop(u, n)[i] = u[n + i]
  BY <1>1, <1>3, TakeDropType
<1>7. /\ Take(u, n) \in Bytes /\ Len(Take(u, n)) = n
      /\ \A i \in 1..n : Take(u, n)[i] = u[i]
      /\ Drop(u, n) \in Bytes /\ Len(Drop(u, n)) = L + M - n
      /\ \A i \in 1..L + M - n : Drop(u, n)[i] = u[n + i]
  BY <1>1, <1>6
<1>8. /\ d \o t \in Bytes /\ Len(d \o t) = Len(d) + Len(t)
      /\ \A i \in 1..Len(d) + Len(t) :
           (d \o t)[i] = IF i <= Len(d) THEN d[i] ELSE t[i - Len(d)]
  BY <1>5, ConcatProperties DEF Bytes
<1>9. /\ d \o t \in Bytes /\ Len(d \o t) = L - n + M
      /\ \A i \in 1..L - n + M : (d \o t)[i] = IF i <= L - n THEN d[i] ELSE t[i - (L - n)]
  BY <1>8, <1>5
<1>10. Take(u, n) = Take(s, n)
  <2>1. \A i \in 1..n : i \in 1..L + M /\ i <= L
    BY <1>1, <1>2
  <2>2. \A i \in 1..n : Take(u, n)[i] = Take(s, n)[i]
    BY <1>1, <1>4, <1>7, <2>1
  <2> QED
    BY <1>4, <1>7, <2>2, SeqEqual DEF Bytes
<1>11. Drop(u, n) = d \o t
  <2>1. L + M - n = L - n + M
    BY <1>1, <1>2
  <2>2. ASSUME NEW i \in 1..L + M - n PROVE Drop(u, n)[i] = (d \o t)[i]
    <3>1. n + i \in 1..L + M /\ i \in 1..L - n + M
          /\ (n + i <= L <=> i <= L - n) /\ n + i - L = i - (L - n)
          /\ (i <= L - n => i \in 1..L - n)
      BY <1>1, <1>2
    <3>2. Drop(u, n)[i] = IF n + i <= L THEN s[n + i] ELSE t[n + i - L]
      BY <1>1, <1>7, <3>1
    <3>3. (d \o t)[i] = IF i <= L - n THEN d[i] ELSE t[i - (L - n)]
      BY <1>9, <3>1
    <3>4. i <= L - n => d[i] = s[n + i]
      BY <1>4, <3>1 DEF d
    <3> QED
      BY <3>1, <3>2, <3>3, <3>4
  <2> QED
    BY <1>7, <1>9, <2>1, <2>2, SeqEqual DEF Bytes
<1> QED
  BY <1>10, <1>11 DEF u, d

\* When all of the first one is.
LEMMA DropSecond ==
    ASSUME NEW s \in Bytes, NEW t \in Bytes, NEW n \in 0..Len(t)
    PROVE  Drop(s \o t, Len(s) + n) = Drop(t, n)
<1> DEFINE L == Len(s)
           M == Len(t)
           u == s \o t
<1>1. /\ u \in Bytes /\ Len(u) = L + M /\ L \in Nat /\ M \in Nat
      /\ \A i \in 1..L + M : u[i] = IF i <= L THEN s[i] ELSE t[i - L]
  BY ConcatProperties, LenProperties DEF Bytes
<1>2. n \in 0..M
  OBVIOUS
<1>3. L + n \in 0..Len(u)
  BY <1>1, <1>2
<1>4. /\ Drop(t, n) \in Bytes /\ Len(Drop(t, n)) = M - n
      /\ \A i \in 1..M - n : Drop(t, n)[i] = t[n + i]
  BY TakeDropType
<1> HIDE DEF L, M, u
<1>5. /\ Drop(u, L + n) \in Bytes /\ Len(Drop(u, L + n)) = Len(u) - (L + n)
      /\ \A i \in 1..Len(u) - (L + n) : Drop(u, L + n)[i] = u[L + n + i]
  BY <1>1, <1>3, TakeDropType
<1>6. /\ Drop(u, L + n) \in Bytes /\ Len(Drop(u, L + n)) = L + M - (L + n)
      /\ \A i \in 1..L + M - (L + n) : Drop(u, L + n)[i] = u[L + n + i]
  BY <1>1, <1>5
<1>7. L + M - (L + n) = M - n
  BY <1>1, <1>2
<1>8. ASSUME NEW i \in 1..M - n PROVE Drop(u, L + n)[i] = Drop(t, n)[i]
  <2>1. L + n + i \in 1..L + M /\ ~(L + n + i <= L) /\ L + n + i - L = n + i
        /\ i \in 1..L + M - (L + n)
    BY <1>1, <1>2, <1>7
  <2>2. Drop(u, L + n)[i] = u[L + n + i] /\ Drop(t, n)[i] = t[n + i]
    BY <1>4, <1>6, <2>1
  <2>3. u[L + n + i] = t[L + n + i - L]
    BY <1>1, <2>1
  <2> QED
    BY <2>1, <2>2, <2>3
<1>9. Drop(u, L + n) = Drop(t, n)
  BY <1>4, <1>6, <1>7, <1>8, SeqEqual DEF Bytes
<1> QED
  BY <1>9 DEF u, L

LEMMA DropEnds ==
    ASSUME NEW s \in Bytes
    PROVE  Drop(s, 0) = s /\ Drop(s, Len(s)) = <<>>
<1>1. Len(s) \in Nat
  BY LenProperties DEF Bytes
<1>2. Drop(s, 0) = s
  BY SubSeqFull DEF Drop, Bytes
<1>3. Drop(s, Len(s)) = <<>>
  BY <1>1, SubSeqEmpty DEF Drop
<1> QED
  BY <1>2, <1>3

-----------------------------------------------------------------------------
(***************************************************************************)
(* The write buffer, as the record that encode works on.                   *)
(***************************************************************************)
BytesOf(pieces, rest) == FlattenSeq(pieces) \o rest

\* BufList counts its bytes and has no empty piece.
Whole(pieces, len) ==
    /\ pieces \in Pieces
    /\ len = Len(FlattenSeq(pieces))
    /\ \A k \in 1..Len(pieces) : pieces[k] # <<>>

Buffers == [bufs : Pieces, len : Nat, flat : Bytes]

LEMMA BytesOfType ==
    ASSUME NEW b \in Pieces, NEW f \in Bytes
    PROVE  /\ BytesOf(b, f) \in Bytes
           /\ Len(BytesOf(b, f)) = Len(FlattenSeq(b)) + Len(f)
<1>1. FlattenSeq(b) \in Bytes
  BY FlattenType
<1> QED
  BY <1>1, ConcatProperties DEF BytesOf, Bytes

LEMMA BytesOfMore ==
    ASSUME NEW b \in Pieces, NEW f \in Bytes, NEW x \in Bytes
    PROVE  BytesOf(b, f \o x) = BytesOf(b, f) \o x
<1>1. FlattenSeq(b) \in Bytes
  BY FlattenType
<1> QED
  BY <1>1, Associative DEF BytesOf

LEMMA SmallWriteKeeps ==
    ASSUME NEW e \in Buffers, Whole(e.bufs, e.len), NEW x \in Bytes
    PROVE  /\ SmallWrite(e, x) \in Buffers
           /\ Whole(SmallWrite(e, x).bufs, SmallWrite(e, x).len)
           /\ BytesOf(SmallWrite(e, x).bufs, SmallWrite(e, x).flat) = BytesOf(e.bufs, e.flat) \o x
<1>1. e.bufs \in Pieces /\ e.len \in Nat /\ e.flat \in Bytes
  BY DEF Buffers
<1>2. e.flat \o x \in Bytes
  BY <1>1, ConcatProperties DEF Bytes
<1> DEFINE d == SmallWrite(e, x)
<1>3. d.bufs = e.bufs /\ d.len = e.len /\ d.flat = e.flat \o x /\ d \in Buffers
  BY <1>1, <1>2 DEF SmallWrite, Buffers
<1> QED
  BY <1>1, <1>3, BytesOfMore

LEMMA WholeConcat ==
    ASSUME NEW b, NEW l, Whole(b, l), NEW c, NEW m, Whole(c, m)
    PROVE  Whole(b \o c, l + m) /\ FlattenSeq(b \o c) = FlattenSeq(b) \o FlattenSeq(c)
<1>1. b \in Pieces /\ c \in Pieces
  BY DEF Whole
<1>2. b \o c \in Pieces /\ FlattenSeq(b \o c) = FlattenSeq(b) \o FlattenSeq(c)
  BY <1>1, FlattenConcat
<1>3. Len(FlattenSeq(b) \o FlattenSeq(c)) = Len(FlattenSeq(b)) + Len(FlattenSeq(c))
  BY <1>1, FlattenType, ConcatProperties DEF Bytes
<1>4. ASSUME NEW k \in 1..Len(b \o c) PROVE (b \o c)[k] # <<>>
  <2>1. /\ Len(b) \in Nat /\ Len(c) \in Nat /\ Len(b \o c) = Len(b) + Len(c)
        /\ \A i \in 1..Len(b) + Len(c) : (b \o c)[i] = IF i <= Len(b) THEN b[i] ELSE c[i - Len(b)]
    BY <1>1, ConcatProperties, LenProperties DEF Pieces
  <2>2. (b \o c)[k] = IF k <= Len(b) THEN b[k] ELSE c[k - Len(b)]
    BY <2>1
  <2>3. IF k <= Len(b) THEN k \in 1..Len(b) ELSE k - Len(b) \in 1..Len(c)
    BY <2>1
  <2> QED
    BY <2>2, <2>3 DEF Whole
<1> QED
  BY <1>1, <1>2, <1>3, <1>4 DEF Whole

LEMMA WholeEmpty == Whole(<<>>, 0)
<1>1. <<>> \in Pieces /\ Len(<<>>) = 0
  BY EmptySeq DEF Pieces
<1> QED
  BY <1>1, FlattenEmpty DEF Whole

LEMMA WholeOne ==
    ASSUME NEW x \in Bytes, x # <<>>
    PROVE  Whole(<<x>>, Len(x))
<1>1. \A k \in 1..Len(<<x>>) : <<x>>[k] = x
  OBVIOUS
<1> QED
  BY <1>1, FlattenOne DEF Whole

LEMMA WritePayloadKeeps ==
    ASSUME NEW e \in Buffers, Whole(e.bufs, e.len), NEW x \in Bytes
    PROVE  /\ WritePayload(e, x) \in Buffers
           /\ Whole(WritePayload(e, x).bufs, WritePayload(e, x).len)
           /\ BytesOf(WritePayload(e, x).bufs, WritePayload(e, x).flat)
              = BytesOf(e.bufs, e.flat) \o x
<1>1. e.bufs \in Pieces /\ e.len \in Nat /\ e.flat \in Bytes
  BY DEF Buffers
<1>2. Len(x) \in Nat /\ Len(e.flat) \in Nat
  BY <1>1, LenProperties DEF Bytes
<1>3. CASE x = <<>>
  <2>1. WritePayload(e, x) = e
    BY <1>3 DEF WritePayload
  <2>2. BytesOf(e.bufs, e.flat) \o x = BytesOf(e.bufs, e.flat)
    BY <1>1, <1>3, BytesOfType, ConcatEmptySeq DEF Bytes
  <2> QED
    BY <2>1, <2>2
<1>4. CASE x # <<>> /\ Len(x) < Flatten
  <2>1. WritePayload(e, x) = SmallWrite(e, x)
    BY <1>4 DEF WritePayload, SmallWrite
  <2> QED
    BY <2>1, SmallWriteKeeps
<1>5. CASE x # <<>> /\ ~(Len(x) < Flatten)
  <2> DEFINE split == IF e.flat = <<>> THEN <<>> ELSE <<e.flat>>
             b == e.bufs \o split \o <<x>>
             l == e.len + Len(e.flat) + Len(x)
             d == WritePayload(e, x)
  <2>1. d = [bufs |-> b, len |-> l, flat |-> <<>>]
    BY <1>5 DEF WritePayload
  <2>2. Whole(split, Len(e.flat)) /\ FlattenSeq(split) = e.flat
    <3>1. CASE e.flat = <<>>
      BY <3>1, WholeEmpty, FlattenEmpty
    <3>2. CASE e.flat # <<>>
      BY <1>1, <3>2, WholeOne, FlattenOne
    <3> QED
      BY <3>1, <3>2
  <2>3. Whole(<<x>>, Len(x)) /\ FlattenSeq(<<x>>) = x
    BY <1>5, WholeOne, FlattenOne
  <2> HIDE DEF split
  <2>4. /\ Whole(e.bufs \o split, e.len + Len(e.flat))
        /\ FlattenSeq(e.bufs \o split) = FlattenSeq(e.bufs) \o e.flat
    BY <2>2, WholeConcat
  <2>5. /\ Whole((e.bufs \o split) \o <<x>>, (e.len + Len(e.flat)) + Len(x))
        /\ FlattenSeq((e.bufs \o split) \o <<x>>) = FlattenSeq(e.bufs \o split) \o FlattenSeq(<<x>>)
    BY <2>3, <2>4, WholeConcat
  <2>6. Whole(b, l) /\ FlattenSeq(b) = (FlattenSeq(e.bufs) \o e.flat) \o x
    BY <2>3, <2>4, <2>5
  <2>7. l \in Nat /\ <<>> \in Bytes /\ b \in Pieces
    <3>1. l \in Nat
      BY <1>1, <1>2
    <3>2. <<>> \in Bytes
      BY EmptySeq DEF Bytes
    <3>3. b \in Pieces
      BY <2>6 DEF Whole
    <3> QED
      BY <3>1, <3>2, <3>3
  <2> HIDE DEF b, l
  <2>8. d \in Buffers /\ d.bufs = b /\ d.len = l /\ d.flat = <<>>
    BY <2>1, <2>7 DEF Buffers
  <2>9. BytesOf(b, <<>>) = FlattenSeq(b)
    BY <2>7, FlattenType, ConcatEmptySeq DEF BytesOf, Bytes
  <2>10. BytesOf(b, <<>>) = BytesOf(e.bufs, e.flat) \o x
    BY <2>6, <2>9 DEF BytesOf
  <2> QED
    BY <2>6, <2>8, <2>10
<1> QED
  BY <1>3, <1>4, <1>5

\* The bytes from a to b, of those that follow the ones enqueued before.
Fresh(a, b) == [i \in 1..b - a |-> seen + a + i]

LEMMA FreshType ==
    ASSUME seen \in Nat, NEW a \in Nat, NEW b \in Nat, a <= b
    PROVE  Fresh(a, b) \in Bytes /\ Len(Fresh(a, b)) = b - a
           /\ \A i \in 1..b - a : Fresh(a, b)[i] = seen + a + i
<1> DEFINE n == b - a
           f == Fresh(a, b)
<1>1. n \in Nat
  OBVIOUS
<1>2. f = [i \in 1..n |-> seen + a + i]
  BY DEF Fresh
<1> HIDE DEF n, f
<1>3. \A i \in 1..n : seen + a + i \in Nat
  BY <1>1
<1>4. f \in Seq(Nat)
  BY <1>1, <1>2, <1>3, IsASeq
<1>5. Len(f) = n
  BY <1>1, <1>2
<1> QED
  BY <1>2, <1>4, <1>5 DEF f, n, Bytes

LEMMA FreshConcat ==
    ASSUME seen \in Nat, NEW a \in Nat, NEW b \in Nat, NEW c \in Nat, a <= b, b <= c
    PROVE  Fresh(a, b) \o Fresh(b, c) = Fresh(a, c)
<1> DEFINE f == Fresh(a, b)
           g == Fresh(b, c)
           h == Fresh(a, c)
<1>1. a <= c
  OBVIOUS
<1>2. /\ f \in Bytes /\ Len(f) = b - a /\ \A i \in 1..b - a : f[i] = seen + a + i
      /\ g \in Bytes /\ Len(g) = c - b /\ \A i \in 1..c - b : g[i] = seen + b + i
      /\ h \in Bytes /\ Len(h) = c - a /\ \A i \in 1..c - a : h[i] = seen + a + i
  BY <1>1, FreshType
<1> HIDE DEF f, g, h
<1>3. /\ f \o g \in Bytes /\ Len(f \o g) = Len(f) + Len(g)
      /\ \A i \in 1..Len(f) + Len(g) : (f \o g)[i] = IF i <= Len(f) THEN f[i] ELSE g[i - Len(f)]
  BY <1>2, ConcatProperties DEF Bytes
<1>4. Len(f) + Len(g) = c - a
  BY <1>2
<1>5. ASSUME NEW i \in 1..c - a PROVE (f \o g)[i] = h[i]
  <2>1. (f \o g)[i] = IF i <= b - a THEN f[i] ELSE g[i - (b - a)]
    BY <1>2, <1>3, <1>4
  <2>2. IF i <= b - a THEN i \in 1..b - a ELSE i - (b - a) \in 1..c - b
    OBVIOUS
  <2>3. (f \o g)[i] = IF i <= b - a THEN seen + a + i ELSE seen + b + (i - (b - a))
    BY <1>2, <2>1, <2>2
  <2>4. seen + b + (i - (b - a)) = seen + a + i
    OBVIOUS
  <2> QED
    BY <1>2, <2>3, <2>4
<1>6. f \o g = h
  BY <1>2, <1>3, <1>4, <1>5, SeqEqual DEF Bytes
<1> QED
  BY <1>6 DEF f, g, h

\* An op is its head, its payload and its terminator, behind all that waits.
LEMMA EncodeOpKeeps ==
    ASSUME seen \in Nat, NEW e \in Buffers, Whole(e.bufs, e.len), NEW p \in Nat
    PROVE  /\ EncodeOp(e, p) \in Buffers
           /\ Whole(EncodeOp(e, p).bufs, EncodeOp(e, p).len)
           /\ BytesOf(EncodeOp(e, p).bufs, EncodeOp(e, p).flat)
              = BytesOf(e.bufs, e.flat) \o Fresh(0, p + 2)
<1> DEFINE h == Fresh(0, 1)
           x == Fresh(1, 1 + p)
           z == Fresh(1 + p, 2 + p)
           d1 == SmallWrite(e, h)
           d2 == WritePayload(d1, x)
           d3 == SmallWrite(d2, z)
           was == BytesOf(e.bufs, e.flat)
<1>1. h \in Bytes /\ x \in Bytes /\ z \in Bytes
  BY FreshType
<1>2. EncodeOp(e, p) = d3
  BY DEF EncodeOp, Fresh
<1>3. (h \o x) \o z = Fresh(0, p + 2)
  <2> DEFINE m == 1 + p
             n == 2 + p
  <2>1. m \in Nat /\ n \in Nat /\ 0 <= 1 /\ 1 <= m /\ 0 <= m /\ m <= n /\ 0 \in Nat /\ 1 \in Nat
    OBVIOUS
  <2> HIDE DEF m, n
  <2>2. Fresh(0, 1) \o Fresh(1, m) = Fresh(0, m)
    BY <2>1, FreshConcat
  <2>3. Fresh(0, m) \o Fresh(m, n) = Fresh(0, n)
    BY <2>1, FreshConcat
  <2> USE DEF m, n
  <2>4. 2 + p = p + 2
    OBVIOUS
  <2> QED
    BY <2>2, <2>3, <2>4
<1>4. was \in Bytes
  BY BytesOfType DEF Buffers
<1> HIDE DEF h, x, z, was
<1>5. d1 \in Buffers /\ Whole(d1.bufs, d1.len) /\ BytesOf(d1.bufs, d1.flat) = was \o h
  BY <1>1, SmallWriteKeeps DEF was
<1> HIDE DEF d1
<1>6. d2 \in Buffers /\ Whole(d2.bufs, d2.len) /\ BytesOf(d2.bufs, d2.flat) = (was \o h) \o x
  BY <1>1, <1>5, WritePayloadKeeps
<1> HIDE DEF d2
<1>7. /\ d3 \in Buffers /\ Whole(d3.bufs, d3.len)
      /\ BytesOf(d3.bufs, d3.flat) = ((was \o h) \o x) \o z
  BY <1>1, <1>6, SmallWriteKeeps
<1>8. ((was \o h) \o x) \o z = was \o ((h \o x) \o z)
  <2>1. h \o x \in Bytes /\ was \o h \in Bytes
    BY <1>1, <1>4, ConcatType
  <2>2. (was \o h) \o x = was \o (h \o x)
    BY <1>1, <1>4, Associative
  <2>3. (was \o (h \o x)) \o z = was \o ((h \o x) \o z)
    BY <1>1, <1>4, <2>1, Associative
  <2> QED
    BY <2>2, <2>3
<1> QED
  BY <1>2, <1>3, <1>7, <1>8 DEF was

-----------------------------------------------------------------------------
(***************************************************************************)
(* What a write offers, and what it takes away.                            *)
(***************************************************************************)
\* Of a list of pieces, the first k and the others.
LEMMA SplitPieces ==
    ASSUME NEW b \in Pieces, NEW k \in 0..Len(b)
    PROVE  /\ SubSeq(b, 1, k) \in Pieces /\ SubSeq(b, k + 1, Len(b)) \in Pieces
           /\ Len(SubSeq(b, 1, k)) = k /\ Len(SubSeq(b, k + 1, Len(b))) = Len(b) - k
           /\ \A i \in 1..k : SubSeq(b, 1, k)[i] = b[i]
           /\ \A i \in 1..Len(b) - k : SubSeq(b, k + 1, Len(b))[i] = b[k + i]
           /\ b = SubSeq(b, 1, k) \o SubSeq(b, k + 1, Len(b))
           /\ FlattenSeq(b) = FlattenSeq(SubSeq(b, 1, k)) \o FlattenSeq(SubSeq(b, k + 1, Len(b)))
<1> DEFINE N == Len(b)
<1>1. N \in Nat /\ \A i \in 1..N : b[i] \in Bytes
  BY LenProperties, ElementOfSeq DEF Pieces
<1>2. k \in 0..N
  OBVIOUS
<1>3. b = SubSeq(b, 1, N)
  BY SubSeqFull DEF Pieces
<1>4. SubSeq(b, 1, k) \o SubSeq(b, k + 1, N) = SubSeq(b, 1, N)
  <2>1. 1 \in 1..Len(b) + 1 /\ k \in 1 - 1..Len(b) /\ Len(b) \in k..Len(b)
    BY <1>1, <1>2
  <2> QED
    BY <2>1, ConcatAdjacentSubSeq DEF Pieces
<1> HIDE DEF N
<1>5. /\ k \in Int /\ k + 1 \in Int /\ N \in Int /\ 1 \in Int
      /\ \A i \in 1..k : i \in 1..N
      /\ \A i \in k + 1..N : i \in 1..N
  BY <1>1, <1>2
<1>6. /\ SubSeq(b, 1, k) \in Pieces /\ Len(SubSeq(b, 1, k)) = k
      /\ \A i \in 1..k : SubSeq(b, 1, k)[i] = b[i]
  <2>1. /\ SubSeq(b, 1, k) \in Seq(Bytes)
        /\ Len(SubSeq(b, 1, k)) = IF 1 <= k THEN k - 1 + 1 ELSE 0
        /\ \A i \in 1..k - 1 + 1 : SubSeq(b, 1, k)[i] = b[1 + i - 1]
    BY <1>1, <1>5, SubSeqProperties
  <2>2. k - 1 + 1 = k /\ (~(1 <= k) => k = 0) /\ \A i \in 1..k : 1 + i - 1 = i
    BY <1>2
  <2> QED
    BY <2>1, <2>2 DEF Pieces
<1>7. /\ SubSeq(b, k + 1, N) \in Pieces /\ Len(SubSeq(b, k + 1, N)) = N - k
      /\ \A i \in 1..N - k : SubSeq(b, k + 1, N)[i] = b[k + i]
  <2>1. /\ SubSeq(b, k + 1, N) \in Seq(Bytes)
        /\ Len(SubSeq(b, k + 1, N)) = IF k + 1 <= N THEN N - (k + 1) + 1 ELSE 0
        /\ \A i \in 1..N - (k + 1) + 1 : SubSeq(b, k + 1, N)[i] = b[k + 1 + i - 1]
    BY <1>1, <1>5, SubSeqProperties
  <2>2. /\ N - (k + 1) + 1 = N - k /\ (~(k + 1 <= N) => N - k = 0)
        /\ \A i \in 1..N - k : k + 1 + i - 1 = k + i
    BY <1>1, <1>2
  <2> QED
    BY <2>1, <2>2 DEF Pieces
<1>8. FlattenSeq(b) = FlattenSeq(SubSeq(b, 1, k)) \o FlattenSeq(SubSeq(b, k + 1, N))
  <2> DEFINE front == SubSeq(b, 1, k)
             back == SubSeq(b, k + 1, N)
  <2>1. front \in Pieces /\ back \in Pieces /\ b = front \o back
    BY <1>3, <1>4, <1>6, <1>7 DEF N
  <2> HIDE DEF front, back
  <2>2. FlattenSeq(front \o back) = FlattenSeq(front) \o FlattenSeq(back)
    BY <2>1, FlattenConcat
  <2>3. FlattenSeq(b) = FlattenSeq(front) \o FlattenSeq(back)
    BY <2>1, <2>2
  <2> QED
    BY <2>3 DEF front, back
<1> QED
  BY <1>3, <1>4, <1>6, <1>7, <1>8 DEF N

\* A write offers bytes that wait, from the first one on.
LEMMA OfferedIsFirst ==
    ASSUME bufs \in Pieces, flat \in Bytes
    PROVE  Offered \in Bytes /\ \E r \in Bytes : BytesOf(bufs, flat) = Offered \o r
<1> DEFINE tail == IF flat = <<>> THEN <<>> ELSE <<flat>>
           pieces == bufs \o tail
<1>1. tail \in Pieces /\ FlattenSeq(tail) = flat
  <2>1. <<>> \in Pieces
    BY EmptySeq DEF Pieces
  <2> QED
    BY <2>1, FlattenOne, FlattenEmpty
<1>2. pieces \in Pieces /\ FlattenSeq(pieces) = BytesOf(bufs, flat)
  <2> HIDE DEF tail
  <2> QED
    BY <1>1, FlattenConcat DEF BytesOf
<1>3. CASE Len(Chunk) < Remaining /\ vectored
  <2>1. Offered = FlattenSeq(Vector) /\ Vector = IF Len(pieces) <= Slices THEN pieces
                                                 ELSE SubSeq(pieces, 1, Slices)
    BY <1>3 DEF Offered, Vector
  <2> HIDE DEF pieces
  <2>2. CASE Len(pieces) <= Slices
    <3>1. Offered = BytesOf(bufs, flat) /\ Offered \in Bytes
      BY <1>2, <2>1, <2>2, FlattenType
    <3>2. <<>> \in Bytes /\ Offered \o <<>> = Offered
      BY <3>1, EmptySeq, ConcatEmptySeq DEF Bytes
    <3> QED
      BY <3>1, <3>2
  <2>3. CASE ~(Len(pieces) <= Slices)
    <3>1. Len(pieces) \in Nat
      BY <1>2, LenProperties DEF Pieces
    <3>2. Slices \in 0..Len(pieces)
      BY <2>3, <3>1, EncoderAssumption
    <3> DEFINE rest == SubSeq(pieces, Slices + 1, Len(pieces))
    <3>3. Offered = FlattenSeq(SubSeq(pieces, 1, Slices))
      BY <2>1, <2>3
    <3>4. /\ SubSeq(pieces, 1, Slices) \in Pieces /\ rest \in Pieces
          /\ FlattenSeq(pieces) = Offered \o FlattenSeq(rest)
      BY <1>2, <3>2, <3>3, SplitPieces
    <3> HIDE DEF rest
    <3> QED
      BY <1>2, <3>3, <3>4, FlattenType
  <2> QED
    BY <2>2, <2>3
<1>4. CASE ~(Len(Chunk) < Remaining /\ vectored)
  <2>1. Offered = Chunk
    BY <1>4 DEF Offered
  <2>2. CASE bufs = <<>>
    <3>1. Chunk = flat /\ BytesOf(bufs, flat) = <<>> \o flat
      BY <2>2, FlattenEmpty DEF Chunk, BytesOf
    <3>2. <<>> \o flat = flat /\ flat \o <<>> = flat /\ <<>> \in Bytes
      BY EmptySeq, ConcatEmptySeq DEF Bytes
    <3> QED
      BY <2>1, <3>1, <3>2
  <2>3. CASE bufs # <<>>
    <3>1. Len(bufs) \in Nat /\ Len(bufs) # 0 /\ 1 \in 0..Len(bufs) /\ 1 \in 1..Len(bufs) /\ 1 \in 1..1
      BY <2>3, EmptySeq DEF Pieces
    <3>2. Chunk = bufs[1] /\ bufs[1] \in Bytes
      BY <2>3, <3>1, ElementOfSeq DEF Chunk, Pieces
    <3> DEFINE first == SubSeq(bufs, 1, 1)
               rest == SubSeq(bufs, 1 + 1, Len(bufs))
    <3>3. /\ first \in Pieces /\ rest \in Pieces /\ Len(first) = 1 /\ first[1] = bufs[1]
          /\ FlattenSeq(bufs) = FlattenSeq(first) \o FlattenSeq(rest)
      BY <3>1, SplitPieces
    <3> HIDE DEF first, rest
    <3>4. first = <<Chunk>>
      <4> DEFINE one == <<Chunk>>
      <4>1. one \in Seq(Bytes) /\ Len(one) = 1 /\ one[1] = Chunk
        BY <3>2
      <4> HIDE DEF one
      <4>2. \A i \in 1..1 : first[i] = one[i]
        BY <3>2, <3>3, <4>1
      <4>3. first = one
        BY <3>3, <4>1, <4>2, SeqEqual DEF Pieces
      <4> QED
        BY <4>3 DEF one
    <3>5. FlattenSeq(bufs) = Chunk \o FlattenSeq(rest) /\ FlattenSeq(rest) \in Bytes
      BY <3>2, <3>3, <3>4, FlattenOne, FlattenType
    <3> DEFINE f == FlattenSeq(rest)
    <3> HIDE DEF f
    <3>6. (Chunk \o f) \o flat = Chunk \o (f \o flat) /\ f \o flat \in Bytes
      BY <3>2, <3>5, Associative, ConcatType DEF f
    <3>7. BytesOf(bufs, flat) = Chunk \o (f \o flat)
      BY <3>5, <3>6 DEF BytesOf, f
    <3> QED
      BY <2>1, <3>2, <3>6, <3>7
  <2> QED
    BY <2>2, <2>3
<1> QED
  BY <1>3, <1>4

\* advance: whole pieces are popped, as many as fit.
LEMMA MostPieces ==
    ASSUME Whole(bufs, bufsLen), NEW n \in 0..bufsLen
    PROVE  \E k \in 0..Len(bufs) :
              /\ k = CHOOSE j \in {0} \cup Popped(n) : \A i \in {0} \cup Popped(n) : i <= j
              /\ Len(FlattenSeq(SubSeq(bufs, 1, k))) <= n
              /\ k + 1 \in 1..Len(bufs) => ~(Len(FlattenSeq(SubSeq(bufs, 1, k + 1))) <= n)
<1> DEFINE N == Len(bufs)
           gone == {0} \cup Popped(n)
           Most(j) == \A i \in gone : i <= j
<1>1. N \in Nat /\ n \in Nat
  <2>1. bufsLen \in Nat
    BY FlattenType, LenProperties DEF Whole, Bytes
  <2> QED
    BY <2>1, LenProperties DEF Whole, Pieces
<1>2. gone \subseteq 0..N
  BY <1>1 DEF Popped
<1>3. \E j \in gone : Most(j)
  <2> DEFINE D == {d \in Nat : (\A i \in gone : i <= d) => \E j \in gone : Most(j)}
  <2> HIDE DEF gone
  <2>1. 0 \in D
    <3>1. 0 \in gone
      BY DEF gone
    <3> QED
      BY <3>1
  <2>2. ASSUME NEW d \in Nat, d \in D PROVE d + 1 \in D
    <3>1. CASE d + 1 \in gone
      BY <3>1
    <3>2. CASE d + 1 \notin gone
      <4>1. ASSUME NEW i \in gone, i <= d + 1 PROVE i <= d
        <5>1. i # d + 1 /\ i \in Nat
          BY <1>1, <1>2, <3>2, <4>1
        <5> QED
          BY <4>1, <5>1
      <4> QED
        BY <2>2, <4>1
    <3> QED
      BY <3>1, <3>2
  <2> HIDE DEF D
  <2>3. N \in D
    BY <1>1, <2>1, <2>2, SetInduction
  <2>4. \A i \in gone : i <= N
    BY <1>1, <1>2
  <2> QED
    BY <2>3, <2>4 DEF D
<1> DEFINE k == CHOOSE j \in gone : Most(j)
<1>4. k \in gone /\ Most(k)
  BY <1>3
<1> HIDE DEF k
<1>5. Len(FlattenSeq(SubSeq(bufs, 1, k))) <= n
  <2>1. CASE k = 0
    <3>1. SubSeq(bufs, 1, k) = <<>>
      BY <2>1, SubSeqEmpty
    <3>2. Len(FlattenSeq(<<>>)) = 0
      BY FlattenEmpty
    <3>3. Len(FlattenSeq(SubSeq(bufs, 1, k))) = 0
      BY <3>1, <3>2
    <3>4. 0 <= n
      BY <1>1
    <3> QED
      BY <3>3, <3>4
  <2>2. CASE k \in Popped(n)
    BY <2>2 DEF Popped
  <2> QED
    BY <1>4, <2>1, <2>2
<1>6. ASSUME k + 1 \in 1..N, Len(FlattenSeq(SubSeq(bufs, 1, k + 1))) <= n PROVE FALSE
  <2>1. k + 1 \in gone /\ k \in Nat
    BY <1>1, <1>2, <1>4, <1>6 DEF Popped
  <2>2. k + 1 <= k
    BY <1>4, <2>1
  <2> QED
    BY <2>1, <2>2
<1>7. k \in 0..N
  BY <1>2, <1>4
<1>8. k = CHOOSE j \in {0} \cup Popped(n) : \A i \in {0} \cup Popped(n) : i <= j
  BY DEF k
<1> QED
  BY <1>5, <1>6, <1>7, <1>8

LEMMA BufListAdvanceDrops ==
    ASSUME Whole(bufs, bufsLen), NEW n \in 0..bufsLen, BufListAdvance(n)
    PROVE  Whole(bufs', bufsLen') /\ FlattenSeq(bufs') = Drop(FlattenSeq(bufs), n)
<1>1. bufs \in Pieces /\ bufsLen = Len(FlattenSeq(bufs)) /\ FlattenSeq(bufs) \in Bytes
      /\ bufsLen \in Nat /\ \A i \in 1..Len(bufs) : bufs[i] # <<>>
  BY FlattenType, LenProperties DEF Whole, Bytes
<1>2. PICK k \in 0..Len(bufs) :
          /\ k = CHOOSE j \in {0} \cup Popped(n) : \A i \in {0} \cup Popped(n) : i <= j
          /\ Len(FlattenSeq(SubSeq(bufs, 1, k))) <= n
          /\ k + 1 \in 1..Len(bufs) => ~(Len(FlattenSeq(SubSeq(bufs, 1, k + 1))) <= n)
  BY MostPieces
<1> DEFINE N == Len(bufs)
           front == SubSeq(bufs, 1, k)
           rest == SubSeq(bufs, k + 1, Len(bufs))
           cut == n - Len(FlattenSeq(SubSeq(bufs, 1, k)))
           f == FlattenSeq(front)
           r == FlattenSeq(rest)
<1>3. /\ bufs' = IF rest = <<>> \/ cut = 0 THEN rest
                 ELSE <<SubSeq(rest[1], cut + 1, Len(rest[1]))>> \o Tail(rest)
      /\ bufsLen' = bufsLen - n
  <2> DEFINE most == CHOOSE j \in {0} \cup Popped(n) : \A i \in {0} \cup Popped(n) : i <= j
             left == SubSeq(bufs, most + 1, Len(bufs))
             gone == n - Len(FlattenSeq(SubSeq(bufs, 1, most)))
  <2>1. /\ bufs' = IF left = <<>> \/ gone = 0 THEN left
                   ELSE <<SubSeq(left[1], gone + 1, Len(left[1]))>> \o Tail(left)
        /\ bufsLen' = bufsLen - n
    BY DEF BufListAdvance
  <2> HIDE DEF most
  <2>2. most = k
    BY <1>2 DEF most
  <2> QED
    BY <2>1, <2>2
<1>4. /\ front \in Pieces /\ rest \in Pieces /\ Len(front) = k /\ Len(rest) = N - k
      /\ \A i \in 1..N - k : rest[i] = bufs[k + i]
      /\ FlattenSeq(bufs) = f \o r
  BY <1>1, SplitPieces
<1>5. N \in Nat /\ k \in 0..N /\ n \in 0..bufsLen
  BY <1>1, LenProperties DEF Pieces
<1>6. f \in Bytes /\ r \in Bytes /\ Len(f) \in Nat /\ Len(r) \in Nat
  BY <1>4, FlattenType, LenProperties DEF Bytes
<1>7. bufsLen = Len(f) + Len(r)
  BY <1>1, <1>4, <1>6, ConcatProperties DEF Bytes
<1>8. cut = n - Len(f) /\ Len(f) <= n
  BY <1>2
<1> HIDE DEF cut, f
<1>9. cut \in 0..Len(r) /\ n = Len(f) + cut
  BY <1>5, <1>6, <1>7, <1>8
<1> HIDE DEF r
<1>10. Drop(FlattenSeq(bufs), n) = Drop(r, cut)
  BY <1>4, <1>6, <1>9, DropSecond
<1>11. Drop(r, cut) \in Bytes /\ Len(Drop(r, cut)) = bufsLen'
  <2>1. Drop(r, cut) \in Bytes /\ Len(Drop(r, cut)) = Len(r) - cut
    BY <1>6, <1>9, TakeDropType
  <2> QED
    BY <1>3, <1>5, <1>6, <1>7, <1>9, <2>1
<1>12. \A i \in 1..N - k : k + i \in 1..N /\ rest[i] # <<>>
  BY <1>1, <1>4, <1>5
<1> HIDE DEF N, front, rest
<1>13. CASE rest = <<>>
  <2>1. r = <<>> /\ Len(r) = 0 /\ cut = 0
    BY <1>6, <1>9, <1>13, FlattenEmpty DEF r
  <2>2. Drop(r, cut) = <<>>
    BY <1>6, <2>1, DropEnds
  <2>3. bufs' = <<>> /\ bufsLen' = 0
    BY <1>3, <1>11, <1>13, <2>2
  <2> QED
    BY <1>10, <2>2, <2>3, WholeEmpty, FlattenEmpty
<1>14. CASE rest # <<>> /\ cut = 0
  <2>1. Drop(r, cut) = r /\ bufs' = rest
    BY <1>3, <1>6, <1>14, DropEnds
  <2> QED
    BY <1>4, <1>10, <1>11, <1>12, <2>1 DEF Whole, r
<1>15. CASE rest # <<>> /\ cut # 0
  <2> DEFINE x == rest[1]
             later == Tail(rest)
             t == FlattenSeq(later)
             y == SubSeq(x, cut + 1, Len(x))
  <2>1. N - k \in Nat /\ N - k # 0 /\ 1 \in 1..N - k /\ k + 1 \in 1..N /\ x = bufs[k + 1]
        /\ Len(rest) \in Nat
    BY <1>4, <1>5, <1>15, EmptySeq DEF Pieces
  <2>2. /\ x \in Bytes /\ later \in Pieces /\ Len(later) = N - k - 1 /\ x # <<>>
        /\ \A i \in 1..N - k - 1 : later[i] = rest[i + 1]
    <3>1. Head(rest) = x
      BY <1>15
    <3> QED
      BY <1>4, <1>12, <1>15, <2>1, <3>1, HeadTailProperties DEF Pieces
  <2>3. rest = <<x>> \o later
    <3> DEFINE one == <<x>>
               u == one \o later
    <3>1. one \in Pieces /\ Len(one) = 1 /\ one[1] = x
      BY <2>2, FlattenOne
    <3> HIDE DEF one, x, later
    <3>2. /\ u \in Pieces /\ Len(u) = Len(one) + Len(later)
          /\ \A i \in 1..Len(one) + Len(later) :
               u[i] = IF i <= Len(one) THEN one[i] ELSE later[i - Len(one)]
      <4>1. one \in Seq(Bytes) /\ later \in Seq(Bytes)
        BY <2>2, <3>1 DEF Pieces
      <4>2. /\ u \in Seq(Bytes) /\ Len(u) = Len(one) + Len(later)
            /\ \A i \in 1..Len(one) + Len(later) :
                 u[i] = IF i <= Len(one) THEN one[i] ELSE later[i - Len(one)]
        BY <4>1, ConcatProperties
      <4> QED
        BY <4>2 DEF Pieces
    <3> HIDE DEF u
    <3>3. /\ u \in Pieces /\ Len(u) = 1 + (N - k - 1)
          /\ \A i \in 1..1 + (N - k - 1) : u[i] = IF i <= 1 THEN one[i] ELSE later[i - 1]
      BY <2>2, <3>2, <3>1
    <3>4. 1 + (N - k - 1) = N - k
      BY <1>5
    <3>5. ASSUME NEW i \in 1..N - k PROVE u[i] = rest[i]
      <4>1. CASE i = 1
        <5>1. u[1] = one[1]
          BY <2>1, <3>3, <3>4
        <5> QED
          BY <3>1, <4>1, <5>1 DEF x
      <4>2. CASE i # 1
        <5>1. i - 1 \in 1..N - k - 1 /\ i - 1 + 1 = i /\ ~(i <= 1)
          BY <1>5, <4>2
        <5>2. u[i] = later[i - 1]
          BY <3>3, <3>4, <5>1
        <5> QED
          BY <2>2, <5>1, <5>2
      <4> QED
        BY <4>1, <4>2
    <3>6. u = rest
      BY <1>4, <3>3, <3>4, <3>5, SeqEqual DEF Pieces
    <3> QED
      BY <3>6 DEF u, one
  <2>4. r = x \o t /\ t \in Bytes
    <3> DEFINE one == <<x>>
    <3>1. one \in Pieces /\ FlattenSeq(one) = x /\ rest = one \o later
      BY <2>2, <2>3, FlattenOne
    <3> HIDE DEF one, x, later
    <3>2. FlattenSeq(one \o later) = FlattenSeq(one) \o FlattenSeq(later)
      BY <2>2, <3>1, FlattenConcat
    <3> QED
      BY <2>2, <3>1, <3>2, FlattenType DEF r
  <2>5. n < Len(f) + Len(x)
    <3> DEFINE more == SubSeq(bufs, 1, k + 1)
    <3>1. more = Append(front, x)
      <4> DEFINE longer == Append(front, x)
      <4>1. k + 1 \in 0..N
        BY <2>1, <1>5
      <4>2. /\ more \in Pieces /\ Len(more) = k + 1
            /\ \A i \in 1..k + 1 : more[i] = bufs[i]
        BY <1>1, <4>1, SplitPieces DEF N
      <4>3. /\ longer \in Pieces /\ Len(longer) = k + 1
            /\ (\A i \in 1..k : longer[i] = front[i]) /\ longer[k + 1] = x
        BY <1>4, <2>2, AppendProperties DEF Pieces
      <4>4. \A i \in 1..k : front[i] = bufs[i]
        BY <1>1, SplitPieces DEF front
      <4> HIDE DEF more, longer, x
      <4>5. \A i \in 1..k + 1 : more[i] = longer[i]
        <5>1. \A i \in 1..k + 1 : i \in 1..k \/ i = k + 1
          BY <1>5
        <5>2. k + 1 \in 1..k + 1
          BY <1>5
        <5>3. bufs[k + 1] = x
          BY <2>1
        <5> QED
          BY <4>2, <4>3, <4>4, <5>1, <5>2, <5>3
      <4> QED
        BY <4>2, <4>3, <4>5, SeqEqual DEF Pieces, longer
    <3>2. FlattenSeq(more) = IF front = <<>> THEN x ELSE f \o x
      <4> HIDE DEF x, more
      <4> QED
        BY <1>4, <2>2, <3>1, FlattenAppend DEF f
    <3>3. Len(FlattenSeq(more)) = Len(f) + Len(x)
      <4>1. Len(x) \in Nat
        BY <2>2, LenProperties DEF Bytes
      <4>2. CASE front = <<>>
        <5>1. Len(f) = 0
          BY <4>2, FlattenEmpty DEF f
        <5> HIDE DEF x, more
        <5> QED
          BY <3>2, <4>1, <4>2, <5>1
      <4>3. CASE front # <<>>
        <5> HIDE DEF x, more
        <5> QED
          BY <1>6, <2>2, <3>2, <4>3, ConcatProperties DEF Bytes
      <4> QED
        BY <4>2, <4>3
    <3>4. ~(Len(FlattenSeq(more)) <= n)
      BY <1>2, <2>1 DEF N
    <3>5. Len(x) \in Nat /\ n \in Nat
      BY <1>1, <1>5, <2>2, LenProperties DEF Bytes
    <3> HIDE DEF more, x
    <3> QED
      BY <1>6, <3>3, <3>4, <3>5
  <2>6. cut \in 0..Len(x) /\ Len(x) - cut > 0 /\ Len(x) \in Nat
    <3>1. Len(x) \in Nat /\ n \in Nat
      BY <1>1, <1>5, <2>2, LenProperties DEF Bytes
    <3> HIDE DEF x
    <3> QED
      BY <1>6, <1>9, <2>5, <3>1
  <2>7. y = Drop(x, cut) /\ y \in Bytes /\ Len(y) = Len(x) - cut /\ y # <<>>
    <3>1. y = Drop(x, cut)
      BY DEF Drop
    <3> HIDE DEF x, y
    <3>2. y \in Bytes /\ Len(y) = Len(x) - cut
      BY <2>2, <2>6, <3>1, TakeDropType
    <3> QED
      BY <2>6, <3>1, <3>2
  <2>8. bufs' = <<y>> \o later
    BY <1>3, <1>15
  <2> HIDE DEF x, y, later, t
  <2>9. Whole(<<y>>, Len(y)) /\ FlattenSeq(<<y>>) = y
    BY <2>7, WholeOne, FlattenOne
  <2>10. Whole(later, Len(t))
    <3>1. \A i \in 1..N - k - 1 : i + 1 \in 1..N - k
      BY <1>5
    <3>2. \A i \in 1..Len(later) : later[i] # <<>>
      BY <1>12, <2>2, <3>1
    <3> QED
      BY <2>2, <3>2 DEF Whole, t
  <2>11. Whole(bufs', Len(y) + Len(t)) /\ FlattenSeq(bufs') = y \o t
    BY <2>8, <2>9, <2>10, WholeConcat DEF t
  <2>12. Drop(r, cut) = y \o t
    BY <2>2, <2>4, <2>6, <2>7, TakeDropFirst
  <2>13. bufsLen' = Len(FlattenSeq(bufs'))
    BY <1>11, <2>11, <2>12
  <2> QED
    BY <1>10, <2>11, <2>12, <2>13 DEF Whole
<1> QED
  BY <1>13, <1>14, <1>15

\* StreamEncoder::advance takes what was written, and nothing else.
LEMMA AdvanceDrops ==
    ASSUME Whole(bufs, bufsLen), flat \in Bytes,
           NEW n \in 0..Len(BytesOf(bufs, flat)), Advance(n)
    PROVE  /\ Whole(bufs', bufsLen') /\ flat' \in Bytes
           /\ BytesOf(bufs', flat') = Drop(BytesOf(bufs, flat), n)
<1> DEFINE F == FlattenSeq(bufs)
           L == Len(F)
           mid == IF bufsLen < n THEN bufsLen ELSE n
<1>1. bufs \in Pieces /\ bufsLen = L /\ F \in Bytes /\ L \in Nat /\ Len(flat) \in Nat
  BY FlattenType, LenProperties DEF Whole, Bytes
<1>2. Len(BytesOf(bufs, flat)) = L + Len(flat) /\ BytesOf(bufs, flat) = F \o flat
  BY <1>1, BytesOfType DEF BytesOf
<1>3. BufListAdvance(mid) /\ flat' = SubSeq(flat, n - mid + 1, Len(flat))
  BY DEF Advance
<1>4. n \in 0..L + Len(flat)
  BY <1>2
<1> HIDE DEF F, L
<1>5. mid \in 0..bufsLen /\ n - mid \in 0..Len(flat)
  BY <1>1, <1>4
<1>6. IF L < n THEN mid = L ELSE mid = n /\ n - mid = 0
  BY <1>1, <1>4
<1> HIDE DEF mid
<1>7. Whole(bufs', bufsLen') /\ FlattenSeq(bufs') = Drop(F, mid)
  BY <1>3, <1>5, BufListAdvanceDrops DEF F
<1>8. flat' = Drop(flat, n - mid) /\ flat' \in Bytes
  <2>1. flat' = Drop(flat, n - mid)
    BY <1>3 DEF Drop
  <2> QED
    BY <1>5, <2>1, TakeDropType
<1>9. BytesOf(bufs', flat') = Drop(F, mid) \o flat'
  BY <1>7 DEF BytesOf
<1>10. Drop(F, mid) \o flat' = Drop(F \o flat, n)
  <2>1. CASE L < n
    <3>1. mid = L /\ L + (n - mid) = n
      BY <1>1, <1>4, <1>6, <2>1
    <3>2. Drop(F, mid) = <<>>
      BY <1>1, <3>1, DropEnds DEF L
    <3>3. Drop(F \o flat, L + (n - mid)) = Drop(flat, n - mid)
      BY <1>1, <1>5, DropSecond DEF L
    <3>4. <<>> \o flat' = flat'
      BY <1>8, ConcatEmptySeq DEF Bytes
    <3> QED
      BY <1>8, <3>1, <3>2, <3>3, <3>4
  <2>2. CASE ~(L < n)
    <3>1. mid = n /\ n - mid = 0 /\ n \in 0..Len(F)
      BY <1>1, <1>4, <1>6, <2>2 DEF L
    <3>2. flat' = flat
      BY <1>8, <3>1, DropEnds
    <3>3. Drop(F \o flat, n) = Drop(F, n) \o flat
      BY <1>1, <3>1, TakeDropFirst
    <3> QED
      BY <3>1, <3>2, <3>3
  <2> QED
    BY <2>1, <2>2
<1> QED
  BY <1>2, <1>7, <1>8, <1>9, <1>10

-----------------------------------------------------------------------------
(***************************************************************************)
(* The inductive invariant: the write buffer is whole, a websocket has     *)
(* none, and every byte enqueued is sent or waits, except what the sink of *)
(* a websocket refused.                                                    *)
(***************************************************************************)
EncoderTypes ==
    /\ Whole(bufs, bufsLen) /\ flat \in Bytes
    /\ sent \in Bytes /\ seen \in Nat
    /\ websocket \in BOOLEAN

FramesAreNotBuffered == websocket => bufs = <<>> /\ flat = <<>>

SentOrWaiting == ~websocket => seen = Len(sent) + Len(Content)

SentUnlessRefused == websocket /\ ~sendError /\ ~ended => Len(sent) = seen

EncoderIInv ==
    /\ EncoderTypes
    /\ FramesAreNotBuffered
    /\ SentOrWaiting
    /\ SentUnlessRefused
    /\ NothingStaysUnflushed

\* How much there is to write.
LEMMA RemainingIs ==
    ASSUME EncoderTypes
    PROVE  /\ Content = BytesOf(bufs, flat) /\ Content \in Bytes
           /\ Len(Content) = Remaining /\ Remaining \in Nat
           /\ bufsLen \in Nat /\ Len(flat) \in Nat /\ Len(sent) \in Nat
<1>1. bufs \in Pieces /\ bufsLen = Len(FlattenSeq(bufs)) /\ FlattenSeq(bufs) \in Bytes
      /\ flat \in Bytes /\ sent \in Bytes
  BY FlattenType DEF EncoderTypes, Whole
<1>2. bufsLen \in Nat /\ Len(flat) \in Nat /\ Len(sent) \in Nat
  BY <1>1, LenProperties DEF Bytes
<1>3. Content = BytesOf(bufs, flat)
  BY DEF Content, BytesOf
<1>4. Content \in Bytes /\ Len(Content) = Len(FlattenSeq(bufs)) + Len(flat)
  BY <1>1, <1>3, BytesOfType
<1> QED
  BY <1>1, <1>2, <1>3, <1>4 DEF Remaining

LEMMA EncoderInitHolds == EncoderInit => EncoderIInv
<1> SUFFICES ASSUME EncoderInit PROVE EncoderIInv
  OBVIOUS
<1> USE DEF EncoderInit
<1>1. EncoderTypes
  <2>1. <<>> \in Bytes /\ Whole(bufs, bufsLen)
    BY WholeEmpty, EmptySeq DEF Bytes
  <2> QED
    BY <2>1 DEF EncoderTypes
<1>2. SentOrWaiting
  <2>1. Content = <<>>
    BY FlattenEmpty DEF Content
  <2> QED
    BY <2>1 DEF SentOrWaiting
<1> QED
  BY <1>1, <1>2
     DEF EncoderIInv, FramesAreNotBuffered, SentUnlessRefused, NothingStaysUnflushed

\* enqueue_write_op: the op is put behind all that waits, or given to the sink.
LEMMA StreamPuts ==
    ASSUME EncoderIInv, NEW p \in Nat, EnqueueStream(p)
    PROVE  /\ Whole(bufs', bufsLen') /\ flat' \in Bytes
           /\ Content' = Content \o Fresh(0, p + 2)
<1> DEFINE e == [bufs |-> bufs, len |-> bufsLen, flat |-> flat]
           d == EncodeOp(e, p)
<1>1. EncoderTypes
  BY DEF EncoderIInv
<1>2. e \in Buffers /\ e.bufs = bufs /\ e.len = bufsLen /\ e.flat = flat
  <2>1. bufs \in Pieces /\ flat \in Bytes /\ bufsLen \in Nat
    BY <1>1, RemainingIs DEF EncoderTypes, Whole
  <2> QED
    BY <2>1 DEF Buffers
<1>3. bufs' = d.bufs /\ bufsLen' = d.len /\ flat' = d.flat
  BY DEF EnqueueStream
<1> HIDE DEF e
<1>4. Whole(e.bufs, e.len) /\ seen \in Nat
  BY <1>1, <1>2 DEF EncoderTypes
<1>5. /\ d \in Buffers /\ Whole(d.bufs, d.len)
      /\ BytesOf(d.bufs, d.flat) = BytesOf(e.bufs, e.flat) \o Fresh(0, p + 2)
  BY <1>2, <1>4, EncodeOpKeeps
<1>6. d.flat \in Bytes
  BY <1>5 DEF Buffers
<1> HIDE DEF d
<1>7. Content' = BytesOf(bufs', flat') /\ Content = BytesOf(bufs, flat)
  BY DEF Content, BytesOf
<1> QED
  BY <1>2, <1>3, <1>5, <1>6, <1>7

LEMMA FreshLen ==
    ASSUME seen \in Nat, NEW p \in Nat
    PROVE  /\ Fresh(0, p + 2) \in Bytes /\ Len(Fresh(0, p + 2)) = p + 2
           /\ Fresh(0, p + 2) = [i \in 1..p + 2 |-> seen + i]
<1> DEFINE m == p + 2
<1>1. m \in Nat /\ m - 0 = m /\ \A i \in 1..m : seen + 0 + i = seen + i
  OBVIOUS
<1> HIDE DEF m
<1>2. Fresh(0, m) \in Bytes /\ Len(Fresh(0, m)) = m - 0
  BY <1>1, FreshType
<1>3. Fresh(0, m) = [i \in 1..m |-> seen + i]
  BY <1>1 DEF Fresh
<1> QED
  BY <1>1, <1>2, <1>3 DEF m

LEMMA EnqueueKeeps ==
    ASSUME EncoderIInv, NEW p \in PayloadLens, EnqueueWriteOp(p)
    PROVE  EncoderIInv'
<1>1. EncoderTypes /\ seen \in Nat /\ sent \in Bytes /\ Len(sent) \in Nat /\ Content \in Bytes
      /\ Len(Content) \in Nat
  BY RemainingIs DEF EncoderIInv, EncoderTypes
<1>2. p \in Nat /\ seen' = seen + p + 2 /\ websocket' = websocket /\ ended' = ended /\ ~ended
  BY EncoderAssumption DEF EnqueueWriteOp
<1>3. EnqueueStream(p) \/ EnqueueFrame(p)
  BY DEF EnqueueWriteOp
<1> DEFINE fresh == Fresh(0, p + 2)
<1>4. fresh \in Bytes /\ Len(fresh) = p + 2 /\ fresh = [i \in 1..p + 2 |-> seen + i]
  BY <1>1, <1>2, FreshLen
<1> HIDE DEF fresh
<1>5. CASE EnqueueStream(p)
  <2>1. ~websocket /\ sent' = sent
    BY <1>5 DEF EnqueueStream
  <2>2. Whole(bufs', bufsLen') /\ flat' \in Bytes /\ Content' = Content \o fresh
    BY <1>2, <1>5, StreamPuts DEF fresh
  <2>3. EncoderTypes'
    BY <1>1, <1>2, <2>1, <2>2 DEF EncoderTypes
  <2>4. Len(Content') = Len(Content) + (p + 2)
    <3>1. Len(Content \o fresh) = Len(Content) + Len(fresh)
      BY <1>1, <1>4, ConcatProperties DEF Bytes
    <3> QED
      BY <1>4, <2>2, <3>1
  <2>5. SentOrWaiting'
    <3>1. seen = Len(sent) + Len(Content)
      BY <2>1 DEF EncoderIInv, SentOrWaiting
    <3>2. Len(sent') = Len(sent)
      BY <2>1
    <3> QED
      BY <1>1, <1>2, <2>4, <3>1, <3>2 DEF SentOrWaiting
  <2>6. NothingStaysUnflushed'
    <3>1. Len(Content') = Remaining'
      <4>1. bufs' \in Pieces /\ bufsLen' = Len(FlattenSeq(bufs'))
        BY <2>2 DEF Whole
      <4>2. Len(BytesOf(bufs', flat')) = Len(FlattenSeq(bufs')) + Len(flat')
        BY <2>2, <4>1, BytesOfType
      <4>3. Content' = BytesOf(bufs', flat')
        BY DEF Content, BytesOf
      <4> QED
        BY <4>1, <4>2, <4>3 DEF Remaining
    <3>2. Remaining' # 0
      BY <1>1, <1>2, <2>4, <3>1
    <3> QED
      BY <3>2 DEF NothingStaysUnflushed
  <2> QED
    BY <1>2, <2>1, <2>3, <2>5, <2>6
       DEF EncoderIInv, FramesAreNotBuffered, SentUnlessRefused
<1>6. CASE EnqueueFrame(p)
  <2>1. websocket /\ bufs' = bufs /\ bufsLen' = bufsLen /\ flat' = flat
    BY <1>6 DEF EnqueueFrame, buffers
  <2>2. sent \o fresh \in Bytes /\ Len(sent \o fresh) = Len(sent) + (p + 2)
    <3>1. sent \o fresh \in Bytes /\ Len(sent \o fresh) = Len(sent) + Len(fresh)
      BY <1>1, <1>4, ConcatProperties DEF Bytes
    <3> QED
      BY <1>4, <3>1
  <2>3. sent' = sent \/ sent' = sent \o fresh
    BY <1>4, <1>6 DEF EnqueueFrame
  <2>4. EncoderTypes'
    <3>1. sent' \in Bytes
      BY <1>1, <2>2, <2>3
    <3> QED
      BY <1>1, <1>2, <2>1, <3>1 DEF EncoderTypes
  <2>5. SentUnlessRefused'
    <3>1. SUFFICES ASSUME ~sendError' PROVE Len(sent') = seen'
      BY DEF SentUnlessRefused
    <3>2. ~sendError /\ sinkOpen /\ sent' = sent \o fresh
      BY <1>4, <1>6, <3>1 DEF EnqueueFrame
    <3>3. Len(sent) = seen
      BY <1>2, <2>1, <3>2 DEF EncoderIInv, SentUnlessRefused
    <3> QED
      BY <1>1, <1>2, <2>2, <3>2, <3>3
  <2> QED
    BY <1>2, <2>1, <2>4, <2>5
       DEF EncoderIInv, FramesAreNotBuffered, SentOrWaiting, NothingStaysUnflushed
<1> QED
  BY <1>3, <1>5, <1>6

\* poll_write_next: the socket takes the first bytes of what waits.
LEMMA WriteTakes ==
    ASSUME EncoderIInv, NEW n \in 1..MaxBytes, PollWriteNext(n)
    PROVE  /\ Whole(bufs', bufsLen') /\ flat' \in Bytes
           /\ n \in 0..Len(Content)
           /\ sent' = sent \o Take(Content, n) /\ Content' = Drop(Content, n)
<1>1. /\ Whole(bufs, bufsLen) /\ bufs \in Pieces /\ flat \in Bytes
      /\ Content = BytesOf(bufs, flat) /\ Content \in Bytes
  BY RemainingIs DEF EncoderIInv, EncoderTypes, Whole
<1>2. n \in 1..Len(Offered) /\ sent' = sent \o Take(Offered, n) /\ Advance(n)
  BY DEF PollWriteNext, Take
<1>3. Offered \in Bytes
  BY <1>1, OfferedIsFirst
<1>4. PICK r \in Bytes : Content = Offered \o r
  BY <1>1, OfferedIsFirst
<1>5. /\ Len(Offered) \in Nat /\ Len(r) \in Nat
      /\ Len(Offered \o r) = Len(Offered) + Len(r)
  BY <1>3, <1>4, ConcatProperties, LenProperties DEF Bytes
<1>6. n \in 0..Len(Offered)
  BY <1>2, <1>5
<1>7. Len(Content) = Len(Offered) + Len(r)
  BY <1>4, <1>5
<1>8. n \in 0..Len(Content)
  BY <1>2, <1>5, <1>7
<1>9. Take(Content, n) = Take(Offered, n)
  BY <1>3, <1>4, <1>6, TakeDropFirst
<1>10. n \in 0..Len(BytesOf(bufs, flat))
  BY <1>1, <1>8
<1>11. /\ Whole(bufs', bufsLen') /\ flat' \in Bytes
       /\ BytesOf(bufs', flat') = Drop(BytesOf(bufs, flat), n)
  BY <1>1, <1>2, <1>10, AdvanceDrops
<1>12. Content' = BytesOf(bufs', flat')
  BY DEF Content, BytesOf
<1> QED
  BY <1>1, <1>2, <1>8, <1>9, <1>11, <1>12

LEMMA WriteKeeps ==
    ASSUME EncoderIInv, NEW n \in 1..MaxBytes, PollWriteNext(n)
    PROVE  EncoderIInv'
<1>1. EncoderTypes /\ sent \in Bytes /\ Len(sent) \in Nat /\ Content \in Bytes
      /\ seen \in Nat /\ Len(Content) \in Nat
  BY RemainingIs DEF EncoderIInv, EncoderTypes
<1>2. ~websocket /\ websocket' = websocket /\ seen' = seen /\ mayFlush'
  BY DEF PollWriteNext
<1>3. /\ Whole(bufs', bufsLen') /\ flat' \in Bytes
      /\ n \in 0..Len(Content)
      /\ sent' = sent \o Take(Content, n) /\ Content' = Drop(Content, n)
  BY WriteTakes
<1>4. /\ Take(Content, n) \in Bytes /\ Len(Take(Content, n)) = n
      /\ Len(Drop(Content, n)) = Len(Content) - n
  BY <1>1, <1>3, TakeDropType
<1>5. sent' \in Bytes /\ Len(sent') = Len(sent) + n
  <2>1. /\ sent \o Take(Content, n) \in Bytes
        /\ Len(sent \o Take(Content, n)) = Len(sent) + Len(Take(Content, n))
    BY <1>1, <1>4, ConcatProperties DEF Bytes
  <2> QED
    BY <1>3, <1>4, <2>1
<1>6. EncoderTypes'
  BY <1>1, <1>2, <1>3, <1>5 DEF EncoderTypes
<1>7. SentOrWaiting'
  <2>1. seen = Len(sent) + Len(Content)
    BY <1>2 DEF EncoderIInv, SentOrWaiting
  <2>2. Len(Content') = Len(Content) - n
    BY <1>3, <1>4
  <2> QED
    BY <1>1, <1>2, <1>3, <1>5, <2>1, <2>2 DEF SentOrWaiting
<1> QED
  BY <1>2, <1>6, <1>7
     DEF EncoderIInv, FramesAreNotBuffered, SentUnlessRefused, NothingStaysUnflushed

LEMMA EncoderStepKeeps == EncoderIInv /\ [EncoderNext]_encoderVars => EncoderIInv'
<1> SUFFICES ASSUME EncoderIInv, [EncoderNext]_encoderVars PROVE EncoderIInv'
  OBVIOUS
<1> USE DEF EncoderIInv, EncoderTypes, FramesAreNotBuffered, SentOrWaiting, SentUnlessRefused,
            NothingStaysUnflushed, Content, Remaining
<1>1. ASSUME NEW p \in PayloadLens, EnqueueWriteOp(p) PROVE EncoderIInv'
  <2> HIDE DEF EncoderIInv
  <2> QED
    BY <1>1, EnqueueKeeps
<1>2. ASSUME NEW n \in 1..MaxBytes, PollWriteNext(n) PROVE EncoderIInv'
  <2> HIDE DEF EncoderIInv
  <2> QED
    BY <1>2, WriteKeeps
<1>3. CASE PollWritePending
  BY <1>3 DEF PollWritePending, buffers
<1>4. CASE PollFlush
  <2>1. UNCHANGED <<websocket, bufs, bufsLen, flat, sent, seen>>
    BY <1>4 DEF PollFlush, buffers
  <2>2. CASE FlushStream
    BY <2>1, <2>2 DEF FlushStream
  <2>3. CASE FlushSink
    BY <2>1, <2>3 DEF FlushSink
  <2> QED
    BY <1>4, <2>2, <2>3 DEF PollFlush
<1>5. CASE PollReadNext
  BY <1>5 DEF PollReadNext, buffers
<1>6. CASE ServerCloses
  BY <1>6 DEF ServerCloses, buffers
<1>7. CASE UNCHANGED encoderVars
  BY <1>7 DEF encoderVars
<1> QED
  BY <1>1, <1>2, <1>3, <1>4, <1>5, <1>6, <1>7 DEF EncoderNext

LEMMA EncoderInvariant == EncoderSpec => []EncoderIInv
BY EncoderInitHolds, EncoderStepKeeps, PTL DEF EncoderSpec

-----------------------------------------------------------------------------
(***************************************************************************)
(* What the connection promises.                                           *)
(***************************************************************************)
LEMMA WriteIsVectored ==
    ASSUME EncoderIInv
    PROVE  EncoderTypeOK
<1>1. /\ bufs \in Pieces /\ bufsLen = Len(FlattenSeq(bufs)) /\ flat \in Bytes
      /\ \A k \in 1..Len(bufs) : bufs[k] # <<>>
      /\ websocket => bufs = <<>> /\ flat = <<>>
  BY DEF EncoderIInv, EncoderTypes, Whole, FramesAreNotBuffered
<1>2. /\ DOMAIN bufs = 1..Len(bufs) /\ Len(bufs) \in Nat /\ (bufs # <<>> => Len(bufs) # 0)
      /\ Len(flat) \in Nat /\ (Len(flat) # 0 => flat # <<>>)
  BY <1>1, EmptySeq, LenProperties DEF Pieces, Bytes
<1>3. bufs = <<>> => bufsLen = 0
  BY <1>1, FlattenEmpty
<1>4. Remaining > 0 => Chunk # <<>>
  <2>1. CASE bufs = <<>>
    <3>1. Remaining = Len(flat) /\ Chunk = flat
      BY <1>2, <1>3, <2>1 DEF Remaining, Chunk
    <3> QED
      BY <1>2, <3>1
  <2>2. CASE bufs # <<>>
    <3>1. 1 \in 1..Len(bufs) /\ Chunk = bufs[1]
      BY <1>2, <2>2 DEF Chunk
    <3> QED
      BY <1>1, <3>1
  <2> QED
    BY <2>1, <2>2
<1>5. Len(Chunk) < Remaining => Len(Vector) >= 2
  <2>1. SUFFICES ASSUME Len(Chunk) < Remaining PROVE Len(Vector) >= 2
    OBVIOUS
  <2>2. bufs # <<>>
    <3>1. CASE bufs = <<>>
      <4>1. Remaining = Len(flat) /\ Chunk = flat
        BY <1>2, <1>3, <3>1 DEF Remaining, Chunk
      <4> QED
        BY <1>2, <2>1, <4>1
    <3> QED
      BY <3>1
  <2>3. Chunk = bufs[1]
    BY <2>2 DEF Chunk
  <2> DEFINE tail == IF flat = <<>> THEN <<>> ELSE <<flat>>
             pieces == bufs \o tail
  <2>4. tail \in Pieces /\ Len(tail) = IF flat = <<>> THEN 0 ELSE 1
    BY <1>1, FlattenOne, EmptySeq DEF Pieces
  <2>5. pieces \in Pieces /\ Len(pieces) = Len(bufs) + Len(tail)
    <3> HIDE DEF tail
    <3> QED
      BY <1>1, <2>4, ConcatProperties DEF Pieces
  <2>6. Len(pieces) >= 2
    <3>1. CASE flat # <<>>
      BY <1>2, <2>2, <2>4, <2>5, <3>1
    <3>2. CASE flat = <<>>
      <4>1. Len(bufs) # 1
        <5>1. SUFFICES ASSUME Len(bufs) = 1 PROVE FALSE
          OBVIOUS
        <5> DEFINE x == bufs[1]
                   one == <<x>>
        <5>2. x \in Bytes /\ one \in Pieces /\ Len(one) = 1 /\ one[1] = x
          BY <1>1, <5>1, FlattenOne, ElementOfSeq DEF Pieces
        <5> HIDE DEF one
        <5>3. \A i \in 1..1 : bufs[i] = one[i]
          BY <5>2
        <5>4. bufs = one
          BY <1>1, <5>1, <5>2, <5>3, SeqEqual DEF Pieces
        <5>5. FlattenSeq(bufs) = x
          BY <5>2, <5>4, FlattenOne DEF one
        <5>6. Len(flat) = 0 /\ Len(x) \in Nat
          BY <3>2, <5>2, LenProperties DEF Bytes
        <5> HIDE DEF x
        <5>7. Remaining = Len(x) /\ Chunk = x
          BY <1>1, <2>3, <5>5, <5>6 DEF Remaining, x
        <5> QED
          BY <2>1, <5>6, <5>7
      <4>2. Len(bufs) >= 2
        BY <1>2, <2>2, <4>1
      <4>3. Len(tail) = 0
        BY <2>4, <3>2
      <4> HIDE DEF pieces, tail
      <4> QED
        BY <1>2, <2>5, <4>2, <4>3
    <3> QED
      BY <3>1, <3>2
  <2>7. Vector = IF Len(pieces) <= Slices THEN pieces ELSE SubSeq(pieces, 1, Slices)
    BY DEF Vector
  <2> HIDE DEF pieces
  <2>8. CASE Len(pieces) <= Slices
    BY <2>6, <2>7, <2>8
  <2>9. CASE ~(Len(pieces) <= Slices)
    <3>1. Slices \in 0..Len(pieces) /\ Slices >= 2
      BY <2>5, <2>9, LenProperties, EncoderAssumption DEF Pieces
    <3>2. Len(SubSeq(pieces, 1, Slices)) = Slices
      BY <2>5, <3>1, SplitPieces
    <3> QED
      BY <2>7, <2>9, <3>1, <3>2
  <2> QED
    BY <2>8, <2>9
<1>6. websocket => Remaining = 0
  <2>1. Len(<<>>) = 0
    OBVIOUS
  <2> QED
    BY <1>1, <1>3, <2>1 DEF Remaining
<1> QED
  BY <1>1, <1>2, <1>4, <1>5, <1>6 DEF EncoderTypeOK

(***************************************************************************)
(* BufList::remaining, has_remaining and poll_write_next never assert: the *)
(* length counted is the one of the pieces, none of them is empty, there   *)
(* is a chunk while something remains, and a vectored write has two slices *)
(* at least.                                                               *)
(***************************************************************************)
THEOREM BufferIsWhole == EncoderSpec => []EncoderTypeOK
<1>1. EncoderIInv => EncoderTypeOK
  BY WriteIsVectored
<1> QED
  BY <1>1, EncoderInvariant, PTL

(***************************************************************************)
(* An op that enqueue_write_op accepted is written with a flush due, or    *)
(* the error of the websocket's sink is stored or reported.                *)
(***************************************************************************)
THEOREM LossesAreReported == EncoderSpec => []NothingIsLost
<1>1. EncoderIInv => NothingIsLost
  <2>1. SUFFICES ASSUME EncoderIInv, websocket, Len(sent) < seen, ~sendError, ~ended
                 PROVE  FALSE
    BY DEF EncoderIInv, NothingIsLost, LossIsReported
  <2>2. Len(sent) = seen /\ seen \in Nat
    BY <2>1 DEF EncoderIInv, SentUnlessRefused, EncoderTypes
  <2> QED
    BY <2>1, <2>2
<1> QED
  BY <1>1, EncoderInvariant, PTL

\* Every step of the encoder is one of the queue, or leaves it alone.
LEMMA StepOfQueue ==
    ASSUME EncoderIInv, [EncoderNext]_encoderVars
    PROVE  [~websocket => Queue!Next]_<<Content, sent>>
<1> SUFFICES ASSUME ~websocket PROVE Queue!Next \/ UNCHANGED <<Content, sent>>
  OBVIOUS
<1>1. /\ EncoderTypes /\ seen \in Nat /\ Len(sent) \in Nat
      /\ Content \in Bytes /\ Len(Content) \in Nat /\ seen = Len(sent) + Len(Content)
  BY RemainingIs DEF EncoderIInv, EncoderTypes, SentOrWaiting
<1>2. ASSUME NEW p \in PayloadLens, EnqueueWriteOp(p) PROVE Queue!Next
  <2>1. p \in Nat /\ EnqueueStream(p)
    BY <1>2, EncoderAssumption DEF EnqueueWriteOp, EnqueueFrame
  <2> DEFINE fresh == Fresh(0, p + 2)
  <2>2. Content' = Content \o fresh /\ sent' = sent
    BY <2>1, StreamPuts DEF EnqueueStream
  <2>3. fresh \in Bytes /\ Len(fresh) = p + 2 /\ fresh = [i \in 1..p + 2 |-> seen + i]
    BY <1>1, <2>1, FreshLen
  <2> HIDE DEF fresh
  <2>4. Len(Content') = Len(Content) + (p + 2)
    <3>1. Len(Content \o fresh) = Len(Content) + Len(fresh)
      BY <1>1, <2>3, ConcatProperties DEF Bytes
    <3> QED
      BY <2>2, <2>3, <3>1
  <2>5. Len(Content') > Len(Content) /\ Len(Content') - Len(Content) = p + 2
    BY <1>1, <2>1, <2>4
  <2>6. Queue!Put([i \in 1..Len(Content') - Len(Content) |-> Len(sent) + Len(Content) + i])
    BY <1>1, <2>2, <2>3, <2>5 DEF Queue!Put
  <2> QED
    BY <2>5, <2>6 DEF Queue!Next, Queue!Seen
<1>3. ASSUME NEW n \in 1..MaxBytes, PollWriteNext(n) PROVE Queue!Next
  <2>1. /\ n \in 0..Len(Content)
        /\ sent' = sent \o Take(Content, n) /\ Content' = Drop(Content, n)
    BY <1>3, WriteTakes
  <2>2. Queue!Get(n)
    BY <2>1 DEF Queue!Get, Take, Drop
  <2> QED
    BY <2>1, <2>2 DEF Queue!Next
<1>4. CASE PollWritePending \/ PollFlush \/ ServerCloses \/ PollReadNext \/ UNCHANGED encoderVars
  <2>1. UNCHANGED <<bufs, flat, sent>>
    BY <1>4 DEF PollWritePending, PollFlush, ServerCloses, PollReadNext, encoderVars, buffers
  <2> QED
    BY <2>1 DEF Content
<1> QED
  BY <1>2, <1>3, <1>4 DEF EncoderNext

(***************************************************************************)
(* BufList and StreamEncoder are a queue of bytes: poll_write_next hands   *)
(* over what was enqueued in order, each byte once, whatever the pieces,   *)
(* the slices and the lengths of the socket's writes are.                  *)
(***************************************************************************)
THEOREM EncoderIsAQueue == EncoderSpec => IsAQueue
<1>1. EncoderInit => Queue!Init
  BY FlattenEmpty DEF EncoderInit, Content, Queue!Init
<1>2. EncoderIInv /\ [EncoderNext]_encoderVars => [~websocket => Queue!Next]_<<Content, sent>>
  BY StepOfQueue
<1> QED
  BY <1>1, <1>2, EncoderInvariant, PTL DEF EncoderSpec, IsAQueue

(***************************************************************************)
(* Both of these, as the one invariant of the encoder.                     *)
(***************************************************************************)
THEOREM EncoderKeepsAll == EncoderSpec => []EncoderInv
<1>1. EncoderTypeOK /\ NothingIsLost => EncoderInv
  BY DEF EncoderInv
<1> QED
  BY <1>1, BufferIsWhole, LossesAreReported, PTL
=============================================================================
