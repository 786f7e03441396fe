-------------------------------- MODULE Wire --------------------------------
(***************************************************************************)
(* What one client writes and another one reads: an application edits a    *)
(* HeaderMap and publishes, subscribes or unsubscribes with subjects it    *)
(* was given; encode writes the op as bytes; the server reads the control  *)
(* line and relays a publication as MSG or HMSG, its header block as it    *)
(* is; decode_msg, decode_hmsg and decode_headers make a ServerMessage of  *)
(* it.  The server also answers by itself, with a status in the head of    *)
(* the block.  How bytes travel is in Encoder and Decoder: here a whole op *)
(* is there at once.                                                       *)
(***************************************************************************)
EXTENDS HeaderMap

CONSTANTS
    RawSubjects, RawGroups,     \* the strings the application makes subjects and groups of
    Destinations,               \* and those it publishes to
    RawNames, RawValues,        \* and header names and values
    Payloads,
    StatusLines,                \* what follows NATS/1.0 in a head of the server
    MaxEdits,                   \* bounds the edits of one HeaderMap
    Limits,                     \* what an unsubscription may ask for; 0 stands for none
    MaxInt, MaxMsgLen           \* usize::MAX and MAX_MSG_LEN, scaled down

VARIABLES
    map,        \* the HeaderMap being built
    meant,      \* what the application asked for: pairs of a name and a value
    edits,
    op,         \* the ClientOp, once it is enqueued
    wire,       \* the bytes between two parties
    stage,      \* whose turn it is
    read        \* what the server or the receiving client understood

wireVars == <<map, meant, edits, op, wire, stage, read>>

Nothing == [kind |-> "nothing"]
Sid == 7                        \* the subscription a publication is relayed to

(***************************************************************************)
(* encode                                                                  *)
(***************************************************************************)
(* encode_headers: each value of a name is a line of its own. *)
Terminated(line) == line \o <<Crlf>>
HeaderLine(p) == p[1] \o <<":", " ">> \o p[2]
HeaderLines(m) == [i \in DOMAIN HeaderPairs(m) |-> HeaderLine(HeaderPairs(m)[i])]

Unlines(lines) == FlattenSeq([i \in DOMAIN lines |-> Terminated(lines[i])])
EncodeHeaders(m) == Unlines(<< <<"NATS/1.0">> >> \o HeaderLines(m) \o << <<>> >>)

(* The length of a byte string: a terminator is two bytes, NATS/1.0 eight. *)
Count(s, b) == Cardinality({i \in DOMAIN s : s[i] = b})
Bytes(s) == Len(s) + Count(s, Crlf) + 7 * Count(s, "NATS/1.0")

(* An argument, a space and what follows. *)
Arg(arg, rest) == arg \o <<" ">> \o rest

(* A mutant: no space after the argument. *)
OptionalArgTight(arg, rest) == arg \o rest

OptionalArg(arg, rest) == IF arg = <<>> THEN rest ELSE Arg(arg, rest)

(* Without headers there is no block, and no length of one. *)
Block(m) == IF DOMAIN m.headers = {} THEN <<>> ELSE EncodeHeaders(m)
Sizes(block, payload) ==
    LET total == Decimal[Bytes(block) + Bytes(payload)]
    IN IF block = <<>> THEN total ELSE Arg(Decimal[Bytes(block)], total)

EncodePublish(o) ==
    LET block == Block(o.headers)
    IN Terminated(Arg(IF block = <<>> THEN <<"PUB">> ELSE <<"HPUB">>,
                      Arg(o.subject, OptionalArg(o.reply, Sizes(block, o.payload)))))
         \o (block \o Terminated(o.payload))

EncodeSubscribe(o) ==
    Terminated(Arg(<<"SUB">>, Arg(o.subject, OptionalArg(o.group, Decimal[o.id]))))

EncodeUnsubscribe(o) ==
    Terminated(Arg(<<"UNSUB">>, IF o.max = 0 THEN Decimal[o.id]
                                ELSE Arg(Decimal[o.id], Decimal[o.max])))

Encode(o) == IF o.kind = "Publish" THEN EncodePublish(o)
             ELSE IF o.kind = "Subscribe" THEN EncodeSubscribe(o)
             ELSE EncodeUnsubscribe(o)

(***************************************************************************)
(* Reading a line                                                          *)
(***************************************************************************)
EndOfLine(s) == FirstOf(s, {Crlf})        \* 0 when there is none
Line(s) == IF EndOfLine(s) = 0 THEN s ELSE SubSeq(s, 1, EndOfLine(s) - 1)
AfterLine(s) == IF EndOfLine(s) = 0 THEN <<>> ELSE SubSeq(s, EndOfLine(s) + 1, Len(s))

(* split_spaces: runs of blanks separate, and an empty string has no chunk.*)
(* A leading blank gives an empty chunk, a trailing one gives none.        *)
FirstChunk(s) == IF FirstOf(s, Blanks) = 0 THEN s ELSE SubSeq(s, 1, FirstOf(s, Blanks) - 1)
AfterChunk(s) ==
    LET more == {i \in DOMAIN s : i > FirstOf(s, Blanks) /\ s[i] \notin Blanks}
    IN IF FirstOf(s, Blanks) = 0 \/ more = {} THEN <<>> ELSE SubSeq(s, Min(more), Len(s))

SplitSpaces[s \in Strings] ==
    IF s = <<>> THEN <<>> ELSE <<FirstChunk(s)>> \o SplitSpaces[AfterChunk(s)]

(* lines_iter: the last line need not be terminated. *)
Lines[s \in Strings] == IF s = <<>> THEN <<>> ELSE <<Line(s)>> \o Lines[AfterLine(s)]

(* decode_msg on the chunks after MSG and its space. *)
DecodeMsg(line) ==
    LET c == SplitSpaces[line]
        sid == SubscriptionIdFrom(c[2], MaxInt)
        size == ParseUint(c[Len(c)], MaxInt)
    IN IF Len(c) \notin {3, 4} THEN Err("InvalidMsgArgsCount")
       ELSE IF ~Accepts(sid) THEN Err("SubscriptionId")
       ELSE IF ~Accepts(size) \/ size.val > MaxMsgLen THEN Err("InvalidPayloadLength")
       ELSE Ok([subject |-> c[1], sid |-> sid.val, header |-> 0,
                reply |-> IF Len(c) = 4 THEN c[3] ELSE <<>>, payload |-> size.val])

(* decode_hmsg: the payload is what the total leaves, and a total below    *)
(* the length of the headers is an error.                                  *)
DecodeHmsg(line) ==
    LET c == SplitSpaces[line]
        sid == SubscriptionIdFrom(c[2], MaxInt)
        header == ParseUint(c[Len(c) - 1], MaxInt)
        total == ParseUint(c[Len(c)], MaxInt)
    IN IF Len(c) \notin {4, 5} THEN Err("InvalidHmsgArgsCount")
       ELSE IF ~Accepts(sid) THEN Err("SubscriptionId")
       ELSE IF ~Accepts(header) THEN Err("InvalidHeaderLength")
       ELSE IF ~Accepts(total) \/ total.val > MaxMsgLen THEN Err("InvalidPayloadLength")
       ELSE IF total.val < header.val THEN Err("InvalidTotalLength")
       ELSE Ok([subject |-> c[1], sid |-> sid.val, header |-> header.val,
                reply |-> IF Len(c) = 5 THEN c[3] ELSE <<>>,
                payload |-> total.val - header.val])

(* A mutant: every blank at the head of the value is skipped. *)
DecodeHeaderLineTrimmed(line) ==
    LET colon == FirstOf(line, {":"})
        text == {i \in DOMAIN line : i > colon /\ line[i] \notin Blanks}
        value == IF text = {} THEN <<>> ELSE SubSeq(line, Min(text), Len(line))
    IN IF colon = 0 THEN Err("InvalidHeaderLine") ELSE Ok(<<SubSeq(line, 1, colon - 1), value>>)

(* One line of a header block: the name ends at the first colon, and one   *)
(* blank after it is not part of the value.                                *)
DecodeHeaderLine(line) ==
    LET colon == FirstOf(line, {":"})
        rest == SubSeq(line, colon + 1, Len(line))
        value == IF rest # <<>> /\ rest[1] \in Blanks THEN Tail(rest) ELSE rest
        name == NewHeaderName(SubSeq(line, 1, colon - 1))
    IN IF colon = 0 THEN Err("InvalidHeaderLine")
       ELSE IF ~Accepts(name) THEN Err("HeaderName") ELSE Ok(<<name.val, value>>)

Trim(s) ==
    LET text == {i \in DOMAIN s : s[i] \notin Blanks}
    IN IF text = {} THEN <<>> ELSE SubSeq(s, Min(text), Max(text))

(* A mutant: what is no status code counts as none. *)
DecodeHeadLenient(head) ==
    LET line == Tail(head)
        code == StatusCodeFrom(SubSeq(line, 2, 4))
    IN IF head = <<>> \/ head[1] # "NATS/1.0" THEN Err("InvalidHead")
       ELSE IF Len(line) < 4 \/ ~Accepts(code) THEN Ok([code |-> 0, text |-> <<>>])
       ELSE Ok([code |-> code.val, text |-> Trim(SubSeq(line, 6, Len(line)))])

(* The head of a block: after NATS/1.0 and one byte that is not looked at, *)
(* three bytes are a status code; a blank and the description may follow.  *)
DecodeHead(head) ==
    LET line == Tail(head)
        code == StatusCodeFrom(SubSeq(line, 2, 4))
    IN IF head = <<>> \/ head[1] # "NATS/1.0" THEN Err("InvalidHead")
       ELSE IF Len(line) < 4 THEN Ok([code |-> 0, text |-> <<>>])
       ELSE IF ~Accepts(code) THEN Err("StatusCode")
       ELSE IF Len(line) > 4 /\ line[5] \notin Blanks THEN Err("InvalidHead")
       ELSE Ok([code |-> code.val, text |-> Trim(SubSeq(line, 6, Len(line)))])

(* decode_headers, on a block that is completely there: the first line is  *)
(* the head, empty lines are skipped, and the first error ends it.         *)
Filled(lines) ==
    FlattenSeq([i \in DOMAIN lines |-> IF lines[i] = <<>> THEN <<>> ELSE <<lines[i]>>])

DecodeHeaderBlock(block) ==
    LET lines == Lines[block]
        body == Filled(Tail(lines))
        parsed == [i \in DOMAIN body |-> DecodeHeaderLine(body[i])]
        wrong == {i \in DOMAIN body : ~Accepts(parsed[i])}
        head == DecodeHead(Head(lines))
    IN IF lines = <<>> THEN Err("MissingHead")
       ELSE IF ~Accepts(head) THEN head
       ELSE IF wrong # {} THEN parsed[Min(wrong)]
       ELSE Ok([status |-> head.val,
                headers |-> CollectHeaders[[i \in DOMAIN body |-> parsed[i].val]]])

(***************************************************************************)
(* The parties                                                             *)
(***************************************************************************)
WireInit ==
    /\ map = EmptyHeaders
    /\ meant = <<>>
    /\ edits = 0
    /\ op = Nothing
    /\ wire = <<>>
    /\ stage = "building"
    /\ read = Nothing

(* An edit of the map, by a name and a value the application could make. *)
CanEdit == stage = "building" /\ edits < MaxEdits

Others(pairs, name) ==
    FlattenSeq([i \in DOMAIN pairs |-> IF Fold(pairs[i][1]) = Fold(name) THEN <<>>
                                       ELSE <<pairs[i]>>])

Edit(newMap, newMeant) ==
    /\ map' = newMap
    /\ meant' = newMeant
    /\ edits' = edits + 1
    /\ UNCHANGED <<op, wire, stage, read>>

Insert(name, value) ==
    /\ CanEdit /\ Accepts(NewHeaderName(name)) /\ Accepts(NewHeaderValue(value))
    /\ Edit(InsertHeader(map, name, value), Append(Others(meant, name), <<name, value>>))

AppendOne(name, value) ==
    /\ CanEdit /\ Accepts(NewHeaderName(name)) /\ Accepts(NewHeaderValue(value))
    /\ Edit(AppendHeader(map, name, value), Append(meant, <<name, value>>))

RemoveName(name) ==
    /\ CanEdit /\ Accepts(NewHeaderName(name))
    /\ Edit(RemoveHeader(map, name), Others(meant, name))

Clear == CanEdit /\ Edit(EmptyHeaders, <<>>)

Enqueue(o) ==
    /\ stage = "building"
    /\ op' = o
    /\ wire' = Encode(o)
    /\ stage' = "written"
    /\ UNCHANGED <<map, meant, edits, read>>

(* Without a reply subject, reply is empty.  The block and the payload are *)
(* in memory, so that their lengths together are a usize.                  *)
Publish(subject, reply, payload) ==
    /\ Accepts(NewSubject(subject)) /\ (reply = <<>> \/ Accepts(NewSubject(reply)))
    /\ Bytes(Block(map)) + Bytes(payload) <= MaxInt
    /\ Enqueue([kind |-> "Publish", subject |-> subject, reply |-> reply,
                headers |-> map, payload |-> payload])

Subscribe(subject, group) ==
    /\ Accepts(NewSubject(subject)) /\ (group = <<>> \/ Accepts(NewQueueGroup(group)))
    /\ edits = 0
    /\ Enqueue([kind |-> "Subscribe", subject |-> subject, group |-> group, id |-> Sid])

Unsubscribe(max) ==
    /\ edits = 0
    /\ Enqueue([kind |-> "Unsubscribe", id |-> Sid, max |-> max])

(* The constructor of the subject or of the group returns an error, and    *)
(* there is nothing to enqueue.                                            *)
Refuse(subject, group) ==
    /\ stage = "building" /\ edits = 0
    /\ ~Accepts(NewSubject(subject)) \/ (group # <<>> /\ ~Accepts(NewQueueGroup(group)))
    /\ op' = [kind |-> "Refused", subject |-> subject, group |-> group]
    /\ stage' = "refused"
    /\ UNCHANGED <<map, meant, edits, wire, read>>

(* The server's side of the protocol: it splits the control line at blanks *)
(* and takes the lengths for what they are.                                *)
CanTake(s, n) == \E k \in 0..Len(s) : Bytes(SubSeq(s, 1, k)) = n
Take(s, n) == CHOOSE k \in 0..Len(s) : Bytes(SubSeq(s, 1, k)) = n

Number(buf) == IF Accepts(ParseUint(buf, MaxInt)) THEN ParseUint(buf, MaxInt).val ELSE MaxInt + 1

ServerReads(s) ==
    LET c == SplitSpaces[Line(s)]
        n == Len(c)
        body == AfterLine(s)
        sizes == IF c[1] = <<"HPUB">> THEN 2 ELSE 1
        block == IF sizes = 2 THEN Number(c[n - 1]) ELSE 0
        total == Number(c[n])
    IN IF c[1] = <<"SUB">> THEN
            [kind |-> "Subscribe", subject |-> c[2], id |-> Number(c[n]),
             group |-> IF n = 4 THEN c[3] ELSE <<>>, rest |-> body]
       ELSE IF c[1] = <<"UNSUB">> THEN
            [kind |-> "Unsubscribe", id |-> Number(c[2]),
             max |-> IF n = 3 THEN Number(c[3]) ELSE 0, rest |-> body]
       ELSE IF c[1] \in {<<"PUB">>, <<"HPUB">>} /\ CanTake(body, block) /\ CanTake(body, total) THEN
            [kind |-> "Publish", subject |-> c[2],
             reply |-> IF n = 3 + sizes THEN c[3] ELSE <<>>,
             block |-> SubSeq(body, 1, Take(body, block)),
             payload |-> SubSeq(body, Take(body, block) + 1, Take(body, total)),
             rest |-> SubSeq(body, Take(body, total) + 1, Len(body))]
       ELSE [kind |-> "Garbage"]

ServerReceives ==
    /\ stage = "written"
    /\ read' = ServerReads(wire)
    /\ stage' = IF read'.kind = "Publish" THEN "relaying" ELSE "understood"
    /\ UNCHANGED <<map, meant, edits, op, wire>>

(* MSG or HMSG, with the id of the subscription it is delivered to. *)
ServerFrame(subject, reply, block, payload) ==
    Terminated(Arg(IF block = <<>> THEN <<"MSG">> ELSE <<"HMSG">>,
                   Arg(subject, Arg(Decimal[Sid], OptionalArg(reply, Sizes(block, payload))))))
      \o (block \o Terminated(payload))

Relay ==
    /\ stage = "relaying"
    /\ wire' = ServerFrame(read.subject, read.reply, read.block, read.payload)
    /\ stage' = "delivered"
    /\ UNCHANGED <<map, meant, edits, op, read>>

(* An answer of the server itself: a head with a status, and no payload. *)
StatusBlock(line) == Unlines(<<<<"NATS/1.0">> \o line, <<>>>>)

Answer(subject, line) ==
    /\ stage = "building" /\ edits = 0
    /\ Accepts(NewSubject(subject))
    /\ op' = [kind |-> "Status", line |-> line]
    /\ wire' = ServerFrame(subject, <<>>, StatusBlock(line), <<>>)
    /\ stage' = "delivered"
    /\ UNCHANGED <<map, meant, edits, read>>

(* decode, when all of the message is there: the control line, then the    *)
(* header block, then the payload and its terminator.                      *)
DecodeFrame(s) ==
    LET plain == s[1] = "MSG"
        args == SubSeq(Line(s), 3, Len(Line(s)))
        d == IF plain THEN DecodeMsg(args) ELSE DecodeHmsg(args)
        body == AfterLine(s)
        block == SubSeq(body, 1, Take(body, d.val.header))
        h == IF plain THEN Ok([status |-> [code |-> 0, text |-> <<>>], headers |-> EmptyHeaders])
             ELSE DecodeHeaderBlock(block)
        payload == SubSeq(body, Len(block) + 1, Take(body, d.val.header + d.val.payload))
    IN IF ~Accepts(d) THEN d
       ELSE IF ~Accepts(h) THEN h
       ELSE Ok([subject |-> d.val.subject, reply |-> d.val.reply, sid |-> d.val.sid,
                status |-> h.val.status, headers |-> h.val.headers, payload |-> payload,
                rest |-> SubSeq(body, Len(block) + Len(payload) + 1, Len(body))])

ClientReads ==
    /\ stage = "delivered"
    /\ read' = DecodeFrame(wire)
    /\ stage' = "read"
    /\ UNCHANGED <<map, meant, edits, op, wire>>

WireNext ==
    \/ \E n \in RawNames, v \in RawValues : Insert(n, v) \/ AppendOne(n, v)
    \/ \E n \in RawNames : RemoveName(n)
    \/ Clear
    \/ \E s \in Destinations, p \in Payloads : \E r \in {<<>>, s} : Publish(s, r, p)
    \/ \E s \in RawSubjects, g \in RawGroups \cup {<<>>} : Subscribe(s, g) \/ Refuse(s, g)
    \/ \E m \in Limits : Unsubscribe(m)
    \/ ServerReceives
    \/ Relay
    \/ \E s \in Destinations, l \in StatusLines : Answer(s, l)
    \/ ClientReads

WireSpec == WireInit /\ [][WireNext]_wireVars

(* Lengths and limits are integers of the program; a head of the server is *)
(* a line, and no longer than a message may be.                            *)
ASSUME WireAssumption ==
    /\ RawSubjects \cup RawGroups \cup Destinations \subseteq Strings
    /\ RawNames \cup RawValues \cup Payloads \cup StatusLines \subseteq Strings
    /\ MaxInt \in Nat /\ MaxMsgLen \in 0..MaxInt
    /\ Limits \cup {Sid} \subseteq 0..MaxInt
    /\ \A l \in StatusLines : Count(l, Crlf) = 0 /\ Bytes(StatusBlock(l)) <= MaxMsgLen

-----------------------------------------------------------------------------
(***************************************************************************)
(* Properties                                                              *)
(***************************************************************************)
(* headers/map.rs keeps len beside the tree: it is the number of values    *)
(* there are (and so never wraps), and no name is left without a value.    *)
WireTypeOK ==
    /\ map.len = Len(HeaderPairs(map))
    /\ \A k \in DOMAIN map.headers : map.headers[k].values # <<>>
    /\ stage \in {"building", "written", "refused", "understood", "relaying", "delivered", "read"}

(* encode, and the subjects and groups that validate_subject and           *)
(* validate_queue_group let through: the server reads off the wire the op  *)
(* that was enqueued, argument by argument, and nothing is left over.      *)
OpIsRead ==
    /\ stage = "understood" =>
         /\ read.kind = op.kind
         /\ read.rest = <<>>
         /\ \A f \in DOMAIN op : read[f] = op[f]
    /\ stage = "relaying" =>
         /\ op.kind = "Publish"
         /\ read.rest = <<Crlf>>
         /\ \A f \in {"subject", "reply", "payload"} : read[f] = op[f]

(* The values a name has among pairs, in order; the name in any spelling. *)
ValuesOf(pairs, name) ==
    FlattenSeq([i \in DOMAIN pairs |-> IF Fold(pairs[i][1]) = Fold(name) THEN <<pairs[i][2]>>
                                       ELSE <<>>])

(* decode_headers undoes encode_headers: a publication arrives with the    *)
(* subject, reply and payload it had, and under each name the values the   *)
(* application gave it, in the order it gave them, byte by byte; one that  *)
(* is longer than a message may be is an error (mod.rs:229 and 301).       *)
ArrivesAsPublished ==
    stage = "read" /\ op.kind = "Publish" =>
      IF Bytes(Block(op.headers)) + Bytes(op.payload) > MaxMsgLen
      THEN read.err = "InvalidPayloadLength"
      ELSE /\ Accepts(read)
           /\ \A f \in {"subject", "reply", "payload"} : read.val[f] = op[f]
           /\ read.val.status.code = 0
           /\ read.val.rest = <<Crlf>>
           /\ read.val.headers.len = Len(meant)
           /\ \A n \in {m \in RawNames : Accepts(NewHeaderName(m))} :
                GetAll(read.val.headers, n) = ValuesOf(meant, n)

(* decode_headers, mod.rs:336-361: a head " ddd" or " ddd text" is read as *)
(* that code and that text, and any other digits are an error and not a    *)
(* message without a status.                                               *)
StatusIsRead ==
    stage = "read" /\ op.kind = "Status" =>
      LET line == op.line
          digits == SubSeq(line, 2, 4)
          proper == /\ Len(line) >= 4
                    /\ \A i \in 1..3 : IsAsciiDigit(digits[i])
                    /\ digits[1] # "0"
                    /\ Len(line) > 4 => line[5] \in Blanks
      IN /\ proper => /\ Accepts(read)
                      /\ Decimal[read.val.status.code] = digits
                      /\ read.val.status.text = Trim(SubSeq(line, 6, Len(line)))
         /\ Accepts(read) /\ ~proper => Len(line) < 4 /\ read.val.status.code = 0

(* subject.rs:11-20 and queue_group.rs:13-18, read as a grammar: what the  *)
(* constructors accept is exactly the strings whose wildcards stand alone, *)
(* whose tokens are not empty and which contain no separator of the wire.  *)
WellFormed(s) ==
    /\ s # <<>>
    /\ \A i \in DOMAIN s :
         LET starts == i = 1 \/ s[i - 1] = "."
             ends == i = Len(s) \/ s[i + 1] = "."
         IN /\ s[i] \notin Blanks \cup {Crlf}
            /\ s[i] = "." => ~starts /\ i < Len(s)
            /\ s[i] = "*" => starts /\ ends
            /\ s[i] = ">" => starts /\ i = Len(s)

GrammarIsKept ==
    /\ op.kind \in {"Publish", "Subscribe"} => WellFormed(op.subject)
    /\ op.kind = "Refused" =>
         \/ ~WellFormed(op.subject)
         \/ \E i \in DOMAIN op.group : op.group[i] \in Blanks \cup {Crlf}

(* encode and the constructors of subjects and groups: the server reads    *)
(* the op that was enqueued, and nothing is enqueued that it would read    *)
(* otherwise.                                                              *)
ServerUnderstands == OpIsRead /\ GrammarIsKept

(* decode and decode_headers: a message arrives as it was published, and   *)
(* the status of the server as it was sent.                                *)
ArrivesAsSent == ArrivesAsPublished /\ StatusIsRead
=============================================================================
