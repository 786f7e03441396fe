--------------------------- MODULE ConsumerProofs ---------------------------
(***************************************************************************)
(* Proofs about Consumer, for any number of messages and inboxes, any      *)
(* batch, channel and network sizes and any number of faults: what the     *)
(* client counts, asks and reports of a pull consumer is so.               *)
(***************************************************************************)
EXTENDS Consumer, FiniteSetTheorems, FunctionTheorems, TLAPS

(***************************************************************************)
(* What the queues hold.  A status or an error in one of them is a fault   *)
(* that ends a stream, and has been recorded as one.                       *)
(***************************************************************************)
Command ==
    [op : {"SUB", "NEXT", "UNSUB"}, inbox : Inboxes]
        \cup [op : {"ACK", "TERM", "NAK", "WPI"}, inbox : {None}, msg : Msgs]
Calm == {"timeout", "graceful", "heartbeat"}
CalmOp == [kind : {"data"}, inbox : Inboxes, msg : Msgs] \cup [kind : Calm, inbox : Inboxes]
ServerOp == CalmOp \cup [kind : {"status", "error"}, inbox : Inboxes]
Ops == IF errored THEN ServerOp ELSE CalmOp
OwnOps == {op \in Ops : op.inbox = inbox}

\* A message of the application: it is marked once its acknowledgment is in
\* the channel, and never while one is being sent.
Message ==
    [msg : Msgs, reply : BOOLEAN, client : BOOLEAN, acked : BOOLEAN,
     sending : {"none", "ACK", "TERM", "NAK"}, sent : {0, 1},
     result : {"none", "NoReplySubject", "AlreadyAcknowledged", "Ok", "ClientClosed"}]
Settled == {m \in Message : /\ m.sent = IF m.acked THEN 1 ELSE 0
                            /\ m.sending # "none" => ~m.acked}

QueuesOK ==
    /\ commands \in Seq(Command)
    /\ inbound \in Seq(Ops)
    /\ queue \in Seq(OwnOps)
    /\ received \in Seq(OwnOps)
    /\ held \in Seq(Settled)

(***************************************************************************)
(* The batch.  Due is what the server still owes it or has sent.  Nothing  *)
(* is due as long as its request is not sent or is in the command channel, *)
(* the channel holds no UNSUB for its inbox, and unless the SUB has been   *)
(* taken (or refused) it is in the channel, before the request.            *)
(***************************************************************************)
At(op, i, cmds) == {k \in 1..Len(cmds) : cmds[k].op = op /\ cmds[k].inbox = i}
Due == requests[inbox] + MessagesFor(inbox, inbound)
         + MessagesFor(inbox, queue) + MessagesFor(inbox, received)

OwnInbox ==
    IF status \in {"subscribing", "over"} THEN inbox = None ELSE inbox \in Inboxes
AsksOnce ==
    /\ At("UNSUB", inbox, commands) = {}
    /\ \A j, k \in At("NEXT", inbox, commands) : j = k
CountsDue ==
    /\ status = "publishing" => At("NEXT", inbox, commands) = {} /\ Due = 0
    /\ status = "running" => Due <= pending
    /\ At("NEXT", inbox, commands) # {} => Due = 0 /\ pending = MaxMsgs
Listens(i, cmds, asked, on) ==
    \/ i \in on
    \/ /\ asked = 0
       /\ \E j \in At("SUB", i, cmds) : \A k \in At("NEXT", i, cmds) : j < k
BatchInv ==
    inbox # None =>
        /\ AsksOnce /\ CountsDue
        /\ ~errored => Listens(inbox, commands, requests[inbox], subs)

IInv ==
    /\ ConsumerTypeOK /\ QueuesOK
    /\ OwnInbox /\ BatchInv
    /\ ~open => errored
    /\ BreaksOnlyOnError

-----------------------------------------------------------------------------
(***************************************************************************)
(* Counting the messages of a queue.                                       *)
(***************************************************************************)
Places(i, q) == {k \in DOMAIN q : q[k].inbox = i /\ q[k].kind = "data"}

LEMMA PlacesAreFinite ==
    ASSUME NEW S, NEW q \in Seq(S), NEW i
    PROVE  /\ IsFiniteSet(Places(i, q)) /\ Places(i, q) \subseteq 1..Len(q)
           /\ MessagesFor(i, q) = Cardinality(Places(i, q))
           /\ MessagesFor(i, q) \in Nat
<1>1. Len(q) \in Nat /\ DOMAIN q = 1..Len(q)
  OBVIOUS
<1>2. IsFiniteSet(1..Len(q))
  BY <1>1, FS_Interval
<1>3. Places(i, q) \subseteq 1..Len(q)
  BY <1>1 DEF Places
<1>4. IsFiniteSet(Places(i, q))
  BY <1>2, <1>3, FS_Subset
<1>5. MessagesFor(i, q) = Cardinality(Places(i, q))
  BY DEF MessagesFor, Places
<1> QED
  BY <1>3, <1>4, <1>5, FS_CardinalityType

LEMMA EmptyHasNone == ASSUME NEW i PROVE MessagesFor(i, <<>>) = 0
<1>1. Places(i, <<>>) = {}
  BY DEF Places
<1>2. MessagesFor(i, <<>>) = Cardinality(Places(i, <<>>))
  BY DEF MessagesFor, Places
<1> QED
  BY <1>1, <1>2, FS_EmptySet

\* One more op is one more message if it is one for the inbox.
LEMMA AppendCounts ==
    ASSUME NEW S, NEW q \in Seq(S), NEW op \in S, NEW i
    PROVE  MessagesFor(i, Append(q, op)) =
             MessagesFor(i, q) + (IF op.inbox = i /\ op.kind = "data" THEN 1 ELSE 0)
<1> DEFINE longer == Append(q, op)
<1>1. /\ Len(longer) = Len(q) + 1
      /\ DOMAIN longer = 1..Len(longer)
      /\ \A k \in 1..Len(q) : longer[k] = q[k]
      /\ longer[Len(q) + 1] = op
      /\ Len(q) \in Nat /\ DOMAIN q = 1..Len(q)
      /\ longer \in Seq(S)
  OBVIOUS
<1> HIDE DEF longer
<1>2. /\ IsFiniteSet(Places(i, q)) /\ Places(i, q) \subseteq 1..Len(q)
      /\ MessagesFor(i, q) = Cardinality(Places(i, q)) /\ MessagesFor(i, q) \in Nat
      /\ MessagesFor(i, longer) = Cardinality(Places(i, longer))
  BY <1>1, PlacesAreFinite
<1>3. \A k \in 1..Len(longer) : k \in 1..Len(q) \/ k = Len(q) + 1
  BY <1>1
<1>4. CASE op.inbox = i /\ op.kind = "data"
  <2>1. Places(i, longer) = Places(i, q) \cup {Len(q) + 1}
    BY <1>1, <1>3, <1>4 DEF Places
  <2>2. Len(q) + 1 \notin Places(i, q)
    BY <1>1, <1>2
  <2> QED
    BY <1>2, <1>4, <2>1, <2>2, FS_AddElement DEF longer
<1>5. CASE ~(op.inbox = i /\ op.kind = "data")
  <2>1. Places(i, longer) = Places(i, q)
    BY <1>1, <1>3, <1>5 DEF Places
  <2> QED
    BY <1>2, <1>5, <2>1 DEF longer
<1> QED
  BY <1>4, <1>5

\* Without its head a queue has one message less if the head is one.
LEMMA TailCounts ==
    ASSUME NEW S, NEW q \in Seq(S), q # <<>>, NEW i
    PROVE  MessagesFor(i, q) =
             MessagesFor(i, Tail(q))
               + (IF Head(q).inbox = i /\ Head(q).kind = "data" THEN 1 ELSE 0)
<1> DEFINE rest == Tail(q)
           moved == {k + 1 : k \in Places(i, rest)}
           shift == [k \in Places(i, rest) |-> k + 1]
<1>1. /\ Len(q) \in Nat \ {0} /\ DOMAIN q = 1..Len(q)
      /\ Len(rest) = Len(q) - 1 /\ DOMAIN rest = 1..Len(rest)
      /\ \A k \in 1..Len(rest) : rest[k] = q[k + 1]
      /\ Head(q) = q[1]
      /\ rest \in Seq(S)
  OBVIOUS
<1> HIDE DEF rest
<1>2. /\ IsFiniteSet(Places(i, q))
      /\ MessagesFor(i, q) = Cardinality(Places(i, q))
      /\ IsFiniteSet(Places(i, rest)) /\ Places(i, rest) \subseteq 1..Len(rest)
      /\ MessagesFor(i, rest) = Cardinality(Places(i, rest)) /\ MessagesFor(i, rest) \in Nat
  BY <1>1, PlacesAreFinite
<1>3. IsFiniteSet(moved) /\ Cardinality(moved) = Cardinality(Places(i, rest))
  <2>1. shift \in [Places(i, rest) -> moved]
    OBVIOUS
  <2>2. \A a, b \in Places(i, rest) : shift[a] = shift[b] => a = b
    BY <1>2
  <2>3. \A t \in moved : \E k \in Places(i, rest) : shift[k] = t
    OBVIOUS
  <2>4. shift \in Bijection(Places(i, rest), moved)
    BY <2>1, <2>2, <2>3, Fun_IsBij
  <2> QED
    BY <1>2, <2>4, FS_Bijection DEF ExistsBijection
<1>4. \A k \in 1..Len(q) : k = 1 \/ (k - 1 \in 1..Len(rest) /\ q[k] = rest[k - 1] /\ k = (k - 1) + 1)
  BY <1>1
<1>5. 1 \notin moved
  BY <1>2
<1>6. ASSUME NEW k \in Places(i, q), k # 1 PROVE k \in moved
  <2>1. k - 1 \in Places(i, rest) /\ k = (k - 1) + 1
    BY <1>1, <1>4, <1>6 DEF Places
  <2> QED
    BY <2>1
<1>7. CASE Head(q).inbox = i /\ Head(q).kind = "data"
  <2>1. Places(i, q) = moved \cup {1}
    <3>1. moved \cup {1} \subseteq Places(i, q)
      BY <1>1, <1>7 DEF Places
    <3>2. Places(i, q) \subseteq moved \cup {1}
      BY <1>6
    <3> QED
      BY <3>1, <3>2
  <2> HIDE DEF moved
  <2> QED
    BY <1>2, <1>3, <1>5, <1>7, <2>1, FS_AddElement DEF rest
<1>8. CASE ~(Head(q).inbox = i /\ Head(q).kind = "data")
  <2>1. Places(i, q) = moved
    <3>1. moved \subseteq Places(i, q)
      BY <1>1 DEF Places
    <3>2. 1 \notin Places(i, q)
      BY <1>1, <1>8 DEF Places
    <3> QED
      BY <1>6, <3>1, <3>2
  <2> HIDE DEF moved
  <2> QED
    BY <1>2, <1>3, <1>8, <2>1 DEF rest
<1> QED
  BY <1>7, <1>8

\* No op of the queue is for the inbox.
LEMMA NoneMentioned ==
    ASSUME NEW i, NEW q, ~Mentions(q, i)
    PROVE  MessagesFor(i, q) = 0
<1>1. Places(i, q) = {}
  BY DEF Mentions, Places
<1> QED
  BY <1>1, FS_EmptySet DEF MessagesFor, Places

-----------------------------------------------------------------------------
(***************************************************************************)
(* Where the commands about an inbox are.                                  *)
(***************************************************************************)
LEMMA AppendAt ==
    ASSUME NEW cmds \in Seq(Command), NEW c \in Command, NEW op, NEW i
    PROVE  At(op, i, Append(cmds, c)) =
             At(op, i, cmds) \cup (IF c.op = op /\ c.inbox = i THEN {Len(cmds) + 1} ELSE {})
<1> DEFINE longer == Append(cmds, c)
<1>1. /\ Len(longer) = Len(cmds) + 1
      /\ \A k \in 1..Len(cmds) : longer[k] = cmds[k]
      /\ longer[Len(cmds) + 1] = c
      /\ Len(cmds) \in Nat
  OBVIOUS
<1> HIDE DEF longer
<1>2. \A k \in 1..Len(longer) : k \in 1..Len(cmds) \/ k = Len(cmds) + 1
  BY <1>1
<1> QED
  BY <1>1, <1>2 DEF At, longer

\* The rest of the channel once its first n commands are taken or lost.
Drops(cmds, n, rest) ==
    /\ n \in 0..Len(cmds)
    /\ Len(rest) = Len(cmds) - n
    /\ \A k \in 1..Len(rest) : rest[k] = cmds[k + n]

LEMMA TailDrops ==
    ASSUME NEW cmds \in Seq(Command), cmds # <<>>
    PROVE  Tail(cmds) \in Seq(Command) /\ Drops(cmds, 1, Tail(cmds))
BY DEF Drops

LEMMA SubSeqDrops ==
    ASSUME NEW cmds \in Seq(Command), NEW n \in 0..Len(cmds)
    PROVE  /\ SubSeq(cmds, n + 1, Len(cmds)) \in Seq(Command)
           /\ Drops(cmds, n, SubSeq(cmds, n + 1, Len(cmds)))
<1> DEFINE rest == SubSeq(cmds, n + 1, Len(cmds))
<1>1. Len(cmds) \in Nat /\ n \in Nat
  OBVIOUS
<1>2. /\ Len(rest) = Len(cmds) - n
      /\ \A k \in 1..Len(rest) : rest[k] = cmds[k + n]
  BY <1>1
<1>3. \A k \in (n + 1)..Len(cmds) : cmds[k] \in Command
  BY <1>1
<1>4. rest \in Seq(Command)
  BY <1>1, <1>3
<1> QED
  BY <1>2, <1>4 DEF Drops

LEMMA DropsAt ==
    ASSUME NEW cmds \in Seq(Command), NEW n, NEW rest \in Seq(Command),
           Drops(cmds, n, rest), NEW op, NEW i
    PROVE  /\ \A k \in At(op, i, rest) : k \in Nat \ {0} /\ k + n \in At(op, i, cmds)
           /\ \A k \in At(op, i, cmds) : k > n => k - n \in At(op, i, rest)
<1>1. Len(cmds) \in Nat /\ n \in Nat /\ Len(rest) = Len(cmds) - n
  BY DEF Drops
<1>2. ASSUME NEW k \in At(op, i, rest)
      PROVE  k \in Nat \ {0} /\ k + n \in At(op, i, cmds)
  BY <1>1 DEF At, Drops
<1>3. ASSUME NEW k \in At(op, i, cmds), k > n
      PROVE  k - n \in At(op, i, rest)
  <2>1. k - n \in 1..Len(rest) /\ (k - n) + n = k
    BY <1>1, <1>3 DEF At
  <2>2. rest[k - n] = cmds[k]
    BY <2>1 DEF Drops
  <2> QED
    BY <2>1, <2>2 DEF At
<1> QED
  BY <1>2, <1>3

\* What is not in the channel, or there once, stays so.
LEMMA DropsLess ==
    ASSUME NEW cmds \in Seq(Command), NEW n, NEW rest \in Seq(Command),
           Drops(cmds, n, rest), NEW op, NEW i
    PROVE  /\ At(op, i, cmds) = {} => At(op, i, rest) = {}
           /\ (\A j, k \in At(op, i, cmds) : j = k) =>
                (\A j, k \in At(op, i, rest) : j = k)
<1>0. n \in Nat
  BY DEF Drops
<1>1. \A k \in At(op, i, rest) : k \in Nat \ {0} /\ k + n \in At(op, i, cmds)
  BY DropsAt
<1>2. ASSUME \A j, k \in At(op, i, cmds) : j = k,
             NEW j \in At(op, i, rest), NEW k \in At(op, i, rest)
      PROVE  j = k
  <2>1. j + n = k + n /\ j \in Nat /\ k \in Nat
    BY <1>1, <1>2
  <2> QED
    BY <1>0, <2>1
<1> QED
  BY <1>1, <1>2

\* More commands at the end: the SUB is still before the request.
LEMMA AppendListens ==
    ASSUME NEW cmds \in Seq(Command), NEW c \in Command, NEW i, NEW asked, NEW on,
           Listens(i, cmds, asked, on)
    PROVE  Listens(i, Append(cmds, c), asked, on)
<1>1. Len(cmds) \in Nat /\ \A k \in At("SUB", i, cmds) : k \in 1..Len(cmds)
  BY DEF At
<1>2. /\ At("SUB", i, cmds) \subseteq At("SUB", i, Append(cmds, c))
      /\ At("NEXT", i, Append(cmds, c)) \subseteq At("NEXT", i, cmds) \cup {Len(cmds) + 1}
  BY AppendAt
<1>3. ASSUME NEW j \in At("SUB", i, cmds), \A k \in At("NEXT", i, cmds) : j < k
      PROVE  \A k \in At("NEXT", i, Append(cmds, c)) : j < k
  BY <1>1, <1>2, <1>3
<1> QED
  BY <1>2, <1>3 DEF Listens

\* Commands taken from the front: a SUB among them makes the handler listen.
LEMMA DropsListens ==
    ASSUME NEW cmds \in Seq(Command), NEW n, NEW rest \in Seq(Command),
           Drops(cmds, n, rest), NEW i, NEW asked, NEW on, NEW askedNow, NEW onNow,
           Listens(i, cmds, asked, on),
           \A j \in At("SUB", i, cmds) : j <= n => i \in onNow,
           i \in on => i \in onNow, asked = 0 => askedNow = 0
    PROVE  Listens(i, rest, askedNow, onNow)
<1>0. n \in Nat /\ \A k \in At("SUB", i, cmds) : k \in Nat
  BY DEF Drops, At
<1>1. /\ \A k \in At("NEXT", i, rest) : k \in Nat \ {0} /\ k + n \in At("NEXT", i, cmds)
      /\ \A k \in At("SUB", i, cmds) : k > n => k - n \in At("SUB", i, rest)
  BY DropsAt
<1>2. CASE i \in on
  BY <1>2 DEF Listens
<1>3. ASSUME asked = 0, NEW j \in At("SUB", i, cmds), \A k \in At("NEXT", i, cmds) : j < k,
             i \notin onNow
      PROVE  askedNow = 0 /\ \E l \in At("SUB", i, rest) : \A k \in At("NEXT", i, rest) : l < k
  <2>1. j > n /\ j - n \in At("SUB", i, rest)
    BY <1>0, <1>1, <1>3
  <2>2. \A k \in At("NEXT", i, rest) : j - n < k
    BY <1>0, <1>1, <1>3
  <2> QED
    BY <1>3, <2>1, <2>2
<1> QED
  BY <1>2, <1>3 DEF Listens

-----------------------------------------------------------------------------
(***************************************************************************)
(* What the parts of IInv need of a step.                                  *)
(***************************************************************************)
LEMMA LargerSeq ==
    ASSUME NEW S, NEW T, S \subseteq T, NEW q \in Seq(S)
    PROVE  q \in Seq(T)
  OBVIOUS

LEMMA OwnOpsFields ==
    /\ \A op \in Ops : /\ op.inbox \in Inboxes
                       /\ op.kind = "data" => op.msg \in Msgs
                       /\ op.kind \in {"status", "error"} => errored
    /\ OwnOps \subseteq Ops
  BY DEF Ops, OwnOps, CalmOp, ServerOp, Calm

\* A fault that ends a stream only allows more.
LEMMA OpsGrow ==
    ASSUME errored => errored'
    PROVE  /\ Ops \subseteq Ops'
           /\ UNCHANGED inbox => OwnOps \subseteq OwnOps'
<1>1. Ops \subseteq Ops'
  BY DEF Ops, ServerOp
<1> QED
  BY <1>1 DEF OwnOps

LEMMA QuietQueues ==
    ASSUME QueuesOK, errored => errored', UNCHANGED <<inbox, inbound, queue, received, held>>,
           commands' \in Seq(Command)
    PROVE  QueuesOK'
<1>1. Ops \subseteq Ops' /\ OwnOps \subseteq OwnOps'
  BY OpsGrow
<1> DEFINE ops == Ops
           own == OwnOps
           opsNow == Ops'
           ownNow == OwnOps'
<1>2. /\ inbound \in Seq(ops) /\ queue \in Seq(own) /\ received \in Seq(own)
      /\ ops \subseteq opsNow /\ own \subseteq ownNow
  BY <1>1 DEF QueuesOK
<1> HIDE DEF ops, own, opsNow, ownNow
<1>3. inbound \in Seq(opsNow) /\ queue \in Seq(ownNow) /\ received \in Seq(ownNow)
  BY <1>2, LargerSeq
<1>4. inbound' \in Seq(Ops') /\ queue' \in Seq(OwnOps') /\ received' \in Seq(OwnOps')
  BY <1>3 DEF opsNow, ownNow
<1> QED
  BY <1>4 DEF QueuesOK

LEMMA DueIsNat ==
    ASSUME ConsumerTypeOK, QueuesOK, inbox \in Inboxes
    PROVE  /\ requests[inbox] \in 0..MaxMsgs
           /\ MessagesFor(inbox, inbound) \in Nat
           /\ MessagesFor(inbox, queue) \in Nat
           /\ MessagesFor(inbox, received) \in Nat
           /\ Due \in Nat
<1>1. requests[inbox] \in 0..MaxMsgs
  BY DEF ConsumerTypeOK
<1>2. /\ MessagesFor(inbox, inbound) \in Nat
      /\ MessagesFor(inbox, queue) \in Nat
      /\ MessagesFor(inbox, received) \in Nat
  BY PlacesAreFinite DEF QueuesOK
<1>3. Due \in Nat
  BY <1>1, <1>2, ConsumerAssumption DEF Due
<1> QED
  BY <1>1, <1>2, <1>3

\* A step within a batch.
LEMMA BatchStep ==
    ASSUME BatchInv, inbox # None, UNCHANGED <<status, inbox>>,
           Due \in Nat, Due' \in Nat, pending \in Nat, pending' \in Nat, pending' <= pending,
           Due' + (pending - pending') <= Due,
           AsksOnce', At("NEXT", inbox, commands)' # {} => At("NEXT", inbox, commands) # {},
           ~errored' => Listens(inbox, commands, requests[inbox], subs)'
    PROVE  BatchInv'
<1>1. CountsDue
  BY DEF BatchInv
<1>2. /\ Due = 0 => Due' = 0 /\ pending' = pending
      /\ Due <= pending => Due' <= pending'
  <2> DEFINE d == Due
             e == Due'
             p == pending
             q == pending'
  <2>1. d \in Nat /\ e \in Nat /\ p \in Nat /\ q \in Nat /\ q <= p /\ e + (p - q) <= d
    OBVIOUS
  <2> HIDE DEF d, e, p, q
  <2>2. (d = 0 => e = 0 /\ q = p) /\ (d <= p => e <= q)
    BY <2>1
  <2> QED
    BY <2>2 DEF d, e, p, q
<1>3. CountsDue'
  BY <1>1, <1>2 DEF CountsDue
<1> QED
  BY <1>3 DEF BatchInv

\* A command that is not about an inbox, or none.
Unrelated == UNCHANGED commands \/ \E c \in Command : c.inbox = None /\ commands' = Append(commands, c)

LEMMA UnrelatedAt ==
    ASSUME QueuesOK, Unrelated, NEW i \in Inboxes, NEW asked, NEW on
    PROVE  /\ \A op : At(op, i, commands)' = At(op, i, commands)
           /\ Listens(i, commands, asked, on) => Listens(i, commands', asked, on)
           /\ commands' \in Seq(Command)
<1>1. i # None
  BY ConsumerAssumption DEF Inboxes
<1>2. commands \in Seq(Command)
  BY DEF QueuesOK
<1>3. CASE UNCHANGED commands
  BY <1>2, <1>3
<1>4. ASSUME NEW c \in Command, c.inbox = None, commands' = Append(commands, c)
      PROVE  /\ \A op : At(op, i, commands)' = At(op, i, commands)
             /\ Listens(i, commands, asked, on) => Listens(i, commands', asked, on)
             /\ commands' \in Seq(Command)
  <2>1. \A op : At(op, i, Append(commands, c)) = At(op, i, commands)
    <3> SUFFICES ASSUME NEW op PROVE At(op, i, Append(commands, c)) = At(op, i, commands)
      OBVIOUS
    <3>1. At(op, i, Append(commands, c)) =
            At(op, i, commands)
              \cup (IF c.op = op /\ c.inbox = i THEN {Len(commands) + 1} ELSE {})
      BY <1>2, AppendAt
    <3> QED
      BY <1>1, <1>4, <3>1
  <2> QED
    BY <1>2, <1>4, <2>1, AppendListens
<1> QED
  BY <1>3, <1>4 DEF Unrelated

\* A step of others: the batch does not notice.
LEMMA QuietBatch ==
    ASSUME ConsumerTypeOK, QueuesOK, OwnInbox, BatchInv, errored => errored', Unrelated,
           UNCHANGED <<status, inbox, pending, requests, inbound, queue, received, subs>>
    PROVE  OwnInbox' /\ BatchInv'
<1>1. OwnInbox'
  BY DEF OwnInbox
<1>2. CASE inbox = None
  <2>1. inbox' = None
    BY <1>2
  <2> QED
    BY <1>1, <2>1, Zenon DEF BatchInv
<1>3. CASE inbox # None
  <2>1. inbox \in Inboxes
    BY <1>3 DEF OwnInbox
  <2>2. AsksOnce /\ CountsDue /\ (~errored => Listens(inbox, commands, requests[inbox], subs))
    BY <1>3 DEF BatchInv
  <2> DEFINE asked == requests[inbox]
  <2>3. /\ \A op : At(op, inbox, commands)' = At(op, inbox, commands)
        /\ Listens(inbox, commands, asked, subs) => Listens(inbox, commands', asked, subs)
    <3> HIDE DEF asked
    <3>1. /\ \A op : At(op, inbox, commands') = At(op, inbox, commands)
          /\ Listens(inbox, commands, asked, subs) => Listens(inbox, commands', asked, subs)
      BY <2>1, UnrelatedAt
    <3> QED
      BY <3>1
  <2>4. Due' = Due
    BY DEF Due
  <2>5. AsksOnce' /\ CountsDue'
    BY <2>2, <2>3, <2>4 DEF AsksOnce, CountsDue
  <2>6. ~errored' => Listens(inbox, commands, requests[inbox], subs)'
    BY <2>2, <2>3
  <2> QED
    BY <1>1, <2>5, <2>6 DEF BatchInv
<1> QED
  BY <1>1, <1>2, <1>3

\* Leaving a batch: nothing of it is left with the client but the UNSUB.
LEMMA DropTypes ==
    ASSUME ConsumerTypeOK, QueuesOK, DropSubscription
    PROVE  /\ commands' \in Seq(Command)
           /\ Len(commands') <= CommandCap
           /\ unsubFailed' \in BOOLEAN
<1> DEFINE unsub == SenderAlive(inbox) /\ open
<1>1. commands \in Seq(Command) /\ Len(commands) <= CommandCap /\ CommandCap \in Nat
  BY ConsumerAssumption DEF QueuesOK, ConsumerTypeOK
<1>2. SenderAlive(inbox) => inbox \in Inboxes
  <2>1. ASSUME NEW k \in DOMAIN commands, commands[k] = [op |-> "SUB", inbox |-> inbox]
        PROVE  inbox \in Inboxes
    <3>1. commands[k] \in Command
      BY <1>1
    <3>2. commands[k].op = "SUB" /\ commands[k].inbox = inbox
      BY <2>1
    <3> QED
      BY <3>1, <3>2 DEF Command
  <2> QED
    BY <2>1 DEF SenderAlive, ConsumerTypeOK
<1>3. inbox \in Inboxes => [op |-> "UNSUB", inbox |-> inbox] \in Command
  BY DEF Command
<1>4. unsubFailed' \in BOOLEAN
  BY DEF DropSubscription
<1>5. \/ UNCHANGED commands
      \/ /\ inbox \in Inboxes /\ Len(commands) < CommandCap
         /\ commands' = Append(commands, [op |-> "UNSUB", inbox |-> inbox])
  BY <1>2 DEF DropSubscription, HasRoom
<1> QED
  BY <1>1, <1>3, <1>4, <1>5

LEMMA LeaveBatch ==
    ASSUME IInv, DropSubscription, status' \in {"subscribing", "over"},
           kind = "stream" /\ status' = "over" => errored,
           inbox' = None, pending' = 0, timer' = "off", queue' = <<>>, received' = <<>>,
           armed' = {}, awake' \in BOOLEAN,
           UNCHANGED <<open, alive, kind, held, subs, server, fault>>
    PROVE  IInv'
<1> USE DEF server, fault
<1>1. /\ commands' \in Seq(Command)
      /\ Len(commands') <= CommandCap
      /\ unsubFailed' \in BOOLEAN
  BY DropTypes DEF IInv
<1>2. ConsumerTypeOK'
  BY <1>1, ConsumerAssumption DEF IInv, ConsumerTypeOK
<1>3. QueuesOK'
  BY <1>1 DEF IInv, QueuesOK, Ops
<1>4. OwnInbox' /\ BatchInv'
  BY DEF OwnInbox, BatchInv
<1> QED
  BY <1>2, <1>3, <1>4 DEF IInv, BreaksOnlyOnError

-----------------------------------------------------------------------------
(***************************************************************************)
(* ConsumerBatch::new and ConsumerBatch::poll_next.                        *)
(***************************************************************************)
\* A fresh inbox is one that nothing is due to.
LEMMA NewSubscribesInv ==
    ASSUME IInv, NewSubscribes PROVE IInv'
<1> USE DEF client, server, fault
<1> PICK i \in Inboxes : /\ Fresh(i)
                         /\ inbox' = i
                         /\ commands' = Append(commands, [op |-> Asks[1], inbox |-> i])
  BY DEF NewSubscribes
<1> DEFINE sub == [op |-> "SUB", inbox |-> i]
<1>1. /\ sub \in Command /\ sub.op = "SUB" /\ sub.inbox = i
      /\ commands' = Append(commands, sub)
  BY DEF Command, Asks
<1> HIDE DEF sub
<1>2. /\ queue' = <<>> /\ received' = <<>> /\ status' = "publishing"
      /\ UNCHANGED <<kind, pending, timer, awake, armed, held, unsubFailed, open,
                     alive, subs, requests, inbound, srv, faults, errored>>
      /\ Len(commands) < CommandCap
  BY DEF NewSubscribes, HasRoom
<1>3. commands \in Seq(Command) /\ requests \in [Inboxes -> 0..MaxMsgs]
  BY DEF IInv, QueuesOK, ConsumerTypeOK
<1>4. ConsumerTypeOK'
  BY <1>1, <1>2, <1>3, ConsumerAssumption DEF IInv, ConsumerTypeOK
<1>5. QueuesOK'
  BY <1>1, <1>2, <1>3 DEF IInv, QueuesOK, Ops
<1>6. OwnInbox'
  BY <1>2 DEF OwnInbox
<1>7. /\ ~Mentions(commands, i) /\ ~Mentions(inbound, i) /\ requests[i] = 0
  BY <1>3, ConsumerAssumption DEF Fresh, InUse
<1>8. ASSUME NEW op PROVE At(op, i, commands) = {}
  BY <1>3, <1>7 DEF Mentions, At
<1>9. ASSUME NEW op PROVE At(op, i, commands') = IF op = "SUB" THEN {Len(commands) + 1} ELSE {}
  <2>1. At(op, i, Append(commands, sub)) =
          At(op, i, commands)
            \cup (IF sub.op = op /\ sub.inbox = i THEN {Len(commands) + 1} ELSE {})
    BY <1>1, <1>3, AppendAt
  <2> QED
    BY <1>1, <1>8, <2>1
<1>10. /\ At("NEXT", i, commands') = {}
       /\ At("UNSUB", i, commands') = {}
       /\ At("SUB", i, commands') # {}
  BY <1>9
<1>11. BatchInv'
  <2>1. Due' = 0
    BY <1>2, <1>7, NoneMentioned, EmptyHasNone DEF Due
  <2>2. AsksOnce' /\ CountsDue'
    BY <1>2, <1>10, <2>1 DEF AsksOnce, CountsDue
  <2>3. Listens(inbox, commands, requests[inbox], subs)'
    BY <1>2, <1>7, <1>10 DEF Listens
  <2> QED
    BY <2>2, <2>3 DEF BatchInv
<1> QED
  BY <1>2, <1>4, <1>5, <1>6, <1>11 DEF IInv, BreaksOnlyOnError

\* The request follows the SUB, and is the only one.
LEMMA NewPublishesInv ==
    ASSUME IInv, NewPublishes PROVE IInv'
<1> USE DEF client, server, fault
<1> DEFINE next == [op |-> "NEXT", inbox |-> inbox]
<1>1. /\ status = "publishing" /\ status' = "running" /\ pending' = MaxMsgs
      /\ timer' = "running" /\ awake' = TRUE /\ armed' = {}
      /\ commands' = Append(commands, next)
      /\ UNCHANGED <<kind, inbox, queue, received, held, unsubFailed, open, alive,
                     subs, requests, inbound, srv, faults, errored>>
      /\ Len(commands) < CommandCap
  BY DEF NewPublishes, HasRoom, Asks
<1>2. inbox \in Inboxes /\ inbox # None
  BY <1>1, ConsumerAssumption DEF IInv, OwnInbox, Inboxes
<1>3. next \in Command /\ next.op = "NEXT" /\ next.inbox = inbox
  BY <1>2 DEF Command
<1> HIDE DEF next
<1>4. commands \in Seq(Command)
  BY DEF IInv, QueuesOK
<1>5. ConsumerTypeOK'
  BY <1>1, <1>3, <1>4, ConsumerAssumption DEF IInv, ConsumerTypeOK
<1>6. QueuesOK'
  BY <1>1, <1>3, <1>4, QuietQueues DEF IInv
<1>7. OwnInbox'
  BY <1>1, <1>2 DEF OwnInbox
<1>8. AsksOnce /\ CountsDue /\ (~errored => Listens(inbox, commands, requests[inbox], subs))
  BY <1>2 DEF IInv, BatchInv
<1>9. At("NEXT", inbox, commands) = {} /\ Due = 0 /\ At("UNSUB", inbox, commands) = {}
  BY <1>1, <1>8 DEF AsksOnce, CountsDue
<1>10. ASSUME NEW op
       PROVE  At(op, inbox, commands') =
                At(op, inbox, commands) \cup (IF op = "NEXT" THEN {Len(commands) + 1} ELSE {})
  <2>1. At(op, inbox, Append(commands, next)) =
          At(op, inbox, commands)
            \cup (IF next.op = op /\ next.inbox = inbox THEN {Len(commands) + 1} ELSE {})
    BY <1>3, <1>4, AppendAt
  <2> QED
    BY <1>1, <1>3, <2>1
<1>11. BatchInv'
  <2>1. AsksOnce'
    BY <1>1, <1>9, <1>10 DEF AsksOnce
  <2>2. Due' = 0
    BY <1>1, <1>9 DEF Due
  <2>3. CountsDue'
    BY <1>1, <2>2, ConsumerAssumption DEF CountsDue
  <2>4. ~errored' => Listens(inbox, commands, requests[inbox], subs)'
    <3> DEFINE asked == requests[inbox]
    <3>1. Listens(inbox, commands, asked, subs) => Listens(inbox, Append(commands, next), asked, subs)
      <4> HIDE DEF asked
      <4> QED
        BY <1>3, <1>4, AppendListens
    <3> QED
      BY <1>1, <1>8, <3>1
  <2> QED
    BY <1>7, <2>1, <2>3, <2>4 DEF BatchInv
<1> QED
  BY <1>1, <1>5, <1>6, <1>7, <1>11 DEF IInv, BreaksOnlyOnError

\* Every way out of a batch.
LEMMA LeavesInv ==
    ASSUME IInv, NewFails \/ Exhausted \/ EndOfBatch \/ Refused \/ SubscriptionEnds \/ TimesOut
                 \/ (UnexpectedStatus /\ kind = "stream")
    PROVE  IInv'
<1> USE DEF IInv, Over, Ended, Restarts
<1>1. kind \in {"batch", "stream"} /\ awake \in BOOLEAN /\ (~open => errored)
  BY DEF ConsumerTypeOK
<1>2. CASE NewFails
  <2>1. errored
    BY <1>1, <1>2 DEF NewFails
  <2> QED
    BY <1>1, <1>2, <2>1, LeaveBatch DEF NewFails
<1>3. CASE Exhausted \/ EndOfBatch \/ SubscriptionEnds \/ TimesOut
  <2>1. Ended /\ UNCHANGED <<kind, held, subs, server, fault>>
    BY <1>3 DEF Exhausted, EndOfBatch, SubscriptionEnds, TimesOut
  <2>2. CASE kind = "batch"
    BY <1>1, <2>1, <2>2, LeaveBatch
  <2>3. CASE kind = "stream"
    BY <1>1, <2>1, <2>3, LeaveBatch
  <2> QED
    BY <1>1, <2>2, <2>3
<1>4. ASSUME NEW k \in {"status", "error"}, Buffered # <<>>, Head(Buffered).kind = k
      PROVE  errored
  <2>1. queue \in Seq(OwnOps) /\ received \in Seq(OwnOps)
    BY DEF QueuesOK
  <2>2. Buffered \in Seq(OwnOps)
    BY <2>1 DEF Buffered
  <2>3. Head(Buffered) \in OwnOps
    BY <1>4, <2>2
  <2> QED
    BY <1>4, <2>3, OwnOpsFields
<1>5. CASE Refused
  <2>1. errored
    BY <1>4, <1>5 DEF Refused, Yields
  <2> QED
    BY <1>1, <1>5, <2>1, LeaveBatch DEF Refused
<1>6. CASE UnexpectedStatus /\ kind = "stream"
  <2>1. errored
    BY <1>4, <1>6 DEF UnexpectedStatus, Yields, EndsBatch
  <2> QED
    BY <1>1, <1>6, <2>1, LeaveBatch DEF UnexpectedStatus
<1> QED
  BY <1>2, <1>3, <1>5, <1>6

\* What Subscription::poll_next returns is an op for the inbox, which the queues
\* then hold once less.
LEMMA Popped ==
    ASSUME ConsumerTypeOK, QueuesOK, Buffered # <<>>, PopBuffered,
           UNCHANGED <<inbox, errored>>
    PROVE  /\ Head(Buffered) \in OwnOps
           /\ queue' \in Seq(OwnOps') /\ received' \in Seq(OwnOps')
           /\ Len(queue') <= SubCap /\ Len(received') <= SubCap
           /\ MessagesFor(inbox, queue') + MessagesFor(inbox, received')
                + Counted(Head(Buffered))
                = MessagesFor(inbox, queue) + MessagesFor(inbox, received)
<1> DEFINE own == OwnOps
<1>1. /\ queue \in Seq(own) /\ received \in Seq(own) /\ OwnOps' = own
      /\ \A op \in own : op.inbox = inbox
      /\ Len(queue) <= SubCap /\ Len(received) <= SubCap /\ SubCap \in Nat
  BY ConsumerAssumption DEF QueuesOK, OwnOps, Ops, ConsumerTypeOK
<1> HIDE DEF own
<1>2. /\ MessagesFor(inbox, queue) \in Nat /\ MessagesFor(inbox, received) \in Nat
      /\ MessagesFor(inbox, <<>>) = 0
  BY <1>1, PlacesAreFinite, EmptyHasNone
<1>3. ASSUME NEW q \in Seq(own), q # <<>>
      PROVE  /\ Head(q) \in own /\ Tail(q) \in Seq(own) /\ Len(Tail(q)) <= Len(q)
             /\ MessagesFor(inbox, Tail(q)) \in Nat
             /\ MessagesFor(inbox, q) = MessagesFor(inbox, Tail(q)) + Counted(Head(q))
  <2>1. Head(q) \in own /\ Tail(q) \in Seq(own) /\ Len(Tail(q)) <= Len(q)
    BY <1>3
  <2>2. MessagesFor(inbox, q) =
          MessagesFor(inbox, Tail(q))
            + (IF Head(q).inbox = inbox /\ Head(q).kind = "data" THEN 1 ELSE 0)
    BY <1>3, TailCounts
  <2> QED
    BY <1>1, <2>1, <2>2, PlacesAreFinite DEF Counted
<1>4. CASE received = <<>>
  <2>1. Buffered = queue
    BY <1>1, <1>4 DEF Buffered
  <2>2. queue # <<>> /\ received' = Tail(queue) /\ queue' = <<>>
    BY <1>4, <2>1 DEF PopBuffered
  <2>3. /\ Head(queue) \in own /\ Tail(queue) \in Seq(own) /\ Len(Tail(queue)) <= Len(queue)
        /\ MessagesFor(inbox, Tail(queue)) \in Nat
        /\ MessagesFor(inbox, queue) = MessagesFor(inbox, Tail(queue)) + Counted(Head(queue))
    BY <1>1, <1>3, <2>2
  <2>4. Counted(Head(queue)) \in {0, 1}
    BY DEF Counted
  <2>5. Len(received') <= SubCap /\ Len(queue') <= SubCap /\ queue' \in Seq(own)
    <3> HIDE DEF Buffered
    <3>1. Len(queue) \in Nat /\ Len(Tail(queue)) \in Nat
      BY <1>1, <2>3
    <3> QED
      BY <1>1, <2>2, <2>3, <3>1
  <2> QED
    BY <1>1, <1>2, <1>4, <2>1, <2>2, <2>3, <2>4, <2>5 DEF own
<1>5. CASE received # <<>>
  <2>1. Buffered = received
    BY <1>1, <1>5 DEF Buffered
  <2>2. received' = Tail(received) /\ queue' = queue
    BY <1>5, <2>1 DEF PopBuffered
  <2>3. /\ Head(received) \in own /\ Tail(received) \in Seq(own)
        /\ Len(Tail(received)) <= Len(received)
        /\ MessagesFor(inbox, Tail(received)) \in Nat
        /\ MessagesFor(inbox, received) =
             MessagesFor(inbox, Tail(received)) + Counted(Head(received))
    BY <1>1, <1>3, <1>5
  <2>4. Counted(Head(received)) \in {0, 1}
    BY DEF Counted
  <2>5. Len(received') <= SubCap /\ Len(queue') <= SubCap
    <3>1. Len(received) \in Nat /\ Len(Tail(received)) \in Nat
      BY <1>1, <2>3
    <3> QED
      BY <1>1, <2>2, <2>3, <3>1
  <2> QED
    BY <1>1, <1>2, <2>1, <2>2, <2>3, <2>4, <2>5 DEF own
<1> QED
  BY <1>4, <1>5

\* A poll that takes an op and goes on with the batch: the op is due no more,
\* and counted if it is a message.
LEMMA PollStep ==
    ASSUME IInv, status = "running", pending > 0, Buffered # <<>>, PopBuffered,
           pending' = pending - Counted(Head(Buffered)),
           held' \in Seq(Settled), Len(held') <= MaxHeld, awake' \in BOOLEAN,
           UNCHANGED <<kind, status, inbox, timer, armed, client, subs, server, fault>>
    PROVE  IInv'
<1> USE DEF client, server, fault
<1>0. inbox \in Inboxes /\ inbox # None /\ pending \in 0..MaxMsgs /\ MaxMsgs \in Nat
  BY ConsumerAssumption DEF IInv, OwnInbox, Inboxes, ConsumerTypeOK
<1>1. /\ queue' \in Seq(OwnOps') /\ received' \in Seq(OwnOps')
      /\ Len(queue') <= SubCap /\ Len(received') <= SubCap
      /\ MessagesFor(inbox, queue') + MessagesFor(inbox, received')
           + Counted(Head(Buffered))
           = MessagesFor(inbox, queue) + MessagesFor(inbox, received)
  BY Popped DEF IInv
<1>2. pending' \in 0..MaxMsgs /\ pending' <= pending
  BY <1>0 DEF Counted
<1>3. ConsumerTypeOK'
  BY <1>1, <1>2 DEF IInv, ConsumerTypeOK
<1>4. QueuesOK'
  BY <1>1 DEF IInv, QueuesOK, Ops
<1>5. OwnInbox'
  BY DEF IInv, OwnInbox
<1>6. BatchInv'
  <2>1. /\ requests[inbox] \in 0..MaxMsgs
        /\ MessagesFor(inbox, inbound) \in Nat /\ MessagesFor(inbox, queue) \in Nat
        /\ MessagesFor(inbox, received) \in Nat /\ Due \in Nat
    BY <1>0, DueIsNat DEF IInv
  <2>2. MessagesFor(inbox, queue') \in Nat /\ MessagesFor(inbox, received') \in Nat
    BY <1>1, PlacesAreFinite
  <2>3. Due' = requests[inbox] + MessagesFor(inbox, inbound)
                 + MessagesFor(inbox, queue') + MessagesFor(inbox, received')
    BY DEF Due
  <2>4. Due' \in Nat /\ Due' + (pending - pending') <= Due
    <3> DEFINE a == requests[inbox]
               b == MessagesFor(inbox, inbound)
               c == MessagesFor(inbox, queue)
               d == MessagesFor(inbox, received)
               e == MessagesFor(inbox, queue')
               f == MessagesFor(inbox, received')
               g == Counted(Head(Buffered))
               p == pending
               due == Due'
    <3>1. /\ a \in Nat /\ b \in Nat /\ c \in Nat /\ d \in Nat /\ e \in Nat /\ f \in Nat
          /\ g \in {0, 1} /\ e + f + g = c + d /\ due = a + b + e + f
          /\ p \in Nat /\ pending' = p - g /\ Due = a + b + c + d
      BY <1>0, <1>1, <2>1, <2>2, <2>3 DEF Counted, Due
    <3> HIDE DEF a, b, c, d, e, f, g, p, due
    <3>2. due \in Nat /\ due + (p - (p - g)) <= a + b + c + d
      BY <3>1
    <3> QED
      BY <3>1, <3>2 DEF due, p
  <2>5. AsksOnce' /\ (At("NEXT", inbox, commands)' # {} => At("NEXT", inbox, commands) # {})
    BY <1>0 DEF IInv, BatchInv, AsksOnce
  <2>6. ~errored' => Listens(inbox, commands, requests[inbox], subs)'
    BY <1>0 DEF IInv, BatchInv
  <2>7. BatchInv /\ pending \in Nat /\ pending' \in Nat
    BY <1>0, <1>2 DEF IInv
  <2> QED
    BY <1>0, <1>2, <2>1, <2>4, <2>5, <2>6, <2>7, BatchStep
<1> QED
  BY <1>3, <1>4, <1>5, <1>6 DEF IInv, BreaksOnlyOnError

\* A message that the batch yields is counted and given to the application.
LEMMA PollInv ==
    ASSUME IInv, YieldMessage \/ Heartbeat \/ (UnexpectedStatus /\ kind = "batch")
    PROVE  IInv'
<1>1. held \in Seq(Settled) /\ awake \in BOOLEAN /\ Len(held) <= MaxHeld /\ MaxHeld \in Nat
  BY ConsumerAssumption DEF IInv, ConsumerTypeOK, QueuesOK
<1>2. CASE YieldMessage
  <2>1. /\ status = "running" /\ pending > 0 /\ Buffered # <<>> /\ PopBuffered
        /\ Head(Buffered).kind = "data" /\ Len(held) < MaxHeld
        /\ pending' = pending - Counted(Head(Buffered))
        /\ held' = Append(held, NewMessage(Head(Buffered).msg))
        /\ UNCHANGED <<kind, status, inbox, timer, armed, client, subs, server, fault>>
        /\ UNCHANGED awake
    BY <1>2 DEF YieldMessage, Yields, Polled
  <2> HIDE DEF PopBuffered
  <2>2. Head(Buffered) \in OwnOps
    BY <2>1, Popped DEF IInv, fault
  <2>3. Head(Buffered).msg \in Msgs
    BY <2>1, <2>2, OwnOpsFields
  <2>4. NewMessage(Head(Buffered).msg) \in Settled
    BY <2>3 DEF NewMessage, Settled, Message
  <2>5. held' \in Seq(Settled) /\ Len(held') <= MaxHeld
    BY <1>1, <2>1, <2>4
  <2> QED
    BY <1>1, <2>1, <2>5, PollStep
<1>3. CASE Heartbeat
  BY <1>1, <1>3, PollStep DEF Heartbeat, SkipHeartbeat, Yields, Polled
<1>4. CASE UnexpectedStatus /\ kind = "batch"
  <2>1. /\ Head(Buffered).kind = "status" /\ Counted(Head(Buffered)) = 0
        /\ UNCHANGED <<pending, awake, held>>
        /\ pending \in Nat
    BY <1>4 DEF UnexpectedStatus, Yields, Counted, EndsBatch, IInv, ConsumerTypeOK
  <2>2. pending' = pending - Counted(Head(Buffered))
    BY <2>1
  <2> QED
    BY <1>1, <1>4, <2>1, <2>2, PollStep DEF UnexpectedStatus, Yields, Polled
<1> QED
  BY <1>2, <1>3, <1>4

\* A step that only concerns the task and what wakes it.
LEMMA TaskInv ==
    ASSUME IInv, Sleeps \/ TimerElapses PROVE IInv'
<1> USE DEF client, server
<1>1. /\ awake' \in BOOLEAN /\ armed' \subseteq {"channel", "timer"}
      /\ timer' \in {"off", "running", "elapsed"} /\ faults' \in 0..MaxFaults
      /\ UNCHANGED <<kind, status, inbox, pending, queue, received, held, client,
                     subs, server, errored>>
  <2>1. CASE Sleeps
    BY <2>1 DEF Sleeps, IInv, ConsumerTypeOK, fault
  <2>2. CASE TimerElapses
    <3>1. awake' \in BOOLEAN /\ armed' \subseteq {"channel", "timer"}
      BY <2>2 DEF TimerElapses, Wakes, IInv, ConsumerTypeOK
    <3>2. faults' \in 0..MaxFaults
      BY <2>2, ConsumerAssumption DEF TimerElapses, Fault, IInv, ConsumerTypeOK
    <3> QED
      BY <2>2, <3>1, <3>2 DEF TimerElapses
  <2> QED
    BY <2>1, <2>2
<1>2. ConsumerTypeOK'
  BY <1>1 DEF IInv, ConsumerTypeOK
<1>3. QueuesOK'
  BY <1>1, QuietQueues DEF IInv, QueuesOK
<1>4. OwnInbox' /\ BatchInv'
  BY <1>1, QuietBatch DEF IInv, Unrelated
<1> QED
  BY <1>1, <1>2, <1>3, <1>4 DEF IInv, BreaksOnlyOnError

-----------------------------------------------------------------------------
(***************************************************************************)
(* JetstreamMessage and the client.                                        *)
(***************************************************************************)
LEMMA SettledFields ==
    /\ \A m \in Settled : m \in Message
    /\ \A m \in Settled : m.msg \in Msgs /\ m.sending \in {"none", "ACK", "TERM", "NAK"}
  BY DEF Settled, Message

\* The message that is taken may be sent, the refused one is not sent.
LEMMA SettleKeeps ==
    ASSUME NEW m \in Settled, NEW how \in {"ACK", "TERM", "NAK"}, m.sending = "none"
    PROVE  /\ Refusal(m) = "none" => Taken(m, how) \in Settled
           /\ Refusal(m) # "none" =>
                [m EXCEPT !.reply = FALSE, !.result = Refusal(m)] \in Settled
<1>1. m \in Message /\ m.sent = IF m.acked THEN 1 ELSE 0
  BY DEF Settled
<1>2. ASSUME Refusal(m) = "none" PROVE Taken(m, how) \in Settled
  <2>1. ~m.acked
    BY <1>2 DEF Refusal
  <2>2. Taken(m, how) \in Message
    BY <1>1 DEF Taken, Message
  <2>3. /\ Taken(m, how).acked = m.acked /\ Taken(m, how).sent = m.sent
        /\ Taken(m, how).sending = how
    BY <1>1 DEF Taken, Message
  <2> QED
    BY <1>1, <2>1, <2>2, <2>3 DEF Settled
<1>3. ASSUME Refusal(m) # "none"
      PROVE  [m EXCEPT !.reply = FALSE, !.result = Refusal(m)] \in Settled
  <2> DEFINE r == Refusal(m)
             n == [m EXCEPT !.reply = FALSE, !.result = r]
  <2>1. r \in {"NoReplySubject", "AlreadyAcknowledged"}
    BY <1>3 DEF Refusal
  <2> HIDE DEF r
  <2>2. n \in Message /\ n.acked = m.acked /\ n.sent = m.sent /\ n.sending = m.sending
    BY <1>1, <2>1 DEF Message
  <2> HIDE DEF n
  <2>3. n \in Settled
    BY <1>1, <2>2 DEF Settled
  <2> QED
    BY <2>3 DEF n, r
<1> QED
  BY <1>2, <1>3

\* The acknowledgment that is sent is marked and counted, the one that is given
\* up is neither.
LEMMA SendKeeps ==
    ASSUME NEW m \in Settled, m.sending # "none"
    PROVE  /\ [m EXCEPT !.acked = TRUE, !.sending = "none", !.sent = @ + 1, !.result = "Ok"]
                \in Settled
           /\ [m EXCEPT !.sending = "none", !.result = "ClientClosed"] \in Settled
           /\ [m EXCEPT !.sending = "none"] \in Settled
<1>1. m \in Message /\ m.sent = 0 /\ ~m.acked
  BY DEF Settled
<1>2. [m EXCEPT !.acked = TRUE, !.sending = "none", !.sent = @ + 1, !.result = "Ok"]
        \in Settled
  <2> DEFINE s == m.sent + 1
             n == [m EXCEPT !.acked = TRUE, !.sending = "none", !.sent = s, !.result = "Ok"]
  <2>1. s = 1
    BY <1>1
  <2> HIDE DEF s
  <2>2. n \in Message /\ n.acked = TRUE /\ n.sent = 1 /\ n.sending = "none"
    BY <1>1, <2>1 DEF Message
  <2> HIDE DEF n
  <2>3. n \in Settled
    BY <2>2 DEF Settled
  <2> QED
    BY <2>3 DEF n, s
<1>3. [m EXCEPT !.sending = "none", !.result = "ClientClosed"] \in Settled
  <2> DEFINE n == [m EXCEPT !.sending = "none", !.result = "ClientClosed"]
  <2>1. n \in Message /\ n.acked = m.acked /\ n.sent = 0 /\ n.sending = "none"
    BY <1>1 DEF Message
  <2> HIDE DEF n
  <2>2. n \in Settled
    BY <1>1, <2>1 DEF Settled
  <2> QED
    BY <2>2 DEF n
<1>4. [m EXCEPT !.sending = "none"] \in Settled
  <2> DEFINE n == [m EXCEPT !.sending = "none"]
  <2>1. n \in Message /\ n.acked = m.acked /\ n.sent = 0 /\ n.sending = "none"
    BY <1>1 DEF Message
  <2> HIDE DEF n
  <2>2. n \in Settled
    BY <1>1, <2>1 DEF Settled
  <2> QED
    BY <2>2 DEF n
<1> QED
  BY <1>2, <1>3, <1>4

LEMMA RemoveAtKeeps ==
    ASSUME NEW S, NEW q \in Seq(S), NEW k \in DOMAIN q
    PROVE  RemoveAt(q, k) \in Seq(S) /\ Len(RemoveAt(q, k)) <= Len(q)
<1> DEFINE before == SubSeq(q, 1, k - 1)
           after == SubSeq(q, k + 1, Len(q))
<1>1. Len(q) \in Nat /\ k \in 1..Len(q)
  OBVIOUS
<1>2. before \in Seq(S) /\ Len(before) = k - 1
  <2>1. k - 1 \in 0..Len(q) /\ \A j \in 1..(k - 1) : q[j] \in S
    BY <1>1
  <2> QED
    BY <1>1, <2>1
<1>3. after \in Seq(S) /\ Len(after) = Len(q) - k
  <2>1. \A j \in (k + 1)..Len(q) : q[j] \in S
    BY <1>1
  <2> QED
    BY <1>1, <2>1
<1>4. RemoveAt(q, k) = before \o after
  BY DEF RemoveAt
<1> HIDE DEF before, after
<1>5. before \o after \in Seq(S) /\ Len(before \o after) = Len(before) + Len(after)
  BY <1>2, <1>3
<1> QED
  BY <1>1, <1>2, <1>3, <1>4, <1>5

\* A step of the application and the client beside the batch.
LEMMA AsideInv ==
    ASSUME IInv, Unrelated, Len(commands') <= CommandCap,
           held' \in Seq(Settled), Len(held') <= MaxHeld, faults' \in 0..MaxFaults,
           open' \in BOOLEAN, errored' \in BOOLEAN, errored => errored', ~open' => errored',
           UNCHANGED <<kind, batch, unsubFailed, alive, subs, server>>
    PROVE  IInv'
<1> USE DEF batch, server
<1>1. commands' \in Seq(Command)
  <2>1. commands \in Seq(Command)
    BY DEF IInv, QueuesOK
  <2>2. \A c \in Command : Append(commands, c) \in Seq(Command)
    BY <2>1
  <2> QED
    BY <2>1, <2>2 DEF Unrelated
<1>2. ConsumerTypeOK'
  BY DEF IInv, ConsumerTypeOK
<1>3. QueuesOK'
  <2>1. Ops \subseteq Ops' /\ OwnOps \subseteq OwnOps'
    BY OpsGrow
  <2> DEFINE ops == Ops
             own == OwnOps
             opsNow == Ops'
             ownNow == OwnOps'
  <2>2. /\ inbound \in Seq(ops) /\ queue \in Seq(own) /\ received \in Seq(own)
        /\ ops \subseteq opsNow /\ own \subseteq ownNow
    BY <2>1 DEF IInv, QueuesOK
  <2> HIDE DEF ops, own, opsNow, ownNow
  <2>3. inbound \in Seq(opsNow) /\ queue \in Seq(ownNow) /\ received \in Seq(ownNow)
    BY <2>2, LargerSeq
  <2>4. inbound' \in Seq(Ops') /\ queue' \in Seq(OwnOps') /\ received' \in Seq(OwnOps')
    BY <2>3 DEF opsNow, ownNow
  <2> QED
    BY <1>1, <2>4 DEF QueuesOK
<1>4. OwnInbox' /\ BatchInv'
  BY QuietBatch DEF IInv
<1>5. BreaksOnlyOnError'
  BY DEF IInv, BreaksOnlyOnError
<1> QED
  BY <1>2, <1>3, <1>4, <1>5 DEF IInv

LEMMA ApplicationInv ==
    ASSUME IInv, Application PROVE IInv'
<1> USE DEF frame, client
<1> PICK k \in DOMAIN held :
        \/ Ack(k) \/ Term(k) \/ Nak(k) \/ AckPublished(k) \/ AckClosed(k)
        \/ AckCancelled(k) \/ Progress(k) \/ DropMessage(k)
  BY DEF Application
<1>1. /\ held \in Seq(Settled) /\ Len(held) <= MaxHeld /\ Len(commands) <= CommandCap
      /\ faults \in 0..MaxFaults /\ MaxFaults \in Nat /\ CommandCap \in Nat
      /\ open \in BOOLEAN /\ errored \in BOOLEAN /\ (~open => errored)
      /\ commands \in Seq(Command)
  BY ConsumerAssumption DEF IInv, ConsumerTypeOK, QueuesOK
<1>2. held[k] \in Settled
  BY <1>1
<1>3. ASSUME NEW m \in Settled, Edit(k, m)
      PROVE  held' \in Seq(Settled) /\ Len(held') <= MaxHeld
  BY <1>1, <1>3 DEF Edit
<1>4. Fault \/ UNCHANGED faults => faults' \in 0..MaxFaults
  BY <1>1 DEF Fault
<1>5. ASSUME NEW op \in {"ACK", "TERM", "NAK", "WPI"}, HasRoom,
             commands' = Append(commands, [op |-> op, inbox |-> None, msg |-> held[k].msg])
      PROVE  Unrelated /\ Len(commands') <= CommandCap
  <2> DEFINE c == [op |-> op, inbox |-> None, msg |-> held[k].msg]
  <2>1. c \in Command /\ c.inbox = None
    BY <1>2, SettledFields DEF Command
  <2> HIDE DEF c
  <2>2. commands' = Append(commands, c)
    BY <1>5 DEF c
  <2>3. Unrelated
    BY <2>1, <2>2 DEF Unrelated
  <2> QED
    BY <1>1, <1>5, <2>1, <2>2, <2>3 DEF HasRoom
<1>6. CASE Ack(k) \/ Term(k) \/ Nak(k)
  <2> PICK how \in {"ACK", "TERM", "NAK"} : Settle(k, how)
    BY <1>6 DEF Ack, Term, Nak
  <2>1. Fault \/ UNCHANGED faults
    BY <1>6 DEF Ack, Term, Nak
  <2>2. held' \in Seq(Settled) /\ Len(held') <= MaxHeld
    <3>1. CASE Refusal(held[k]) = "none"
      BY <1>2, <1>3, <3>1, SettleKeeps DEF Settle
    <3>2. CASE Refusal(held[k]) # "none"
      BY <1>2, <1>3, <3>2, SettleKeeps DEF Settle
    <3> QED
      BY <3>1, <3>2
  <2>3. UNCHANGED <<kind, batch, client, subs, server, errored>>
    BY DEF Settle
  <2> QED
    BY <1>1, <1>4, <2>1, <2>2, <2>3, AsideInv DEF Unrelated
<1>7. CASE AckPublished(k)
  <2>1. held[k].sending \in {"ACK", "TERM", "NAK"}
    BY <1>2, <1>7, SettledFields DEF AckPublished
  <2>2. held' \in Seq(Settled) /\ Len(held') <= MaxHeld
    BY <1>2, <1>3, <1>7, SendKeeps DEF AckPublished
  <2>3. Unrelated /\ Len(commands') <= CommandCap
    BY <1>5, <1>7, <2>1 DEF AckPublished
  <2>4. UNCHANGED <<kind, batch, unsubFailed, open, alive, subs, server, errored, faults>>
    BY <1>7 DEF AckPublished
  <2> QED
    BY <1>1, <2>2, <2>3, <2>4, AsideInv
<1>8. CASE AckClosed(k)
  <2>1. held' \in Seq(Settled) /\ Len(held') <= MaxHeld
    BY <1>2, <1>3, <1>8, SendKeeps DEF AckClosed
  <2> QED
    BY <1>1, <1>8, <2>1, AsideInv DEF AckClosed, Unrelated
<1>9. CASE AckCancelled(k)
  <2>1. held' \in Seq(Settled) /\ Len(held') <= MaxHeld
    BY <1>2, <1>3, <1>9, SendKeeps DEF AckCancelled
  <2> QED
    BY <1>1, <1>4, <1>9, <2>1, AsideInv DEF AckCancelled, Unrelated
<1>10. CASE Progress(k)
  <2>1. Unrelated /\ Len(commands') <= CommandCap
    BY <1>5, <1>10 DEF Progress
  <2> QED
    BY <1>1, <1>4, <1>10, <2>1, AsideInv DEF Progress
<1>11. CASE DropMessage(k)
  <2>1. RemoveAt(held, k) \in Seq(Settled) /\ Len(RemoveAt(held, k)) <= Len(held)
    BY <1>1, RemoveAtKeeps
  <2>2. held' \in Seq(Settled) /\ Len(held') <= Len(held)
    BY <1>11, <2>1 DEF DropMessage
  <2>3. Len(held') <= MaxHeld
    BY <1>1, <2>2, ConsumerAssumption
  <2>4. UNCHANGED <<kind, batch, client, subs, server, errored>> /\ (Fault \/ UNCHANGED faults)
    BY <1>11 DEF DropMessage
  <2> QED
    BY <1>1, <1>4, <2>2, <2>3, <2>4, AsideInv DEF Unrelated
<1> QED
  BY <1>6, <1>7, <1>8, <1>9, <1>10, <1>11

LEMMA CloseInv ==
    ASSUME IInv, Close PROVE IInv'
<1>1. /\ held \in Seq(Settled) /\ Len(held) <= MaxHeld /\ Len(commands) <= CommandCap
      /\ faults' \in 0..MaxFaults
  BY ConsumerAssumption DEF IInv, ConsumerTypeOK, QueuesOK, Close, Fault
<1> QED
  BY <1>1, AsideInv DEF Close, Unrelated

-----------------------------------------------------------------------------
(***************************************************************************)
(* The handler and the server.                                             *)
(***************************************************************************)
\* What a step behind the batch has to keep.
LEMMA BehindInv ==
    ASSUME IInv, UNCHANGED <<kind, status, inbox, pending, timer, received, held, open>>,
           errored => errored', errored' \in BOOLEAN, faults' \in 0..MaxFaults,
           alive' \in BOOLEAN, unsubFailed' \in BOOLEAN,
           awake' \in BOOLEAN, armed' \subseteq {"channel", "timer"},
           srv' \in [Msgs -> {"ready", "pending", "done"}],
           subs' \subseteq Inboxes, requests' \in [Inboxes -> 0..MaxMsgs],
           inbound' \in Seq(Ops'), Len(inbound') <= MaxInbound,
           queue' \in Seq(OwnOps'), Len(queue') <= SubCap,
           commands' \in Seq(Command), Len(commands') <= CommandCap,
           inbox # None => /\ AsksOnce' /\ CountsDue'
                           /\ ~errored' => Listens(inbox, commands, requests[inbox], subs)'
    PROVE  IInv'
<1>1. ConsumerTypeOK'
  BY DEF IInv, ConsumerTypeOK
<1>2. received' \in Seq(OwnOps')
  <2>1. OwnOps \subseteq OwnOps'
    BY OpsGrow
  <2> DEFINE own == OwnOps
             ownNow == OwnOps'
  <2>2. received \in Seq(own) /\ own \subseteq ownNow
    BY <2>1 DEF IInv, QueuesOK
  <2> HIDE DEF own, ownNow
  <2>3. received \in Seq(ownNow)
    BY <2>2, LargerSeq
  <2> QED
    BY <2>3 DEF ownNow
<1>3. QueuesOK'
  BY <1>2 DEF IInv, QueuesOK
<1>4. OwnInbox'
  BY DEF IInv, OwnInbox
<1>5. BatchInv'
  BY DEF BatchInv
<1> QED
  BY <1>1, <1>3, <1>4, <1>5 DEF IInv, BreaksOnlyOnError

\* No more is due than before.
LEMMA DueLess ==
    ASSUME CountsDue, UNCHANGED <<status, pending>>, pending \in Nat,
           Due \in Nat, Due' \in Nat, Due' <= Due,
           At("NEXT", inbox, commands)' # {} => At("NEXT", inbox, commands) # {}
    PROVE  CountsDue'
<1>1. (Due = 0 => Due' = 0) /\ (Due <= pending => Due' <= pending)
  <2> DEFINE d == Due
             e == Due'
  <2>1. d \in Nat /\ e \in Nat /\ e <= d
    OBVIOUS
  <2> HIDE DEF d, e
  <2>2. (d = 0 => e = 0) /\ (d <= pending => e <= pending)
    BY <2>1
  <2> QED
    BY <2>2 DEF d, e
<1> QED
  BY <1>1 DEF CountsDue

\* The commands of the channel are taken or lost, and less is due.
LEMMA ChannelStep ==
    ASSUME IInv, inbox # None, UNCHANGED <<status, inbox, pending>>, errored => errored',
           NEW n, Drops(commands, n, commands'), commands' \in Seq(Command),
           Due' \in Nat, Due' <= Due,
           ~errored =>
                /\ \A j \in At("SUB", inbox, commands) : j <= n => inbox \in subs'
                /\ inbox \in subs => inbox \in subs'
                /\ requests[inbox] = 0 => requests'[inbox] = 0
    PROVE  /\ AsksOnce' /\ CountsDue'
           /\ ~errored' => Listens(inbox, commands, requests[inbox], subs)'
<1>1. inbox \in Inboxes /\ commands \in Seq(Command) /\ pending \in Nat
  BY ConsumerAssumption DEF IInv, OwnInbox, QueuesOK, ConsumerTypeOK
<1>2. AsksOnce /\ CountsDue /\ (~errored => Listens(inbox, commands, requests[inbox], subs))
  BY DEF IInv, BatchInv
<1> DEFINE cmds == commands'
           asked == requests[inbox]
           askedNow == requests'[inbox]
           on == subs
           onNow == subs'
<1>3. /\ Drops(commands, n, cmds) /\ cmds \in Seq(Command)
      /\ ~errored => /\ \A j \in At("SUB", inbox, commands) : j <= n => inbox \in onNow
                     /\ inbox \in on => inbox \in onNow
                     /\ asked = 0 => askedNow = 0
                     /\ Listens(inbox, commands, asked, on)
  BY <1>2
<1> HIDE DEF cmds, asked, askedNow, on, onNow
<1>4. /\ At("UNSUB", inbox, commands) = {} => At("UNSUB", inbox, cmds) = {}
      /\ At("NEXT", inbox, commands) = {} => At("NEXT", inbox, cmds) = {}
      /\ (\A j, k \in At("NEXT", inbox, commands) : j = k) =>
           (\A j, k \in At("NEXT", inbox, cmds) : j = k)
  BY <1>1, <1>3, DropsLess
<1>5. ~errored => Listens(inbox, cmds, askedNow, onNow)
  BY <1>1, <1>3, DropsListens
<1>6. AsksOnce'
  BY <1>2, <1>4 DEF AsksOnce, cmds
<1>7. At("NEXT", inbox, commands)' # {} => At("NEXT", inbox, commands) # {}
  BY <1>4 DEF cmds
<1>8. Due \in Nat
  BY <1>1, DueIsNat DEF IInv
<1>9. CountsDue'
  BY <1>1, <1>2, <1>7, <1>8, DueLess
<1>10. ~errored' => Listens(inbox, commands, requests[inbox], subs)'
  BY <1>5 DEF cmds, askedNow, onNow
<1> QED
  BY <1>6, <1>9, <1>10

\* What is in the channel stays there.
LEMMA NothingDrops ==
    ASSUME NEW cmds \in Seq(Command)
    PROVE  /\ Drops(cmds, 0, cmds)
           /\ \A op, i : \A j \in At(op, i, cmds) : ~(j <= 0)
<1>1. Len(cmds) \in Nat
  OBVIOUS
<1>2. Drops(cmds, 0, cmds)
  BY <1>1 DEF Drops
<1>3. \A op, i : \A j \in At(op, i, cmds) : ~(j <= 0)
  BY <1>1 DEF At
<1> QED
  BY <1>2, <1>3

\* Due as its four parts.
LEMMA DueParts ==
    ASSUME ConsumerTypeOK, QueuesOK, inbox \in Inboxes, UNCHANGED inbox,
           requests' \in [Inboxes -> 0..MaxMsgs], inbound' \in Seq(Ops'),
           queue' \in Seq(OwnOps'), received' \in Seq(OwnOps'),
           requests'[inbox] + MessagesFor(inbox, inbound') + MessagesFor(inbox, queue')
             <= requests[inbox] + MessagesFor(inbox, inbound) + MessagesFor(inbox, queue),
           MessagesFor(inbox, received') <= MessagesFor(inbox, received)
    PROVE  Due' \in Nat /\ Due' <= Due
<1>1. /\ requests[inbox] \in Nat /\ MessagesFor(inbox, inbound) \in Nat
      /\ MessagesFor(inbox, queue) \in Nat /\ MessagesFor(inbox, received) \in Nat
  BY DueIsNat, ConsumerAssumption
<1>2. requests'[inbox] \in Nat
  BY ConsumerAssumption
<1> DEFINE opsNow == Ops'
           ownNow == OwnOps'
           inboundNow == inbound'
           queueNow == queue'
           receivedNow == received'
<1>3. inboundNow \in Seq(opsNow) /\ queueNow \in Seq(ownNow) /\ receivedNow \in Seq(ownNow)
  OBVIOUS
<1>4. /\ MessagesFor(inbox, inboundNow) \in Nat /\ MessagesFor(inbox, queueNow) \in Nat
      /\ MessagesFor(inbox, receivedNow) \in Nat
  <2> HIDE DEF opsNow, ownNow, inboundNow, queueNow, receivedNow
  <2> QED
    BY <1>3, PlacesAreFinite
<1>5. Due' = requests'[inbox] + MessagesFor(inbox, inbound')
               + MessagesFor(inbox, queue') + MessagesFor(inbox, received')
  BY DEF Due
<1> DEFINE a == requests[inbox]
           b == MessagesFor(inbox, inbound)
           c == MessagesFor(inbox, queue)
           d == MessagesFor(inbox, received)
           a2 == requests'[inbox]
           b2 == MessagesFor(inbox, inbound')
           c2 == MessagesFor(inbox, queue')
           d2 == MessagesFor(inbox, received')
           due == Due'
<1>6. /\ a \in Nat /\ b \in Nat /\ c \in Nat /\ d \in Nat
      /\ a2 \in Nat /\ b2 \in Nat /\ c2 \in Nat /\ d2 \in Nat
      /\ a2 + b2 + c2 <= a + b + c /\ d2 <= d
      /\ due = a2 + b2 + c2 + d2 /\ Due = a + b + c + d
  BY <1>1, <1>2, <1>4, <1>5 DEF Due
<1> HIDE DEF a, b, c, d, a2, b2, c2, d2, due
<1>7. due \in Nat /\ due <= Due
  BY <1>6
<1> QED
  BY <1>7 DEF due

LEMMA TakeInv ==
    ASSUME IInv, Take PROVE IInv'
<1> USE DEF batch, fault
<1> DEFINE c == Head(commands)
<1>1. /\ commands \in Seq(Command) /\ commands # <<>>
      /\ commands' = Tail(commands)
      /\ UNCHANGED <<kind, status, inbox, pending, timer, queue, received, awake, armed,
                     held, unsubFailed, open, alive, inbound, faults, errored>>
  BY DEF Take, IInv, QueuesOK
<1>2. c \in Command /\ c = commands[1]
  BY <1>1
<1> HIDE DEF c
<1>3. /\ c.op \in {"SUB", "NEXT", "UNSUB"} => c.inbox \in Inboxes
      /\ c.op \in {"ACK", "TERM", "NAK", "WPI"} => c.msg \in Msgs
      /\ c.op \in {"SUB", "NEXT", "UNSUB", "ACK", "TERM", "NAK", "WPI"}
  BY <1>2 DEF Command
<1>4. \/ /\ c.op = "SUB"
         /\ subs' = subs \cup {c.inbox} /\ UNCHANGED <<requests, srv>>
      \/ /\ c.op = "UNSUB"
         /\ subs' = subs \ {c.inbox} /\ requests' = [requests EXCEPT ![c.inbox] = 0]
         /\ UNCHANGED srv
      \/ /\ c.op = "NEXT"
         /\ requests' = [requests EXCEPT ![c.inbox] = MaxMsgs] /\ UNCHANGED <<subs, srv>>
      \/ /\ c.op \in {"ACK", "TERM", "NAK", "WPI"}
         /\ srv' = Acked(c) /\ UNCHANGED <<subs, requests>>
  BY <1>3 DEF Take, c
<1>5. /\ subs \subseteq Inboxes /\ requests \in [Inboxes -> 0..MaxMsgs]
      /\ srv \in [Msgs -> {"ready", "pending", "done"}]
      /\ MaxMsgs \in Nat /\ CommandCap \in Nat /\ Len(commands) <= CommandCap
  BY ConsumerAssumption DEF IInv, ConsumerTypeOK
<1>6. subs' \subseteq Inboxes /\ requests' \in [Inboxes -> 0..MaxMsgs]
  BY <1>3, <1>4, <1>5
<1>7. srv' \in [Msgs -> {"ready", "pending", "done"}]
  <2>1. CASE UNCHANGED srv
    BY <1>5, <2>1
  <2>2. CASE c.op \in {"ACK", "TERM", "NAK", "WPI"} /\ srv' = Acked(c)
    <3>1. CASE srv[c.msg] # "pending"
      BY <1>5, <2>2, <3>1 DEF Acked
    <3>2. CASE srv[c.msg] = "pending"
      <4>1. PICK s \in {"ready", "pending", "done"} : srv' = [srv EXCEPT ![c.msg] = s]
        BY <1>5, <2>2, <3>2 DEF Acked
      <4> QED
        BY <1>5, <4>1
    <3> QED
      BY <3>1, <3>2
  <2> QED
    BY <1>4, <2>1, <2>2
<1>8. /\ commands' \in Seq(Command) /\ Len(commands') <= CommandCap
      /\ Drops(commands, 1, commands')
  <2>1. Tail(commands) \in Seq(Command) /\ Drops(commands, 1, Tail(commands))
    BY <1>1, TailDrops
  <2>2. Len(Tail(commands)) <= CommandCap
    BY <1>1, <1>5
  <2> QED
    BY <1>1, <2>1, <2>2
<1>9. ASSUME inbox # None
      PROVE  /\ AsksOnce' /\ CountsDue'
             /\ ~errored' => Listens(inbox, commands, requests[inbox], subs)'
  <2>1. /\ inbox \in Inboxes /\ status \in {"publishing", "running"}
        /\ AsksOnce /\ CountsDue /\ (~errored => Listens(inbox, commands, requests[inbox], subs))
    BY <1>9 DEF IInv, OwnInbox, BatchInv, ConsumerTypeOK
  <2>2. ASSUME NEW op PROVE c.op = op /\ c.inbox = inbox => 1 \in At(op, inbox, commands)
    BY <1>1, <1>2 DEF At
  <2>3. ~(c.op = "UNSUB" /\ c.inbox = inbox)
    BY <2>1, <2>2 DEF AsksOnce
  <2>4. CASE c.op = "NEXT" /\ c.inbox = inbox
    <3>1. 1 \in At("NEXT", inbox, commands)
      BY <2>2, <2>4
    <3>2. Due = 0 /\ pending = MaxMsgs /\ status = "running"
      BY <2>1, <3>1 DEF CountsDue
    <3>3. /\ \A k \in At("NEXT", inbox, commands') : k \in Nat \ {0} /\ k + 1 \in At("NEXT", inbox, commands)
          /\ \A k \in At("UNSUB", inbox, commands') : k + 1 \in At("UNSUB", inbox, commands)
      <4> DEFINE cmds == commands'
      <4>1. Drops(commands, 1, cmds) /\ cmds \in Seq(Command)
        BY <1>8
      <4> HIDE DEF cmds
      <4>2. /\ \A k \in At("NEXT", inbox, cmds) : k \in Nat \ {0} /\ k + 1 \in At("NEXT", inbox, commands)
            /\ \A k \in At("UNSUB", inbox, cmds) : k + 1 \in At("UNSUB", inbox, commands)
        BY <1>1, <4>1, DropsAt
      <4> QED
        BY <4>2 DEF cmds
    <3>4. At("NEXT", inbox, commands') = {} /\ At("UNSUB", inbox, commands') = {}
      <4>1. ASSUME NEW k \in At("NEXT", inbox, commands') PROVE FALSE
        <5>1. k + 1 = 1 /\ k \in Nat \ {0}
          BY <2>1, <3>1, <3>3 DEF AsksOnce
        <5> QED
          BY <5>1
      <4> QED
        BY <2>1, <3>3, <4>1 DEF AsksOnce
    <3>5. AsksOnce'
      BY <1>1, <3>4 DEF AsksOnce
    <3>6. Due' = MaxMsgs
      <4>1. /\ requests[inbox] \in Nat /\ MessagesFor(inbox, inbound) \in Nat
            /\ MessagesFor(inbox, queue) \in Nat /\ MessagesFor(inbox, received) \in Nat
        BY <1>5, <2>1, DueIsNat DEF IInv
      <4>2. requests'[inbox] = MaxMsgs
        BY <1>4, <1>5, <2>1, <2>4
      <4>3. /\ Due' = requests'[inbox] + MessagesFor(inbox, inbound)
                        + MessagesFor(inbox, queue) + MessagesFor(inbox, received)
            /\ Due = requests[inbox] + MessagesFor(inbox, inbound)
                       + MessagesFor(inbox, queue) + MessagesFor(inbox, received)
        BY <1>1 DEF Due
      <4>4. /\ MessagesFor(inbox, inbound) = 0 /\ MessagesFor(inbox, queue) = 0
            /\ MessagesFor(inbox, received) = 0
        <5> DEFINE a == requests[inbox]
                   b == MessagesFor(inbox, inbound)
                   d == MessagesFor(inbox, queue)
                   e == MessagesFor(inbox, received)
        <5>1. a \in Nat /\ b \in Nat /\ d \in Nat /\ e \in Nat /\ a + b + d + e = 0
          BY <3>2, <4>1, <4>3
        <5> HIDE DEF a, b, d, e
        <5>2. b = 0 /\ d = 0 /\ e = 0
          BY <5>1
        <5> QED
          BY <5>2 DEF b, d, e
      <4> QED
        BY <1>5, <4>2, <4>3, <4>4
    <3>7. CountsDue'
      BY <1>1, <1>5, <3>2, <3>4, <3>6 DEF CountsDue
    <3>8. ~errored => inbox \in subs
      <4>1. \A j \in At("SUB", inbox, commands) : ~(j < 1)
        BY DEF At
      <4> QED
        BY <2>1, <3>1, <4>1 DEF Listens
    <3>9. ~errored' => Listens(inbox, commands, requests[inbox], subs)'
      BY <1>1, <1>4, <2>4, <3>8 DEF Listens
    <3> QED
      BY <3>5, <3>7, <3>9
  <2>5. CASE ~(c.op = "NEXT" /\ c.inbox = inbox)
    <3>1. requests'[inbox] = requests[inbox] /\ (inbox \in subs => inbox \in subs')
      BY <1>3, <1>4, <1>5, <2>1, <2>3, <2>5
    <3>2. Due' = Due
      BY <1>1, <3>1 DEF Due
    <3>3. Due \in Nat
      BY <2>1, DueIsNat DEF IInv
    <3>4. ASSUME NEW j \in At("SUB", inbox, commands), j <= 1 PROVE inbox \in subs'
      <4>1. j = 1
        BY <3>4 DEF At
      <4>2. c.op = "SUB" /\ c.inbox = inbox
        BY <1>2, <3>4, <4>1 DEF At
      <4> QED
        BY <1>4, <4>2
    <3> QED
      BY <1>1, <1>8, <1>9, <3>1, <3>2, <3>3, <3>4, ChannelStep
  <2> QED
    BY <2>4, <2>5
<1>10. inbound' \in Seq(Ops') /\ queue' \in Seq(OwnOps')
  BY <1>1 DEF IInv, QueuesOK, Ops, OwnOps
<1> QED
  BY <1>1, <1>6, <1>7, <1>8, <1>9, <1>10, BehindInv DEF IInv, ConsumerTypeOK

\* The sweep takes nothing from an inbox that has its receiver.
LEMMA SweepInv ==
    ASSUME IInv, Sweep PROVE IInv'
<1> USE DEF batch, fault
<1>1. /\ unsubFailed' = FALSE
      /\ subs' = subs \cap {inbox}
      /\ requests' = [i \in Inboxes |-> IF i \in subs \ {inbox} THEN 0 ELSE requests[i]]
      /\ UNCHANGED <<kind, status, inbox, pending, timer, queue, received, awake, armed,
                     held, commands, open, alive, inbound, srv, faults, errored>>
  BY DEF Sweep
<1>2. /\ commands \in Seq(Command) /\ requests \in [Inboxes -> 0..MaxMsgs] /\ MaxMsgs \in Nat
  BY ConsumerAssumption DEF IInv, QueuesOK, ConsumerTypeOK
<1>3. requests' \in [Inboxes -> 0..MaxMsgs]
  BY <1>1, <1>2
<1>4. ASSUME inbox # None
      PROVE  /\ AsksOnce' /\ CountsDue'
             /\ ~errored' => Listens(inbox, commands, requests[inbox], subs)'
  <2>1. inbox \in Inboxes
    BY <1>4 DEF IInv, OwnInbox
  <2>2. requests'[inbox] = requests[inbox]
    BY <1>1, <2>1
  <2>3. Due' = Due
    BY <1>1, <2>2 DEF Due
  <2>4. Due' \in Nat /\ Due' <= Due
    <3>1. Due \in Nat
      BY <2>1, DueIsNat DEF IInv
    <3>2. Due <= Due
      BY <3>1
    <3> QED
      BY <2>3, <3>1, <3>2
  <2>5. /\ Drops(commands, 0, commands') /\ commands' \in Seq(Command)
        /\ \A j \in At("SUB", inbox, commands) : ~(j <= 0)
    BY <1>1, <1>2, NothingDrops
  <2>6. inbox \in subs => inbox \in subs'
    BY <1>1
  <2>7. UNCHANGED <<status, inbox, pending, errored>>
    BY <1>1
  <2> QED
    BY <1>4, <2>7, <2>2, <2>3, <2>4, <2>5, <2>6, ChannelStep
<1>5. inbound' \in Seq(Ops') /\ queue' \in Seq(OwnOps')
  BY <1>1 DEF IInv, QueuesOK, Ops, OwnOps
<1>6. subs' \subseteq Inboxes
  BY <1>1 DEF IInv, ConsumerTypeOK
<1> QED
  BY <1>1, <1>2, <1>3, <1>4, <1>5, <1>6, BehindInv DEF IInv, ConsumerTypeOK

\* The batch that lost its request waits for what it has; the SUBs that were
\* lost with the connection are made again.
LEMMA ReconnectInv ==
    ASSUME IInv, NEW n \in 0..CommandCap, n <= Len(commands), Reconnect(n) PROVE IInv'
<1> USE DEF batch
<1> DEFINE took(op) == {commands[k].inbox : k \in {j \in 1..n : commands[j].op = op}}
<1>1. /\ inbound' = <<>> /\ requests' = [i \in Inboxes |-> 0]
      /\ commands' = SubSeq(commands, n + 1, Len(commands))
      /\ subs' = (subs \cup took("SUB")) \ took("UNSUB")
      /\ Fault
      /\ UNCHANGED <<kind, status, inbox, pending, timer, queue, received, awake, armed,
                     held, unsubFailed, open, alive, srv, errored>>
  BY DEF Reconnect
<1>2. /\ commands \in Seq(Command) /\ Len(commands) <= CommandCap /\ Len(commands) \in Nat
      /\ n \in 0..Len(commands) /\ subs \subseteq Inboxes /\ MaxMsgs \in Nat
      /\ CommandCap \in Nat
  BY ConsumerAssumption DEF IInv, QueuesOK, ConsumerTypeOK
<1>3. /\ commands' \in Seq(Command) /\ Drops(commands, n, commands')
      /\ Len(commands') <= CommandCap
  <2>1. /\ SubSeq(commands, n + 1, Len(commands)) \in Seq(Command)
        /\ Drops(commands, n, SubSeq(commands, n + 1, Len(commands)))
    BY <1>2, SubSeqDrops
  <2>2. Drops(commands, n, commands') /\ commands' \in Seq(Command)
    BY <1>1, <2>1
  <2>3. Len(commands') = Len(commands) - n
    BY <2>2 DEF Drops
  <2> QED
    BY <1>2, <2>2, <2>3
<1>4. subs' \subseteq Inboxes
  <2>1. ASSUME NEW k \in 1..n, commands[k].op = "SUB" PROVE commands[k].inbox \in Inboxes
    <3>1. commands[k] \in Command
      BY <1>2
    <3> QED
      BY <2>1, <3>1 DEF Command
  <2>2. took("SUB") \subseteq Inboxes
    BY <2>1
  <2> HIDE DEF took
  <2> QED
    BY <1>1, <1>2, <2>2
<1>5. requests' \in [Inboxes -> 0..MaxMsgs]
  BY <1>1, <1>2
<1>6. ASSUME inbox # None
      PROVE  /\ AsksOnce' /\ CountsDue'
             /\ ~errored' => Listens(inbox, commands, requests[inbox], subs)'
  <2>1. inbox \in Inboxes /\ AsksOnce
    BY <1>6 DEF IInv, OwnInbox, BatchInv
  <2>2. requests'[inbox] = 0
    BY <1>1, <2>1
  <2>3. /\ requests[inbox] \in 0..MaxMsgs /\ MessagesFor(inbox, inbound) \in Nat
        /\ MessagesFor(inbox, queue) \in Nat /\ MessagesFor(inbox, received) \in Nat
    BY <2>1, DueIsNat DEF IInv
  <2>4. MessagesFor(inbox, inbound') = 0
    BY <1>1, EmptyHasNone
  <2>5. Due' \in Nat /\ Due' <= Due
    <3>1. /\ Due' = requests'[inbox] + MessagesFor(inbox, inbound')
                      + MessagesFor(inbox, queue) + MessagesFor(inbox, received)
          /\ Due = requests[inbox] + MessagesFor(inbox, inbound)
                     + MessagesFor(inbox, queue) + MessagesFor(inbox, received)
      BY <1>1 DEF Due
    <3> DEFINE a == requests[inbox]
               b == MessagesFor(inbox, inbound)
               d == MessagesFor(inbox, queue)
               e == MessagesFor(inbox, received)
               due == Due'
    <3>2. /\ a \in Nat /\ b \in Nat /\ d \in Nat /\ e \in Nat
          /\ due = d + e /\ Due = a + b + d + e
      BY <1>2, <2>2, <2>3, <2>4, <3>1
    <3> HIDE DEF a, b, d, e, due
    <3>3. due \in Nat /\ due <= Due
      BY <3>2
    <3> QED
      BY <3>3 DEF due
  <2>6. inbox \notin took("UNSUB")
    BY <1>2, <2>1 DEF AsksOnce, At
  <2>7. ASSUME NEW j \in At("SUB", inbox, commands), j <= n PROVE inbox \in took("SUB")
    BY <1>2, <2>7 DEF At
  <2> HIDE DEF took
  <2>8. /\ \A j \in At("SUB", inbox, commands) : j <= n => inbox \in subs'
        /\ inbox \in subs => inbox \in subs'
    BY <1>1, <2>6, <2>7
  <2> QED
    BY <1>1, <1>3, <1>6, <2>2, <2>5, <2>8, ChannelStep
<1>7. inbound' \in Seq(Ops') /\ queue' \in Seq(OwnOps') /\ Len(inbound') <= MaxInbound
  <2>1. inbound' \in Seq(Ops') /\ queue' \in Seq(OwnOps')
    BY <1>1 DEF IInv, QueuesOK, Ops, OwnOps
  <2>2. Len(inbound') <= MaxInbound
    BY <1>1, ConsumerAssumption
  <2> QED
    BY <2>1, <2>2
<1>8. faults' \in 0..MaxFaults
  BY <1>1, ConsumerAssumption DEF Fault, IInv, ConsumerTypeOK
<1> HIDE DEF took
<1> QED
  BY <1>1, <1>3, <1>4, <1>5, <1>6, <1>7, <1>8, BehindInv DEF IInv, ConsumerTypeOK

\* The handler only ends once the client is closed, which a stream may break on.
LEMMA HandlerEndsInv ==
    ASSUME IInv, HandlerEnds PROVE IInv'
<1> USE DEF fault
<1>1. /\ ~open /\ commands = <<>> /\ alive' = FALSE /\ subs' = {} /\ inbound' = <<>>
      /\ requests' = [i \in Inboxes |-> 0]
      /\ Wakes("channel")
      /\ UNCHANGED <<kind, status, inbox, pending, timer, queue, received, held, commands,
                     unsubFailed, open, srv, faults, errored>>
  BY DEF HandlerEnds
<1>2. errored /\ MaxMsgs \in Nat /\ commands \in Seq(Command)
  BY <1>1, ConsumerAssumption DEF IInv, QueuesOK
<1>3. awake' \in BOOLEAN /\ armed' \subseteq {"channel", "timer"}
  BY <1>1 DEF Wakes, IInv, ConsumerTypeOK
<1>4. requests' \in [Inboxes -> 0..MaxMsgs] /\ subs' \subseteq Inboxes
  BY <1>1, <1>2
<1>5. inbound' \in Seq(Ops') /\ queue' \in Seq(OwnOps') /\ Len(inbound') <= MaxInbound
  <2>1. inbound' \in Seq(Ops') /\ queue' \in Seq(OwnOps')
    BY <1>1 DEF IInv, QueuesOK, Ops, OwnOps
  <2>2. Len(inbound') <= MaxInbound
    BY <1>1, ConsumerAssumption
  <2> QED
    BY <2>1, <2>2
<1>6. ASSUME inbox # None
      PROVE  /\ AsksOnce' /\ CountsDue'
             /\ ~errored' => Listens(inbox, commands, requests[inbox], subs)'
  <2>1. inbox \in Inboxes
    BY <1>6 DEF IInv, OwnInbox
  <2>2. /\ requests'[inbox] = 0 /\ requests[inbox] \in Nat
        /\ MessagesFor(inbox, inbound) \in Nat /\ MessagesFor(inbox, queue) \in Nat
        /\ MessagesFor(inbox, inbound') = 0
        /\ MessagesFor(inbox, received') = MessagesFor(inbox, received)
        /\ MessagesFor(inbox, queue') = MessagesFor(inbox, queue)
        /\ MessagesFor(inbox, received) \in Nat
    BY <1>1, <2>1, DueIsNat, EmptyHasNone, ConsumerAssumption DEF IInv
  <2>3. /\ requests'[inbox] + MessagesFor(inbox, inbound') + MessagesFor(inbox, queue')
             <= requests[inbox] + MessagesFor(inbox, inbound) + MessagesFor(inbox, queue)
        /\ MessagesFor(inbox, received') <= MessagesFor(inbox, received)
    <3> DEFINE a == requests[inbox]
               b == MessagesFor(inbox, inbound)
               d == MessagesFor(inbox, queue)
               e == MessagesFor(inbox, received)
    <3>1. /\ a \in Nat /\ b \in Nat /\ d \in Nat /\ e \in Nat
          /\ requests'[inbox] = 0 /\ MessagesFor(inbox, inbound') = 0
          /\ MessagesFor(inbox, queue') = d /\ MessagesFor(inbox, received') = e
      BY <2>2
    <3> HIDE DEF a, b, d, e
    <3>2. 0 + 0 + d <= a + b + d /\ e <= e
      BY <3>1
    <3>3. /\ requests'[inbox] + MessagesFor(inbox, inbound') + MessagesFor(inbox, queue')
               <= a + b + d
          /\ MessagesFor(inbox, received') <= e
      BY <3>1, <3>2
    <3> QED
      BY <3>3 DEF a, b, d, e
  <2>4. received' \in Seq(OwnOps')
    BY <1>1 DEF IInv, QueuesOK, Ops, OwnOps
  <2>5. Due' \in Nat /\ Due' <= Due
    BY <1>1, <1>4, <1>5, <2>1, <2>3, <2>4, DueParts DEF IInv
  <2>6. Drops(commands, 0, commands') /\ commands' \in Seq(Command)
    BY <1>1, <1>2, NothingDrops
  <2> QED
    BY <1>1, <1>2, <1>6, <2>5, <2>6, ChannelStep
<1> QED
  BY <1>1, <1>2, <1>3, <1>4, <1>5, <1>6, BehindInv DEF IInv, ConsumerTypeOK

\* An op moves from the connection to the subscription or is dropped; only a
\* refused inbox with a receiver is given up.
LEMMA DeliverInv ==
    ASSUME IInv, Deliver PROVE IInv'
<1> USE DEF fault, client
<1> DEFINE op == Head(inbound)
           mine == op.inbox \in subs /\ op.inbox = inbox
           gone == op.inbox \in subs /\ (op.inbox # inbox \/ op.kind = "error")
           ops == Ops
           own == OwnOps
<1>1. /\ inbound # <<>> /\ inbound' = Tail(inbound)
      /\ queue' = IF mine /\ Len(queue) < SubCap THEN Append(queue, op) ELSE queue
      /\ subs' = IF gone THEN subs \ {op.inbox} ELSE subs
      /\ requests' = IF gone THEN [requests EXCEPT ![op.inbox] = 0] ELSE requests
      /\ IF mine THEN Wakes("channel") ELSE UNCHANGED <<awake, armed>>
      /\ UNCHANGED <<kind, status, inbox, pending, timer, received, held, commands,
                     unsubFailed, open, alive, srv, faults, errored>>
  BY DEF Deliver
<1>2. /\ inbound \in Seq(ops) /\ queue \in Seq(own) /\ received \in Seq(own)
      /\ Ops' = ops /\ OwnOps' = own
      /\ \A o \in ops : o.inbox = inbox => o \in own
      /\ \A o \in ops : o.inbox \in Inboxes /\ (o.kind = "error" => errored)
  BY <1>1, OwnOpsFields DEF IInv, QueuesOK, Ops, OwnOps
<1> HIDE DEF ops, own
<1>3. op \in ops /\ inbound' \in Seq(ops) /\ Len(inbound') <= Len(inbound) /\ Len(inbound) \in Nat
  BY <1>1, <1>2
<1>4. \A i : MessagesFor(i, inbound) =
               MessagesFor(i, inbound')
                 + (IF op.inbox = i /\ op.kind = "data" THEN 1 ELSE 0)
  BY <1>1, <1>2, TailCounts
<1> HIDE DEF op
<1>5. /\ subs \subseteq Inboxes /\ requests \in [Inboxes -> 0..MaxMsgs]
      /\ Len(queue) <= SubCap /\ SubCap \in Nat /\ MaxMsgs \in Nat
      /\ Len(inbound) <= MaxInbound /\ MaxInbound \in Nat
      /\ awake \in BOOLEAN /\ armed \subseteq {"channel", "timer"}
  BY ConsumerAssumption DEF IInv, ConsumerTypeOK
<1>6. awake' \in BOOLEAN /\ armed' \subseteq {"channel", "timer"}
  BY <1>1, <1>5 DEF Wakes
<1>7. subs' \subseteq Inboxes
  BY <1>1, <1>5
<1>8. requests' \in [Inboxes -> 0..MaxMsgs]
  BY <1>1, <1>2, <1>3, <1>5
<1>9. queue' \in Seq(own) /\ Len(queue') <= SubCap
  <2>1. CASE mine /\ Len(queue) < SubCap
    <3>1. op \in own /\ queue' = Append(queue, op)
      BY <1>1, <1>2, <1>3, <2>1
    <3> QED
      BY <1>2, <1>5, <2>1, <3>1
  <2>2. CASE ~(mine /\ Len(queue) < SubCap)
    BY <1>1, <1>2, <1>5, <2>2
  <2> QED
    BY <2>1, <2>2
<1>10. Len(inbound') <= MaxInbound
  <2>1. Len(inbound') \in Nat
    BY <1>3
  <2> QED
    BY <1>3, <1>5, <2>1
<1>11. ASSUME inbox # None
       PROVE  /\ AsksOnce' /\ CountsDue'
              /\ ~errored' => Listens(inbox, commands, requests[inbox], subs)'
  <2>1. inbox \in Inboxes
    BY <1>11 DEF IInv, OwnInbox
  <2> DEFINE hit == IF op.inbox = inbox /\ op.kind = "data" THEN 1 ELSE 0
  <2>2. /\ MessagesFor(inbox, inbound) = MessagesFor(inbox, inbound') + hit
        /\ MessagesFor(inbox, inbound') \in Nat
    BY <1>3, <1>4, PlacesAreFinite
  <2>3. /\ MessagesFor(inbox, queue) \in Nat
        /\ \/ MessagesFor(inbox, queue') = MessagesFor(inbox, queue)
           \/ MessagesFor(inbox, queue') = MessagesFor(inbox, queue) + hit
    <3>1. CASE mine /\ Len(queue) < SubCap
      <4>1. op \in own /\ queue' = Append(queue, op)
        BY <1>1, <1>2, <1>3, <3>1
      <4>2. MessagesFor(inbox, Append(queue, op)) = MessagesFor(inbox, queue) + hit
        BY <1>2, <4>1, AppendCounts
      <4> QED
        BY <1>2, <4>1, <4>2, PlacesAreFinite
    <3>2. CASE ~(mine /\ Len(queue) < SubCap)
      <4>1. queue' = queue
        BY <1>1, <3>2
      <4> QED
        BY <1>2, <4>1, PlacesAreFinite
    <3> QED
      BY <3>1, <3>2
  <2>4. hit \in {0, 1}
    OBVIOUS
  <2>5. requests'[inbox] <= requests[inbox] /\ requests'[inbox] \in Nat /\ requests[inbox] \in Nat
    <3>1. requests[inbox] \in Nat /\ requests'[inbox] \in {0, requests[inbox]}
      BY <1>1, <1>5, <2>1
    <3> QED
      BY <3>1
  <2> HIDE DEF hit
  <2>6. requests'[inbox] + MessagesFor(inbox, inbound') + MessagesFor(inbox, queue')
          <= requests[inbox] + MessagesFor(inbox, inbound) + MessagesFor(inbox, queue)
    <3> DEFINE a == requests[inbox]
               b == MessagesFor(inbox, inbound)
               d == MessagesFor(inbox, queue)
               a2 == requests'[inbox]
               b2 == MessagesFor(inbox, inbound')
               d2 == MessagesFor(inbox, queue')
    <3>1. /\ a \in Nat /\ b2 \in Nat /\ d \in Nat /\ a2 \in Nat /\ hit \in {0, 1}
          /\ a2 <= a /\ b = b2 + hit /\ (d2 = d \/ d2 = d + hit)
      BY <2>2, <2>3, <2>4, <2>5
    <3> HIDE DEF a, b, d, a2, b2, d2
    <3>2. a2 + b2 + d2 <= a + b + d
      BY <3>1
    <3> QED
      BY <3>2 DEF a, b, d, a2, b2, d2
  <2>7. MessagesFor(inbox, received') <= MessagesFor(inbox, received)
    <3>1. MessagesFor(inbox, received) \in Nat
      BY <1>2, PlacesAreFinite
    <3>2. MessagesFor(inbox, received) <= MessagesFor(inbox, received)
      BY <3>1
    <3> QED
      BY <1>1, <3>2
  <2>8. Due' \in Nat /\ Due' <= Due
    <3>1. inbound' \in Seq(Ops') /\ queue' \in Seq(OwnOps') /\ received' \in Seq(OwnOps')
      BY <1>1, <1>2, <1>3, <1>9
    <3> QED
      BY <1>1, <1>8, <2>1, <2>6, <2>7, <3>1, DueParts DEF IInv
  <2>9. Drops(commands, 0, commands') /\ commands' \in Seq(Command)
         /\ \A j \in At("SUB", inbox, commands) : ~(j <= 0)
    BY <1>1, NothingDrops DEF IInv, QueuesOK
  <2>10. ~errored => /\ inbox \in subs => inbox \in subs'
                     /\ requests[inbox] = 0 => requests'[inbox] = 0
    <3>1. ~errored => ~(gone /\ op.inbox = inbox)
      BY <1>2, <1>3
    <3>2. requests[inbox] = 0 => requests'[inbox] = 0
      BY <1>1, <1>5, <2>1
    <3>3. ~errored => (inbox \in subs => inbox \in subs')
      BY <1>1, <3>1
    <3> QED
      BY <3>2, <3>3
  <2>11. UNCHANGED <<status, inbox, pending>> /\ (errored => errored')
    BY <1>1
  <2> QED
    BY <1>11, <2>8, <2>9, <2>10, <2>11, ChannelStep
<1>12. inbound' \in Seq(Ops') /\ queue' \in Seq(OwnOps')
  BY <1>2, <1>3, <1>9
<1>13. UNCHANGED <<kind, status, inbox, pending, timer, received, held, commands,
                    unsubFailed, open, alive, srv, faults, errored>>
  BY <1>1
<1> HIDE DEF mine, gone
<1>14. /\ errored' \in BOOLEAN /\ faults' \in 0..MaxFaults /\ (errored => errored')
       /\ alive' \in BOOLEAN /\ unsubFailed' \in BOOLEAN
       /\ srv' \in [Msgs -> {"ready", "pending", "done"}]
       /\ commands' \in Seq(Command) /\ Len(commands') <= CommandCap
  BY <1>13 DEF IInv, ConsumerTypeOK, QueuesOK
<1> QED
  BY <1>6, <1>7, <1>8, <1>9, <1>10, <1>11, <1>12, <1>13, <1>14, BehindInv

\* The server sends an op: a message is one that it was asked for.
LEMMA SendsInv ==
    ASSUME IInv, UNCHANGED <<kind, batch, held, client, subs>>, NEW op \in Ops', Sends(op),
           requests' \in [Inboxes -> 0..MaxMsgs],
           inbox \in Inboxes =>
                requests'[inbox] + (IF op.inbox = inbox /\ op.kind = "data" THEN 1 ELSE 0)
                  <= requests[inbox],
           errored => errored', errored' \in BOOLEAN, faults' \in 0..MaxFaults,
           srv' \in [Msgs -> {"ready", "pending", "done"}]
    PROVE  IInv'
<1> USE DEF batch, client
<1>1. inbound' = Append(inbound, op) /\ Len(inbound) < MaxInbound
  BY DEF Sends
<1>2. Ops \subseteq Ops' /\ OwnOps \subseteq OwnOps'
  BY OpsGrow
<1> DEFINE ops == Ops
           own == OwnOps
           opsNow == Ops'
           ownNow == OwnOps'
           inboundNow == inbound'
<1>3. /\ inbound \in Seq(ops) /\ queue \in Seq(own) /\ received \in Seq(own)
      /\ ops \subseteq opsNow /\ own \subseteq ownNow /\ op \in opsNow
      /\ inboundNow = Append(inbound, op)
      /\ UNCHANGED <<queue, received, inbox>>
      /\ MaxInbound \in Nat
  BY <1>1, <1>2, ConsumerAssumption DEF IInv, QueuesOK
<1> HIDE DEF ops, own, opsNow, ownNow, inboundNow
<1>4. inbound \in Seq(opsNow) /\ queue \in Seq(ownNow) /\ received \in Seq(ownNow)
  BY <1>3, LargerSeq
<1>5. inboundNow \in Seq(opsNow) /\ Len(inboundNow) <= MaxInbound
  <2>1. Len(inbound) < MaxInbound /\ Len(inbound) \in Nat
    BY <1>1, <1>3
  <2> QED
    BY <1>3, <1>4, <2>1
<1>6. inbound' \in Seq(Ops') /\ queue' \in Seq(OwnOps') /\ received' \in Seq(OwnOps')
  BY <1>3, <1>4, <1>5 DEF opsNow, ownNow, inboundNow
<1>7. ASSUME inbox # None
      PROVE  /\ AsksOnce' /\ CountsDue'
             /\ ~errored' => Listens(inbox, commands, requests[inbox], subs)'
  <2>1. inbox \in Inboxes
    BY <1>7 DEF IInv, OwnInbox
  <2> DEFINE hit == IF op.inbox = inbox /\ op.kind = "data" THEN 1 ELSE 0
             a == requests[inbox]
             b == MessagesFor(inbox, inbound)
             d == MessagesFor(inbox, queue)
             a2 == requests'[inbox]
             b2 == MessagesFor(inbox, inbound')
             d2 == MessagesFor(inbox, queue')
  <2>2. b2 = b + hit
    <3>1. MessagesFor(inbox, Append(inbound, op)) = MessagesFor(inbox, inbound) + hit
      BY <1>3, <1>4, AppendCounts
    <3> QED
      BY <1>1, <3>1
  <2>3. /\ a \in Nat /\ a2 \in Nat /\ b \in Nat /\ d \in Nat /\ d2 = d /\ hit \in {0, 1}
        /\ a2 + hit <= a
    <3>1. a \in Nat /\ b \in Nat /\ d \in Nat
      BY <2>1, DueIsNat, ConsumerAssumption DEF IInv
    <3>2. a2 \in Nat
      BY <2>1, ConsumerAssumption
    <3> QED
      BY <2>1, <3>1, <3>2
  <2> HIDE DEF hit, a, b, d, a2, b2, d2
  <2>4. a2 + b2 + d2 <= a + b + d /\ (a = 0 => a2 = 0)
    BY <2>2, <2>3
  <2>5. /\ requests'[inbox] + MessagesFor(inbox, inbound') + MessagesFor(inbox, queue')
             <= requests[inbox] + MessagesFor(inbox, inbound) + MessagesFor(inbox, queue)
        /\ requests[inbox] = 0 => requests'[inbox] = 0
    BY <2>4 DEF a, b, d, a2, b2, d2
  <2>6. MessagesFor(inbox, received') <= MessagesFor(inbox, received)
    <3>1. MessagesFor(inbox, received) \in Nat
      BY <1>3, PlacesAreFinite
    <3>2. MessagesFor(inbox, received) <= MessagesFor(inbox, received)
      BY <3>1
    <3> QED
      BY <1>3, <3>2
  <2>7. Due' \in Nat /\ Due' <= Due
    BY <1>3, <1>6, <2>1, <2>5, <2>6, DueParts DEF IInv
  <2>8. Drops(commands, 0, commands') /\ commands' \in Seq(Command)
         /\ \A j \in At("SUB", inbox, commands) : ~(j <= 0)
    BY NothingDrops DEF IInv, QueuesOK
  <2>9. UNCHANGED <<status, inbox, pending, subs>>
    OBVIOUS
  <2> QED
    BY <1>7, <2>5, <2>7, <2>8, <2>9, ChannelStep
<1>8. Len(inbound') <= MaxInbound
  BY <1>5 DEF inboundNow
<1>9. commands' \in Seq(Command)
  BY DEF IInv, QueuesOK
<1> QED
  BY <1>6, <1>7, <1>8, <1>9, BehindInv DEF IInv, ConsumerTypeOK

LEMMA ServerInv ==
    ASSUME IInv, Server PROVE IInv'
<1> USE DEF Quiet, fault
<1>1. /\ requests \in [Inboxes -> 0..MaxMsgs] /\ MaxMsgs \in Nat /\ MaxFaults \in Nat
      /\ srv \in [Msgs -> {"ready", "pending", "done"}]
      /\ errored \in BOOLEAN /\ faults \in 0..MaxFaults
  BY ConsumerAssumption DEF IInv, ConsumerTypeOK
<1>2. Fault \/ UNCHANGED faults => faults' \in 0..MaxFaults
  BY <1>1 DEF Fault
<1>3. /\ CalmOp \subseteq Ops'
      /\ errored' => ServerOp \subseteq Ops'
  BY DEF Ops, ServerOp
<1>4. ASSUME NEW i \in Inboxes, NEW m \in Msgs, Hands(i, m) PROVE IInv'
  <2> DEFINE op == [kind |-> "data", inbox |-> i, msg |-> m]
  <2>1. op \in Ops' /\ op.inbox = i /\ op.kind = "data" /\ Sends(op)
    BY <1>3, <1>4 DEF CalmOp, Hands
  <2> HIDE DEF op
  <2>2. requests[i] \in 1..MaxMsgs
    BY <1>1, <1>4 DEF Hands
  <2>3. requests' = [requests EXCEPT ![i] = requests[i] - 1] /\ requests[i] - 1 \in 0..MaxMsgs
    BY <1>1, <1>4, <2>2 DEF Hands
  <2>4. requests' \in [Inboxes -> 0..MaxMsgs]
    BY <1>1, <2>3
  <2>5. inbox \in Inboxes =>
            requests'[inbox] + (IF op.inbox = inbox /\ op.kind = "data" THEN 1 ELSE 0)
              <= requests[inbox]
    <3>1. CASE inbox = i
      <4>1. requests'[inbox] = requests[i] - 1
        BY <1>1, <2>3, <3>1
      <4> QED
        BY <2>1, <2>2, <3>1, <4>1
    <3>2. CASE inbox # i /\ inbox \in Inboxes
      <4>1. requests'[inbox] = requests[inbox] /\ requests[inbox] \in Nat
        BY <1>1, <2>3, <3>2
      <4> QED
        BY <2>1, <3>2, <4>1
    <3> QED
      BY <3>1, <3>2
  <2>6. /\ srv' \in [Msgs -> {"ready", "pending", "done"}]
        /\ UNCHANGED <<faults, errored>>
        /\ UNCHANGED <<kind, batch, held, client, subs>>
    BY <1>1, <1>4 DEF Hands
  <2> QED
    BY <1>1, <2>1, <2>4, <2>5, <2>6, SendsInv
<1>5. ASSUME NEW i \in Inboxes, NEW k, k # "data",
             [kind |-> k, inbox |-> i] \in Ops',
             Sends([kind |-> k, inbox |-> i]),
             requests' \in {requests, [requests EXCEPT ![i] = 0]},
             errored => errored', errored' \in BOOLEAN, faults' \in 0..MaxFaults,
             UNCHANGED srv, UNCHANGED <<kind, batch, held, client, subs>>
      PROVE  IInv'
  <2> DEFINE op == [kind |-> k, inbox |-> i]
  <2>1. op \in Ops' /\ op.kind # "data" /\ Sends(op)
    BY <1>5
  <2> HIDE DEF op
  <2>2. requests' \in [Inboxes -> 0..MaxMsgs]
    BY <1>1, <1>5
  <2>3. inbox \in Inboxes =>
            requests'[inbox] + (IF op.inbox = inbox /\ op.kind = "data" THEN 1 ELSE 0)
              <= requests[inbox]
    <3>1. ASSUME inbox \in Inboxes
          PROVE  requests'[inbox] \in {0, requests[inbox]} /\ requests[inbox] \in Nat
      BY <1>1, <1>5, <3>1
    <3> QED
      BY <2>1, <3>1
  <2>4. srv' \in [Msgs -> {"ready", "pending", "done"}]
    BY <1>1, <1>5
  <2> QED
    BY <1>5, <2>1, <2>2, <2>3, <2>4, SendsInv
<1>6. ASSUME NEW i \in Inboxes, NEW k \in {"timeout", "graceful", "status"}, EndsRequest(i, k)
      PROVE  IInv'
  <2>1. /\ Sends([kind |-> k, inbox |-> i]) /\ requests' = [requests EXCEPT ![i] = 0]
        /\ UNCHANGED srv /\ UNCHANGED <<kind, batch, held, client, subs>>
    BY <1>6 DEF EndsRequest
  <2>2. /\ errored => errored'
        /\ k = "status" => errored'
        /\ errored' \in BOOLEAN
        /\ Fault \/ UNCHANGED faults
    BY <1>1, <1>6 DEF EndsRequest
  <2>3. [kind |-> k, inbox |-> i] \in Ops'
    BY <1>3, <2>2 DEF CalmOp, ServerOp, Calm
  <2> QED
    BY <1>2, <1>5, <2>1, <2>2, <2>3
<1>7. ASSUME NEW i \in Inboxes, BeatsHeart(i) PROVE IInv'
  <2>1. /\ Sends([kind |-> "heartbeat", inbox |-> i]) /\ UNCHANGED <<requests, srv, errored>>
        /\ UNCHANGED <<kind, batch, held, client, subs>> /\ Fault
    BY <1>7 DEF BeatsHeart
  <2>2. [kind |-> "heartbeat", inbox |-> i] \in Ops'
    BY <1>3 DEF CalmOp, Calm
  <2> QED
    BY <1>1, <1>2, <1>5, <2>1, <2>2
<1>8. ASSUME NEW i \in Inboxes, Denies(i) PROVE IInv'
  <2>1. /\ Sends([kind |-> "error", inbox |-> i]) /\ requests' = [requests EXCEPT ![i] = 0]
        /\ UNCHANGED srv /\ errored' = TRUE
        /\ UNCHANGED <<kind, batch, held, client, subs>> /\ Fault
    BY <1>8 DEF Denies
  <2>2. [kind |-> "error", inbox |-> i] \in Ops'
    BY <1>3, <2>1 DEF ServerOp
  <2> QED
    BY <1>1, <1>2, <1>5, <2>1, <2>2
<1>9. ASSUME NEW m \in Msgs, Redelivers(m) PROVE IInv'
  <2>1. /\ srv' = [srv EXCEPT ![m] = "ready"] /\ (Fault \/ UNCHANGED faults)
        /\ UNCHANGED <<requests, inbound, errored>>
        /\ UNCHANGED <<kind, batch, held, client, subs>>
    BY <1>9 DEF Redelivers
  <2>2. srv' \in [Msgs -> {"ready", "pending", "done"}]
    BY <1>1, <2>1
  <2>3. ConsumerTypeOK'
    BY <1>2, <2>1, <2>2 DEF IInv, ConsumerTypeOK, batch, client
  <2>4. QueuesOK'
    BY <2>1 DEF IInv, QueuesOK, Ops, OwnOps, batch, client
  <2>5. OwnInbox' /\ BatchInv'
    BY <2>1, QuietBatch DEF IInv, Unrelated, batch, client
  <2> QED
    BY <2>1, <2>3, <2>4, <2>5 DEF IInv, BreaksOnlyOnError, batch, client
<1> QED
  BY <1>4, <1>6, <1>7, <1>8, <1>9 DEF Server

-----------------------------------------------------------------------------
\* What the client counts, asks and reports of a consumer is so, whatever the
\* network, the server and the application do.
THEOREM ConsumerIsSound == Spec => []ConsumerInv
<1>1. Init => IInv
  <2> SUFFICES ASSUME Init PROVE IInv
    OBVIOUS
  <2> USE ConsumerAssumption DEF Init
  <2>1. ConsumerTypeOK
    <3>1. /\ pending \in 0..MaxMsgs /\ faults \in 0..MaxFaults
          /\ Len(queue) <= SubCap /\ Len(received) <= SubCap /\ Len(held) <= MaxHeld
          /\ Len(commands) <= CommandCap /\ Len(inbound) <= MaxInbound
      OBVIOUS
    <3>2. 0 \in 0..MaxMsgs
      OBVIOUS
    <3>3. /\ requests \in [Inboxes -> 0..MaxMsgs]
          /\ srv \in [Msgs -> {"ready", "pending", "done"}]
      BY <3>2
    <3> QED
      BY <3>1, <3>3 DEF ConsumerTypeOK
  <2>2. QueuesOK
    BY DEF QueuesOK
  <2>3. OwnInbox /\ BatchInv /\ BreaksOnlyOnError
    BY DEF OwnInbox, BatchInv, BreaksOnlyOnError
  <2> QED
    BY <2>1, <2>2, <2>3 DEF IInv
<1>2. IInv /\ [Next]_vars => IInv'
  <2> SUFFICES ASSUME IInv, [Next]_vars PROVE IInv'
    OBVIOUS
  <2>1. CASE New
    BY <2>1, NewSubscribesInv, NewPublishesInv, LeavesInv DEF New
  <2>2. CASE Poll
    <3>1. kind \in {"batch", "stream"}
      BY DEF IInv, ConsumerTypeOK
    <3> QED
      BY <2>2, <3>1, LeavesInv, PollInv, TaskInv DEF Poll
  <2>3. CASE TimerElapses
    BY <2>3, TaskInv
  <2>4. CASE Application
    BY <2>4, ApplicationInv
  <2>5. CASE Close
    BY <2>5, CloseInv
  <2>6. CASE Take \/ Sweep \/ Deliver \/ HandlerEnds
    BY <2>6, TakeInv, SweepInv, DeliverInv, HandlerEndsInv
  <2>7. ASSUME NEW n \in 0..CommandCap, n <= Len(commands), Reconnect(n) PROVE IInv'
    BY <2>7, ReconnectInv
  <2>8. CASE Server
    BY <2>8, ServerInv
  <2>9. CASE UNCHANGED vars
    <3> USE <2>9 DEF vars, batch, client, server, fault
    <3>1. ConsumerTypeOK' /\ BreaksOnlyOnError' /\ (~open' => errored')
      BY DEF IInv, ConsumerTypeOK, BreaksOnlyOnError
    <3>2. QueuesOK'
      BY DEF IInv, QueuesOK, Ops, OwnOps
    <3>3. OwnInbox' /\ BatchInv'
      BY QuietBatch DEF IInv, Unrelated
    <3> QED
      BY <3>1, <3>2, <3>3 DEF IInv
  <2> QED
    BY <2>1, <2>2, <2>3, <2>4, <2>5, <2>6, <2>7, <2>8, <2>9 DEF Next
<1>3. IInv => ConsumerInv
  <2> SUFFICES ASSUME IInv PROVE ConsumerInv
    OBVIOUS
  <2>1. CountsTheBatch
    <3> SUFFICES ASSUME status = "running" PROVE Due <= pending
      BY DEF CountsTheBatch, Due
    <3> QED
      BY ConsumerAssumption DEF IInv, OwnInbox, BatchInv, CountsDue, Inboxes
  <2>2. SubscribedBeforeAsking
    <3> SUFFICES ASSUME ~errored, inbox \in Inboxes, requests[inbox] > 0 PROVE inbox \in subs
      BY DEF SubscribedBeforeAsking
    <3>1. inbox # None
      BY ConsumerAssumption DEF Inboxes
    <3>2. Listens(inbox, commands, requests[inbox], subs)
      BY <3>1 DEF IInv, BatchInv
    <3> QED
      BY <3>2 DEF Listens
  <2>3. AckedIsSent
    <3> SUFFICES ASSUME NEW k \in DOMAIN held
                 PROVE  held[k].sent = IF held[k].acked THEN 1 ELSE 0
      BY DEF AckedIsSent
    <3>1. held[k] \in Settled
      BY DEF IInv, QueuesOK
    <3> QED
      BY <3>1 DEF Settled
  <2> QED
    BY <2>1, <2>2, <2>3 DEF IInv, ConsumerInv
<1> QED
  BY <1>1, <1>2, <1>3, PTL DEF Spec

=============================================================================
