------------------------------ MODULE Consumer ------------------------------
(***************************************************************************)
(* Pulling the messages of a JetStream consumer: ConsumerBatch, which asks *)
(* for a batch on an inbox of its own, ConsumerStream, which asks for the  *)
(* next batch when one ends, and the acknowledgment of what they yield.    *)
(* The connection handler is its command channel, its table of inboxes and *)
(* the subscription's channel; module Handler has its detail.  The server  *)
(* is external: it hands out the messages that are not done, again when an *)
(* acknowledgment does not come.                                           *)
(***************************************************************************)
EXTENDS Naturals, SequencesExt

CONSTANTS
    NumMsgs,        \* the messages of the stream, by their sequence
    NumInboxes,     \* bound: inboxes that somebody still knows of
    MaxMsgs,        \* max_msgs of a batch
    CommandCap,     \* capacity of the command channel
    SubCap,         \* capacity of the subscription's channel
    MaxHeld,        \* messages the application holds at a time
    MaxInbound,     \* bound: ops of the server on their way
    MaxFaults,      \* bound: faults of the network, server and application
    None

ASSUME ConsumerAssumption ==
    /\ MaxMsgs \in Nat \ {0} /\ CommandCap \in Nat \ {0} /\ SubCap \in Nat \ {0}
    /\ MaxHeld \in Nat \ {0} /\ MaxInbound \in Nat \ {0} /\ MaxFaults \in Nat
    /\ NumMsgs \in Nat /\ NumInboxes \in Nat /\ None \notin Nat

Msgs == 1..NumMsgs
Inboxes == 1..NumInboxes

VARIABLES
    kind,           \* a ConsumerBatch on its own or a ConsumerStream
    status,         \* awaiting the subscribe or the publish, running, over
    inbox,          \* incoming_subject of the batch
    pending,        \* pending_msgs
    timer,          \* the batch's Sleep
    queue,          \* the subscription's channel
    received,       \* its receiver_queue
    awake,          \* the task is to be polled
    armed,          \* what has the task's waker
    held,           \* the JetstreamMessages of the application
    commands,       \* the command channel
    unsubFailed,    \* the bit set by a lazy_unsubscribe that found no room
    open,           \* the command channel takes commands
    alive,          \* the handler runs
    subs,           \* inboxes the handler is subscribed to
    requests,       \* messages a pull request still asks the server for
    inbound,        \* ops of the server on their way
    srv,            \* what the server knows of a message
    faults,         \* number of faults so far
    errored         \* a fault that ends a stream happened

batch == <<status, inbox, pending, timer, queue, received, awake, armed>>
client == <<commands, unsubFailed, open, alive>>
server == <<requests, inbound, srv>>
fault == <<faults, errored>>
vars == <<kind, batch, held, client, subs, server, fault>>

Init ==
    /\ kind \in {"batch", "stream"}
    /\ status = "subscribing"
    /\ inbox = None
    /\ pending = 0
    /\ timer = "off"
    /\ queue = <<>> /\ received = <<>>
    /\ awake = TRUE
    /\ armed = {}
    /\ held = <<>>
    /\ commands = <<>>
    /\ unsubFailed = FALSE
    /\ open = TRUE /\ alive = TRUE
    /\ subs = {}
    /\ requests = [i \in Inboxes |-> 0]
    /\ inbound = <<>>
    /\ srv = [m \in Msgs |-> "ready"]
    /\ faults = 0
    /\ errored = FALSE

Fault == faults < MaxFaults /\ faults' = faults + 1

Mentions(q, i) == \E k \in DOMAIN q : q[k].inbox = i

\* create_inbox_subject returns an inbox that is not in use.
InUse(i) == \/ i \in subs \/ requests[i] > 0
            \/ Mentions(commands, i) \/ Mentions(inbound, i)
Fresh(i) == ~InUse(i) /\ \A j \in 1..(i - 1) : InUse(j)

\* Somebody holds the sender of the subscription's channel.
SenderAlive(i) ==
    i \in subs \/ \E k \in DOMAIN commands : commands[k] = [op |-> "SUB", inbox |-> i]

HasRoom == Len(commands) < CommandCap

-----------------------------------------------------------------------------
(***************************************************************************)
(* ConsumerBatch::new, awaited by the caller or polled by the stream.      *)
(***************************************************************************)
\* Mutant of Asks: the request is sent before its inbox is subscribed to.
AsksFirst == <<"NEXT", "SUB">>

Asks == <<"SUB", "NEXT">>

NewSubscribes ==
    /\ status = "subscribing" /\ awake /\ open /\ HasRoom
    /\ \E i \in Inboxes :
        /\ Fresh(i)
        /\ inbox' = i
        /\ commands' = Append(commands, [op |-> Asks[1], inbox |-> i])
    /\ queue' = <<>> /\ received' = <<>>
    /\ status' = "publishing"
    /\ UNCHANGED <<kind, pending, timer, awake, armed, held, unsubFailed, open,
                   alive, subs, server, fault>>

\* The publish is accepted: the batch runs, the stream wakes itself.
NewPublishes ==
    /\ status = "publishing" /\ awake /\ open /\ HasRoom
    /\ commands' = Append(commands, [op |-> Asks[2], inbox |-> inbox])
    /\ status' = "running"
    /\ pending' = MaxMsgs
    /\ timer' = "running"
    /\ awake' = TRUE
    /\ armed' = {}
    /\ UNCHANGED <<kind, inbox, queue, received, held, unsubFailed, open, alive,
                   subs, server, fault>>

\* Mutant of DropSubscription: the command channel is never full.
DropSubscriptionUnbounded ==
    /\ commands' = Append(commands, [op |-> "UNSUB", inbox |-> inbox])
    /\ UNCHANGED unsubFailed

\* Subscription::drop: an UNSUB, or the bit when there is no room for it.
DropSubscription ==
    LET unsub == SenderAlive(inbox) /\ open IN
    /\ commands' = IF unsub /\ HasRoom
                   THEN Append(commands, [op |-> "UNSUB", inbox |-> inbox])
                   ELSE commands
    /\ unsubFailed' = (unsubFailed \/ (unsub /\ ~HasRoom))

Over ==
    /\ status' = "over"
    /\ DropSubscription
    /\ inbox' = None
    /\ pending' = 0
    /\ timer' = "off"
    /\ queue' = <<>> /\ received' = <<>>
    /\ armed' = {}
    /\ UNCHANGED <<awake, open, alive>>

\* Mutant of NewFails: the stream tries again for ever.
NewFailsRetries ==
    /\ status \in {"subscribing", "publishing"} /\ ~open
    /\ UNCHANGED vars

\* The client is closed: ClientClosed for the caller, Broken for the stream.
NewFails ==
    /\ status \in {"subscribing", "publishing"} /\ ~open
    /\ Over
    /\ UNCHANGED <<kind, held, subs, server, fault>>

-----------------------------------------------------------------------------
(***************************************************************************)
(* ConsumerBatch::poll_next below ConsumerStream::poll_next.               *)
(***************************************************************************)
Polled == status = "running" /\ awake

\* Mutant of Restarts: nobody polls the future of the next batch.
RestartsAsleep == awake' = FALSE

Restarts == awake' = TRUE

\* The batch has yielded None: the stream asks for another one.
Ended ==
    IF kind = "batch" THEN Over
    ELSE /\ status' = "subscribing"
         /\ DropSubscription
         /\ inbox' = None
         /\ pending' = 0
         /\ timer' = "off"
         /\ queue' = <<>> /\ received' = <<>>
         /\ Restarts
         /\ armed' = {}
         /\ UNCHANGED <<open, alive>>

Exhausted ==
    /\ Polled /\ pending = 0
    /\ Ended
    /\ UNCHANGED <<kind, held, subs, server, fault>>

\* What Subscription::poll_next returns: the oldest of its receiver_queue,
\* which it refills from the channel.
Buffered == received \o (IF received = <<>> THEN queue ELSE <<>>)
PopBuffered ==
    /\ received' = Tail(Buffered)
    /\ queue' = IF received = <<>> THEN <<>> ELSE queue

Yields(kinds) ==
    Polled /\ pending > 0 /\ Buffered # <<>> /\ Head(Buffered).kind \in kinds

NewMessage(m) == [msg |-> m, reply |-> TRUE, client |-> TRUE, acked |-> FALSE,
                  sending |-> "none", sent |-> 0, result |-> "none"]

\* Mutant of Counted: an op is counted before its status is looked at.
CountedAll(op) == 1

\* What an op of the server takes off pending_msgs.
Counted(op) == IF op.kind = "data" THEN 1 ELSE 0

YieldMessage ==
    /\ Yields({"data"}) /\ Len(held) < MaxHeld
    /\ PopBuffered
    /\ pending' = pending - Counted(Head(Buffered))
    /\ held' = Append(held, NewMessage(Head(Buffered).msg))
    /\ UNCHANGED <<kind, status, inbox, timer, awake, armed, client, subs,
                   server, fault>>

\* Mutant of SkipHeartbeat: Pending without a wakeup.
SkipHeartbeatAsleep == awake' = FALSE

\* The poll returns Pending and nothing but its own wakeup brings the next.
SkipHeartbeat == awake' = TRUE

Heartbeat ==
    /\ Yields({"heartbeat"})
    /\ PopBuffered
    /\ pending' = pending - Counted(Head(Buffered))
    /\ SkipHeartbeat
    /\ UNCHANGED <<kind, status, inbox, timer, armed, held, client,
                   subs, server, fault>>

\* Mutant of EndsBatch: a conflict is an error, whatever its description.
EndsBatchStrict == {"timeout"}

\* TIMEOUT, NOT_FOUND and the CONFLICTs of is_graceful_conflict.
EndsBatch == {"timeout", "graceful"}

EndOfBatch ==
    /\ Yields(EndsBatch)
    /\ Ended
    /\ UNCHANGED <<kind, held, subs, server, fault>>

\* UnexpectedStatus: the batch goes on, the stream is Broken.
UnexpectedStatus ==
    /\ Yields({"timeout", "graceful", "status"} \ EndsBatch)
    /\ IF kind = "stream" THEN Over
       ELSE PopBuffered /\ UNCHANGED <<status, inbox, pending, timer, awake,
                                       armed, client>>
    /\ UNCHANGED <<kind, held, subs, server, fault>>

\* The subscription yields a ServerError.
Refused ==
    /\ Yields({"error"})
    /\ Over
    /\ UNCHANGED <<kind, held, subs, server, fault>>

\* The subscription yields None: the handler dropped the sender.
SubscriptionEnds ==
    /\ Polled /\ pending > 0 /\ Buffered = <<>> /\ ~SenderAlive(inbox)
    /\ Ended
    /\ UNCHANGED <<kind, held, subs, server, fault>>

Starved == Polled /\ pending > 0 /\ Buffered = <<>> /\ SenderAlive(inbox)

TimesOut ==
    /\ Starved /\ timer = "elapsed"
    /\ Ended
    /\ UNCHANGED <<kind, held, subs, server, fault>>

Sleeps ==
    /\ Starved /\ timer = "running"
    /\ awake' = FALSE
    /\ armed' = {"channel", "timer"}
    /\ UNCHANGED <<kind, status, inbox, pending, timer, queue, received, held,
                   client, subs, server, fault>>

Poll == Exhausted \/ YieldMessage \/ Heartbeat \/ EndOfBatch \/ UnexpectedStatus
        \/ Refused \/ SubscriptionEnds \/ TimesOut \/ Sleeps

-----------------------------------------------------------------------------
(***************************************************************************)
(* The wakers of the task.                                                 *)
(***************************************************************************)
Wakes(source) ==
    /\ awake' = (awake \/ source \in armed)
    /\ armed' = armed \ {source}

\* expires + request_timeout is over.  While something of the batch is still
\* on its way that is a fault: the server ends a request at expires.
TimerElapses ==
    /\ status = "running" /\ timer = "running"
    /\ timer' = "elapsed"
    /\ Wakes("timer")
    /\ IF requests[inbox] = 0 /\ ~Mentions(commands, inbox)
          /\ ~Mentions(inbound, inbox) /\ Buffered = <<>>
       THEN UNCHANGED faults
       ELSE Fault
    /\ UNCHANGED <<kind, status, inbox, pending, queue, received, held, client,
                   subs, server, errored>>

-----------------------------------------------------------------------------
(***************************************************************************)
(* JetstreamMessage.  The application settles a message, then drops it.    *)
(***************************************************************************)
frame == <<kind, batch, subs, server, errored>>

Edit(k, m) == held' = [held EXCEPT ![k] = m]

\* take_reply_subject, ensure_not_acked and take_client, in this order.
Refusal(m) == IF ~m.reply THEN "NoReplySubject"
              ELSE IF m.acked THEN "AlreadyAcknowledged"
              ELSE IF ~m.client THEN "NoReplySubject"
              ELSE "none"

\* Mutant of Taken: the message is marked before it is published.
TakenMarked(m, how) ==
    [m EXCEPT !.reply = FALSE, !.client = FALSE, !.sending = how, !.acked = TRUE]

Taken(m, how) == [m EXCEPT !.reply = FALSE, !.client = FALSE, !.sending = how]

\* ack, nak, nak_with_delay, term and term_with_reason up to the publish.
Settle(k, how) ==
    /\ held[k].sending = "none"
    /\ IF Refusal(held[k]) = "none" THEN Edit(k, Taken(held[k], how))
       ELSE Edit(k, [held[k] EXCEPT !.reply = FALSE, !.result = Refusal(held[k])])
    /\ UNCHANGED <<frame, client>>

Ack(k) == Settle(k, "ACK") /\ UNCHANGED faults
Term(k) == held[k].reply /\ Settle(k, "TERM") /\ Fault
Nak(k) == held[k].reply /\ Settle(k, "NAK") /\ Fault

\* The publish finds room in the command channel, or the channel closed.
AckPublished(k) ==
    /\ held[k].sending # "none" /\ open /\ HasRoom
    /\ commands' = Append(commands, [op |-> held[k].sending, inbox |-> None,
                                     msg |-> held[k].msg])
    /\ Edit(k, [held[k] EXCEPT !.acked = TRUE, !.sending = "none",
                               !.sent = @ + 1, !.result = "Ok"])
    /\ UNCHANGED <<frame, unsubFailed, open, alive, faults>>

AckClosed(k) ==
    /\ held[k].sending # "none" /\ ~open
    /\ Edit(k, [held[k] EXCEPT !.sending = "none", !.result = "ClientClosed"])
    /\ UNCHANGED <<frame, client, faults>>

\* The future of the acknowledgment is dropped while it waits for room.
AckCancelled(k) ==
    /\ held[k].sending # "none" /\ Fault
    /\ Edit(k, [held[k] EXCEPT !.sending = "none"])
    /\ UNCHANGED <<frame, client>>

\* progress, which takes nothing and marks nothing.
Progress(k) ==
    /\ held[k].reply /\ held[k].client /\ held[k].sending = "none"
    /\ open /\ HasRoom /\ Fault
    /\ commands' = Append(commands, [op |-> "WPI", inbox |-> None,
                                     msg |-> held[k].msg])
    /\ UNCHANGED <<frame, held, unsubFailed, open, alive>>

\* The message is dropped, as a fault when it could still be acknowledged.
DropMessage(k) ==
    /\ held[k].sending = "none"
    /\ IF held[k].reply THEN Fault ELSE UNCHANGED faults
    /\ held' = RemoveAt(held, k)
    /\ UNCHANGED <<frame, client>>

Application == \E k \in DOMAIN held :
    Ack(k) \/ Term(k) \/ Nak(k) \/ AckPublished(k) \/ AckClosed(k)
    \/ AckCancelled(k) \/ Progress(k) \/ DropMessage(k)

\* Client::close or the last Client dropped.
Close ==
    /\ open /\ Fault
    /\ open' = FALSE
    /\ errored' = TRUE
    /\ UNCHANGED <<kind, batch, held, commands, unsubFailed, alive, subs, server>>

-----------------------------------------------------------------------------
(***************************************************************************)
(* The handler and, behind it, the server.                                 *)
(***************************************************************************)
\* The server takes an acknowledgment of a message it has handed out.
Acked(c) ==
    IF srv[c.msg] # "pending" THEN srv
    ELSE [srv EXCEPT ![c.msg] = CASE c.op \in {"ACK", "TERM"} -> "done"
                                  [] c.op = "NAK" -> "ready"
                                  [] OTHER -> @]

\* The handler takes a command, writes it, and the server reads it.
Take ==
    /\ alive /\ commands # <<>>
    /\ commands' = Tail(commands)
    /\ LET c == Head(commands) IN
       CASE c.op = "SUB" -> subs' = subs \cup {c.inbox} /\ UNCHANGED <<requests, srv>>
         [] c.op = "UNSUB" -> /\ subs' = subs \ {c.inbox}
                              /\ requests' = [requests EXCEPT ![c.inbox] = 0]
                              /\ UNCHANGED srv
         [] c.op = "NEXT" -> /\ requests' = [requests EXCEPT ![c.inbox] = MaxMsgs]
                             /\ UNCHANGED <<subs, srv>>
         [] OTHER -> srv' = Acked(c) /\ UNCHANGED <<subs, requests>>
    /\ UNCHANGED <<kind, batch, held, unsubFailed, open, alive, inbound, fault>>

\* failed_unsubscribe: the handler unsubscribes whoever has no receiver.
Sweep ==
    /\ alive /\ unsubFailed
    /\ unsubFailed' = FALSE
    /\ subs' = subs \cap {inbox}
    /\ requests' = [i \in Inboxes |-> IF i \in subs \ {inbox} THEN 0 ELSE requests[i]]
    /\ UNCHANGED <<kind, batch, held, commands, open, alive, inbound, srv, fault>>

\* The handler reads an op of the server and hands it to the subscription,
\* whose channel may be full: the op is dropped.  An inbox without receiver
\* is unsubscribed.
Deliver ==
    /\ alive /\ inbound # <<>>
    /\ inbound' = Tail(inbound)
    /\ LET op == Head(inbound)
           mine == op.inbox \in subs /\ op.inbox = inbox
           gone == op.inbox \in subs /\ (op.inbox # inbox \/ op.kind = "error")
       IN /\ queue' = IF mine /\ Len(queue) < SubCap THEN Append(queue, op) ELSE queue
          /\ subs' = IF gone THEN subs \ {op.inbox} ELSE subs
          /\ requests' = IF gone THEN [requests EXCEPT ![op.inbox] = 0] ELSE requests
          /\ IF mine THEN Wakes("channel") ELSE UNCHANGED <<awake, armed>>
    /\ UNCHANGED <<kind, status, inbox, pending, timer, received, held, client,
                   srv, fault>>

\* The connection is lost and made again: what was on its way is lost, the
\* inboxes are subscribed again, the pull requests are not sent again.
Reconnect(n) ==
    /\ alive /\ Fault
    /\ inbound' = <<>>
    /\ requests' = [i \in Inboxes |-> 0]
    /\ commands' = SubSeq(commands, n + 1, Len(commands))
    /\ subs' = LET took(op) == {commands[k].inbox : k \in {j \in 1..n : commands[j].op = op}}
               IN (subs \cup took("SUB")) \ took("UNSUB")
    /\ UNCHANGED <<kind, batch, held, unsubFailed, open, alive, srv, errored>>

\* Closed and drained, the handler ends and drops the senders.
HandlerEnds ==
    /\ alive /\ ~open /\ commands = <<>>
    /\ alive' = FALSE
    /\ subs' = {}
    /\ inbound' = <<>>
    /\ requests' = [i \in Inboxes |-> 0]
    /\ Wakes("channel")
    /\ UNCHANGED <<kind, status, inbox, pending, timer, queue, received, held,
                   commands, unsubFailed, open, srv, fault>>

Sends(op) ==
    /\ Len(inbound) < MaxInbound /\ alive
    /\ inbound' = Append(inbound, op)

Quiet == UNCHANGED <<kind, batch, held, client, subs>>

Hands(i, m) ==
    /\ requests[i] > 0 /\ srv[m] = "ready"
    /\ \A n \in 1..(m - 1) : srv[n] # "ready"
    /\ Sends([kind |-> "data", inbox |-> i, msg |-> m])
    /\ requests' = [requests EXCEPT ![i] = @ - 1]
    /\ srv' = [srv EXCEPT ![m] = "pending"]
    /\ UNCHANGED fault /\ Quiet

\* The request ends without as many messages: nothing is ready, it expired,
\* the server shuts down or the leader changed.
EndsRequest(i, k) ==
    /\ requests[i] > 0
    /\ k = "timeout" => \A m \in Msgs : srv[m] # "ready"
    /\ Sends([kind |-> k, inbox |-> i])
    /\ requests' = [requests EXCEPT ![i] = 0]
    /\ IF k = "timeout" THEN UNCHANGED fault
       ELSE Fault /\ errored' = (errored \/ k = "status")
    /\ UNCHANGED srv /\ Quiet

BeatsHeart(i) ==
    /\ requests[i] > 0 /\ Sends([kind |-> "heartbeat", inbox |-> i]) /\ Fault
    /\ UNCHANGED <<requests, srv, errored>> /\ Quiet

\* A -ERR for the subscription, which the server no longer has.
Denies(i) ==
    /\ i \in subs /\ Sends([kind |-> "error", inbox |-> i]) /\ Fault
    /\ requests' = [requests EXCEPT ![i] = 0]
    /\ errored' = TRUE
    /\ UNCHANGED srv /\ Quiet

\* ack_wait is over, with nobody left that holds the message or early.
InFlight(m) ==
    \/ \E k \in DOMAIN held : held[k].msg = m
    \/ \E q \in {inbound, queue, received} : \E k \in DOMAIN q :
            q[k].kind = "data" /\ q[k].msg = m
    \/ \E k \in DOMAIN commands : commands[k].inbox = None /\ commands[k].msg = m

Redelivers(m) ==
    /\ srv[m] = "pending"
    /\ srv' = [srv EXCEPT ![m] = "ready"]
    /\ IF InFlight(m) THEN Fault ELSE UNCHANGED faults
    /\ UNCHANGED <<requests, inbound, errored>> /\ Quiet

Server == \/ \E i \in Inboxes :
                 \/ \E m \in Msgs : Hands(i, m)
                 \/ \E k \in {"timeout", "graceful", "status"} : EndsRequest(i, k)
                 \/ BeatsHeart(i) \/ Denies(i)
          \/ \E m \in Msgs : Redelivers(m)

New == NewSubscribes \/ NewPublishes \/ NewFails

Next == \/ New \/ Poll \/ TimerElapses \/ Application \/ Close
        \/ Take \/ Sweep \/ Deliver \/ HandlerEnds
        \/ \E n \in 0..CommandCap : n <= Len(commands) /\ Reconnect(n)
        \/ Server

Spec == Init /\ [][Next]_vars

\* Senders wait for the command channel in turn, hence SF.  The tasks are
\* scheduled, the timer elapses, the application settles what
\* it holds, and the server hands out what it has and redelivers.
Fairness ==
    /\ SF_vars(New) /\ WF_vars(Poll) /\ WF_vars(TimerElapses)
    /\ WF_vars(Take) /\ WF_vars(Sweep) /\ WF_vars(Deliver) /\ WF_vars(HandlerEnds)
    /\ WF_vars(\E k \in DOMAIN held : held[k].reply /\ Ack(k))
    /\ SF_vars(\E k \in DOMAIN held : AckPublished(k) \/ AckClosed(k))
    /\ WF_vars(\E k \in DOMAIN held : ~held[k].reply /\ DropMessage(k))
    /\ WF_vars(\E i \in Inboxes, m \in Msgs : Hands(i, m))
    /\ WF_vars(\E i \in Inboxes : EndsRequest(i, "timeout"))
    /\ \A m \in Msgs : WF_vars(Redelivers(m))

FairSpec == Spec /\ Fairness

-----------------------------------------------------------------------------
\* The type of the state; a batch is never asked for more than it is good for.
ConsumerTypeOK ==
    /\ kind \in {"batch", "stream"}
    /\ status \in {"subscribing", "publishing", "running", "over"}
    /\ inbox \in Inboxes \cup {None}
    /\ pending \in 0..MaxMsgs
    /\ timer \in {"off", "running", "elapsed"}
    /\ Len(queue) <= SubCap /\ Len(received) <= SubCap
    /\ awake \in BOOLEAN /\ armed \subseteq {"channel", "timer"}
    /\ Len(held) <= MaxHeld
    /\ Len(commands) <= CommandCap
    /\ unsubFailed \in BOOLEAN /\ open \in BOOLEAN /\ alive \in BOOLEAN
    /\ subs \subseteq Inboxes
    /\ requests \in [Inboxes -> 0..MaxMsgs]
    /\ Len(inbound) <= MaxInbound
    /\ srv \in [Msgs -> {"ready", "pending", "done"}]
    /\ faults \in 0..MaxFaults
    /\ errored \in BOOLEAN

\* How many of the ops in q are messages for the inbox i.
MessagesFor(i, q) ==
    Cardinality({k \in DOMAIN q : q[k].inbox = i /\ q[k].kind = "data"})

\* A batch of ConsumerBatch::poll_next never has more messages to come than
\* the batch still counts, so no message that the server hands out is
\* cut off by the end of the batch it was asked for.
CountsTheBatch ==
    status = "running" =>
        requests[inbox] + MessagesFor(inbox, inbound)
          + MessagesFor(inbox, queue) + MessagesFor(inbox, received) <= pending

\* The server never has the request of the batch while the connection is not
\* subscribed to its inbox: the SUB of ConsumerBatch::new precedes the
\* request, and no sweep for another inbox takes it away.  Only a refusal does.
SubscribedBeforeAsking ==
    ~errored => \A i \in Inboxes : i = inbox /\ requests[i] > 0 => i \in subs

\* The messages that is_acked() says are acknowledged are those with one
\* acknowledgment in the command channel, sent once.
AckedIsSent ==
    \A k \in DOMAIN held : held[k].sent = IF held[k].acked THEN 1 ELSE 0

\* A second acknowledgment of a message returns AlreadyAcknowledged, as the
\* documentation of JetstreamMessageAckError and of ack has it.
SaysAlreadyAcknowledged ==
    \A k \in DOMAIN held :
        held[k].acked => held[k].result \in {"none", "Ok", "AlreadyAcknowledged"}

\* A ConsumerStream breaks only on an error: a batch that ends, a lost
\* connection or a graceful conflict is followed by the next batch.
BreaksOnlyOnError == kind = "stream" /\ status = "over" => errored

\* What the client counts, asks and reports of a consumer is so.
ConsumerInv ==
    /\ ConsumerTypeOK
    /\ CountsTheBatch /\ SubscribedBeforeAsking
    /\ AckedIsSent /\ BreaksOnlyOnError

\* A batch that is polled ends, whatever the server answers or leaves unanswered:
\* by its count, by a status or by its timeout.
BatchEnds == status = "running" ~> status # "running"

\* Every message is acknowledged in the end, unless the stream broke: a lost,
\* dropped or nak'ed message comes again with a later batch.
AllAreProcessed ==
    kind = "stream" => <>(errored \/ \A m \in Msgs : srv[m] = "done")

\* After the client closed, a stream that is polled ends.
ClosedEnds == ~open ~> status = "over"

\* A Consumer that is polled makes progress: every batch ends, a stream gets at
\* every message in the end, and it ends when the client is closed.
ConsumerEnds == BatchEnds /\ AllAreProcessed /\ ClosedEnds
=============================================================================
