------------------------------ MODULE Requests ------------------------------
(***************************************************************************)
(* The requests of the core client.  A request with a reply subject of its *)
(* own subscribes to it, limits the subscription to one message and        *)
(* publishes; one without goes through the inbox that all such requests    *)
(* share.  Either awaits room in the command channel or only tries, then a *)
(* ResponseFut awaits the reply or the timeout.  Module Handler has the    *)
(* detail of the handler, which is its command channel and its tables      *)
(* here; the server and the responder behind it are external.              *)
(***************************************************************************)
EXTENDS Naturals, SequencesExt

CONSTANTS
    Explicit,       \* requests with a reply_subject of their own
    Shared,         \* requests on the multiplexed inbox
    Uses,           \* which of them an application makes, together
    CommandCap,     \* capacity of the command channel
    MaxFaults,      \* bound: lost connections, refusals, cancellations, second replies
    None, Mux       \* no result, the multiplexed inbox

Requesters == Explicit \cup Shared
Keys == Explicit \cup {Mux}

\* What a request returns when it could not be made, and when it was.
Refusals == {"Closed", "BufferFull", "Cancelled"}
Results == Refusals \cup {"Message", "NoResponders", "ServerError",
                          "SubscriptionClosed", "TimedOut", "Dropped"}

ASSUME RequestsAssumption ==
    /\ CommandCap \in Nat \ {0} /\ MaxFaults \in Nat
    /\ Explicit \cap Shared = {} /\ Mux \notin Requesters
    /\ Uses \subseteq SUBSET Requesters
    /\ None \notin Results

VARIABLES
    mode,           \* awaited or tried (try_request)
    pc,             \* what the request does next
    result,         \* what it returned
    box,            \* the channel of its reply: what waits in it
    elapsed,        \* requests whose response_timeout is over
    commands,       \* the command channel
    unsubFailed,    \* the bit set by a lazy_unsubscribe that found no room
    open,           \* the command channel takes commands
    alive,          \* the task of the client runs
    up,             \* it is connected; else it sleeps, dials or shakes hands
    shutting_down,  \* the handler was told to close, or drained its channel
    subs,           \* reply subjects in the handler's subscriptions
    limited,        \* those of them with remaining = 1
    muxed,          \* multiplexed_subscriptions, by request
    muxMade,        \* it is Some: the inbox is subscribed to
    interest,       \* SUBs the server has read on this connection
    denied,         \* those it refused
    sent,           \* requests that reached the server
    asked,          \* those the responder still has to answer
    inbound,        \* replies and errors on their way to the handler
    faults,         \* number of faults so far
    losses,         \* requests that a lost connection or a close cut off
    missed          \* those with a reply that came to no connection

request == <<mode, pc, result, box, elapsed>>
channel == <<commands, unsubFailed, open>>
handler == <<alive, up, shutting_down, subs, limited, muxed, muxMade>>
server == <<interest, denied, sent, asked, inbound>>
fault == <<faults, losses, missed>>
vars == <<request, channel, handler, server, fault>>

Key(r) == IF r \in Explicit THEN r ELSE Mux

\* The future of a request that is not made is dropped before its first poll.
Makes(made) ==
    /\ mode \in [Requesters -> {"await", "try"}]
    /\ \A r \in Requesters \ made : mode[r] = "await"
    /\ pc = [r \in Requesters |-> IF r \notin made THEN "done"
                                 ELSE IF r \in Explicit THEN "subscribe" ELSE "multiplex"]
    /\ result = [r \in Requesters |-> IF r \in made THEN None ELSE "Cancelled"]

Init ==
    /\ \E made \in Uses : Makes(made)
    /\ box = [r \in Requesters |-> <<>>]
    /\ elapsed = {}
    /\ commands = <<>>
    /\ unsubFailed = FALSE
    /\ open = TRUE /\ alive = TRUE
    /\ up \in BOOLEAN /\ shutting_down = FALSE
    /\ subs = {} /\ limited = {} /\ muxed = {} /\ muxMade = FALSE
    /\ interest = {} /\ denied = {} /\ sent = {} /\ asked = {}
    /\ inbound = <<>>
    /\ faults = 0
    /\ losses = {} /\ missed = {}

Fault == faults < MaxFaults /\ faults' = faults + 1

Command(op, r) == [op |-> op, r |-> r]
Commanded(op) == {r \in Requesters : Contains(commands, Command(op, r))}

\* Mutant of HasRoom: an off-by-one at the capacity.
HasRoomForOneMore == Len(commands) <= CommandCap

HasRoom == Len(commands) < CommandCap

\* try_enqueue_command; the bit is set when it fails.
Lazily(cmd) ==
    /\ commands' = IF open /\ HasRoom THEN Append(commands, cmd) ELSE commands
    /\ unsubFailed' = (unsubFailed \/ ~(open /\ HasRoom))

\* The receiver of the reply is there: the request has not returned.
Receives(r) == result[r] = None

\* Somebody holds the sender of the reply's channel.
SenderAlive(r) == r \in subs \cup muxed \cup Commanded("SUB") \cup Commanded("REQ")

-----------------------------------------------------------------------------
(***************************************************************************)
(* request and try_request.                                                *)
(***************************************************************************)
Enqueues(r, cmd) ==
    /\ open /\ HasRoom
    /\ commands' = Append(commands, cmd)
    /\ UNCHANGED <<unsubFailed, open>>

Goes(r, to) == pc' = [pc EXCEPT ![r] = to]

\* The order in which a request gives its commands.
Path == [subscribe |-> "limit", limit |-> "publish", publish |-> "wait",
         multiplex |-> "wait"]

\* Mutant of First: a request is published before its subject is subscribed to.
FirstPublish == [subscribe |-> "PUB", publish |-> "SUB", multiplex |-> "REQ"]

First == [subscribe |-> "SUB", publish |-> "PUB", multiplex |-> "REQ"]

\* subscribe, publish or multiplexed_request, or its try_ form, finds room.
Enqueue(r) ==
    /\ pc[r] \in DOMAIN First
    /\ Enqueues(r, Command(First[pc[r]], r))
    /\ Goes(r, Path[pc[r]])
    /\ UNCHANGED <<mode, result, box, elapsed, handler, server, fault>>

\* lazy_unsubscribe(id, Some(1)).
Limit(r) ==
    /\ pc[r] = "limit"
    /\ Lazily(Command("MAX", r))
    /\ Goes(r, Path["limit"])
    /\ UNCHANGED <<mode, result, box, elapsed, open, handler, server, fault>>

\* The drop of the subscription, when there is one and its sender lives.
Drops(r) ==
    IF r \in Shared
    THEN IF pc[r] = "wait" THEN Lazily(Command("FORGET", r))
         ELSE UNCHANGED <<commands, unsubFailed>>
    ELSE IF pc[r] # "subscribe" /\ SenderAlive(r) THEN Lazily(Command("UNSUB", r))
    ELSE UNCHANGED <<commands, unsubFailed>>

Returns(r, what) ==
    /\ result' = [result EXCEPT ![r] = what]
    /\ box' = [box EXCEPT ![r] = <<>>]
    /\ elapsed' = elapsed \ {r}
    /\ Goes(r, "done")
    /\ UNCHANGED <<mode, open>>

\* ClientClosedError for who awaits.  try_reserve fails alike on a full and
\* on a closed channel, try_send does not.
Refusal(r) == IF mode[r] = "await" \/ (pc[r] = "publish" /\ ~open) THEN "Closed"
              ELSE "BufferFull"

Refuse(r) ==
    /\ pc[r] \in DOMAIN First
    /\ ~open \/ (mode[r] = "try" /\ ~HasRoom)
    /\ Returns(r, Refusal(r))
    /\ Drops(r)
    /\ UNCHANGED <<handler, server, fault>>

\* The future of the request or of the response is dropped.
Cancel(r) ==
    /\ Fault
    /\ pc[r] \in DOMAIN First \cup {"wait"}
    /\ mode[r] = "await" \/ pc[r] = "wait"
    /\ Returns(r, IF pc[r] = "wait" THEN "Dropped" ELSE "Cancelled")
    /\ Drops(r)
    /\ UNCHANGED <<handler, server, losses, missed>>

-----------------------------------------------------------------------------
(***************************************************************************)
(* ResponseFut::poll.                                                      *)
(***************************************************************************)
\* What the head of the channel makes of the response.
Outcome == [msg |-> "Message", none |-> "NoResponders", err |-> "ServerError"]

\* A multiplexed subscription that completed has nothing left to drop.
Answered(r) ==
    /\ pc[r] = "wait" /\ box[r] # <<>>
    /\ Returns(r, Outcome[Head(box[r])])
    /\ IF r \in Shared THEN UNCHANGED <<commands, unsubFailed>> ELSE Drops(r)
    /\ UNCHANGED <<handler, server, fault>>

SubscriptionClosed(r) ==
    /\ pc[r] = "wait" /\ box[r] = <<>> /\ ~SenderAlive(r)
    /\ Returns(r, "SubscriptionClosed")
    /\ UNCHANGED <<commands, unsubFailed, handler, server, fault>>

\* Mutant of TimeIsUp: the timeout is polled before the subscription.
TimeIsUpFirst(r) == r \in elapsed

\* The subscription is Pending and the timeout is Ready.
TimeIsUp(r) == box[r] = <<>> /\ SenderAlive(r) /\ r \in elapsed

TimesOut(r) ==
    /\ pc[r] = "wait" /\ TimeIsUp(r)
    /\ Returns(r, "TimedOut")
    /\ Drops(r)
    /\ UNCHANGED <<handler, server, fault>>

\* Mutant of Timed: only a request with a subscription of its own is timed.
TimedExplicit == Explicit

\* The requests whose response has a timeout: all.
Timed == Requesters

\* response_timeout, or the client's default, is over.
Elapse(r) ==
    /\ pc[r] = "wait" /\ r \notin elapsed /\ r \in Timed
    /\ elapsed' = elapsed \cup {r}
    /\ UNCHANGED <<mode, pc, result, box, channel, handler, server, fault>>

Poll(r) == Answered(r) \/ SubscriptionClosed(r) \/ TimesOut(r)

-----------------------------------------------------------------------------
(***************************************************************************)
(* The handler, which writes a command to the server as it takes it and    *)
(* takes none while it is not connected.                                   *)
(***************************************************************************)
Take ==
    /\ up /\ commands # <<>>
    /\ commands' = Tail(commands)
    /\ LET op == Head(commands).op
           r == Head(commands).r
           publishes == op \in {"PUB", "REQ"}
           subscribesInbox == op = "REQ" /\ ~muxMade
       IN /\ subs' = CASE op = "SUB" -> subs \cup {r}
                       [] op = "UNSUB" -> subs \ {r}
                       [] OTHER -> subs
          /\ limited' = CASE op = "MAX" /\ r \in subs -> limited \cup {r}
                          [] op = "UNSUB" -> limited \ {r}
                          [] OTHER -> limited
          /\ muxed' = CASE op = "REQ" -> muxed \cup {r}
                        [] op = "FORGET" -> muxed \ {r}
                        [] OTHER -> muxed
          /\ muxMade' = (muxMade \/ op = "REQ")
          /\ interest' = CASE op = "SUB" -> interest \cup {r}
                           [] op = "UNSUB" /\ r \in subs -> interest \ {r}
                           [] subscribesInbox -> interest \cup {Mux}
                           [] OTHER -> interest
          /\ sent' = IF publishes THEN sent \cup {r} ELSE sent
          /\ asked' = IF publishes THEN asked \cup {r} ELSE asked
    /\ UNCHANGED <<request, unsubFailed, open, alive, up, shutting_down, denied,
                   inbound, fault>>

\* handle_server_op of a message or of the -ERR of a SUB.
Deliver ==
    /\ up /\ inbound # <<>>
    /\ inbound' = Tail(inbound)
    /\ LET r == Head(inbound).r
           k == Head(inbound).kind
           known == r \in subs \cup muxed
           last == r \in limited \/ k = "err"
       IN /\ box' = IF known /\ Receives(r)
                    THEN [box EXCEPT ![r] = Append(@, k)] ELSE box
          /\ subs' = IF k = "err" \/ (last /\ Receives(r)) THEN subs \ {r} ELSE subs
          /\ limited' = limited \cap subs'
          /\ muxed' = muxed \ {r}
          /\ interest' = IF r \in subs /\ ~Receives(r) /\ k # "err"
                         THEN interest \ {r} ELSE interest
    /\ UNCHANGED <<mode, pc, result, elapsed, channel, alive, up, shutting_down,
                   muxMade, denied, sent, asked, fault>>

\* Mutant of Kept: the requests to forget are the ones kept.
KeptClosed == {r \in muxed : ~Receives(r)}

\* The multiplexed requests that failed_unsubscribe keeps.
Kept == {r \in muxed : Receives(r)}

Sweep ==
    /\ up /\ ~shutting_down /\ unsubFailed
    /\ unsubFailed' = FALSE
    /\ muxed' = Kept
    /\ subs' = {r \in subs : Receives(r)}
    /\ limited' = {r \in limited : Receives(r)}
    /\ interest' = interest \ {r \in subs : ~Receives(r)}
    /\ UNCHANGED <<request, commands, open, alive, up, shutting_down, muxMade,
                   denied, sent, asked, inbound, fault>>

\* Requests with a reply on its way to the handler.
Arriving == {r \in Requesters :
    \E i \in 1..Len(inbound) : inbound[i].r = r /\ inbound[i].kind # "err"}

\* Mutant of MuxAfterLoss: the next connection believes in the inbox of this one.
MuxAfterLossKept == muxMade

\* A handler starts without multiplexed_subscriptions.
MuxAfterLoss == FALSE

\* The connection is lost, and the multiplexed requests with it.  That the
\* server did not read the last requests is, to the client, a responder that
\* never answers.
Disconnect ==
    /\ up /\ Fault
    /\ up' = FALSE /\ shutting_down' = FALSE
    /\ muxed' = {} /\ muxMade' = MuxAfterLoss
    /\ losses' = losses \cup muxed
    /\ missed' = missed \cup Arriving
    /\ interest' = {} /\ denied' = {}
    /\ inbound' = <<>>
    /\ UNCHANGED <<request, channel, alive, subs, limited, sent, asked>>

\* Mutant of Resubscribed: the new connection starts without subscriptions.
ResubscribedNone == {}

\* What the handler subscribes to again on a new connection.
Resubscribed == subs

\* An attempt to connect succeeds, at last.
Connect ==
    /\ alive /\ ~up
    /\ up' = TRUE
    /\ interest' = Resubscribed
    /\ UNCHANGED <<request, channel, alive, shutting_down, subs, limited, muxed,
                   muxMade, denied, sent, asked, inbound, fault>>

\* Client::close, and begin_shutdown of the connected handler.  It still takes
\* what is in the channel,
Close ==
    /\ up /\ ~shutting_down
    /\ open' = FALSE /\ shutting_down' = TRUE
    /\ UNCHANGED <<request, commands, unsubFailed, alive, up, subs, limited, muxed,
                   muxMade, server, fault>>

\* also on the connections after this one, until the channel is empty.
Drained ==
    /\ up /\ ~shutting_down /\ ~open /\ commands = <<>>
    /\ shutting_down' = TRUE
    /\ UNCHANGED <<request, channel, alive, up, subs, limited, muxed, muxMade,
                   server, fault>>

HandlerStops ==
    /\ alive' = FALSE /\ up' = FALSE /\ shutting_down' = FALSE
    /\ open' = FALSE
    /\ commands' = <<>>
    /\ subs' = {} /\ limited' = {} /\ muxed' = {} /\ muxMade' = FALSE
    /\ interest' = {} /\ denied' = {}
    /\ inbound' = <<>>
    /\ losses' = Requesters
    /\ UNCHANGED <<request, unsubFailed, sent, asked, faults, missed>>

\* Closed.  To poll_recv_many a channel that is not empty looks like one when
\* the coop budget of the task is exhausted.
HandlerEnds == shutting_down /\ HandlerStops

\* fuse_shutdown: a close ends the task that is not connected at once.
CloseConnecting == alive /\ ~up /\ HandlerStops

-----------------------------------------------------------------------------
(***************************************************************************)
(* The server and the responder.                                           *)
(***************************************************************************)
\* A reply, or the server's 503 when nobody takes the request.  The server
\* ends a limited subscription with its last message.  A reply is missed when
\* no connection is there to carry it, or the server refused its subscription.
Reply(r, k) ==
    /\ asked' = asked \ {r}
    /\ missed' = IF up /\ Key(r) \notin denied THEN missed ELSE missed \cup {r}
    /\ LET heard == Key(r) \in interest \ denied IN
       /\ inbound' = IF heard THEN Append(inbound, [r |-> r, kind |-> k]) ELSE inbound
       /\ interest' = IF heard THEN interest \ (limited \cap {r}) ELSE interest
    /\ UNCHANGED <<request, channel, handler, denied, sent, losses>>

Replies(r) == \E k \in {"msg", "none"} : r \in asked /\ Reply(r, k) /\ UNCHANGED faults

\* A responder that answers what another one has answered.
RepliesAgain(r) == r \in sent \ asked /\ Fault /\ Reply(r, "msg")

\* The SUB of a reply subject or of the inbox is refused.  The handler takes
\* the -ERR of the inbox for that of a subscription it does not have.
Denies(k) ==
    /\ Fault
    /\ k \in interest \ denied
    /\ denied' = denied \cup {k}
    /\ inbound' = IF k = Mux THEN inbound ELSE Append(inbound, [r |-> k, kind |-> "err"])
    /\ UNCHANGED <<request, channel, handler, interest, sent, asked, losses, missed>>

Next ==
    \/ \E r \in Requesters : Enqueue(r) \/ Limit(r) \/ Refuse(r) \/ Cancel(r)
                             \/ Elapse(r) \/ Poll(r) \/ Replies(r) \/ RepliesAgain(r)
    \/ \E k \in Keys : Denies(k)
    \/ Take \/ Deliver \/ Sweep \/ Disconnect \/ Connect
    \/ Close \/ CloseConnecting \/ Drained \/ HandlerEnds

Spec == Init /\ [][Next]_vars

\* The tasks of the requests are scheduled and the timer runs; who awaits room
\* for a command is served in turn, though others may take the room in between,
\* hence SF; and a connected handler takes commands, as the server that stops
\* to read them is disconnected from (Keepalive).  No fairness of the
\* responder, of what the server sends, of the application, and none of the
\* network: it may never connect.
Proceeds(r) == Enqueue(r) \/ Limit(r) \/ Refuse(r) \/ Elapse(r) \/ Poll(r)

Fairness == WF_vars(Take) /\ \A r \in Requesters : SF_vars(Proceeds(r))

FairSpec == Spec /\ Fairness

-----------------------------------------------------------------------------
(***************************************************************************)
(* Properties.                                                             *)
(***************************************************************************)
\* Every variable has its type; the command channel keeps to its capacity.
RequestsTypeOK ==
    /\ mode \in [Requesters -> {"await", "try"}]
    /\ pc \in [Requesters -> DOMAIN Path \cup {"wait", "done"}]
    /\ result \in [Requesters -> Results \cup {None}]
    /\ box \in [Requesters -> Seq({"msg", "none", "err"})]
    /\ commands \in Seq([op : {"SUB", "MAX", "PUB", "REQ", "UNSUB", "FORGET"},
                         r : Requesters])
    /\ Len(commands) <= CommandCap
    /\ open \in BOOLEAN /\ unsubFailed \in BOOLEAN
    /\ alive \in BOOLEAN /\ up \in BOOLEAN /\ shutting_down \in BOOLEAN
    /\ (up => alive) /\ (shutting_down => up)
    /\ limited \subseteq subs /\ subs \subseteq Explicit
    /\ muxed \subseteq Shared /\ muxMade \in BOOLEAN
    /\ interest \subseteq Keys /\ denied \subseteq Keys
    /\ asked \subseteq sent /\ sent \subseteq Requesters
    /\ elapsed \subseteq Requesters
    /\ losses \subseteq Requesters /\ missed \subseteq Requesters
    /\ inbound \in Seq([r : Requesters, kind : {"msg", "none", "err"}])
    /\ faults \in 0..MaxFaults

\* A request that returned an error of the client, or that was dropped
\* before it returned a ResponseFut, is not sent and is not going to be: the
\* caller may safely try it again.
RefusedIsNotSent ==
    \A r \in Requesters : result[r] \in Refusals =>
        r \notin sent \cup Commanded("PUB") \cup Commanded("REQ")

\* A request whose caller still has to wait reaches the server on a connection
\* that has asked for its replies, over reconnects, sweeps of the subscriptions
\* and the commands of others in between.
AsksForRepliesFirst ==
    [][\A r \in sent' \ sent : Receives(r) /\ box[r] = <<>> => Key(r) \in interest']_vars

\* A response that times out has no reply anywhere: its request is still in
\* the channel or with the responder, or the reply is on its way, or was missed
\* while the client was not connected or its subscription was refused.  One
\* that reached the connected client is never turned into a timeout, by other
\* requests, cancellations, sweeps or reconnections in between.
TimeoutsAreHonest ==
    [][\A r \in Requesters : result[r] # "TimedOut" /\ result'[r] = "TimedOut" =>
            r \notin sent \/ r \in asked \cup Arriving \cup missed]_vars

\* A response is SubscriptionClosed only when its request was cut off by a
\* reconnect or by the close of the client, whatever the other requests do.
ClosedOnlyByLoss ==
    \A r \in Requesters : result[r] = "SubscriptionClosed" => r \in losses

\* What a request returned says what became of it, and the channels and maps
\* are consistent.
RequestsInv == RequestsTypeOK /\ RefusedIsNotSent /\ ClosedOnlyByLoss

\* In the end every request returned and every response resolved, whatever the
\* responder, the network and the application do; but for a request that awaits
\* room for a command while the client stays without a connection for ever:
\* response_timeout runs only once the last command is in the channel.
AwaitsRoom(r) == mode[r] = "await" /\ pc[r] \in DOMAIN First

EveryRequestEnds ==
    <>[](\A r \in Requesters : pc[r] = "done" \/ (AwaitsRoom(r) /\ alive /\ ~up))

\* TryCommandError::BufferFull means "The client's internal buffer is
\* currently full" (client/mod.rs:97).
BufferFullIsFull ==
    [][\A r \in Requesters : result[r] # "BufferFull" /\ result'[r] = "BufferFull" =>
            ~HasRoom]_vars
=============================================================================
