------------------------------ MODULE Handler ------------------------------
(***************************************************************************)
(* The connection handler of the watermelon client, the application        *)
(* handles that talk to it, and the NATS server at the other end of the    *)
(* connection.                                                             *)
(*                                                                         *)
(* The handler is one tokio task (watermelon/src/handler/mod.rs).  Every   *)
(* poll of it goes through the same stages, kept in pc:                    *)
(*                                                                         *)
(*   connected/idle -> sweep of the failed unsubscribes -> shutdown check  *)
(*     -> read loop -> command loop -> idle                                *)
(*                                                                         *)
(* and a connection that is lost is re-established by the client's task    *)
(* (down -> load -> resub -> connected).  Between any two of these steps   *)
(* other threads use, close and drop Subscriptions and requests; they      *)
(* share with the handler the command channel, the message channels and    *)
(* the IS_FAILED_UNSUBSCRIBE bit of QuickInfo.                             *)
(*                                                                         *)
(* The encoder, the socket and the server's input are one FIFO (outbound); *)
(* what is in it is lost when the connection is.  Replies to commands and  *)
(* deliveries come back in two FIFOs (acks, msgs): the handler never       *)
(* relies on the order between the two, so they may be read in any order.  *)
(* PING/PONG are in Keepalive, the writing and flushing states in          *)
(* WritePath, the bytes of the inbound stream in Decoder.                  *)
(***************************************************************************)
EXTENDS Naturals, Sequences, FiniteSets

CONSTANTS
    SubIds,       \* subscription ids the clients may allocate
    Requests,     \* reply subjects of multiplexed requests
    Counts,       \* arguments of Subscription::close_after
    None,         \* no id, no reply subject
    Reconnects,   \* whether the connection may be lost
    Publishes,    \* whether clients also send plain publishes
    Closes,       \* whether Client::close may be called
    CommandCap,   \* CLIENT_OP_CHANNEL_SIZE
    SubCap,       \* SUBSCRIPTION_CHANNEL_SIZE
    MaxOutbound,  \* soft limit of the write buffer (may_enqueue_more_ops)
    MaxAcks,      \* replies the connection may hold unread
    MaxMsgs       \* deliveries the connection may hold unread

\* MULTIPLEXED_SUBSCRIPTION_ID: ordinary ids are allocated after it.
MUX == 1

ASSUME IdAssumption ==
    /\ SubIds \subseteq Nat \ {0, MUX}
    /\ None \notin SubIds \cup {MUX} \cup Requests
    /\ Requests \cap (SubIds \cup {MUX}) = {}
    /\ Counts \subseteq Nat \ {0}
ASSUME SwitchAssumption ==
    /\ Reconnects \in BOOLEAN
    /\ Publishes \in BOOLEAN
    /\ Closes \in BOOLEAN
ASSUME BoundAssumption ==
    /\ CommandCap \in Nat \ {0}
    /\ SubCap \in Nat \ {0}
    /\ MaxOutbound \in Nat \ {0}
    /\ MaxAcks \in Nat \ {0}
    /\ MaxMsgs \in Nat \ {0}

VARIABLES
    \* shared between the handler and the application threads
    flag,          \* QuickInfo::is_failed_unsubscribe
    commands,      \* the mpsc channel of HandlerCommands
    cmdOpen,       \* the receiving side of that channel is open
    shutdownReq,   \* a message is in the shutdown channel
    chan,          \* chan[id]: the mpsc channel of a subscription
    \* the handler
    pc,            \* the stage of poll, or of the reconnection
    todo,          \* ids the running loop over subscriptions has left
    loadedFlag,    \* the bit as read by RawQuickInfo::store
    shutting_down,
    in_flight,     \* in_flight_commands: a SUB's id, or None (Unimportant)
    live,          \* keys of the subscriptions map
    remaining,     \* Subscription::remaining, 0 for None
    failedSub,     \* subscriptions with failed_subscribe set
    muxOn,         \* multiplexed_subscriptions is Some
    muxMap,        \* its keys
    \* the connection and the server
    outbound,      \* acknowledged ops that the server has not processed
    acks,          \* its replies, not yet read
    msgs,          \* its deliveries, not yet read
    srv,           \* ids the server has a subscription for
    srvAuto,       \* those it will end by itself (UNSUB with a count)
    srvReq,        \* reply subjects a responder has seen
    srvDenied,     \* the server has refused the inbox on this connection
    \* the application
    handle,        \* handle[id]: the Subscription value
    req            \* req[r]: the MultiplexedSubscription value

client == <<handle, req, chan>>
channel == <<commands, cmdOpen>>
subscriptions == <<live, remaining, failedSub>>
mux == <<muxOn, muxMap>>
server == <<acks, msgs, srv, srvAuto, srvReq, srvDenied>>
resume == <<todo, loadedFlag, shutting_down>>
control == <<pc, todo, loadedFlag, shutting_down>>
app == <<client, channel, flag, shutdownReq>>
tables == <<subscriptions, mux>>
conn == <<in_flight, outbound, server>>
handlerState == <<shutdownReq, control, tables, conn>>
peers == <<app, control, tables, in_flight>>
vars == <<flag, commands, cmdOpen, shutdownReq, chan, pc, todo, loadedFlag,
          shutting_down, in_flight, live, remaining, failedSub, muxOn, muxMap,
          outbound, acks, msgs, srv, srvAuto, srvReq, srvDenied, handle, req>>

-----------------------------------------------------------------------------
\* HandlerCommand: id is a subscription, a reply subject or None, and max is
\* 0 where the command has no (or no Some) max_messages.
Command ==
    [op : {"Subscribe"}, id : SubIds, max : {0}]
        \cup [op : {"Unsubscribe"}, id : SubIds, max : Nat]
        \cup [op : {"RequestMultiplexed", "UnsubscribeMultiplexed"},
              id : Requests, max : {0}]
        \cup [op : {"Publish"}, id : {None}, max : {0}]

\* The ClientOps the server acknowledges in verbose mode.
ClientOp ==
    [op : {"SUB"}, id : SubIds \cup {MUX}, max : {0}]
        \cup [op : {"UNSUB"}, id : SubIds, max : Nat]
        \cup [op : {"PUB"}, id : Requests \cup {None}, max : {0}]

Cmd(op, id, max) == [op |-> op, id |-> id, max |-> max]
Op(op, id, max) == [op |-> op, id |-> id, max |-> max]

\* The subscription to the inbox that the replies to all requests share.
InboxSub == Op("SUB", MUX, 0)

\* The InFlightCommand pushed for an op.
Tracked(op) == IF op.op = "SUB" THEN op.id ELSE None

\* One ackable op: the push to in_flight_commands and the enqueue_write_op.
Send(op) ==
    /\ in_flight' = Append(in_flight, Tracked(op))
    /\ outbound' = Append(outbound, op)

SendTwo(op1, op2) ==
    /\ in_flight' = Append(Append(in_flight, Tracked(op1)), Tracked(op2))
    /\ outbound' = Append(Append(outbound, op1), op2)

\* subscriptions.remove(id)
Remove(id) ==
    /\ live' = live \ {id}
    /\ failedSub' = failedSub \ {id}
    /\ remaining' = [remaining EXCEPT ![id] = 0]

Queued(op, id) == \E i \in 1..Len(commands) :
    commands[i].op = op /\ commands[i].id = id

\* The sender of a subscription's channel is in the map, or on its way to it.
SenderAlive(id) == id \in live \/ Queued("Subscribe", id)

\* Sender::is_closed: the Receiver has been dropped.
ChanClosed(id) == handle[id] \in {"dropped", "lost"}
ReplyClosed(r) == req[r] \in {"dropped", "lost", "taken"}

IsLeast(id) == id \in todo /\ \A other \in todo : id <= other

Init ==
    /\ flag = FALSE
    /\ commands = <<>>
    /\ cmdOpen = TRUE
    /\ shutdownReq = FALSE
    /\ chan = [id \in SubIds |-> <<>>]
    /\ pc \in {"connected", "down"}     \* Client::connect, Client::connect_lazy
    /\ todo = {}
    /\ loadedFlag = FALSE
    /\ shutting_down = FALSE
    /\ in_flight = <<>>
    /\ live = {}
    /\ remaining = [id \in SubIds |-> 0]
    /\ failedSub = {}
    /\ muxOn = FALSE
    /\ muxMap = {}
    /\ outbound = <<>>
    /\ acks = <<>>
    /\ msgs = <<>>
    /\ srv = {}
    /\ srvAuto = {}
    /\ srvReq = {}
    /\ srvDenied = FALSE
    \* What the application never makes is as good as dropped.
    /\ handle \in [SubIds -> {"new", "dropped"}]
    /\ req \in [Requests -> {"new", "dropped"}]

-----------------------------------------------------------------------------
(***************************************************************************)
(* The application threads.                                                *)
(***************************************************************************)
HasRoom == cmdOpen /\ Len(commands) < CommandCap
Push(cmd) == commands' = Append(commands, cmd) /\ UNCHANGED cmdOpen

\* subscribe / try_subscribe with a permit of the command channel.
Subscribe(id) ==
    /\ handle[id] = "new"
    /\ HasRoom
    /\ Push(Cmd("Subscribe", id, 0))
    /\ handle' = [handle EXCEPT ![id] = "open"]
    /\ UNCHANGED <<handlerState, flag, chan, req>>

\* Subscription::close, the command accepted.
CloseSubscription(id) ==
    /\ handle[id] = "open"
    /\ HasRoom
    /\ Push(Cmd("Unsubscribe", id, 0))
    /\ handle' = [handle EXCEPT ![id] = "unsub"]
    /\ UNCHANGED <<handlerState, flag, chan, req>>

\* Subscription::close and poll_next once the handler has let the sender go:
\* both only record the status.
NoticeUnsubscribed(id) ==
    /\ handle[id] = "open"
    /\ ~SenderAlive(id)
    /\ handle' = [handle EXCEPT ![id] = "unsub"]
    /\ UNCHANGED <<handlerState, channel, flag, chan, req>>

\* Subscription::close_after leaves the status alone.
CloseAfter(id, max) ==
    /\ handle[id] = "open"
    /\ HasRoom
    /\ Push(Cmd("Unsubscribe", id, max))
    /\ UNCHANGED <<handlerState, client, flag>>

\* Drop for Subscription, the early return: nothing is left to unsubscribe,
\* only the receiver goes.
DropUnsubscribed(id) ==
    /\ \/ handle[id] = "unsub"
       \/ handle[id] = "open" /\ ~SenderAlive(id)
    /\ handle' = [handle EXCEPT ![id] = "dropped"]
    /\ chan' = [chan EXCEPT ![id] = <<>>]
    /\ UNCHANGED <<handlerState, channel, flag, req>>

\* Mutant of DropOpen: try_reserve's failure is ignored.
DropIgnoringFull(id) ==
    /\ handle[id] = "open"
    /\ IF HasRoom THEN Push(Cmd("Unsubscribe", id, 0)) ELSE UNCHANGED channel
    /\ handle' = [handle EXCEPT ![id] = "dropping"]
    /\ UNCHANGED <<handlerState, flag, chan, req>>

\* Drop for Subscription: lazy_unsubscribe runs first ...
DropOpen(id) ==
    /\ handle[id] = "open"
    /\ \/ /\ HasRoom
          /\ Push(Cmd("Unsubscribe", id, 0))
          /\ handle' = [handle EXCEPT ![id] = "dropping"]
          /\ UNCHANGED flag
       \/ /\ ~HasRoom
          /\ flag' = TRUE
          /\ handle' = [handle EXCEPT ![id] = "losing"]
          /\ UNCHANGED channel
    /\ UNCHANGED <<handlerState, chan, req>>

\* ... and only then are the fields dropped, the receiver with them.
DropReceiver(id) ==
    /\ handle[id] \in {"dropping", "losing"}
    /\ handle' = [handle EXCEPT ![id] =
                    IF handle[id] = "dropping" THEN "dropped" ELSE "lost"]
    /\ chan' = [chan EXCEPT ![id] = <<>>]
    /\ UNCHANGED <<handlerState, channel, flag, req>>

\* Stream for Subscription.
Receive(id) ==
    /\ handle[id] \in {"open", "unsub"}
    /\ chan[id] # <<>>
    /\ chan' = [chan EXCEPT ![id] = Tail(chan[id])]
    /\ UNCHANGED <<handlerState, channel, flag, handle, req>>

Publish ==
    /\ Publishes
    /\ HasRoom
    /\ Push(Cmd("Publish", None, 0))
    /\ UNCHANGED <<handlerState, client, flag>>

\* multiplexed_request / try_multiplexed_request
Request(r) ==
    /\ req[r] = "new"
    /\ HasRoom
    /\ Push(Cmd("RequestMultiplexed", r, 0))
    /\ req' = [req EXCEPT ![r] = "wait"]
    /\ UNCHANGED <<handlerState, flag, handle, chan>>

\* MultiplexedSubscription::poll once the sender has sent or has been dropped.
TakeReply(r) ==
    /\ req[r] \in {"answered", "cancelled"}
    /\ req' = [req EXCEPT ![r] = "taken"]
    /\ UNCHANGED <<handlerState, channel, flag, handle, chan>>

\* Drop for MultiplexedSubscription: lazy_unsubscribe_multiplexed, then the
\* receiver.
DropRequest(r) ==
    /\ req[r] \in {"wait", "answered", "cancelled"}
    /\ \/ /\ HasRoom
          /\ Push(Cmd("UnsubscribeMultiplexed", r, 0))
          /\ req' = [req EXCEPT ![r] = "dropping"]
          /\ UNCHANGED flag
       \/ /\ ~HasRoom
          /\ flag' = TRUE
          /\ req' = [req EXCEPT ![r] = "losing"]
          /\ UNCHANGED channel
    /\ UNCHANGED <<handlerState, handle, chan>>

DropReplyReceiver(r) ==
    /\ req[r] \in {"dropping", "losing"}
    /\ req' = [req EXCEPT ![r] =
                 IF req[r] = "dropping" THEN "dropped" ELSE "lost"]
    /\ UNCHANGED <<handlerState, channel, flag, handle, chan>>

\* Client::close
CloseClient ==
    /\ Closes
    /\ ~shutdownReq
    /\ pc # "closed"
    /\ shutdownReq' = TRUE
    /\ UNCHANGED <<conn, tables, control, client, channel, flag>>

-----------------------------------------------------------------------------
(***************************************************************************)
(* Handler::poll, before the read loop.                                    *)
(***************************************************************************)
\* The checks at the top of poll.  failed_unsubscribe first clears the bit.
BeginPoll ==
    /\ pc \in {"connected", "idle"}
    /\ pc' = IF shutting_down THEN "read"
             ELSE IF flag THEN "sweepMux" ELSE "shutdown"
    /\ flag' = (flag /\ shutting_down)
    /\ UNCHANGED <<conn, tables, client, resume, channel, shutdownReq>>

\* failed_unsubscribe: the requests whose receiver is gone are forgotten.
SweepMux ==
    /\ pc = "sweepMux"
    /\ muxMap' = {r \in muxMap : ~ReplyClosed(r)}
    /\ todo' = live
    /\ pc' = "sweep"
    /\ UNCHANGED <<app, conn, subscriptions, loadedFlag, shutting_down, muxOn>>

\* failed_unsubscribe, one subscription.
SweepSubscription(id) ==
    /\ pc = "sweep"
    /\ IsLeast(id)
    /\ todo' = todo \ {id}
    /\ \/ /\ id \in failedSub
          /\ Remove(id)
          /\ UNCHANGED <<in_flight, outbound>>
       \/ /\ id \notin failedSub
          /\ ChanClosed(id)
          /\ Send(Op("UNSUB", id, 0))
          /\ Remove(id)
       \/ /\ id \notin failedSub
          /\ ~ChanClosed(id)
          /\ UNCHANGED <<subscriptions, in_flight, outbound>>
    /\ UNCHANGED <<app, server, mux, pc, loadedFlag, shutting_down>>

SweepDone ==
    /\ pc = "sweep"
    /\ todo = {}
    /\ pc' = "shutdown"
    /\ UNCHANGED <<app, conn, tables, resume>>

\* shutdown_recv.poll_recv and begin_shutdown.
CheckShutdown ==
    /\ pc = "shutdown"
    /\ shutdownReq' = FALSE
    /\ shutting_down' = shutdownReq
    /\ cmdOpen' = (cmdOpen /\ ~shutdownReq)
    /\ pc' = "read"
    /\ UNCHANGED <<conn, tables, client, flag, commands, todo, loadedFlag>>

-----------------------------------------------------------------------------
(***************************************************************************)
(* handle_server_op.                                                       *)
(***************************************************************************)
\* A delivery on the multiplexed subscription.
ReadReply ==
    /\ pc = "read"
    /\ msgs # <<>>
    /\ Head(msgs) \in Requests
    /\ LET r == Head(msgs)
       IN  /\ muxMap' = muxMap \ {r}
           /\ req' = [req EXCEPT ![r] =
                        IF r \in muxMap /\ @ = "wait" THEN "answered" ELSE @]
    /\ msgs' = Tail(msgs)
    /\ UNCHANGED <<control, subscriptions, channel, flag, shutdownReq, handle,
                    chan, in_flight, muxOn, outbound, acks, srv, srvAuto, srvReq,
                    srvDenied>>

\* Mutant of CountDown: a subscription without a count is counted down too.
CountDownAlways(id) ==
    IF remaining[id] = 1
      THEN Remove(id)
      ELSE /\ remaining' = [remaining EXCEPT ![id] = @ - 1]
           /\ UNCHANGED <<live, failedSub>>

\* The countdown of a subscription that is closed after some messages.
CountDown(id) ==
    IF remaining[id] = 1
      THEN Remove(id)
      ELSE /\ remaining' = [remaining EXCEPT ![id] = IF @ = 0 THEN 0 ELSE @ - 1]
           /\ UNCHANGED <<live, failedSub>>

\* A delivery on an ordinary subscription: unknown, sent, dropped because the
\* channel is full, or answered with an UNSUB because the receiver is gone.
ReadMessage ==
    /\ pc = "read"
    /\ msgs # <<>>
    /\ Head(msgs) \in SubIds
    /\ LET id == Head(msgs)
       IN  \/ /\ id \notin live
              /\ UNCHANGED <<subscriptions, chan, in_flight, outbound>>
           \/ /\ id \in live
              /\ ~ChanClosed(id)
              /\ chan' = [chan EXCEPT ![id] =
                            IF Len(@) < SubCap THEN Append(@, "msg") ELSE @]
              /\ CountDown(id)
              /\ UNCHANGED <<in_flight, outbound>>
           \/ /\ id \in live
              /\ ChanClosed(id)
              /\ Len(outbound) < MaxOutbound     \* bound
              /\ Send(Op("UNSUB", id, 0))
              /\ UNCHANGED <<subscriptions, chan>>
    /\ msgs' = Tail(msgs)
    /\ UNCHANGED <<control, channel, mux, flag, shutdownReq, handle, req,
                    acks, srv, srvAuto, srvReq, srvDenied>>

\* +OK
ReadSuccess ==
    /\ pc = "read"
    /\ acks # <<>>
    /\ Head(acks).ok
    /\ in_flight # <<>>
    /\ in_flight' = Tail(in_flight)
    /\ acks' = Tail(acks)
    /\ UNCHANGED <<app, tables, control, outbound, msgs, srv, srvAuto, srvReq,
                    srvDenied>>

\* Mutant of SubscribeRefused: the subscription stays in the map.
RefusedButKept(id) ==
    /\ chan' = [chan EXCEPT ![id] = IF Len(@) < SubCap THEN Append(@, "err") ELSE @]
    /\ UNCHANGED <<subscriptions, flag>>

\* -ERR with a nonfatal error, for the subscription that was in flight.
SubscribeRefused(id) ==
    \/ /\ id \notin live
       /\ UNCHANGED <<subscriptions, flag, chan>>
    \/ /\ id \in live
       /\ ChanClosed(id)
       /\ Remove(id)
       /\ UNCHANGED <<flag, chan>>
    \/ /\ id \in live
       /\ ~ChanClosed(id)
       /\ Len(chan[id]) < SubCap
       /\ chan' = [chan EXCEPT ![id] = Append(@, "err")]
       /\ Remove(id)
       /\ UNCHANGED flag
    \/ /\ id \in live
       /\ ~ChanClosed(id)
       /\ Len(chan[id]) >= SubCap
       /\ failedSub' = failedSub \cup {id}
       /\ flag' = TRUE
       /\ UNCHANGED <<chan, live, remaining>>

ReadError ==
    /\ pc = "read"
    /\ acks # <<>>
    /\ ~Head(acks).ok
    /\ in_flight # <<>>
    /\ \/ /\ Head(in_flight) \in SubIds
          /\ SubscribeRefused(Head(in_flight))
       \/ /\ Head(in_flight) \notin SubIds
          /\ UNCHANGED <<subscriptions, flag, chan>>
    /\ in_flight' = Tail(in_flight)
    /\ acks' = Tail(acks)
    /\ UNCHANGED <<control, channel, mux, shutdownReq, handle, req, outbound,
                    msgs, srv, srvAuto, srvReq, srvDenied>>

\* The read loop ends at a Pending, the connection's or the coop budget's.
ReadDone ==
    /\ pc = "read"
    /\ pc' = "cmd"
    /\ UNCHANGED <<app, conn, tables, resume>>

-----------------------------------------------------------------------------
(***************************************************************************)
(* receive_command, one command at a time.                                 *)
(***************************************************************************)
Pop(op) ==
    /\ pc = "cmd"
    /\ commands # <<>>
    /\ Head(commands).op = op
    /\ Len(outbound) < MaxOutbound
    /\ commands' = Tail(commands)
    /\ UNCHANGED cmdOpen

ReceivePublish ==
    /\ Pop("Publish")
    /\ Send(Op("PUB", None, 0))
    /\ UNCHANGED <<tables, server, control, client, flag, shutdownReq>>

\* Mutant of ReceiveRequest: the inbox is subscribed after the request.
RequestBeforeInbox ==
    /\ Pop("RequestMultiplexed")
    /\ LET r == Head(commands).id
       IN  /\ IF muxOn THEN Send(Op("PUB", r, 0))
                       ELSE SendTwo(Op("PUB", r, 0), InboxSub)
           /\ muxMap' = muxMap \cup {r}
    /\ muxOn' = TRUE
    /\ UNCHANGED <<server, control, client, subscriptions, flag, shutdownReq>>

\* The first request of a connection subscribes to the inbox.
ReceiveRequest ==
    /\ Pop("RequestMultiplexed")
    /\ LET r == Head(commands).id
       IN  /\ IF muxOn THEN Send(Op("PUB", r, 0))
                       ELSE SendTwo(InboxSub, Op("PUB", r, 0))
           /\ muxMap' = muxMap \cup {r}
    /\ muxOn' = TRUE
    /\ UNCHANGED <<server, control, client, subscriptions, flag, shutdownReq>>

\* Mutant of ReceiveUnsubscribeMultiplexed: the sender is kept.
KeepSender ==
    /\ Pop("UnsubscribeMultiplexed")
    /\ UNCHANGED <<tables, conn, control, client, flag, shutdownReq>>

ReceiveUnsubscribeMultiplexed ==
    /\ Pop("UnsubscribeMultiplexed")
    /\ muxMap' = muxMap \ {Head(commands).id}
    /\ UNCHANGED <<conn, control, client, subscriptions, flag, shutdownReq,
                    muxOn>>

ReceiveSubscribe ==
    /\ Pop("Subscribe")
    /\ LET id == Head(commands).id
       IN  /\ live' = live \cup {id}
           /\ remaining' = [remaining EXCEPT ![id] = 0]
           /\ failedSub' = failedSub \ {id}
           /\ Send(Op("SUB", id, 0))
    /\ UNCHANGED <<server, control, client, mux, flag, shutdownReq>>

\* Mutant of ReceiveUnsubscribe: the server is not told.
ForgetWithoutUnsub ==
    /\ Pop("Unsubscribe")
    /\ Remove(Head(commands).id)
    /\ UNCHANGED <<conn, control, client, mux, flag, shutdownReq>>

\* Mutant of ReceiveUnsubscribe: the map is not told.
UnsubWithoutForget ==
    /\ Pop("Unsubscribe")
    /\ Send(Op("UNSUB", Head(commands).id, Head(commands).max))
    /\ UNCHANGED <<tables, server, control, client, flag, shutdownReq>>

\* An id that is not in the map any more sends nothing.
ReceiveUnsubscribe ==
    /\ Pop("Unsubscribe")
    /\ LET id == Head(commands).id
           max == Head(commands).max
       IN  \/ /\ id \notin live
              /\ UNCHANGED <<subscriptions, in_flight, outbound>>
           \/ /\ id \in live
              /\ max > 0
              /\ remaining' = [remaining EXCEPT ![id] = max]
              /\ Send(Op("UNSUB", id, max))
              /\ UNCHANGED <<live, failedSub>>
           \/ /\ id \in live
              /\ max = 0
              /\ Remove(id)
              /\ Send(Op("UNSUB", id, 0))
    /\ UNCHANGED <<server, control, client, mux, flag, shutdownReq>>

\* poll_recv_many returns 0: the channel is closed and drained.
CommandsDrained ==
    /\ pc = "cmd"
    /\ commands = <<>>
    /\ ~cmdOpen
    /\ ~shutting_down
    /\ shutting_down' = TRUE
    /\ UNCHANGED <<app, conn, tables, pc, todo, loadedFlag>>

\* The command loop ends at a Pending (no commands, or no coop budget) or for
\* want of space, and so does the poll.
EndPoll ==
    /\ pc = "cmd"
    /\ pc' = "idle"
    /\ UNCHANGED <<app, conn, tables, resume>>

-----------------------------------------------------------------------------
(***************************************************************************)
(* The end of a connection, and the next one.                              *)
(***************************************************************************)
\* Mutant of LoseConnection: in_flight_commands is recycled as well.
LoseButRecycleInFlight ==
    /\ UNCHANGED <<in_flight, srvReq>>
    /\ outbound' = <<>> /\ acks' = <<>> /\ msgs' = <<>>
    /\ srv' = {} /\ srvAuto' = {} /\ srvDenied' = FALSE
    /\ muxOn' = FALSE /\ muxMap' = {}

\* Mutant of LoseConnection: the inbox is taken to be subscribed still.
LoseButKeepInbox ==
    /\ UNCHANGED <<srvReq, muxOn>>
    /\ in_flight' = <<>> /\ outbound' = <<>> /\ acks' = <<>> /\ msgs' = <<>>
    /\ srv' = {} /\ srvAuto' = {} /\ srvDenied' = FALSE
    /\ muxMap' = {}

\* What the connection carried is gone, and with the multiplexed map the
\* senders in it.  commands, subscriptions and shutdown_recv are recycled.
LoseConnection ==
    /\ in_flight' = <<>>
    /\ outbound' = <<>>
    /\ acks' = <<>>
    /\ msgs' = <<>>
    /\ srv' = {}
    /\ srvAuto' = {}
    /\ srvDenied' = FALSE
    /\ muxOn' = FALSE
    /\ muxMap' = {}
    /\ UNCHANGED srvReq

Cancel(S) == req' = [r \in Requests |->
                       IF r \in S /\ req[r] = "wait" THEN "cancelled" ELSE req[r]]

\* ServerError, Disconnected or UnexpectedState (a failed read or write, a
\* fatal -ERR, too many pings in flight), then recycle.
Disconnect ==
    /\ Reconnects
    /\ pc \in {"idle", "read", "cmd"}
    /\ LoseConnection
    /\ Cancel(muxMap)
    /\ pc' = "down"
    /\ shutting_down' = FALSE
    /\ UNCHANGED <<subscriptions, channel, flag, shutdownReq, handle, chan,
                    todo, loadedFlag>>

\* The task ends: every channel it owns closes and what is in them is dropped.
Terminate ==
    /\ LoseConnection
    /\ Cancel(Requests)
    /\ pc' = "closed"
    /\ commands' = <<>>
    /\ cmdOpen' = FALSE
    /\ shutdownReq' = FALSE
    /\ shutting_down' = FALSE
    /\ live' = {}
    /\ failedSub' = {}
    /\ remaining' = [id \in SubIds |-> 0]
    /\ UNCHANGED <<flag, handle, chan, todo, loadedFlag>>

\* HandlerOutput::Closed.  When exactly poll returns it is WritePath's subject.
Finish ==
    /\ pc = "cmd"
    /\ shutting_down
    /\ Terminate

\* fuse_shutdown, while sleeping or while connecting.
ShutdownWhileDown ==
    /\ pc = "down"
    /\ shutdownReq
    /\ Terminate

\* The last Client goes, its Subscriptions included: the task is aborted.
Abort ==
    /\ pc \in {"connected", "idle", "down"}
    /\ \A id \in SubIds : handle[id] \notin {"open", "unsub"}
    /\ \A r \in Requests : req[r] \notin {"wait", "answered", "cancelled"}
    /\ Closes
    /\ Terminate

\* Handler::connect has a connection and RawQuickInfo::store reads the bits ...
ConnectLoad ==
    /\ pc = "down"
    /\ loadedFlag' = flag
    /\ pc' = "load"
    /\ UNCHANGED <<app, conn, tables, todo, shutting_down>>

\* ... and writes them back.
ConnectStore ==
    /\ pc = "load"
    /\ flag' = loadedFlag
    /\ loadedFlag' = FALSE
    /\ todo' = live
    /\ pc' = "resub"
    /\ UNCHANGED <<conn, tables, client, channel, shutdownReq, shutting_down>>

\* The loop that subscribes again.
Resubscribe(id) ==
    /\ pc = "resub"
    /\ IsLeast(id)
    /\ todo' = todo \ {id}
    /\ IF remaining[id] = 0
         THEN Send(Op("SUB", id, 0))
         ELSE SendTwo(Op("SUB", id, 0), Op("UNSUB", id, remaining[id]))
    /\ UNCHANGED <<app, tables, server, pc, loadedFlag, shutting_down>>

ConnectDone ==
    /\ pc = "resub"
    /\ todo = {}
    /\ pc' = "connected"
    /\ UNCHANGED <<app, conn, tables, resume>>

-----------------------------------------------------------------------------
(***************************************************************************)
(* The NATS server (external): it handles the ops in order and answers     *)
(* each one of them, delivers while it has a subscription and stops by     *)
(* itself at some point after an UNSUB with a count.                       *)
(***************************************************************************)
Reply(ok) ==
    /\ Len(acks) < MaxAcks
    /\ outbound # <<>>
    /\ acks' = Append(acks, [cmd |-> Head(outbound), ok |-> ok])
    /\ outbound' = Tail(outbound)

ServerSub ==
    /\ Reply(TRUE)
    /\ Head(outbound).op = "SUB"
    /\ srv' = srv \cup {Head(outbound).id}
    /\ srvAuto' = srvAuto \ {Head(outbound).id}
    /\ UNCHANGED <<peers, msgs, srvReq, srvDenied>>

\* Permissions violations, and invalid subjects.
ServerRefuse ==
    /\ Reply(FALSE)
    /\ Head(outbound).op \in {"SUB", "PUB"}
    /\ srvDenied' = (srvDenied \/ Head(outbound) = InboxSub)
    /\ UNCHANGED <<peers, msgs, srv, srvAuto, srvReq>>

ServerUnsub ==
    /\ Reply(TRUE)
    /\ Head(outbound).op = "UNSUB"
    /\ LET id == Head(outbound).id
       IN  \/ /\ srv' = srv \ {id}
              /\ srvAuto' = srvAuto \ {id}
           \/ /\ Head(outbound).max > 0
              /\ id \in srv
              /\ srvAuto' = srvAuto \cup {id}
              /\ UNCHANGED srv
    /\ UNCHANGED <<peers, msgs, srvReq, srvDenied>>

ServerPub ==
    /\ Reply(TRUE)
    /\ Head(outbound).op = "PUB"
    /\ srvReq' = srvReq \cup ({Head(outbound).id} \ {None})
    /\ UNCHANGED <<peers, msgs, srv, srvAuto, srvDenied>>

ServerDeliver(id) ==
    /\ id \in srv
    /\ Len(msgs) < MaxMsgs
    /\ msgs' = Append(msgs, id)
    /\ \/ UNCHANGED <<srv, srvAuto>>
       \/ /\ id \in srvAuto
          /\ srv' = srv \ {id}
          /\ srvAuto' = srvAuto \ {id}
    /\ UNCHANGED <<peers, outbound, acks, srvReq, srvDenied>>

\* Any number of answers, late ones included.
ServerAnswer(r) ==
    /\ r \in srvReq
    /\ MUX \in srv
    /\ Len(msgs) < MaxMsgs
    /\ msgs' = Append(msgs, r)
    /\ UNCHANGED <<peers, outbound, acks, srv, srvAuto, srvReq, srvDenied>>

-----------------------------------------------------------------------------
ClientNext ==
    \/ \E id \in SubIds :
         \/ Subscribe(id) \/ CloseSubscription(id) \/ NoticeUnsubscribed(id)
         \/ DropUnsubscribed(id) \/ DropOpen(id) \/ DropReceiver(id)
         \/ Receive(id)
         \/ \E max \in Counts : CloseAfter(id, max)
    \/ \E r \in Requests :
         Request(r) \/ TakeReply(r) \/ DropRequest(r) \/ DropReplyReceiver(r)
    \/ Publish
    \/ CloseClient

ReceiveCommand ==
    \/ ReceivePublish \/ ReceiveRequest \/ ReceiveUnsubscribeMultiplexed
    \/ ReceiveSubscribe \/ ReceiveUnsubscribe

PollStep ==
    \/ BeginPoll \/ SweepMux \/ (\E id \in SubIds : SweepSubscription(id))
    \/ SweepDone \/ CheckShutdown \/ ReadDone \/ CommandsDrained \/ EndPoll

ReadNext == ReadReply \/ ReadMessage \/ ReadSuccess \/ ReadError

ConnectNext ==
    \/ ConnectLoad \/ ConnectStore \/ (\E id \in SubIds : Resubscribe(id))
    \/ ConnectDone \/ ShutdownWhileDown

ServerProcess == ServerSub \/ ServerRefuse \/ ServerUnsub \/ ServerPub

ServerNext ==
    \/ ServerProcess
    \/ \E id \in SubIds : ServerDeliver(id)
    \/ \E r \in Requests : ServerAnswer(r)

Next ==
    \/ ClientNext
    \/ PollStep \/ ReadNext \/ ReceiveCommand \/ Finish
    \/ Disconnect \/ ConnectNext \/ Abort
    \/ ServerNext

Spec == Init /\ [][Next]_vars

-----------------------------------------------------------------------------
(***************************************************************************)
(* Properties.                                                             *)
(***************************************************************************)
SwitchTypeOK ==
    /\ flag \in BOOLEAN
    /\ cmdOpen \in BOOLEAN
    /\ shutdownReq \in BOOLEAN
    /\ loadedFlag \in BOOLEAN
    /\ shutting_down \in BOOLEAN
    /\ muxOn \in BOOLEAN
    /\ pc \in {"connected", "idle", "sweepMux", "sweep", "shutdown", "read",
               "cmd", "down", "load", "resub", "closed"}
TableTypeOK ==
    /\ todo \subseteq SubIds
    /\ live \subseteq SubIds
    /\ remaining \in [SubIds -> Nat]
    /\ failedSub \subseteq SubIds
    /\ muxMap \subseteq Requests
ConnTypeOK ==
    /\ commands \in Seq(Command)
    /\ in_flight \in Seq(SubIds \cup {MUX, None})
    /\ outbound \in Seq(ClientOp)
    /\ acks \in Seq([cmd : ClientOp, ok : BOOLEAN])
    /\ msgs \in Seq(SubIds \cup Requests)
ServerTypeOK ==
    /\ srv \subseteq SubIds \cup {MUX}
    /\ srvAuto \subseteq SubIds \cup {MUX}
    /\ srvReq \subseteq Requests
    /\ srvDenied \in BOOLEAN
AppTypeOK ==
    /\ chan \in [SubIds -> Seq({"msg", "err"})]
    /\ handle \in [SubIds -> {"new", "open", "unsub", "dropping", "dropped",
                              "losing", "lost"}]
    /\ req \in [Requests -> {"new", "wait", "answered", "cancelled", "taken",
                             "dropping", "dropped", "losing", "lost"}]

\* Every variable has the type of the field it stands for; the countdown of a
\* subscription in particular (NonZero<u64>) never goes below zero.
TypeOK ==
    SwitchTypeOK /\ TableTypeOK /\ ConnTypeOK /\ ServerTypeOK /\ AppTypeOK

\* The tracked commands f against the replies a, read next, and the ops o
\* that the server answers after those.
Aligned(f, a, o) ==
    /\ Len(f) = Len(a) + Len(o)
    /\ \A i \in 1..Len(a) : f[i] = Tracked(a[i].cmd)
    /\ \A i \in 1..Len(o) : f[Len(a) + i] = Tracked(o[i])

\* in_flight_commands lines up with the commands whose reply is still to be
\* read, one for one and in order: the +OK or -ERR that handle_server_op pops
\* an entry for is the reply to that very command, whatever was lost, swept or
\* subscribed again in between.  In particular the pop never finds the queue
\* empty (HandlerOutput::UnexpectedState).
AckAlignment == Aligned(in_flight, acks, outbound)

\* A Subscription whose close or drop got its command into the channel is not
\* forgotten: as long as the handler has it, or is about to, the Unsubscribe
\* is in the channel too, behind the Subscribe.
DroppedIsQueued ==
    \A id \in SubIds :
        handle[id] \in {"unsub", "dropping", "dropped"} =>
            /\ id \in live => \E j \in 1..Len(commands) :
                                 commands[j] = Cmd("Unsubscribe", id, 0)
            /\ \A i \in 1..Len(commands) :
                 commands[i] = Cmd("Subscribe", id, 0) =>
                    \E j \in i + 1..Len(commands) :
                        commands[j] = Cmd("Unsubscribe", id, 0)

\* The server has seen the subscription to the inbox on this connection.
InboxSeen == MUX \in srv \/ srvDenied

\* On every connection a request is published behind the subscription to the
\* inbox its reply goes to (init_multiplexed_subscriptions), which the server
\* has seen already or will see first; and the handler takes the inbox for
\* subscribed exactly where that is so, whatever connections were lost before.
InboxBeforeRequests ==
    /\ \A i \in 1..Len(outbound) :
          outbound[i].op = "PUB" /\ outbound[i].id \in Requests =>
              InboxSeen \/ \E j \in 1..i - 1 : outbound[j] = InboxSub
    /\ muxOn <=> InboxSeen \/ \E j \in 1..Len(outbound) : outbound[j] = InboxSub
    /\ muxMap # {} => muxOn

\* The server will be left with a subscription to id that nothing ends.
KeptByServer(id) ==
    \/ \E i \in 1..Len(outbound) :
         /\ outbound[i].op = "SUB" /\ outbound[i].id = id
         /\ \A j \in i + 1..Len(outbound) : outbound[j].id # id
    \/ /\ id \in srv \ srvAuto
       /\ \A j \in 1..Len(outbound) : outbound[j].id # id

\* The server never keeps a subscription the handler has forgotten: such a
\* subscription would deliver, unread, until the connection ends.
NoServerLeak == \A id \in SubIds : KeptByServer(id) => id \in live

\* After the error of a refused subscription nothing more is delivered to it.
ErrorEndsStream ==
    \A id \in SubIds : \A i \in 1..Len(chan[id]) - 1 : chan[id][i] = "msg"

\* Every subscription that is dropped, its command enqueued, is forgotten by
\* the handler, and the same goes for requests.
DroppedIsForgotten ==
    /\ \A id \in SubIds : handle[id] = "dropped" ~> ~SenderAlive(id)
    /\ \A r \in Requests : req[r] = "dropped" ~> r \notin muxMap

\* The same of a Subscription that found the command channel full: the
\* IS_FAILED_UNSUBSCRIBE bit it sets makes the handler sweep it away.
LostIsForgotten == \A id \in SubIds : handle[id] = "lost" ~> ~SenderAlive(id)

\* The tasks are scheduled.  ReceiveCommand and the reading of replies need
\* strong fairness: a poll may run out of coop budget before it reaches them.
Fairness ==
    /\ WF_vars(PollStep)
    /\ WF_vars(ConnectNext)
    /\ WF_vars(ServerProcess)
    /\ SF_vars(ReadSuccess \/ ReadError)
    /\ SF_vars(ReceiveCommand)

FairSpec == Spec /\ Fairness
=============================================================================
