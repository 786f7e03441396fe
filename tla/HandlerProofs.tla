--------------------------- MODULE HandlerProofs ---------------------------
(***************************************************************************)
(* Proofs about Handler, for every set of ids, every capacity and with or  *)
(* without reconnections: its type invariant, that the queue of in-flight  *)
(* commands lines up with the replies of the server, and the order in      *)
(* which it sends and delivers.                                            *)
(***************************************************************************)
EXTENDS Handler, TLAPS

Tracks == SubIds \cup {MUX, None}

-----------------------------------------------------------------------------
(***************************************************************************)
(* What the helpers of the handler return and preserve.                    *)
(***************************************************************************)
\* The ops the handler builds are ClientOps.
LEMMA OpTypes ==
    /\ InboxSub \in ClientOp
    /\ Op("PUB", None, 0) \in ClientOp
    /\ \A id \in SubIds : Op("SUB", id, 0) \in ClientOp
    /\ \A id \in SubIds, max \in Nat : Op("UNSUB", id, max) \in ClientOp
    /\ \A r \in Requests : Op("PUB", r, 0) \in ClientOp
  BY DEF Op, ClientOp, InboxSub

\* An op is tracked by an id or as Unimportant.
LEMMA TrackedType == \A op \in ClientOp : Tracked(op) \in Tracks
  BY DEF Tracked, ClientOp, Tracks

\* Sending keeps the two queues it appends to well typed.
LEMMA SendTypes ==
    ASSUME ConnTypeOK, NEW op \in ClientOp, Send(op)
    PROVE  in_flight' \in Seq(Tracks) /\ outbound' \in Seq(ClientOp)
  <1>1. Tracked(op) \in Tracks
    BY TrackedType
  <1> QED
    BY <1>1 DEF ConnTypeOK, Send, Tracks

\* The same for two ops sent together.
LEMMA SendTwoTypes ==
    ASSUME ConnTypeOK, NEW op1 \in ClientOp, NEW op2 \in ClientOp,
           SendTwo(op1, op2)
    PROVE  in_flight' \in Seq(Tracks) /\ outbound' \in Seq(ClientOp)
  <1>1. Tracked(op1) \in Tracks /\ Tracked(op2) \in Tracks
    BY TrackedType
  <1> QED
    BY <1>1 DEF ConnTypeOK, SendTwo, Tracks

\* The channel holds commands, and its head is what the arm of the match
\* that takes it expects.
LEMMA PushTypes ==
    ASSUME ConnTypeOK, NEW cmd \in Command, Push(cmd)
    PROVE  commands' \in Seq(Command)
  BY DEF ConnTypeOK, Push

\* The commands the application builds are Commands.
LEMMA CmdTypes ==
    /\ Cmd("Publish", None, 0) \in Command
    /\ \A id \in SubIds : Cmd("Subscribe", id, 0) \in Command
    /\ \A id \in SubIds, max \in Nat : Cmd("Unsubscribe", id, max) \in Command
    /\ \A r \in Requests : /\ Cmd("RequestMultiplexed", r, 0) \in Command
                           /\ Cmd("UnsubscribeMultiplexed", r, 0) \in Command
  BY DEF Cmd, Command

\* Receiving a command leaves the channel well typed.
LEMMA PopTypes ==
    ASSUME ConnTypeOK, NEW op, Pop(op)
    PROVE  /\ commands' \in Seq(Command)
           /\ Head(commands) \in Command
           /\ Head(commands).op = op
  BY DEF ConnTypeOK, Pop

\* What a command carries, by its kind.
LEMMA CommandFields ==
    ASSUME NEW cmd \in Command
    PROVE  /\ cmd.op \in {"Subscribe", "Unsubscribe"} =>
                cmd.id \in SubIds /\ cmd.max \in Nat
           /\ cmd.op \in {"RequestMultiplexed", "UnsubscribeMultiplexed"} =>
                cmd.id \in Requests
  BY DEF Command

\* What an op carries, by its kind.
LEMMA ClientOpFields ==
    ASSUME NEW op \in ClientOp
    PROVE  /\ op.op = "SUB" => op.id \in SubIds \cup {MUX}
           /\ op.op = "UNSUB" => op.id \in SubIds
           /\ op.op = "PUB" => op.id \in Requests \cup {None}
  BY DEF ClientOp

\* The server touches nothing of the client's.
LEMMA ServerFrame == ServerNext => UNCHANGED peers
  BY DEF ServerNext, ServerProcess, ServerSub, ServerRefuse, ServerUnsub,
         ServerPub, ServerDeliver, ServerAnswer

\* subscriptions.remove keeps the tables well typed.
LEMMA RemoveTypes ==
    ASSUME TableTypeOK, NEW id \in SubIds, Remove(id)
    PROVE  /\ live' \subseteq SubIds
           /\ failedSub' \subseteq SubIds
           /\ remaining' \in [SubIds -> Nat]
  BY DEF TableTypeOK, Remove

\* Sending to a subscription's channel keeps the channels well typed.
LEMMA AppendChan ==
    ASSUME AppTypeOK, NEW id \in SubIds, NEW item \in {"msg", "err"}
    PROVE  [chan EXCEPT ![id] = Append(@, item)] \in [SubIds -> Seq({"msg", "err"})]
  <1>1. Append(chan[id], item) \in Seq({"msg", "err"})
    BY DEF AppTypeOK
  <1> QED
    BY <1>1 DEF AppTypeOK


-----------------------------------------------------------------------------
(***************************************************************************)
(* Type correctness, one lemma per part of TypeOK.                         *)
(***************************************************************************)
\* Every step keeps the switches and the stage of the poll well typed.
LEMMA SwitchStep == TypeOK /\ Next => SwitchTypeOK'
<1> SUFFICES ASSUME TypeOK, Next PROVE SwitchTypeOK'
  OBVIOUS
<1> USE DEF TypeOK, SwitchTypeOK, client, channel, subscriptions, mux, server, resume,
            control, app, tables, conn, handlerState, peers
<1>1. ASSUME NEW id \in SubIds, DropOpen(id) PROVE SwitchTypeOK'
  BY <1>1 DEF DropOpen, Push
<1>2. ASSUME NEW r \in Requests, DropRequest(r) PROVE SwitchTypeOK'
  BY <1>2 DEF DropRequest, Push
<1>3. CASE CloseClient
  BY <1>3 DEF CloseClient
<1>4. CASE ClientNext
  BY <1>1, <1>2, <1>3, <1>4
     DEF ClientNext, Subscribe, CloseSubscription, NoticeUnsubscribed,
         DropUnsubscribed, DropReceiver, Receive, CloseAfter, Request,
         TakeReply, DropReplyReceiver, Publish, Push
<1>5. CASE PollStep
  BY <1>5 DEF PollStep, BeginPoll, SweepMux, SweepSubscription, SweepDone,
              CheckShutdown, ReadDone, CommandsDrained, EndPoll
<1>6. CASE ReadNext
  BY <1>6 DEF ReadNext, ReadReply, ReadMessage, ReadSuccess, ReadError,
              SubscribeRefused
<1>7. CASE ReceiveCommand
  BY <1>7 DEF ReceiveCommand, ReceivePublish, ReceiveRequest, Pop,
              ReceiveUnsubscribeMultiplexed, ReceiveSubscribe,
              ReceiveUnsubscribe
<1>8. ASSUME Terminate \/ Disconnect PROVE SwitchTypeOK'
  BY <1>8 DEF Terminate, Disconnect, LoseConnection
<1>9. CASE ConnectNext
  BY <1>8, <1>9 DEF ConnectNext, ConnectLoad, ConnectStore, Resubscribe,
                    ConnectDone, ShutdownWhileDown
<1>10. CASE ServerNext
  BY <1>10, ServerFrame
<1> QED
  BY <1>4, <1>5, <1>6, <1>7, <1>8, <1>9, <1>10 DEF Next, Finish, Abort

\* Every step keeps the handler's maps well typed; the countdown of ReadMessage
\* is the step that matters.
LEMMA TableStep == TypeOK /\ Next => TableTypeOK'
<1> SUFFICES ASSUME TypeOK, Next PROVE TableTypeOK'
  OBVIOUS
<1> USE DEF TypeOK, TableTypeOK, client, channel, subscriptions, mux, server, resume,
            control, app, tables, conn, handlerState, peers
<1>1. CASE ClientNext
  BY <1>1 DEF ClientNext, Subscribe, CloseSubscription, NoticeUnsubscribed,
              DropUnsubscribed, DropOpen, DropReceiver, Receive, CloseAfter,
              Request, TakeReply, DropRequest, DropReplyReceiver, Publish,
              CloseClient
<1>2. ASSUME NEW id \in SubIds, SweepSubscription(id) PROVE TableTypeOK'
  BY <1>2, RemoveTypes DEF SweepSubscription
<1>3. CASE PollStep
  BY <1>2, <1>3 DEF PollStep, BeginPoll, SweepMux, SweepDone, CheckShutdown,
                    ReadDone, CommandsDrained, EndPoll
<1>4. CASE ReadMessage
  <2>1. ASSUME NEW id \in SubIds, CountDown(id)
        PROVE  /\ live' \subseteq SubIds
               /\ failedSub' \subseteq SubIds
               /\ remaining' \in [SubIds -> Nat]
    <3>1. CASE remaining[id] = 1
      BY <2>1, <3>1, RemoveTypes DEF CountDown
    <3>2. CASE remaining[id] # 1
      <4>1. (IF remaining[id] = 0 THEN 0 ELSE remaining[id] - 1) \in Nat
        OBVIOUS
      <4> QED
        BY <2>1, <3>2, <4>1 DEF CountDown
    <3> QED
      BY <3>1, <3>2
  <2> QED
    BY <1>4, <2>1 DEF ReadMessage
<1>5. CASE ReadError
  <2>1. ASSUME NEW id \in SubIds, SubscribeRefused(id)
        PROVE  /\ live' \subseteq SubIds
               /\ failedSub' \subseteq SubIds
               /\ remaining' \in [SubIds -> Nat]
    BY <2>1, RemoveTypes DEF SubscribeRefused
  <2> QED
    BY <1>5, <2>1 DEF ReadError
<1>6. CASE ReadReply \/ ReadSuccess
  BY <1>6 DEF ReadReply, ReadSuccess
<1>7. CASE ReceiveSubscribe
  <2>1. Head(commands).id \in SubIds
    BY <1>7, PopTypes, CommandFields DEF ReceiveSubscribe
  <2> QED
    BY <1>7, <2>1 DEF ReceiveSubscribe
<1>8. CASE ReceiveUnsubscribe
  <2>1. Head(commands).id \in SubIds /\ Head(commands).max \in Nat
    BY <1>8, PopTypes, CommandFields DEF ReceiveUnsubscribe
  <2> QED
    BY <1>8, <2>1, RemoveTypes DEF ReceiveUnsubscribe
<1>9. CASE ReceiveRequest
  <2>1. Head(commands).id \in Requests
    BY <1>9, PopTypes, CommandFields DEF ReceiveRequest
  <2> QED
    BY <1>9, <2>1 DEF ReceiveRequest
<1>10. CASE ReceivePublish \/ ReceiveUnsubscribeMultiplexed
  BY <1>10 DEF ReceivePublish, ReceiveUnsubscribeMultiplexed
<1>11. CASE Terminate
  BY <1>11 DEF Terminate, LoseConnection
<1>12. CASE Disconnect
  BY <1>12 DEF Disconnect, LoseConnection
<1>13. ASSUME NEW id \in SubIds, Resubscribe(id) PROVE TableTypeOK'
  BY <1>13 DEF Resubscribe
<1>14. CASE ConnectLoad \/ ConnectStore \/ ConnectDone
  BY <1>14 DEF ConnectLoad, ConnectStore, ConnectDone
<1>15. CASE ServerNext
  BY <1>15, ServerFrame
<1> QED
  BY <1>1, <1>3, <1>4, <1>5, <1>6, <1>7, <1>8, <1>9, <1>10, <1>11, <1>12,
     <1>13, <1>14, <1>15
     DEF Next, ReadNext, ReceiveCommand, ConnectNext, Finish, Abort,
         ShutdownWhileDown


\* Every step keeps the queues well typed.
LEMMA ConnStep == TypeOK /\ Next => ConnTypeOK'
<1> SUFFICES ASSUME TypeOK, Next PROVE ConnTypeOK'
  OBVIOUS
<1> USE DEF TypeOK, ConnTypeOK, client, channel, subscriptions, mux, server, resume,
            control, app, tables, conn, handlerState, peers
<1>1. ASSUME NEW cmd \in Command, Push(cmd), UNCHANGED conn
      PROVE  ConnTypeOK'
  BY <1>1, PushTypes
<1>2. CASE ClientNext
  <2>1. ASSUME NEW id \in SubIds,
               Subscribe(id) \/ CloseSubscription(id) \/ DropOpen(id)
        PROVE  ConnTypeOK'
    BY <1>1, <2>1, CmdTypes DEF Subscribe, CloseSubscription, DropOpen
  <2>2. ASSUME NEW id \in SubIds, NEW max \in Counts, CloseAfter(id, max)
        PROVE  ConnTypeOK'
    BY <1>1, <2>2, CmdTypes, IdAssumption DEF CloseAfter
  <2>3. ASSUME NEW r \in Requests, Request(r) \/ DropRequest(r)
        PROVE  ConnTypeOK'
    BY <1>1, <2>3, CmdTypes DEF Request, DropRequest
  <2>4. CASE Publish
    BY <1>1, <2>4, CmdTypes DEF Publish
  <2> QED
    BY <1>2, <2>1, <2>2, <2>3, <2>4
       DEF ClientNext, NoticeUnsubscribed, DropUnsubscribed, DropReceiver,
           Receive, TakeReply, DropReplyReceiver, CloseClient
<1>3. ASSUME NEW id \in SubIds, SweepSubscription(id) PROVE ConnTypeOK'
  BY <1>3, OpTypes, SendTypes DEF SweepSubscription, Tracks
<1>4. CASE PollStep
  BY <1>3, <1>4 DEF PollStep, BeginPoll, SweepMux, SweepDone, CheckShutdown,
                    ReadDone, CommandsDrained, EndPoll
<1>5. CASE ReadMessage
  <2>1. msgs' \in Seq(SubIds \cup Requests)
    BY <1>5 DEF ReadMessage
  <2>2. in_flight' \in Seq(Tracks) /\ outbound' \in Seq(ClientOp)
    BY <1>5, OpTypes, SendTypes DEF ReadMessage, Tracks
  <2> QED
    BY <1>5, <2>1, <2>2 DEF ReadMessage, Tracks
<1>6. CASE ReadNext
  <2>1. CASE ReadReply
    BY <2>1 DEF ReadReply
  <2>2. CASE ReadSuccess
    BY <2>2 DEF ReadSuccess
  <2>3. CASE ReadError
    BY <2>3 DEF ReadError
  <2> QED
    BY <1>5, <1>6, <2>1, <2>2, <2>3 DEF ReadNext
<1>7. CASE ReceivePublish
  <2>1. in_flight' \in Seq(Tracks) /\ outbound' \in Seq(ClientOp)
    BY <1>7, OpTypes, SendTypes DEF ReceivePublish
  <2> QED
    BY <1>7, <2>1, PopTypes DEF ReceivePublish, Tracks
<1>8. CASE ReceiveRequest
  <2>1. Head(commands).id \in Requests
    BY <1>8, PopTypes, CommandFields DEF ReceiveRequest
  <2>2. in_flight' \in Seq(Tracks) /\ outbound' \in Seq(ClientOp)
    BY <1>8, <2>1, OpTypes, SendTypes, SendTwoTypes DEF ReceiveRequest
  <2> QED
    BY <1>8, <2>2, PopTypes DEF ReceiveRequest, Tracks
<1>9. CASE ReceiveUnsubscribeMultiplexed
  BY <1>9, PopTypes DEF ReceiveUnsubscribeMultiplexed
<1>10. CASE ReceiveSubscribe
  <2>1. Head(commands).id \in SubIds
    BY <1>10, PopTypes, CommandFields DEF ReceiveSubscribe
  <2>2. in_flight' \in Seq(Tracks) /\ outbound' \in Seq(ClientOp)
    BY <1>10, <2>1, OpTypes, SendTypes DEF ReceiveSubscribe
  <2> QED
    BY <1>10, <2>2, PopTypes DEF ReceiveSubscribe, Tracks
<1>11. CASE ReceiveUnsubscribe
  <2>1. Head(commands).id \in SubIds /\ Head(commands).max \in Nat
    BY <1>11, PopTypes, CommandFields DEF ReceiveUnsubscribe
  <2>2. in_flight' \in Seq(Tracks) /\ outbound' \in Seq(ClientOp)
    BY <1>11, <2>1, OpTypes, SendTypes DEF ReceiveUnsubscribe, Tracks
  <2> QED
    BY <1>11, <2>2, PopTypes DEF ReceiveUnsubscribe, Tracks
<1>12. CASE Terminate
  BY <1>12 DEF Terminate, LoseConnection
<1>13. CASE Disconnect
  BY <1>13 DEF Disconnect, LoseConnection
<1>14. ASSUME NEW id \in SubIds, Resubscribe(id) PROVE ConnTypeOK'
  <2>1. remaining[id] \in Nat
    BY DEF TableTypeOK
  <2>2. in_flight' \in Seq(Tracks) /\ outbound' \in Seq(ClientOp)
    BY <1>14, <2>1, OpTypes, SendTypes, SendTwoTypes DEF Resubscribe
  <2> QED
    BY <1>14, <2>2 DEF Resubscribe, Tracks
<1>15. CASE ConnectLoad \/ ConnectStore \/ ConnectDone
  BY <1>15 DEF ConnectLoad, ConnectStore, ConnectDone
<1>16. ASSUME NEW ok \in BOOLEAN, Reply(ok), UNCHANGED <<peers, msgs>>
       PROVE  ConnTypeOK'
  <2>1. Head(outbound) \in ClientOp /\ Tail(outbound) \in Seq(ClientOp)
    BY <1>16 DEF Reply
  <2> QED
    BY <1>16, <2>1 DEF Reply
<1>17. CASE ServerProcess
  BY <1>16, <1>17 DEF ServerProcess, ServerSub, ServerRefuse, ServerUnsub,
                      ServerPub
<1>18. ASSUME NEW id \in SubIds, ServerDeliver(id) PROVE ConnTypeOK'
  BY <1>18 DEF ServerDeliver
<1>19. ASSUME NEW r \in Requests, ServerAnswer(r) PROVE ConnTypeOK'
  BY <1>19 DEF ServerAnswer
<1> QED
  BY <1>2, <1>4, <1>6, <1>7, <1>8, <1>9, <1>10, <1>11, <1>12, <1>13, <1>14,
     <1>15, <1>17, <1>18, <1>19
     DEF Next, ServerNext, ReceiveCommand, ConnectNext, Finish, Abort,
         ShutdownWhileDown


\* Every step keeps the server's state well typed.
LEMMA ServerStep == TypeOK /\ Next => ServerTypeOK'
<1> SUFFICES ASSUME TypeOK, Next PROVE ServerTypeOK'
  OBVIOUS
<1> USE DEF TypeOK, ServerTypeOK, client, channel, subscriptions, mux, server, resume,
            control, app, tables, conn, handlerState, peers
<1>1. CASE ClientNext
  BY <1>1 DEF ClientNext, Subscribe, CloseSubscription, NoticeUnsubscribed,
              DropUnsubscribed, DropOpen, DropReceiver, Receive, CloseAfter,
              Request, TakeReply, DropRequest, DropReplyReceiver, Publish,
              CloseClient
<1>2. CASE PollStep
  BY <1>2 DEF PollStep, BeginPoll, SweepMux, SweepSubscription, SweepDone,
              CheckShutdown, ReadDone, CommandsDrained, EndPoll
<1>3. CASE ReadNext
  BY <1>3 DEF ReadNext, ReadReply, ReadMessage, ReadSuccess, ReadError
<1>4. CASE ReceiveCommand
  BY <1>4 DEF ReceiveCommand, ReceivePublish, ReceiveRequest,
              ReceiveUnsubscribeMultiplexed, ReceiveSubscribe,
              ReceiveUnsubscribe
<1>5. ASSUME Terminate \/ Disconnect PROVE ServerTypeOK'
  BY <1>5 DEF Terminate, Disconnect, LoseConnection
<1>6. CASE ConnectLoad \/ ConnectStore \/ ConnectDone
  BY <1>6 DEF ConnectLoad, ConnectStore, ConnectDone
<1>7. ASSUME NEW id \in SubIds, Resubscribe(id) PROVE ServerTypeOK'
  BY <1>7 DEF Resubscribe
<1>8. ASSUME outbound # <<>>
      PROVE  /\ Head(outbound).op = "SUB" =>
                  Head(outbound).id \in SubIds \cup {MUX}
             /\ Head(outbound).op = "PUB" =>
                  Head(outbound).id \in Requests \cup {None}
  BY <1>8, ClientOpFields DEF ConnTypeOK
<1>9. CASE ServerSub
  BY <1>8, <1>9 DEF ServerSub, Reply
<1>10. CASE ServerPub
  BY <1>8, <1>10 DEF ServerPub, Reply
<1>11. CASE ServerRefuse \/ ServerUnsub
  BY <1>11 DEF ServerRefuse, ServerUnsub
<1>12. ASSUME NEW id \in SubIds, ServerDeliver(id) PROVE ServerTypeOK'
  BY <1>12 DEF ServerDeliver
<1>13. ASSUME NEW r \in Requests, ServerAnswer(r) PROVE ServerTypeOK'
  BY <1>13 DEF ServerAnswer
<1> QED
  BY <1>1, <1>2, <1>3, <1>4, <1>5, <1>6, <1>7, <1>9, <1>10, <1>11, <1>12,
     <1>13
     DEF Next, ServerNext, ServerProcess, ConnectNext, Finish, Abort,
         ShutdownWhileDown

\* Every step keeps the application's handles and channels well typed.
LEMMA AppStep == TypeOK /\ Next => AppTypeOK'
<1> SUFFICES ASSUME TypeOK, Next PROVE AppTypeOK'
  OBVIOUS
<1> USE DEF TypeOK, AppTypeOK, client, channel, subscriptions, mux, server, resume,
            control, app, tables, conn, handlerState, peers
<1>1. CASE ClientNext
  <2>1. ASSUME NEW id \in SubIds, DropUnsubscribed(id) \/ DropReceiver(id)
        PROVE  AppTypeOK'
    <3>1. CASE DropUnsubscribed(id)
      BY <3>1 DEF DropUnsubscribed
    <3>2. CASE DropReceiver(id)
      BY <3>2 DEF DropReceiver
    <3> QED
      BY <2>1, <3>1, <3>2
  <2>2. ASSUME NEW id \in SubIds, Receive(id) PROVE AppTypeOK'
    <3>1. Tail(chan[id]) \in Seq({"msg", "err"})
      BY <2>2 DEF Receive
    <3> QED
      BY <2>2, <3>1 DEF Receive
  <2>3. ASSUME NEW id \in SubIds,
               \/ Subscribe(id) \/ CloseSubscription(id)
               \/ NoticeUnsubscribed(id) \/ DropOpen(id)
        PROVE  AppTypeOK'
    BY <2>3 DEF Subscribe, CloseSubscription, NoticeUnsubscribed, DropOpen
  <2>4. ASSUME NEW r \in Requests,
               \/ Request(r) \/ TakeReply(r) \/ DropRequest(r)
               \/ DropReplyReceiver(r)
        PROVE  AppTypeOK'
    BY <2>4 DEF Request, TakeReply, DropRequest, DropReplyReceiver
  <2> QED
    BY <1>1, <2>1, <2>2, <2>3, <2>4
       DEF ClientNext, CloseAfter, Publish, CloseClient
<1>2. CASE PollStep
  BY <1>2 DEF PollStep, BeginPoll, SweepMux, SweepSubscription, SweepDone,
              CheckShutdown, ReadDone, CommandsDrained, EndPoll
<1>3. CASE ReadReply
  BY <1>3 DEF ReadReply
<1>4. CASE ReadMessage
  <2>1. Head(msgs) \in SubIds
    BY <1>4 DEF ReadMessage
  <2>2. chan' \in [SubIds -> Seq({"msg", "err"})]
    <3>1. CASE UNCHANGED chan
      BY <3>1
    <3>2. CASE chan' = [chan EXCEPT ![Head(msgs)] =
                          IF Len(@) < SubCap THEN Append(@, "msg") ELSE @]
      BY <2>1, <3>2, AppendChan
    <3> QED
      BY <1>4, <3>1, <3>2 DEF ReadMessage
  <2> QED
    BY <1>4, <2>2 DEF ReadMessage
<1>5. CASE ReadSuccess
  BY <1>5 DEF ReadSuccess
<1>6. CASE ReadError
  <2>1. ASSUME NEW id \in SubIds, SubscribeRefused(id)
        PROVE  chan' \in [SubIds -> Seq({"msg", "err"})]
    BY <2>1, AppendChan DEF SubscribeRefused
  <2> QED
    BY <1>6, <2>1 DEF ReadError
<1>7. CASE ReceiveCommand
  BY <1>7 DEF ReceiveCommand, ReceivePublish, ReceiveRequest,
              ReceiveUnsubscribeMultiplexed, ReceiveSubscribe,
              ReceiveUnsubscribe
<1>8. ASSUME Terminate \/ Disconnect PROVE AppTypeOK'
  BY <1>8 DEF Terminate, Disconnect, Cancel
<1>9. CASE ConnectNext
  BY <1>8, <1>9 DEF ConnectNext, ConnectLoad, ConnectStore, Resubscribe,
                    ConnectDone, ShutdownWhileDown
<1>10. CASE ServerNext
  BY <1>10, ServerFrame
<1> QED
  BY <1>1, <1>2, <1>3, <1>4, <1>5, <1>6, <1>7, <1>8, <1>9, <1>10
     DEF Next, ReadNext, Finish, Abort

\* Type correctness of Handler: in particular a countdown never goes below
\* zero, and an id that is received, swept or subscribed again was allocated.
THEOREM HandlerTypeOK == Spec => []TypeOK
<1>1. Init => TypeOK
  <2>1. Init => SwitchTypeOK
    BY DEF Init, SwitchTypeOK
  <2>2. Init => TableTypeOK
    BY DEF Init, TableTypeOK
  <2>3. Init => ConnTypeOK
    BY DEF Init, ConnTypeOK
  <2>4. Init => ServerTypeOK
    BY DEF Init, ServerTypeOK
  <2>5. Init => AppTypeOK
    BY DEF Init, AppTypeOK
  <2> QED
    BY <2>1, <2>2, <2>3, <2>4, <2>5 DEF TypeOK
<1>2. TypeOK /\ [Next]_vars => TypeOK'
  <2>1. TypeOK /\ Next => TypeOK'
    BY SwitchStep, TableStep, ConnStep, ServerStep, AppStep DEF TypeOK
  <2>2. TypeOK /\ UNCHANGED vars => TypeOK'
    BY DEF vars, TypeOK, SwitchTypeOK, TableTypeOK, ConnTypeOK, ServerTypeOK,
           AppTypeOK
  <2> QED
    BY <2>1, <2>2
<1> QED
  BY <1>1, <1>2, PTL DEF Spec


-----------------------------------------------------------------------------
(***************************************************************************)
(* The alignment of in_flight_commands with the replies.  With the types,  *)
(* AckAlignment is inductive: every action that appends to outbound        *)
(* appends the matching entry, the server moves the head of outbound to    *)
(* the end of acks, a reply that is read pops both, and a lost connection  *)
(* empties all three.                                                      *)
(***************************************************************************)
\* A command that is sent and tracked keeps the queues aligned.
LEMMA AppendAligned ==
    ASSUME NEW f \in Seq(Tracks), NEW a \in Seq([cmd : ClientOp, ok : BOOLEAN]),
           NEW o \in Seq(ClientOp), NEW op \in ClientOp, Aligned(f, a, o)
    PROVE  Aligned(Append(f, Tracked(op)), a, Append(o, op))
<1> DEFINE g == Append(f, Tracked(op))
           p == Append(o, op)
<1>1. Tracked(op) \in Tracks
  BY TrackedType
<1>2. Len(g) = Len(f) + 1 /\ Len(p) = Len(o) + 1
  BY <1>1
<1>3. Len(f) \in Nat /\ Len(a) \in Nat /\ Len(o) \in Nat
  OBVIOUS
<1>4. \A i \in 1..Len(f) : g[i] = f[i]
  BY <1>1
<1>5. \A i \in 1..Len(o) : p[i] = o[i]
  OBVIOUS
<1>6. g[Len(f) + 1] = Tracked(op) /\ p[Len(o) + 1] = op
  BY <1>1
<1> HIDE DEF g, p
<1>7. Len(f) = Len(a) + Len(o)
  BY DEF Aligned
<1>8. \A i \in 1..Len(a) : g[i] = Tracked(a[i].cmd)
  BY <1>3, <1>4, <1>7 DEF Aligned
<1>9. ASSUME NEW i \in 1..Len(p) PROVE g[Len(a) + i] = Tracked(p[i])
  <2>1. CASE i \in 1..Len(o)
    BY <1>3, <1>4, <1>5, <1>7, <2>1 DEF Aligned
  <2>2. CASE i = Len(o) + 1
    BY <1>3, <1>6, <1>7, <2>2
  <2> QED
    BY <1>2, <1>3, <2>1, <2>2
<1>10. Aligned(g, a, p)
  BY <1>2, <1>3, <1>7, <1>8, <1>9 DEF Aligned
<1> QED
  BY <1>10 DEF g, p

\* A reply that is read together with its entry keeps them aligned.
LEMMA TailAligned ==
    ASSUME NEW f \in Seq(Tracks), NEW a \in Seq([cmd : ClientOp, ok : BOOLEAN]),
           NEW o \in Seq(ClientOp), a # <<>>, Aligned(f, a, o)
    PROVE  Aligned(Tail(f), Tail(a), o)
<1> DEFINE g == Tail(f)
           b == Tail(a)
<1>1. /\ Len(f) \in Nat /\ Len(a) \in Nat /\ Len(o) \in Nat
      /\ Len(a) > 0 /\ Len(f) = Len(a) + Len(o)
  BY DEF Aligned
<1>2. f # <<>>
  BY <1>1
<1>3. Len(g) = Len(f) - 1 /\ Len(b) = Len(a) - 1
  BY <1>2
<1>4. \A i \in 1..Len(g) : g[i] = f[i + 1]
  BY <1>2
<1>5. \A i \in 1..Len(b) : b[i] = a[i + 1]
  OBVIOUS
<1> HIDE DEF g, b
<1>6. ASSUME NEW i \in 1..Len(b) PROVE g[i] = Tracked(b[i].cmd)
  <2>1. i \in 1..Len(g) /\ i + 1 \in 1..Len(a)
    BY <1>1, <1>3
  <2>2. f[i + 1] = Tracked(a[i + 1].cmd)
    BY <2>1 DEF Aligned
  <2> QED
    BY <1>4, <1>5, <2>1, <2>2
<1>7. ASSUME NEW i \in 1..Len(o) PROVE g[Len(b) + i] = Tracked(o[i])
  <2>1. Len(b) + i \in 1..Len(g) /\ (Len(b) + i) + 1 = Len(a) + i
    BY <1>1, <1>3
  <2>2. f[Len(a) + i] = Tracked(o[i])
    BY DEF Aligned
  <2>3. g[Len(b) + i] = f[(Len(b) + i) + 1]
    BY <1>4, <2>1
  <2> QED
    BY <2>1, <2>2, <2>3
<1>8. Aligned(g, b, o)
  BY <1>1, <1>3, <1>6, <1>7 DEF Aligned
<1> QED
  BY <1>8 DEF g, b

\* The server turning an op into a reply keeps them aligned.
LEMMA MoveAligned ==
    ASSUME NEW f \in Seq(Tracks), NEW a \in Seq([cmd : ClientOp, ok : BOOLEAN]),
           NEW o \in Seq(ClientOp), NEW ok \in BOOLEAN, o # <<>>,
           Aligned(f, a, o)
    PROVE  Aligned(f, Append(a, [cmd |-> Head(o), ok |-> ok]), Tail(o))
<1> DEFINE b == Append(a, [cmd |-> Head(o), ok |-> ok])
           rest == Tail(o)
<1>1. /\ Head(o) = o[1] /\ Len(o) \in Nat \ {0} /\ Len(a) \in Nat
      /\ Len(rest) = Len(o) - 1
      /\ \A i \in 1..Len(rest) : rest[i] = o[i + 1]
  OBVIOUS
<1>2. /\ Len(b) = Len(a) + 1
      /\ \A i \in 1..Len(a) : b[i] = a[i]
      /\ b[Len(a) + 1].cmd = o[1]
  BY <1>1
<1> HIDE DEF b, rest
<1>3. Len(f) = Len(b) + Len(rest)
  BY <1>1, <1>2 DEF Aligned
<1>4. ASSUME NEW i \in 1..Len(b)
      PROVE  f[i] = Tracked(b[i].cmd)
  <2>1. CASE i \in 1..Len(a)
    <3>1. f[i] = Tracked(a[i].cmd)
      BY <2>1 DEF Aligned
    <3> QED
      BY <1>2, <2>1, <3>1
  <2>2. CASE i = Len(a) + 1
    <3>1. f[Len(a) + 1] = Tracked(o[1])
      BY <1>1 DEF Aligned
    <3> QED
      BY <1>2, <2>2, <3>1
  <2> QED
    BY <1>1, <1>2, <2>1, <2>2
<1>5. ASSUME NEW i \in 1..Len(rest)
      PROVE  f[Len(b) + i] = Tracked(rest[i])
  <2>1. i + 1 \in 1..Len(o) /\ Len(b) + i = Len(a) + (i + 1)
    BY <1>1, <1>2
  <2>2. f[Len(a) + (i + 1)] = Tracked(o[i + 1])
    BY <2>1 DEF Aligned
  <2> QED
    BY <1>1, <2>1, <2>2
<1>6. Aligned(f, b, rest)
  BY <1>3, <1>4, <1>5 DEF Aligned
<1> QED
  BY <1>6 DEF b, rest

\* Send keeps AckAlignment (enqueue_write_op with its push_back).
LEMMA SendAligned ==
    ASSUME ConnTypeOK, AckAlignment, NEW op \in ClientOp, Send(op),
           UNCHANGED acks
    PROVE  AckAlignment'
  BY AppendAligned DEF ConnTypeOK, AckAlignment, Send, Tracks

\* So does SendTwo (the inbox and the request, SUB and UNSUB of a resubscription).
LEMMA SendTwoAligned ==
    ASSUME ConnTypeOK, AckAlignment, NEW op1 \in ClientOp,
           NEW op2 \in ClientOp, SendTwo(op1, op2), UNCHANGED acks
    PROVE  AckAlignment'
<1>1. /\ Append(in_flight, Tracked(op1)) \in Seq(Tracks)
      /\ Append(outbound, op1) \in Seq(ClientOp)
  BY TrackedType DEF ConnTypeOK, Tracks
<1>2. Aligned(Append(in_flight, Tracked(op1)), acks, Append(outbound, op1))
  BY AppendAligned DEF ConnTypeOK, AckAlignment, Tracks
<1> QED
  BY <1>1, <1>2, AppendAligned DEF ConnTypeOK, AckAlignment, SendTwo

\* So does reading a reply (handle_server_op, +OK and -ERR).
LEMMA ReadAligned ==
    ASSUME ConnTypeOK, AckAlignment, acks # <<>>, in_flight # <<>>,
           in_flight' = Tail(in_flight), acks' = Tail(acks),
           UNCHANGED outbound
    PROVE  AckAlignment'
  BY TailAligned DEF ConnTypeOK, AckAlignment, Tracks

\* So does the server's reply.
LEMMA ReplyAligned ==
    ASSUME ConnTypeOK, AckAlignment, NEW ok \in BOOLEAN, Reply(ok),
           UNCHANGED in_flight
    PROVE  AckAlignment'
  BY MoveAligned DEF ConnTypeOK, AckAlignment, Reply, Tracks

\* A lost connection leaves all three queues empty.
LEMMA LostAligned == ASSUME LoseConnection PROVE AckAlignment'
  BY DEF AckAlignment, Aligned, LoseConnection

\* A step that leaves the three queues alone keeps AckAlignment.
LEMMA SameAligned ==
    ASSUME AckAlignment, UNCHANGED <<in_flight, outbound, acks>>
    PROVE  AckAlignment'
  BY DEF AckAlignment

\* Each reply is matched with the command it answers.
THEOREM HandlerAckAlignment == Spec => []AckAlignment
<1>1. Init => AckAlignment
  BY DEF Init, AckAlignment, Aligned
<1>2. TypeOK /\ AckAlignment /\ [Next]_vars => AckAlignment'
  <2> SUFFICES ASSUME TypeOK, AckAlignment, [Next]_vars PROVE AckAlignment'
    OBVIOUS
  <2> USE DEF TypeOK, client, channel, subscriptions, mux, server, resume,
              control, app, tables, conn, handlerState, peers
  <2>1. CASE ClientNext
    BY <2>1, SameAligned
       DEF ClientNext, Subscribe, CloseSubscription, NoticeUnsubscribed,
           DropUnsubscribed, DropOpen, DropReceiver, Receive, CloseAfter,
           Request, TakeReply, DropRequest, DropReplyReceiver, Publish,
           CloseClient
  <2>2. ASSUME NEW id \in SubIds, SweepSubscription(id) PROVE AckAlignment'
    BY <2>2, OpTypes, SendAligned, SameAligned DEF SweepSubscription
  <2>3. CASE PollStep
    BY <2>2, <2>3, SameAligned
       DEF PollStep, BeginPoll, SweepMux, SweepDone, CheckShutdown, ReadDone,
           CommandsDrained, EndPoll
  <2>4. CASE ReadMessage
    BY <2>4, OpTypes, SendAligned, SameAligned DEF ReadMessage
  <2>5. CASE ReadReply
    BY <2>5, SameAligned DEF ReadReply
  <2>6. CASE ReadSuccess \/ ReadError
    BY <2>6, ReadAligned DEF ReadSuccess, ReadError
  <2>7. CASE ReceivePublish
    BY <2>7, OpTypes, SendAligned DEF ReceivePublish
  <2>8. CASE ReceiveRequest
    <3>1. Head(commands).id \in Requests
      BY <2>8, PopTypes, CommandFields DEF ReceiveRequest
    <3> QED
      BY <2>8, <3>1, OpTypes, SendAligned, SendTwoAligned DEF ReceiveRequest
  <2>9. CASE ReceiveUnsubscribeMultiplexed
    BY <2>9, SameAligned DEF ReceiveUnsubscribeMultiplexed
  <2>10. CASE ReceiveSubscribe
    <3>1. Head(commands).id \in SubIds
      BY <2>10, PopTypes, CommandFields DEF ReceiveSubscribe
    <3> QED
      BY <2>10, <3>1, OpTypes, SendAligned DEF ReceiveSubscribe
  <2>11. CASE ReceiveUnsubscribe
    <3>1. Head(commands).id \in SubIds /\ Head(commands).max \in Nat
      BY <2>11, PopTypes, CommandFields DEF ReceiveUnsubscribe
    <3> QED
      BY <2>11, <3>1, OpTypes, SendAligned, SameAligned DEF ReceiveUnsubscribe
  <2>12. CASE Terminate \/ Disconnect
    BY <2>12, LostAligned DEF Terminate, Disconnect
  <2>13. ASSUME NEW id \in SubIds, Resubscribe(id) PROVE AckAlignment'
    <3>1. remaining[id] \in Nat
      BY DEF TableTypeOK
    <3> QED
      BY <2>13, <3>1, OpTypes, SendAligned, SendTwoAligned DEF Resubscribe
  <2>14. CASE ConnectLoad \/ ConnectStore \/ ConnectDone
    BY <2>14, SameAligned DEF ConnectLoad, ConnectStore, ConnectDone
  <2>15. CASE ServerProcess
    BY <2>15, ReplyAligned
       DEF ServerProcess, ServerSub, ServerRefuse, ServerUnsub, ServerPub
  <2>16. ASSUME NEW id \in SubIds, ServerDeliver(id) PROVE AckAlignment'
    BY <2>16, SameAligned DEF ServerDeliver
  <2>17. ASSUME NEW r \in Requests, ServerAnswer(r) PROVE AckAlignment'
    BY <2>17, SameAligned DEF ServerAnswer
  <2>18. CASE UNCHANGED vars
    BY <2>18, SameAligned DEF vars
  <2> QED
    BY <2>1, <2>3, <2>4, <2>5, <2>6, <2>7, <2>8, <2>9, <2>10, <2>11, <2>12,
       <2>13, <2>14, <2>15, <2>16, <2>17, <2>18
       DEF Next, ReadNext, ReceiveCommand, ConnectNext, ServerNext, Finish,
           Abort, ShutdownWhileDown
<1> QED
  BY <1>1, <1>2, HandlerTypeOK, PTL DEF Spec

-----------------------------------------------------------------------------
(***************************************************************************)
(* DroppedIsQueued is inductive as it stands: the channel is a queue, so   *)
(* the Unsubscribe of a handle that is gone can only be taken after its    *)
(* Subscribe.  Covered is what it says of one id, a queue and the map.     *)
(***************************************************************************)
Sub(id) == Cmd("Subscribe", id, 0)
Unsub(id) == Cmd("Unsubscribe", id, 0)
Covered(id, queue, map) ==
    /\ id \in map => \E j \in 1..Len(queue) : queue[j] = Unsub(id)
    /\ \A i \in 1..Len(queue) :
         queue[i] = Sub(id) => \E j \in i + 1..Len(queue) : queue[j] = Unsub(id)

Gone(h) == h \in {"unsub", "dropping", "dropped"}

\* The property, one id at a time.
LEMMA DroppedById ==
    DroppedIsQueued <=>
        \A id \in SubIds : Gone(handle[id]) => Covered(id, commands, live)
  BY DEF DroppedIsQueued, Gone, Covered, Sub, Unsub

\* The same of the next state.
LEMMA DroppedNext ==
    DroppedIsQueued' <=>
        \A id \in SubIds : Gone(handle'[id]) => Covered(id, commands', live')
  BY DEF DroppedIsQueued, Gone, Covered, Sub, Unsub

\* Another command behind an Unsubscribe takes nothing away.
LEMMA AppendCovered ==
    ASSUME NEW queue \in Seq(Command), NEW cmd \in Command, NEW id,
           NEW map, Covered(id, queue, map), cmd # Sub(id)
    PROVE  Covered(id, Append(queue, cmd), map)
<1> DEFINE longer == Append(queue, cmd)
<1>1. /\ Len(longer) = Len(queue) + 1
      /\ \A i \in 1..Len(queue) : longer[i] = queue[i]
      /\ longer[Len(queue) + 1] = cmd
      /\ Len(queue) \in Nat
  OBVIOUS
<1> HIDE DEF longer
<1>2. id \in map => \E j \in 1..Len(longer) : longer[j] = Unsub(id)
  BY <1>1 DEF Covered
<1>3. ASSUME NEW i \in 1..Len(longer), longer[i] = Sub(id)
      PROVE  \E j \in i + 1..Len(longer) : longer[j] = Unsub(id)
  <2>1. i \in 1..Len(queue) /\ queue[i] = Sub(id)
    BY <1>1, <1>3
  <2>2. PICK j \in i + 1..Len(queue) : queue[j] = Unsub(id)
    BY <2>1 DEF Covered
  <2> QED
    BY <1>1, <2>1, <2>2
<1> QED
  BY <1>2, <1>3 DEF Covered, longer

\* An Unsubscribe at the end covers whatever is before it.
LEMMA UnsubCovers ==
    ASSUME NEW queue \in Seq(Command), NEW id \in SubIds, NEW map
    PROVE  Covered(id, Append(queue, Unsub(id)), map)
<1> DEFINE longer == Append(queue, Unsub(id))
<1>1. /\ Len(longer) = Len(queue) + 1
      /\ longer[Len(queue) + 1] = Unsub(id)
      /\ Len(queue) \in Nat
  BY CmdTypes DEF Unsub
<1> HIDE DEF longer
<1>2. Unsub(id) # Sub(id)
  BY DEF Unsub, Sub, Cmd
<1> QED
  BY <1>1, <1>2 DEF Covered, longer

\* Taking the head leaves the id covered, in the map or not, unless the head
\* is its Unsubscribe, and then once it is out of the map.
LEMMA TailCovered ==
    ASSUME NEW queue \in Seq(Command), queue # <<>>, NEW id,
           NEW map, NEW mapNow, Covered(id, queue, map),
           Head(queue) = Unsub(id) => id \notin mapNow,
           Head(queue) # Sub(id) => (id \in mapNow => id \in map)
    PROVE  Covered(id, Tail(queue), mapNow)
<1> DEFINE rest == Tail(queue)
<1>1. /\ Len(queue) \in Nat \ {0}
      /\ Len(rest) = Len(queue) - 1
      /\ \A i \in 1..Len(rest) : rest[i] = queue[i + 1]
      /\ Head(queue) = queue[1]
  OBVIOUS
<1> HIDE DEF rest
<1>2. ASSUME id \in mapNow PROVE \E j \in 1..Len(rest) : rest[j] = Unsub(id)
  <2>1. PICK j \in 2..Len(queue) : queue[j] = Unsub(id)
    <3>1. CASE Head(queue) = Sub(id)
      BY <1>1, <3>1 DEF Covered
    <3>2. CASE Head(queue) # Sub(id)
      <4>1. PICK j \in 1..Len(queue) : queue[j] = Unsub(id)
        BY <1>2, <3>2 DEF Covered
      <4>2. j # 1
        BY <1>1, <1>2, <4>1
      <4> QED
        BY <1>1, <4>1, <4>2
    <3> QED
      BY <3>1, <3>2
  <2>2. j - 1 \in 1..Len(rest) /\ rest[j - 1] = queue[j]
    BY <1>1, <2>1
  <2> QED
    BY <2>1, <2>2
<1>3. ASSUME NEW i \in 1..Len(rest), rest[i] = Sub(id)
      PROVE  \E j \in i + 1..Len(rest) : rest[j] = Unsub(id)
  <2>1. i + 1 \in 1..Len(queue) /\ queue[i + 1] = Sub(id)
    BY <1>1, <1>3
  <2>2. PICK j \in (i + 1) + 1..Len(queue) : queue[j] = Unsub(id)
    BY <2>1 DEF Covered
  <2>3. j - 1 \in i + 1..Len(rest) /\ rest[j - 1] = queue[j]
    BY <1>1, <2>1, <2>2
  <2> QED
    BY <2>2, <2>3
<1> QED
  BY <1>2, <1>3 DEF Covered, rest

\* A subscription that is in the map no longer needs less.
LEMMA LessCovered ==
    ASSUME NEW id \in SubIds, Covered(id, commands, live),
           UNCHANGED commands, live' \subseteq live
    PROVE  Covered(id, commands', live')
  BY DEF Covered

\* A step that only shrinks the map and lets go of no handle keeps the property.
LEMMA SameCovered ==
    ASSUME DroppedIsQueued, UNCHANGED <<commands, handle>>, live' \subseteq live
    PROVE  DroppedIsQueued'
  BY LessCovered, DroppedById, DroppedNext DEF Gone

\* The application's steps.
LEMMA ClientCovered ==
    ASSUME TypeOK, DroppedIsQueued, ClientNext PROVE DroppedIsQueued'
<1> USE DEF client, channel, subscriptions, mux, server, resume, control, app,
            tables, conn, handlerState, peers
<1>1. /\ commands \in Seq(Command)
      /\ handle \in [SubIds -> {"new", "open", "unsub", "dropping", "dropped",
                                "losing", "lost"}]
  BY DEF TypeOK, ConnTypeOK, AppTypeOK
<1>2. ASSUME NEW cmd \in Command, Push(cmd), UNCHANGED <<handle, live>>,
             cmd.op # "Subscribe"
      PROVE  DroppedIsQueued'
  <2>1. \A id \in SubIds : cmd # Sub(id)
    BY <1>2 DEF Sub, Cmd
  <2>2. \A id \in SubIds : Covered(id, commands, live) =>
                           Covered(id, commands', live')
    BY <1>1, <1>2, <2>1, AppendCovered DEF Push
  <2> QED
    BY <1>2, <2>2, DroppedById, DroppedNext DEF Gone
<1>3. ASSUME NEW id \in SubIds, Subscribe(id) PROVE DroppedIsQueued'
  <2>1. \A other \in SubIds \ {id} : Sub(id) # Sub(other)
    BY DEF Sub, Cmd
  <2>2. Sub(id) \in Command
    BY CmdTypes DEF Sub
  <2>3. commands' = Append(commands, Sub(id)) /\ live' = live
    BY <1>3 DEF Subscribe, Push, Sub
  <2>4. \A other \in SubIds \ {id} :
          Covered(other, commands, live) =>
          Covered(other, commands', live')
    BY <1>1, <2>1, <2>2, <2>3, AppendCovered
  <2>5. ~Gone(handle'[id])
    BY <1>1, <1>3 DEF Subscribe, Gone
  <2>6. \A other \in SubIds \ {id} : handle'[other] = handle[other]
    BY <1>1, <1>3 DEF Subscribe
  <2> QED
    BY <2>4, <2>5, <2>6, DroppedById, DroppedNext
<1>4. ASSUME NEW id \in SubIds, Push(Unsub(id)), UNCHANGED live,
             \A other \in SubIds \ {id} : handle'[other] = handle[other]
      PROVE  DroppedIsQueued'
  <2>1. commands' = Append(commands, Unsub(id)) /\ Unsub(id) \in Command
    BY <1>4, CmdTypes DEF Push, Unsub
  <2>2. Covered(id, commands', live')
    BY <1>1, <2>1, UnsubCovers
  <2>3. \A other \in SubIds : Unsub(id) # Sub(other)
    BY DEF Sub, Unsub, Cmd
  <2>4. \A other \in SubIds :
          Covered(other, commands, live) =>
          Covered(other, commands', live')
    BY <1>1, <1>4, <2>1, <2>3, AppendCovered
  <2> QED
    BY <1>4, <2>2, <2>4, DroppedById, DroppedNext
<1>5. ASSUME NEW id \in SubIds, UNCHANGED <<commands, live>>,
             Gone(handle'[id]) => Gone(handle[id]) \/ ~SenderAlive(id),
             \A other \in SubIds \ {id} : handle'[other] = handle[other]
      PROVE  DroppedIsQueued'
  <2>1. ~SenderAlive(id) => Covered(id, commands, live)
    BY DEF SenderAlive, Queued, Covered, Sub, Cmd
  <2> QED
    BY <1>5, <2>1, DroppedById, DroppedNext
<1>6. ASSUME NEW id \in SubIds, CloseSubscription(id) \/ DropOpen(id)
      PROVE  DroppedIsQueued'
  <2>1. UNCHANGED live
    BY <1>6 DEF CloseSubscription, DropOpen
  <2>2. \A other \in SubIds \ {id} : handle'[other] = handle[other]
    BY <1>1, <1>6 DEF CloseSubscription, DropOpen
  <2>3. Push(Unsub(id)) \/ (UNCHANGED commands /\ handle'[id] = "losing")
    BY <1>1, <1>6 DEF CloseSubscription, DropOpen, Unsub
  <2> QED
    BY <1>4, <1>5, <2>1, <2>2, <2>3 DEF Gone
<1>7. ASSUME NEW id \in SubIds,
             NoticeUnsubscribed(id) \/ DropUnsubscribed(id) \/ DropReceiver(id)
      PROVE  DroppedIsQueued'
  <2>1. UNCHANGED <<commands, live>>
    BY <1>7 DEF NoticeUnsubscribed, DropUnsubscribed, DropReceiver
  <2>2. \A other \in SubIds \ {id} : handle'[other] = handle[other]
    BY <1>1, <1>7 DEF NoticeUnsubscribed, DropUnsubscribed, DropReceiver
  <2>3. Gone(handle'[id]) => Gone(handle[id]) \/ ~SenderAlive(id)
    BY <1>1, <1>7 DEF NoticeUnsubscribed, DropUnsubscribed, DropReceiver, Gone
  <2> QED
    BY <1>5, <2>1, <2>2, <2>3
<1>8. ASSUME NEW id \in SubIds, NEW max \in Counts, CloseAfter(id, max)
      PROVE  DroppedIsQueued'
  <2>1. Cmd("Unsubscribe", id, max) \in Command
    BY CmdTypes, IdAssumption
  <2> QED
    BY <1>2, <1>8, <2>1 DEF CloseAfter, Cmd
<1>9. ASSUME NEW r \in Requests, Request(r) \/ DropRequest(r)
      PROVE  DroppedIsQueued'
  BY <1>2, <1>9, CmdTypes, SameCovered DEF Request, DropRequest, Cmd
<1>10. CASE Publish
  BY <1>2, <1>10, CmdTypes DEF Publish, Cmd
<1>11. CASE CloseClient
  BY <1>11, SameCovered DEF CloseClient
<1>12. ASSUME NEW id \in SubIds, Receive(id) PROVE DroppedIsQueued'
  BY <1>12, SameCovered DEF Receive
<1>13. ASSUME NEW r \in Requests, TakeReply(r) \/ DropReplyReceiver(r)
       PROVE  DroppedIsQueued'
  BY <1>13, SameCovered DEF TakeReply, DropReplyReceiver
<1> QED
  BY <1>3, <1>6, <1>7, <1>8, <1>9, <1>10, <1>11, <1>12, <1>13 DEF ClientNext

\* The arms of receive_command.
LEMMA ReceiveCovered ==
    ASSUME TypeOK, DroppedIsQueued, ReceiveCommand PROVE DroppedIsQueued'
<1> USE DEF client, channel, subscriptions, mux, server, resume, control, app,
            tables, conn, handlerState, peers
<1> DEFINE cmd == Head(commands)
<1>1. /\ commands \in Seq(Command)
      /\ commands # <<>>
      /\ commands' = Tail(commands)
      /\ cmd \in Command
      /\ UNCHANGED handle
  BY PopTypes
     DEF TypeOK, ConnTypeOK, ReceiveCommand, ReceivePublish, ReceiveRequest,
         ReceiveUnsubscribeMultiplexed, ReceiveSubscribe, ReceiveUnsubscribe, Pop
<1>2. \A id \in SubIds : cmd = Unsub(id) => id \notin live'
  BY DEF ReceiveCommand, ReceivePublish, ReceiveRequest,
         ReceiveUnsubscribeMultiplexed, ReceiveSubscribe, ReceiveUnsubscribe,
         Pop, Unsub, Cmd, Remove
<1>3. cmd.op = "Subscribe" => cmd = Sub(cmd.id)
  BY <1>1 DEF Command, Sub, Cmd
<1>4. \A id \in SubIds : cmd # Sub(id) => (id \in live' => id \in live)
  BY <1>3
     DEF ReceiveCommand, ReceivePublish, ReceiveRequest,
         ReceiveUnsubscribeMultiplexed, ReceiveSubscribe, ReceiveUnsubscribe,
         Pop, Remove
<1> HIDE DEF cmd
<1>5. \A id \in SubIds : Covered(id, commands, live) =>
                         Covered(id, commands', live')
  BY <1>1, <1>2, <1>4, TailCovered DEF cmd
<1> QED
  BY <1>1, <1>5, DroppedById, DroppedNext

\* Closing or dropping a Subscription is never forgotten when its command went
\* into the channel (subscription.rs close and drop, receive_command).
THEOREM HandlerDroppedIsQueued == Spec => []DroppedIsQueued
<1>1. Init => DroppedIsQueued
  BY DEF Init, DroppedIsQueued
<1>2. TypeOK /\ DroppedIsQueued /\ [Next]_vars => DroppedIsQueued'
  <2> SUFFICES ASSUME TypeOK, DroppedIsQueued, [Next]_vars PROVE DroppedIsQueued'
    OBVIOUS
  <2> USE DEF client, channel, subscriptions, mux, server, resume, control, app,
              tables, conn, handlerState, peers
  <2>1. CASE PollStep
    BY <2>1, SameCovered
       DEF PollStep, BeginPoll, SweepMux, SweepSubscription, SweepDone,
           CheckShutdown, ReadDone, CommandsDrained, EndPoll, Remove
  <2>2. CASE ReadNext
    BY <2>2, SameCovered
       DEF ReadNext, ReadReply, ReadMessage, ReadSuccess, ReadError, CountDown,
           SubscribeRefused, Remove
  <2>3. CASE Terminate
    <3>1. commands' = <<>> /\ live' = {}
      BY <2>3 DEF Terminate
    <3> QED
      BY <3>1 DEF DroppedIsQueued
  <2>4. CASE Disconnect
    BY <2>4, SameCovered DEF Disconnect
  <2>5. CASE ConnectNext
    BY <2>3, <2>5, SameCovered
       DEF ConnectNext, ConnectLoad, ConnectStore, Resubscribe, ConnectDone,
           ShutdownWhileDown
  <2>6. CASE ServerNext
    BY <2>6, ServerFrame, SameCovered
  <2>7. CASE UNCHANGED vars
    BY <2>7, SameCovered DEF vars
  <2> QED
    BY <2>1, <2>2, <2>3, <2>4, <2>5, <2>6, <2>7, ClientCovered, ReceiveCovered
       DEF Next, Finish, Abort
<1> QED
  BY <1>1, <1>2, HandlerTypeOK, PTL DEF Spec

-----------------------------------------------------------------------------
(***************************************************************************)
(* InboxBeforeRequests is inductive as it stands.  Published is what it    *)
(* says of a queue of ops, of whether the server has seen the inbox and of *)
(* whether the handler takes it for subscribed.                            *)
(***************************************************************************)
IsRequest(op) == op.op = "PUB" /\ op.id \in Requests
Published(ops, seen, on) ==
    /\ \A i \in 1..Len(ops) :
          IsRequest(ops[i]) => seen \/ \E j \in 1..i - 1 : ops[j] = InboxSub
    /\ on <=> seen \/ \E i \in 1..Len(ops) : ops[i] = InboxSub

\* Another op that is not the SUB of the inbox keeps the order.
LEMMA AppendPublished ==
    ASSUME NEW ops \in Seq(ClientOp), NEW op \in ClientOp, NEW seen, NEW on,
           Published(ops, seen, on), op # InboxSub, IsRequest(op) => on
    PROVE  Published(Append(ops, op), seen, on)
<1> DEFINE longer == Append(ops, op)
<1>1. /\ Len(longer) = Len(ops) + 1
      /\ \A i \in 1..Len(ops) : longer[i] = ops[i]
      /\ longer[Len(ops) + 1] = op
      /\ Len(ops) \in Nat
  OBVIOUS
<1> HIDE DEF longer
<1>2. (\E i \in 1..Len(longer) : longer[i] = InboxSub)
        <=> (\E i \in 1..Len(ops) : ops[i] = InboxSub)
  BY <1>1
<1>3. ASSUME NEW i \in 1..Len(longer), IsRequest(longer[i])
      PROVE  seen \/ \E j \in 1..i - 1 : longer[j] = InboxSub
  <2>1. CASE i \in 1..Len(ops)
    <3>1. seen \/ \E j \in 1..i - 1 : ops[j] = InboxSub
      BY <1>1, <1>3, <2>1 DEF Published
    <3>2. \A j \in 1..i - 1 : j \in 1..Len(ops)
      BY <1>1, <2>1
    <3> QED
      BY <1>1, <3>1, <3>2
  <2>2. CASE i = Len(ops) + 1
    <3>1. seen \/ \E j \in 1..Len(ops) : ops[j] = InboxSub
      BY <1>1, <1>3, <2>2 DEF Published
    <3>2. i - 1 = Len(ops)
      BY <1>1, <2>2
    <3> QED
      BY <1>1, <3>1, <3>2
  <2> QED
    BY <1>1, <2>1, <2>2
<1>4. on <=> seen \/ \E i \in 1..Len(longer) : longer[i] = InboxSub
  BY <1>2 DEF Published
<1>5. Published(longer, seen, on)
  BY <1>3, <1>4 DEF Published
<1> QED
  BY <1>5 DEF longer

\* The SUB of the inbox, which the server has not seen yet, is put behind the
\* ops, none of which is a request, and the first request follows.
LEMMA InboxPublished ==
    ASSUME NEW ops \in Seq(ClientOp), NEW r \in Requests, NEW seen,
           Published(ops, seen, FALSE)
    PROVE  Published(Append(Append(ops, InboxSub), Op("PUB", r, 0)), seen, TRUE)
<1> DEFINE inbox == Append(ops, InboxSub)
<1>1. InboxSub \in ClientOp /\ Op("PUB", r, 0) \in ClientOp
  BY OpTypes
<1>2. /\ inbox \in Seq(ClientOp)
      /\ Len(inbox) = Len(ops) + 1
      /\ \A i \in 1..Len(ops) : inbox[i] = ops[i]
      /\ inbox[Len(ops) + 1] = InboxSub
      /\ Len(ops) \in Nat
  BY <1>1
<1> HIDE DEF inbox
<1>3. \A i \in 1..Len(inbox) : ~IsRequest(inbox[i])
  <2>1. ~IsRequest(InboxSub)
    BY DEF IsRequest, Op, InboxSub
  <2>2. ASSUME NEW i \in 1..Len(ops) PROVE ~IsRequest(ops[i])
    <3>1. ~seen /\ \A j \in 1..Len(ops) : ops[j] # InboxSub
      BY DEF Published
    <3>2. \A j \in 1..i - 1 : j \in 1..Len(ops)
      BY <1>2
    <3> QED
      BY <3>1, <3>2 DEF Published
  <2> QED
    BY <1>2, <2>1, <2>2
<1>4. Published(inbox, seen, TRUE)
  <2>1. Len(ops) + 1 \in 1..Len(inbox)
    BY <1>2
  <2> QED
    BY <1>2, <1>3, <2>1 DEF Published
<1>5. Op("PUB", r, 0) # InboxSub
  BY DEF Op, InboxSub
<1>6. Published(Append(inbox, Op("PUB", r, 0)), seen, TRUE)
  BY <1>1, <1>2, <1>4, <1>5, AppendPublished
<1> QED
  BY <1>6 DEF inbox

\* The server takes the head, and has seen the inbox if that was its SUB.
LEMMA TailPublished ==
    ASSUME NEW ops \in Seq(ClientOp), NEW seen, NEW now, NEW on, ops # <<>>,
           Published(ops, seen, on), now <=> seen \/ Head(ops) = InboxSub
    PROVE  Published(Tail(ops), now, on)
<1> DEFINE rest == Tail(ops)
<1>1. /\ Len(ops) \in Nat \ {0}
      /\ Len(rest) = Len(ops) - 1
      /\ \A i \in 1..Len(rest) : i + 1 \in 1..Len(ops) /\ rest[i] = ops[i + 1]
      /\ Head(ops) = ops[1]
  OBVIOUS
<1> HIDE DEF rest
<1>2. ASSUME NEW j \in 1..Len(ops), ops[j] = InboxSub
      PROVE  now \/ (j - 1 \in 1..Len(rest) /\ rest[j - 1] = InboxSub)
  <2>1. CASE j = 1
    BY <1>1, <1>2, <2>1
  <2>2. CASE j # 1
    <3>1. j - 1 \in 1..Len(rest) /\ (j - 1) + 1 = j
      BY <1>1, <2>2
    <3> QED
      BY <1>1, <1>2, <3>1
  <2> QED
    BY <2>1, <2>2
<1>3. ASSUME NEW i \in 1..Len(rest), IsRequest(rest[i])
      PROVE  now \/ \E j \in 1..i - 1 : rest[j] = InboxSub
  <2>1. i + 1 \in 1..Len(ops) /\ IsRequest(ops[i + 1])
    BY <1>1, <1>3
  <2>2. seen \/ \E j \in 1..(i + 1) - 1 : ops[j] = InboxSub
    BY <2>1 DEF Published
  <2>3. CASE seen
    BY <2>3
  <2>4. CASE ~seen
    <3>1. PICK j \in 1..(i + 1) - 1 : ops[j] = InboxSub
      BY <2>2, <2>4
    <3>2. j \in 1..Len(ops) /\ (j - 1 \in 1..Len(rest) => j - 1 \in 1..i - 1)
      BY <1>1, <2>1, <3>1
    <3> QED
      BY <1>2, <3>1, <3>2
  <2> QED
    BY <2>3, <2>4
<1>4. (now \/ \E i \in 1..Len(rest) : rest[i] = InboxSub)
        <=> (seen \/ \E i \in 1..Len(ops) : ops[i] = InboxSub)
  <2>1. 1 \in 1..Len(ops)
    BY <1>1
  <2> QED
    BY <1>1, <1>2, <2>1
<1>5. Published(rest, now, on)
  BY <1>3, <1>4 DEF Published
<1> QED
  BY <1>5 DEF rest

\* The property, and the same of the next state.
LEMMA InboxIsPublished ==
    /\ InboxBeforeRequests <=> Published(outbound, InboxSeen, muxOn)
                                  /\ (muxMap # {} => muxOn)
    /\ InboxBeforeRequests' <=> Published(outbound', InboxSeen', muxOn')
                                  /\ (muxMap' # {} => muxOn')
BY DEF InboxBeforeRequests, Published, IsRequest

\* A step that sends nothing keeps the order.
LEMMA QuietPublished ==
    ASSUME InboxBeforeRequests, UNCHANGED <<outbound, muxOn, srv, srvDenied>>,
           muxMap' \subseteq muxMap
    PROVE  InboxBeforeRequests'
<1>1. InboxSeen' = InboxSeen
  BY DEF InboxSeen
<1> QED
  BY <1>1, InboxIsPublished

\* A new connection has no inbox, and the handler knows.
LEMMA LostPublished ==
    ASSUME LoseConnection
    PROVE  InboxBeforeRequests'
<1>1. outbound' = <<>> /\ ~InboxSeen' /\ muxOn' = FALSE /\ muxMap' = {}
  BY DEF LoseConnection, InboxSeen
<1>2. Published(<<>>, FALSE, FALSE)
  BY DEF Published
<1>3. Published(outbound', InboxSeen', muxOn')
  BY <1>1, <1>2 DEF Published
<1> QED
  BY <1>1, <1>3, InboxIsPublished

\* The ops about an ordinary subscription are not about the inbox.
LEMMA OrdinaryOps ==
    ASSUME NEW id \in SubIds, NEW max \in Nat
    PROVE  /\ Op("SUB", id, 0) \in ClientOp /\ Op("UNSUB", id, max) \in ClientOp
           /\ Op("SUB", id, 0) # InboxSub /\ ~IsRequest(Op("SUB", id, 0))
           /\ Op("UNSUB", id, max) # InboxSub /\ ~IsRequest(Op("UNSUB", id, max))
BY OpTypes, IdAssumption DEF Op, IsRequest, InboxSub

\* Sending one op that is neither the inbox nor a request.
LEMMA SendPublished ==
    ASSUME ConnTypeOK, InboxBeforeRequests, NEW op \in ClientOp, Send(op),
           op # InboxSub, ~IsRequest(op),
           UNCHANGED <<muxOn, muxMap, srv, srvDenied>>
    PROVE  InboxBeforeRequests'
<1>1. InboxSeen' = InboxSeen
  BY DEF InboxSeen
<1>2. Published(Append(outbound, op), InboxSeen, muxOn)
  BY InboxIsPublished, AppendPublished DEF ConnTypeOK
<1> QED
  BY <1>1, <1>2, InboxIsPublished DEF Send

\* On every connection a request is published behind the subscription to the
\* inbox, and the handler takes the inbox for subscribed exactly where it is
\* (receive_command's RequestMultiplexed, init_multiplexed_subscriptions and
\* recycle).
THEOREM HandlerInboxBeforeRequests == Spec => []InboxBeforeRequests
<1>1. Init => InboxBeforeRequests
  BY DEF Init, InboxBeforeRequests, InboxSeen
<1>2. TypeOK /\ InboxBeforeRequests /\ [Next]_vars => InboxBeforeRequests'
  <2> SUFFICES ASSUME TypeOK, InboxBeforeRequests, [Next]_vars
               PROVE  InboxBeforeRequests'
    OBVIOUS
  <2> USE DEF TypeOK, client, channel, subscriptions, mux, server, resume,
              control, app, tables, conn, handlerState, peers
  <2>1. CASE ClientNext
    BY <2>1, QuietPublished
       DEF ClientNext, Subscribe, CloseSubscription, NoticeUnsubscribed,
           DropUnsubscribed, DropOpen, DropReceiver, Receive, CloseAfter,
           Request, TakeReply, DropRequest, DropReplyReceiver, Publish,
           CloseClient
  <2>2. ASSUME NEW id \in SubIds, SweepSubscription(id)
        PROVE  InboxBeforeRequests'
    BY <2>2, OrdinaryOps, SendPublished, QuietPublished DEF SweepSubscription
  <2>3. CASE PollStep
    BY <2>2, <2>3, QuietPublished
       DEF PollStep, BeginPoll, SweepMux, SweepDone, CheckShutdown, ReadDone,
           CommandsDrained, EndPoll
  <2>4. CASE ReadMessage
    BY <2>4, OrdinaryOps, SendPublished, QuietPublished DEF ReadMessage
  <2>5. CASE ReadReply \/ ReadSuccess \/ ReadError
    BY <2>5, QuietPublished DEF ReadReply, ReadSuccess, ReadError
  <2>6. CASE ReceivePublish
    <3>1. Op("PUB", None, 0) \in ClientOp /\ Op("PUB", None, 0) # InboxSub
          /\ ~IsRequest(Op("PUB", None, 0))
      BY OpTypes, IdAssumption DEF Op, IsRequest, InboxSub
    <3> QED
      BY <2>6, <3>1, SendPublished DEF ReceivePublish
  <2>7. CASE ReceiveRequest
    <3> DEFINE r == Head(commands).id
    <3>1. r \in Requests
      BY <2>7, PopTypes, CommandFields DEF ReceiveRequest
    <3>2. Op("PUB", r, 0) \in ClientOp /\ Op("PUB", r, 0) # InboxSub
      BY <3>1, OpTypes DEF Op, InboxSub
    <3>3. /\ muxOn' = TRUE /\ muxOn \in BOOLEAN /\ outbound \in Seq(ClientOp)
          /\ InboxSeen' = InboxSeen
      BY <2>7 DEF ReceiveRequest, SwitchTypeOK, ConnTypeOK, InboxSeen
    <3>4. CASE muxOn
      <4>1. /\ outbound' = Append(outbound, Op("PUB", r, 0))
            /\ Published(outbound, InboxSeen, TRUE)
        BY <2>7, <3>3, <3>4, InboxIsPublished DEF ReceiveRequest, Send
      <4>2. Published(outbound', InboxSeen, TRUE)
        BY <3>2, <3>3, <4>1, AppendPublished
      <4> QED
        BY <3>3, <4>2, InboxIsPublished
    <3>5. CASE ~muxOn
      <4>1. /\ outbound' = Append(Append(outbound, InboxSub), Op("PUB", r, 0))
            /\ Published(outbound, InboxSeen, FALSE)
        BY <2>7, <3>3, <3>5, InboxIsPublished DEF ReceiveRequest, SendTwo
      <4>2. Published(outbound', InboxSeen, TRUE)
        BY <3>1, <3>3, <4>1, InboxPublished
      <4> QED
        BY <3>3, <4>2, InboxIsPublished
    <3> QED
      BY <3>4, <3>5
  <2>8. CASE ReceiveUnsubscribeMultiplexed
    BY <2>8, QuietPublished DEF ReceiveUnsubscribeMultiplexed
  <2>9. CASE ReceiveSubscribe
    <3>1. Head(commands).id \in SubIds
      BY <2>9, PopTypes, CommandFields DEF ReceiveSubscribe
    <3> QED
      BY <2>9, <3>1, OrdinaryOps, SendPublished DEF ReceiveSubscribe
  <2>10. CASE ReceiveUnsubscribe
    <3>1. Head(commands).id \in SubIds /\ Head(commands).max \in Nat
      BY <2>10, PopTypes, CommandFields DEF ReceiveUnsubscribe
    <3> QED
      BY <2>10, <3>1, OrdinaryOps, SendPublished, QuietPublished
         DEF ReceiveUnsubscribe
  <2>11. CASE Terminate \/ Disconnect
    BY <2>11, LostPublished DEF Terminate, Disconnect
  <2>12. ASSUME NEW id \in SubIds, Resubscribe(id) PROVE InboxBeforeRequests'
    <3>1. remaining[id] \in Nat /\ outbound \in Seq(ClientOp)
      BY DEF TableTypeOK, ConnTypeOK
    <3>2. CASE remaining[id] = 0
      BY <2>12, <3>2, OrdinaryOps, SendPublished DEF Resubscribe
    <3>3. CASE remaining[id] # 0
      <4>1. Published(Append(outbound, Op("SUB", id, 0)), InboxSeen, muxOn)
        BY <3>1, OrdinaryOps, AppendPublished, InboxIsPublished
      <4>2. Append(outbound, Op("SUB", id, 0)) \in Seq(ClientOp)
        BY <3>1, OrdinaryOps
      <4>3. Op("UNSUB", id, remaining[id]) \in ClientOp
            /\ Op("UNSUB", id, remaining[id]) # InboxSub
            /\ ~IsRequest(Op("UNSUB", id, remaining[id]))
        BY <3>1, OrdinaryOps
      <4>4. Published(Append(Append(outbound, Op("SUB", id, 0)),
                             Op("UNSUB", id, remaining[id])),
                      InboxSeen, muxOn)
        BY <4>1, <4>2, <4>3, AppendPublished
      <4>5. InboxSeen' = InboxSeen /\ UNCHANGED <<muxOn, muxMap>>
        BY <2>12 DEF Resubscribe, InboxSeen
      <4> QED
        <5>1. outbound' = Append(Append(outbound, Op("SUB", id, 0)),
                                 Op("UNSUB", id, remaining[id]))
          BY <2>12, <3>3 DEF Resubscribe, SendTwo
        <5> QED
          BY <4>4, <4>5, <5>1, InboxIsPublished
    <3> QED
      BY <3>2, <3>3
  <2>13. CASE ConnectLoad \/ ConnectStore \/ ConnectDone
    BY <2>13, QuietPublished DEF ConnectLoad, ConnectStore, ConnectDone
  <2>14. CASE ServerProcess
    <3>1. /\ outbound # <<>> /\ outbound' = Tail(outbound)
          /\ UNCHANGED <<muxOn, muxMap>>
      BY <2>14 DEF ServerProcess, ServerSub, ServerRefuse, ServerUnsub,
                   ServerPub, Reply
    <3>2. outbound \in Seq(ClientOp) /\ Head(outbound) \in ClientOp
      BY <3>1 DEF ConnTypeOK
    <3>3. InboxSeen' <=> InboxSeen \/ Head(outbound) = InboxSub
      <4>1. CASE ServerSub
        <5>1. Head(outbound).op = "SUB" /\ srv' = srv \cup {Head(outbound).id}
              /\ UNCHANGED srvDenied
          BY <4>1 DEF ServerSub
        <5>2. Head(outbound).id = MUX <=> Head(outbound) = InboxSub
          BY <3>2, <5>1 DEF ClientOp, InboxSub, Op
        <5> QED
          BY <5>1, <5>2 DEF InboxSeen
      <4>2. CASE ServerRefuse
        BY <4>2 DEF ServerRefuse, InboxSeen
      <4>3. CASE ServerUnsub
        <5>1. Head(outbound).op = "UNSUB"
              /\ srv' \in {srv, srv \ {Head(outbound).id}}
              /\ UNCHANGED srvDenied
          BY <4>3 DEF ServerUnsub
        <5>2. Head(outbound).id # MUX /\ Head(outbound) # InboxSub
          <6>1. Head(outbound).id \in SubIds
            BY <3>2, <5>1 DEF ClientOp
          <6>2. MUX \notin SubIds
            BY IdAssumption
          <6>3. InboxSub.op = "SUB"
            BY DEF InboxSub, Op
          <6> QED
            BY <5>1, <6>1, <6>2, <6>3
        <5> QED
          BY <5>1, <5>2 DEF InboxSeen
      <4>4. CASE ServerPub
        <5>1. Head(outbound) # InboxSub
          BY <4>4 DEF ServerPub, InboxSub, Op
        <5> QED
          BY <4>4, <5>1 DEF ServerPub, InboxSeen
      <4> QED
        BY <2>14, <4>1, <4>2, <4>3, <4>4 DEF ServerProcess
    <3>4. Published(outbound', InboxSeen', muxOn)
      BY <3>1, <3>2, <3>3, TailPublished, InboxIsPublished
    <3> QED
      BY <3>1, <3>4, InboxIsPublished
  <2>15. ASSUME NEW id \in SubIds, ServerDeliver(id) PROVE InboxBeforeRequests'
    <3>1. MUX \in srv' <=> MUX \in srv
      BY <2>15, IdAssumption DEF ServerDeliver
    <3>2. InboxSeen' <=> InboxSeen
      BY <2>15, <3>1 DEF ServerDeliver, InboxSeen
    <3>3. UNCHANGED <<outbound, muxOn, muxMap>>
      BY <2>15 DEF ServerDeliver
    <3> QED
      BY <3>2, <3>3, InboxIsPublished DEF Published
  <2>16. ASSUME NEW r \in Requests, ServerAnswer(r) PROVE InboxBeforeRequests'
    BY <2>16, QuietPublished DEF ServerAnswer
  <2>17. CASE UNCHANGED vars
    BY <2>17, QuietPublished DEF vars
  <2> QED
    BY <2>1, <2>3, <2>4, <2>5, <2>6, <2>7, <2>8, <2>9, <2>10, <2>11, <2>12,
       <2>13, <2>14, <2>15, <2>16, <2>17
       DEF Next, ReadNext, ReceiveCommand, ConnectNext, ServerNext, Finish,
           Abort, ShutdownWhileDown
<1> QED
  BY <1>1, <1>2, HandlerTypeOK, PTL DEF Spec

-----------------------------------------------------------------------------
(***************************************************************************)
(* ErrorEndsStream needs to know that an id is subscribed once: an id in   *)
(* the map is not on its way to it again, so the sender that the error of  *)
(* SubscribeRefused takes away never comes back.  Entry says so of an id,  *)
(* its handle h, the command channel, the map and its message channel ch.  *)
(***************************************************************************)
At(op, id, queue) == {i \in 1..Len(queue) : queue[i].op = op /\ queue[i].id = id}
Subs(id, queue) == At("Subscribe", id, queue)
Entry(id, h, queue, map, ch) ==
    /\ h = "new" => id \notin map /\ Subs(id, queue) = {} /\ ch = <<>>
    /\ \A i, j \in Subs(id, queue) : i = j
    /\ Subs(id, queue) # {} => id \notin map /\ ch = <<>>
    /\ \A i \in 1..Len(ch) : ch[i] = "err" => id \notin map /\ i = Len(ch)
Items == {"msg", "err"}
Entries == \A id \in SubIds : Entry(id, handle[id], commands, live, chan[id])

\* Where the commands or ops of a kind about an id are, once another one is
\* behind them ...
LEMMA AtOfAppend ==
    ASSUME NEW S, NEW queue \in Seq(S), NEW item \in S, NEW op, NEW id
    PROVE  At(op, id, Append(queue, item)) =
             At(op, id, queue) \cup (IF item.op = op /\ item.id = id
                                       THEN {Len(queue) + 1} ELSE {})
<1> DEFINE longer == Append(queue, item)
<1>1. /\ Len(longer) = Len(queue) + 1
      /\ \A i \in 1..Len(queue) : longer[i] = queue[i]
      /\ longer[Len(queue) + 1] = item
      /\ Len(queue) \in Nat
  OBVIOUS
<1> HIDE DEF longer
<1>2. \A i \in 1..Len(longer) : i \in 1..Len(queue) \/ i = Len(queue) + 1
  BY <1>1
<1> QED
  BY <1>1, <1>2 DEF At, longer

\* ... and once the head is gone.
LEMMA AtOfTail ==
    ASSUME NEW S, NEW queue \in Seq(S), queue # <<>>, NEW op, NEW id
    PROVE  /\ \A i : i \in At(op, id, Tail(queue)) <=>
                        i \in Nat \ {0} /\ i + 1 \in At(op, id, queue)
           /\ Head(queue).op = op /\ Head(queue).id = id => 1 \in At(op, id, queue)
<1> DEFINE rest == Tail(queue)
<1>1. /\ Len(queue) \in Nat \ {0}
      /\ Len(rest) = Len(queue) - 1
      /\ \A i \in 1..Len(rest) : rest[i] = queue[i + 1]
      /\ Head(queue) = queue[1]
  OBVIOUS
<1> HIDE DEF rest
<1>2. ASSUME NEW i \in At(op, id, rest)
      PROVE  i \in Nat \ {0} /\ i + 1 \in At(op, id, queue)
  BY <1>1, <1>2 DEF At
<1>3. ASSUME NEW i \in Nat \ {0}, i + 1 \in At(op, id, queue)
      PROVE  i \in At(op, id, rest)
  <2>1. i \in 1..Len(rest)
    BY <1>1, <1>3 DEF At
  <2> QED
    BY <1>1, <1>3, <2>1 DEF At
<1>4. Head(queue).op = op /\ Head(queue).id = id => 1 \in At(op, id, queue)
  BY <1>1 DEF At
<1> QED
  BY <1>2, <1>3, <1>4 DEF rest

\* What is at most once in a queue is not in its tail once the head is it.
LEMMA OnceInTail ==
    ASSUME NEW S, NEW queue \in Seq(S), queue # <<>>, NEW op, NEW id,
           \A i, j \in At(op, id, queue) : i = j
    PROVE  /\ \A i, j \in At(op, id, Tail(queue)) : i = j
           /\ Head(queue).op = op /\ Head(queue).id = id =>
                At(op, id, Tail(queue)) = {}
           /\ At(op, id, queue) = {} => At(op, id, Tail(queue)) = {}
<1>1. \A i \in At(op, id, Tail(queue)) : i \in Nat \ {0} /\ i + 1 \in At(op, id, queue)
  BY AtOfTail
<1>2. \A i, j \in At(op, id, Tail(queue)) : i = j
  <2> SUFFICES ASSUME NEW i \in At(op, id, Tail(queue)), NEW j \in At(op, id, Tail(queue))
               PROVE  i = j
    OBVIOUS
  <2>1. i + 1 = j + 1 /\ i \in Nat /\ j \in Nat
    BY <1>1
  <2> QED
    BY <2>1
<1>3. ASSUME Head(queue).op = op, Head(queue).id = id PROVE At(op, id, Tail(queue)) = {}
  <2>1. 1 \in At(op, id, queue)
    BY <1>3, AtOfTail
  <2> SUFFICES ASSUME NEW i \in At(op, id, Tail(queue)) PROVE FALSE
    OBVIOUS
  <2>2. i \in Nat \ {0} /\ i + 1 = 1
    BY <1>1, <2>1
  <2> QED
    BY <2>2
<1> QED
  BY <1>1, <1>2, <1>3

\* Any command but the Subscribe of the id changes nothing for it.
LEMMA AppendEntry ==
    ASSUME NEW queue \in Seq(Command), NEW cmd \in Command, NEW id, NEW h, NEW now,
           NEW map, NEW ch, Entry(id, h, queue, map, ch), now = "new" => h = "new",
           cmd.op = "Subscribe" => cmd.id # id
    PROVE  Entry(id, now, Append(queue, cmd), map, ch)
<1>1. At("Subscribe", id, Append(queue, cmd)) =
        At("Subscribe", id, queue)
          \cup (IF cmd.op = "Subscribe" /\ cmd.id = id THEN {Len(queue) + 1} ELSE {})
  BY AtOfAppend
<1>2. Subs(id, Append(queue, cmd)) = Subs(id, queue)
  BY <1>1 DEF Subs
<1> QED
  BY <1>2 DEF Entry

\* The Subscribe of a new id is the only one.
LEMMA SubscribeEntry ==
    ASSUME NEW queue \in Seq(Command), NEW cmd \in Command, NEW id,
           NEW map, NEW ch, Entry(id, "new", queue, map, ch), cmd.op = "Subscribe"
    PROVE  Entry(id, "open", Append(queue, cmd), map, ch)
<1>1. \A i, j \in Subs(id, Append(queue, cmd)) : i = j
  BY AtOfAppend DEF Entry, Subs
<1> QED
  BY <1>1 DEF Entry

\* Taking a command leaves an id out of the map unless it is its Subscribe, and
\* then nothing was delivered to it yet.
LEMMA TailEntry ==
    ASSUME NEW queue \in Seq(Command), queue # <<>>, NEW id, NEW h, NEW map, NEW mapNow,
           NEW ch, Entry(id, h, queue, map, ch),
           ~(Head(queue).op = "Subscribe" /\ Head(queue).id = id) =>
                (id \in mapNow => id \in map)
    PROVE  Entry(id, h, Tail(queue), mapNow, ch)
<1>1. \A i, j \in Subs(id, queue) : i = j
  BY DEF Entry
<1>2. /\ \A i, j \in Subs(id, Tail(queue)) : i = j
      /\ Head(queue).op = "Subscribe" /\ Head(queue).id = id =>
            Subs(id, Tail(queue)) = {}
      /\ Subs(id, queue) = {} => Subs(id, Tail(queue)) = {}
  BY <1>1, OnceInTail DEF Subs
<1>3. CASE Head(queue).op = "Subscribe" /\ Head(queue).id = id
  <2>1. 1 \in Subs(id, queue)
    BY <1>3, AtOfTail DEF Subs
  <2>2. ch = <<>> /\ h # "new"
    BY <2>1 DEF Entry
  <2> QED
    BY <1>2, <1>3, <2>2 DEF Entry
<1>4. CASE ~(Head(queue).op = "Subscribe" /\ Head(queue).id = id)
  BY <1>2, <1>4 DEF Entry
<1> QED
  BY <1>3, <1>4

\* Receiving, letting go of the channel or of the entry in the map only helps.
LEMMA LessEntry ==
    ASSUME NEW queue, NEW id, NEW h, NEW now, NEW map, NEW mapNow,
           NEW ch \in Seq(Items), NEW rest,
           Entry(id, h, queue, map, ch),
           now = "new" => h = "new", id \in mapNow => id \in map,
           \/ rest \in {ch, <<>>}
           \/ ch # <<>> /\ rest = Tail(ch)
    PROVE  Entry(id, now, queue, mapNow, rest)
<1>1. CASE rest = ch
  BY <1>1 DEF Entry
<1>2. CASE rest = <<>>
  BY <1>2 DEF Entry
<1>3. CASE ch # <<>> /\ rest = Tail(ch)
  <2>1. /\ Len(ch) \in Nat \ {0}
        /\ Len(rest) = Len(ch) - 1
        /\ \A i \in 1..Len(rest) : rest[i] = ch[i + 1]
    BY <1>3
  <2>2. \A i \in 1..Len(rest) : rest[i] = "err" => id \notin mapNow /\ i = Len(rest)
    BY <2>1 DEF Entry
  <2> QED
    BY <1>3, <2>2 DEF Entry
<1> QED
  BY <1>1, <1>2, <1>3

\* What is delivered goes to an id in the map, and an error takes it out.
LEMMA DeliverEntry ==
    ASSUME NEW queue, NEW id, NEW h, NEW map, NEW mapNow, NEW ch \in Seq(Items),
           NEW item \in Items, Entry(id, h, queue, map, ch), id \in map,
           item = "err" => id \notin mapNow
    PROVE  Entry(id, h, queue, mapNow, Append(ch, item))
<1> DEFINE longer == Append(ch, item)
<1>1. /\ Len(longer) = Len(ch) + 1
      /\ \A i \in 1..Len(ch) : longer[i] = ch[i]
      /\ longer[Len(ch) + 1] = item
      /\ Len(ch) \in Nat
  OBVIOUS
<1> HIDE DEF longer
<1>2. \A i \in 1..Len(ch) : ch[i] # "err"
  BY DEF Entry
<1>3. \A i \in 1..Len(longer) : longer[i] = "err" => id \notin mapNow /\ i = Len(longer)
  BY <1>1, <1>2
<1>4. h # "new" /\ Subs(id, queue) = {}
  BY DEF Entry
<1> QED
  BY <1>3, <1>4 DEF Entry, longer

\* Entries says at least what ErrorEndsStream does.
LEMMA EntriesImply == TypeOK /\ Entries => ErrorEndsStream
<1> SUFFICES ASSUME TypeOK, Entries, NEW id \in SubIds, NEW i \in 1..Len(chan[id]) - 1
             PROVE  chan[id][i] = "msg"
  BY DEF ErrorEndsStream
<1>1. chan[id] \in Seq(Items)
  BY DEF TypeOK, AppTypeOK, Items
<1>2. Len(chan[id]) \in Nat
  BY <1>1
<1>3. i \in 1..Len(chan[id]) /\ i # Len(chan[id])
  BY <1>2
<1>4. chan[id][i] \in Items
  BY <1>1, <1>3
<1> QED
  BY <1>3, <1>4 DEF Entries, Entry, Items

\* A step that takes no command and delivers nothing.
LEMMA LessEntries ==
    ASSUME TypeOK, Entries, UNCHANGED commands, live' \subseteq live,
           \A id \in SubIds :
                /\ handle'[id] = "new" => handle[id] = "new"
                /\ \/ chan'[id] \in {chan[id], <<>>}
                   \/ chan[id] # <<>> /\ chan'[id] = Tail(chan[id])
    PROVE  Entries'
<1> SUFFICES ASSUME NEW id \in SubIds
             PROVE  Entry(id, handle'[id], commands', live', chan'[id])
  BY DEF Entries
<1>1. chan[id] \in Seq(Items) /\ Entry(id, handle[id], commands, live, chan[id])
  BY DEF TypeOK, AppTypeOK, Items, Entries
<1> DEFINE now == handle'[id]
           map == live'
           rest == chan'[id]
<1>2. /\ now = "new" => handle[id] = "new"
      /\ id \in map => id \in live
      /\ \/ rest \in {chan[id], <<>>}
         \/ chan[id] # <<>> /\ rest = Tail(chan[id])
  OBVIOUS
<1> HIDE DEF now, map, rest
<1>3. Entry(id, now, commands, map, rest)
  BY <1>1, <1>2, LessEntry
<1> QED
  BY <1>3 DEF now, map, rest

\* A step that leaves the application's side as it is.
LEMMA QuietEntries ==
    ASSUME TypeOK, Entries, UNCHANGED <<commands, handle, chan>>, live' \subseteq live
    PROVE  Entries'
BY LessEntries

\* The application's steps.
LEMMA ClientEntries ==
    ASSUME TypeOK, Entries, ClientNext PROVE Entries'
<1> USE DEF client, channel, subscriptions, mux, server, resume, control, app,
            tables, conn, handlerState, peers
<1>1. /\ commands \in Seq(Command)
      /\ chan \in [SubIds -> Seq(Items)]
      /\ handle \in [SubIds -> {"new", "open", "unsub", "dropping", "dropped",
                                "losing", "lost"}]
  BY DEF TypeOK, ConnTypeOK, AppTypeOK, Items
<1>2. ASSUME NEW cmd \in Command, Push(cmd), UNCHANGED <<chan, live>>,
             \A id \in SubIds : handle'[id] = "new" => handle[id] = "new",
             cmd.op # "Subscribe"
      PROVE  Entries'
  <2> SUFFICES ASSUME NEW id \in SubIds
               PROVE  Entry(id, handle'[id], commands', live', chan'[id])
    BY DEF Entries
  <2>1. Entry(id, handle'[id], Append(commands, cmd), live, chan[id])
    BY <1>1, <1>2, AppendEntry DEF Entries
  <2> QED
    BY <1>2, <2>1 DEF Push
<1>3. ASSUME NEW id \in SubIds, Subscribe(id) PROVE Entries'
  <2> DEFINE cmd == Cmd("Subscribe", id, 0)
  <2>1. cmd \in Command /\ cmd.op = "Subscribe" /\ cmd.id = id
    BY CmdTypes DEF Cmd
  <2>2. /\ commands' = Append(commands, cmd)
        /\ handle[id] = "new" /\ handle' = [handle EXCEPT ![id] = "open"]
        /\ UNCHANGED <<chan, live>>
    BY <1>3 DEF Subscribe, Push
  <2> HIDE DEF cmd
  <2>3. Entry(id, "open", Append(commands, cmd), live, chan[id])
    BY <1>1, <2>1, <2>2, SubscribeEntry DEF Entries
  <2>4. ASSUME NEW other \in SubIds \ {id}
        PROVE  Entry(other, handle[other], Append(commands, cmd), live, chan[other])
    BY <1>1, <2>1, AppendEntry DEF Entries
  <2>5. handle'[id] = "open" /\ \A other \in SubIds \ {id} : handle'[other] = handle[other]
    BY <1>1, <2>2
  <2> QED
    BY <2>2, <2>3, <2>4, <2>5 DEF Entries
<1>4. ASSUME NEW id \in SubIds, CloseSubscription(id) \/ DropOpen(id) PROVE Entries'
  <2>1. UNCHANGED <<chan, live>> /\ \A other \in SubIds : handle'[other] = "new" => handle[other] = "new"
    BY <1>1, <1>4 DEF CloseSubscription, DropOpen
  <2>2. Push(Cmd("Unsubscribe", id, 0)) \/ UNCHANGED commands
    BY <1>4 DEF CloseSubscription, DropOpen
  <2> QED
    BY <1>2, <2>1, <2>2, CmdTypes, LessEntries DEF Cmd
<1>5. ASSUME NEW id \in SubIds,
             NoticeUnsubscribed(id) \/ DropUnsubscribed(id) \/ DropReceiver(id) \/ Receive(id)
      PROVE  Entries'
  <2>1. UNCHANGED <<commands, live>>
        /\ \A other \in SubIds : handle'[other] = "new" => handle[other] = "new"
    BY <1>1, <1>5 DEF NoticeUnsubscribed, DropUnsubscribed, DropReceiver, Receive
  <2>2. \A other \in SubIds : \/ chan'[other] \in {chan[other], <<>>}
                              \/ chan[other] # <<>> /\ chan'[other] = Tail(chan[other])
    BY <1>1, <1>5 DEF NoticeUnsubscribed, DropUnsubscribed, DropReceiver, Receive
  <2> QED
    BY <2>1, <2>2, LessEntries
<1>6. ASSUME NEW id \in SubIds, NEW max \in Counts, CloseAfter(id, max) PROVE Entries'
  <2>1. Cmd("Unsubscribe", id, max) \in Command
    BY CmdTypes, IdAssumption
  <2> QED
    BY <1>2, <1>6, <2>1 DEF CloseAfter, Cmd
<1>7. ASSUME NEW r \in Requests, Request(r) \/ DropRequest(r) PROVE Entries'
  BY <1>2, <1>7, CmdTypes, QuietEntries DEF Request, DropRequest, Cmd
<1>8. CASE Publish
  BY <1>2, <1>8, CmdTypes DEF Publish, Cmd
<1>9. ASSUME CloseClient \/ (\E r \in Requests : TakeReply(r) \/ DropReplyReceiver(r))
      PROVE  Entries'
  BY <1>9, QuietEntries DEF CloseClient, TakeReply, DropReplyReceiver
<1> QED
  BY <1>3, <1>4, <1>5, <1>6, <1>7, <1>8, <1>9 DEF ClientNext

\* The arms of receive_command.
LEMMA ReceiveEntries ==
    ASSUME TypeOK, Entries, ReceiveCommand PROVE Entries'
<1> USE DEF client, channel, subscriptions, mux, server, resume, control, app,
            tables, conn, handlerState, peers
<1> DEFINE cmd == Head(commands)
<1>1. /\ commands \in Seq(Command)
      /\ commands # <<>>
      /\ commands' = Tail(commands)
      /\ cmd \in Command
      /\ UNCHANGED <<handle, chan>>
  BY PopTypes
     DEF TypeOK, ConnTypeOK, ReceiveCommand, ReceivePublish, ReceiveRequest,
         ReceiveUnsubscribeMultiplexed, ReceiveSubscribe, ReceiveUnsubscribe, Pop
<1>2. \A id \in SubIds : ~(cmd.op = "Subscribe" /\ cmd.id = id) =>
                            (id \in live' => id \in live)
  BY DEF ReceiveCommand, ReceivePublish, ReceiveRequest,
         ReceiveUnsubscribeMultiplexed, ReceiveSubscribe, ReceiveUnsubscribe,
         Pop, Remove
<1> HIDE DEF cmd
<1>3. \A id \in SubIds : Entry(id, handle[id], Tail(commands), live', chan[id])
  BY <1>1, <1>2, TailEntry DEF Entries, cmd
<1> QED
  BY <1>1, <1>3 DEF Entries

\* handle_server_op: a delivery and the error of a refused subscription.
LEMMA ReadEntries ==
    ASSUME TypeOK, Entries, ReadNext PROVE Entries'
<1> USE DEF client, channel, subscriptions, mux, server, resume, control, app,
            tables, conn, handlerState, peers
<1>1. chan \in [SubIds -> Seq(Items)]
  BY DEF TypeOK, AppTypeOK, Items
<1>2. ASSUME NEW id \in SubIds, NEW item \in Items, id \in live,
             chan' = [chan EXCEPT ![id] = Append(@, item)],
             item = "err" => id \notin live',
             live' \subseteq live, UNCHANGED <<commands, handle>>
      PROVE  Entries'
  <2> DEFINE map == live'
  <2>1. map \subseteq live /\ (item = "err" => id \notin map)
    BY <1>2
  <2> HIDE DEF map
  <2>2. Entry(id, handle[id], commands, map, Append(chan[id], item))
    BY <1>1, <1>2, <2>1, DeliverEntry DEF Entries
  <2>3. \A other \in SubIds : Entry(other, handle[other], commands, map, chan[other])
    BY <2>1 DEF Entries, Entry
  <2>4. \A other \in SubIds : chan'[other] = IF other = id THEN Append(chan[id], item) ELSE chan[other]
    BY <1>1, <1>2
  <2> QED
    BY <1>2, <2>2, <2>3, <2>4 DEF Entries, map
<1>3. CASE ReadMessage
  <2>1. UNCHANGED <<commands, handle>> /\ live' \subseteq live
    BY <1>3 DEF ReadMessage, CountDown, Remove
  <2>2. \/ UNCHANGED chan
        \/ \E id \in SubIds : id \in live /\ chan' = [chan EXCEPT ![id] = Append(@, "msg")]
    BY <1>1, <1>3 DEF ReadMessage
  <2> QED
    BY <1>2, <2>1, <2>2, QuietEntries DEF Items
<1>4. CASE ReadError
  <2>1. UNCHANGED <<commands, handle>> /\ live' \subseteq live
    BY <1>4 DEF ReadError, SubscribeRefused, Remove
  <2>2. \/ UNCHANGED chan
        \/ \E id \in SubIds : /\ id \in live /\ id \notin live'
                              /\ chan' = [chan EXCEPT ![id] = Append(@, "err")]
    BY <1>4 DEF ReadError, SubscribeRefused, Remove
  <2> QED
    BY <1>2, <2>1, <2>2, QuietEntries DEF Items
<1>5. CASE ReadReply \/ ReadSuccess
  BY <1>5, QuietEntries DEF ReadReply, ReadSuccess
<1> QED
  BY <1>3, <1>4, <1>5 DEF ReadNext

\* No step of anyone breaks Entries.
LEMMA EntriesHold == Spec => []Entries
<1>1. Init => Entries
  BY DEF Init, Entries, Entry, Subs, At
<1>2. TypeOK /\ Entries /\ [Next]_vars => Entries'
  <2> SUFFICES ASSUME TypeOK, Entries, [Next]_vars PROVE Entries'
    OBVIOUS
  <2> USE DEF client, channel, subscriptions, mux, server, resume, control, app,
              tables, conn, handlerState, peers
  <2>1. CASE PollStep
    BY <2>1, QuietEntries
       DEF PollStep, BeginPoll, SweepMux, SweepSubscription, SweepDone,
           CheckShutdown, ReadDone, CommandsDrained, EndPoll, Remove
  <2>2. CASE Terminate
    <3>1. commands' = <<>> /\ live' = {} /\ UNCHANGED <<handle, chan>>
      BY <2>2 DEF Terminate
    <3>2. \A id : Subs(id, <<>>) = {}
      BY DEF Subs, At
    <3> QED
      BY <3>1, <3>2 DEF Entries, Entry
  <2>3. CASE Disconnect
    BY <2>3, QuietEntries DEF Disconnect
  <2>4. CASE ConnectNext
    BY <2>2, <2>4, QuietEntries
       DEF ConnectNext, ConnectLoad, ConnectStore, Resubscribe, ConnectDone,
           ShutdownWhileDown
  <2>5. CASE ServerNext
    BY <2>5, ServerFrame, QuietEntries
  <2>6. CASE UNCHANGED vars
    BY <2>6, QuietEntries DEF vars
  <2> QED
    BY <2>1, <2>2, <2>3, <2>4, <2>5, <2>6, ClientEntries, ReceiveEntries,
       ReadEntries DEF Next, Finish, Abort
<1> QED
  BY <1>1, <1>2, HandlerTypeOK, PTL DEF Spec

\* Nothing is delivered to a Subscription behind the error of its refused SUB
\* (handle_server_op's -ERR and MSG, receive_command, the reconnection).
THEOREM HandlerErrorEndsStream == Spec => []ErrorEndsStream
BY EntriesHold, EntriesImply, HandlerTypeOK, PTL

-----------------------------------------------------------------------------
(***************************************************************************)
(* NoServerLeak needs to know where the SUB of an id is.  On one           *)
(* connection it is sent once, and so it is in one place at most: on its   *)
(* way (Underway), granted (in srv), or refused, the refusal read or not;  *)
(* as long as it may still be sent (Unsent) it is nowhere.  A subscription *)
(* that counts down is one the server has been told to end, so the         *)
(* handler can forget it without another UNSUB.                            *)
(***************************************************************************)
Underway(id) == At("SUB", id, outbound)
Refusal(id, replies) == \E i \in 1..Len(replies) :
    replies[i].cmd.op = "SUB" /\ replies[i].cmd.id = id /\ replies[i].ok = FALSE
Refused(id) == id \in failedSub \/ Refusal(id, acks)
Unsent(id) ==
    \/ handle[id] = "new"
    \/ Subs(id, commands) # {}
    \/ pc \in {"down", "load"}
    \/ pc = "resub" /\ id \in todo
\* KeptByServer of the ops and of the subscriptions without a count.
Kept(id, ops, s) ==
    \/ \E i \in 1..Len(ops) :
         /\ ops[i].op = "SUB" /\ ops[i].id = id
         /\ \A j \in i + 1..Len(ops) : ops[j].id # id
    \/ id \in s /\ \A j \in 1..Len(ops) : ops[j].id # id
Holding(id) == Kept(id, outbound, srv \ srvAuto) => id \in live /\ remaining[id] = 0
Placed(id) ==
    /\ \A i, j \in Underway(id) : i = j
    /\ Underway(id) # {} => id \notin srv
    /\ Underway(id) # {} => ~Refused(id)
    /\ Refused(id) => id \notin srv
    /\ Unsent(id) => id \notin srv /\ ~Refused(id) /\ Underway(id) = {}
    /\ pc = "resub" /\ id \in todo => id \in live
Once == \A id \in SubIds : Holding(id) /\ Placed(id)

\* Another op is behind: of this id, it decides; of another, it does not.
LEMMA AppendKept ==
    ASSUME NEW ops \in Seq(ClientOp), NEW op \in ClientOp, NEW id, NEW s,
           Kept(id, Append(ops, op), s)
    PROVE  \/ op.op = "SUB" /\ op.id = id
           \/ op.id # id /\ Kept(id, ops, s)
<1> DEFINE longer == Append(ops, op)
<1>1. /\ Len(longer) = Len(ops) + 1
      /\ \A i \in 1..Len(ops) : longer[i] = ops[i]
      /\ longer[Len(ops) + 1] = op
      /\ Len(ops) \in Nat
  OBVIOUS
<1>2. Kept(id, longer, s)
  OBVIOUS
<1> HIDE DEF longer
<1>3. CASE \E i \in 1..Len(longer) :
             /\ longer[i].op = "SUB" /\ longer[i].id = id
             /\ \A j \in i + 1..Len(longer) : longer[j].id # id
  <2> PICK i \in 1..Len(longer) :
             /\ longer[i].op = "SUB" /\ longer[i].id = id
             /\ \A j \in i + 1..Len(longer) : longer[j].id # id
    BY <1>3
  <2>1. CASE i = Len(ops) + 1
    BY <1>1, <2>1
  <2>2. CASE i \in 1..Len(ops)
    <3>1. op.id # id
      BY <1>1, <2>2
    <3>2. ops[i].op = "SUB" /\ ops[i].id = id
      BY <1>1, <2>2
    <3>3. \A j \in i + 1..Len(ops) : ops[j].id # id
      BY <1>1, <2>2
    <3> QED
      BY <2>2, <3>1, <3>2, <3>3 DEF Kept
  <2> QED
    BY <1>1, <2>1, <2>2
<1>4. CASE id \in s /\ \A j \in 1..Len(longer) : longer[j].id # id
  BY <1>1, <1>4 DEF Kept
<1> QED
  BY <1>2, <1>3, <1>4 DEF Kept

\* The head is done with: what is kept now was, unless s has grown.
LEMMA TailKept ==
    ASSUME NEW ops \in Seq(ClientOp), ops # <<>>, NEW id, NEW s, NEW now,
           Kept(id, Tail(ops), now),
           id \in now =>
              \/ id \in s /\ Head(ops).id # id
              \/ Head(ops).op = "SUB" /\ Head(ops).id = id
    PROVE  Kept(id, ops, s)
<1> DEFINE rest == Tail(ops)
<1>1. /\ Len(ops) \in Nat \ {0}
      /\ Len(rest) = Len(ops) - 1
      /\ \A i \in 1..Len(rest) : rest[i] = ops[i + 1]
      /\ Head(ops) = ops[1]
  OBVIOUS
<1>2. Kept(id, rest, now)
  OBVIOUS
<1> HIDE DEF rest
<1>3. \A j \in 2..Len(ops) : j - 1 \in 1..Len(rest) /\ ops[j] = rest[j - 1]
  BY <1>1
<1>4. CASE \E i \in 1..Len(rest) :
             /\ rest[i].op = "SUB" /\ rest[i].id = id
             /\ \A j \in i + 1..Len(rest) : rest[j].id # id
  <2> PICK i \in 1..Len(rest) :
             /\ rest[i].op = "SUB" /\ rest[i].id = id
             /\ \A j \in i + 1..Len(rest) : rest[j].id # id
    BY <1>4
  <2>1. i + 1 \in 1..Len(ops) /\ ops[i + 1].op = "SUB" /\ ops[i + 1].id = id
    BY <1>1
  <2>2. ASSUME NEW j \in (i + 1) + 1..Len(ops) PROVE ops[j].id # id
    <3>1. j \in 2..Len(ops) /\ j - 1 \in i + 1..Len(rest)
      BY <1>1
    <3> QED
      BY <1>3, <3>1
  <2> QED
    BY <2>1, <2>2 DEF Kept
<1>5. CASE id \in now /\ \A j \in 1..Len(rest) : rest[j].id # id
  <2>1. \A j \in 2..Len(ops) : ops[j].id # id
    BY <1>3, <1>5
  <2>2. CASE id \in s /\ Head(ops).id # id
    <3>1. \A j \in 1..Len(ops) : j = 1 \/ j \in 2..Len(ops)
      BY <1>1
    <3> QED
      BY <1>1, <2>1, <2>2, <3>1 DEF Kept
  <2>3. CASE Head(ops).op = "SUB" /\ Head(ops).id = id
    BY <1>1, <2>1, <2>3 DEF Kept
  <2> QED
    BY <1>5, <2>2, <2>3
<1> QED
  BY <1>2, <1>4, <1>5 DEF Kept

\* Reading a reply loses a refusal at most, and a reply adds its own.
LEMMA TailRefusal ==
    ASSUME NEW S, NEW replies \in Seq(S), replies # <<>>, NEW id
    PROVE  /\ Refusal(id, Tail(replies)) => Refusal(id, replies)
           /\ /\ Head(replies).cmd.op = "SUB" /\ Head(replies).cmd.id = id
              /\ Head(replies).ok = FALSE
              => Refusal(id, replies)
<1> DEFINE rest == Tail(replies)
<1>1. /\ Len(replies) \in Nat \ {0}
      /\ Len(rest) = Len(replies) - 1
      /\ \A i \in 1..Len(rest) : i + 1 \in 1..Len(replies) /\ rest[i] = replies[i + 1]
      /\ Head(replies) = replies[1]
  OBVIOUS
<1> HIDE DEF rest
<1>2. Refusal(id, rest) => Refusal(id, replies)
  BY <1>1 DEF Refusal
<1> QED
  BY <1>1, <1>2 DEF Refusal, rest

LEMMA AppendRefusal ==
    ASSUME NEW S, NEW replies \in Seq(S), NEW reply \in S, NEW id,
           Refusal(id, Append(replies, reply))
    PROVE  \/ Refusal(id, replies)
           \/ reply.cmd.op = "SUB" /\ reply.cmd.id = id /\ reply.ok = FALSE
<1> DEFINE longer == Append(replies, reply)
<1>1. /\ Len(longer) = Len(replies) + 1
      /\ \A i \in 1..Len(replies) : longer[i] = replies[i]
      /\ longer[Len(replies) + 1] = reply
      /\ Len(replies) \in Nat
  OBVIOUS
<1>2. Refusal(id, longer)
  OBVIOUS
<1> HIDE DEF longer
<1> QED
  BY <1>1, <1>2 DEF Refusal

\* An op that is not the SUB of the id moves nothing of its.
LEMMA AppendOther ==
    ASSUME NEW ops \in Seq(ClientOp), NEW op \in ClientOp, NEW id, NEW s,
           ~(op.op = "SUB" /\ op.id = id)
    PROVE  /\ At("SUB", id, Append(ops, op)) = At("SUB", id, ops)
           /\ Kept(id, Append(ops, op), s) => op.id # id /\ Kept(id, ops, s)
<1>1. At("SUB", id, Append(ops, op)) =
        At("SUB", id, ops)
          \cup (IF op.op = "SUB" /\ op.id = id THEN {Len(ops) + 1} ELSE {})
  BY AtOfAppend
<1>2. At("SUB", id, Append(ops, op)) = At("SUB", id, ops)
  BY <1>1
<1> QED
  BY <1>2, AppendKept

\* The one SUB of an id.
LEMMA AppendSub ==
    ASSUME NEW ops \in Seq(ClientOp), NEW op \in ClientOp, NEW id,
           op.op = "SUB", op.id = id, At("SUB", id, ops) = {}
    PROVE  \A i, j \in At("SUB", id, Append(ops, op)) : i = j
<1>1. At("SUB", id, Append(ops, op)) =
        At("SUB", id, ops)
          \cup (IF op.op = "SUB" /\ op.id = id THEN {Len(ops) + 1} ELSE {})
  BY AtOfAppend
<1> QED
  BY <1>1

\* A subscription whose SUB is nowhere, or was refused, is not kept.
LEMMA NotKept ==
    ASSUME NEW id, NEW s, id \notin s, Underway(id) = {}
    PROVE  ~Kept(id, outbound, s)
BY DEF Kept, Underway, At

LEMMA RefusedNotKept ==
    ASSUME NEW id \in SubIds, Placed(id), Refused(id)
    PROVE  ~Kept(id, outbound, srv \ srvAuto)
BY NotKept DEF Placed

\* A step after which the SUB of an id is where it was, or gone.
LEMMA LessPlaced ==
    ASSUME NEW id \in SubIds, Placed(id),
           \A i, j \in Underway(id)' : i = j,
           Underway(id)' # {} => Underway(id) # {},
           id \in srv' => id \in srv,
           Refused(id)' => Refused(id),
           Unsent(id)' => Unsent(id),
           pc' = "resub" /\ id \in todo' => id \in live'
    PROVE  Placed(id)'
BY DEF Placed

\* A step that sends nothing, outside of a reconnection.
LEMMA QuietOnce ==
    ASSUME Once, UNCHANGED <<outbound, srv, srvAuto>>,
           \A id \in SubIds :
                /\ Refused(id)' => Refused(id)
                /\ Unsent(id)' => Unsent(id)
                /\ pc' = "resub" /\ id \in todo' => id \in live'
                /\ \/ id \in live /\ remaining[id] = 0 => id \in live' /\ remaining'[id] = 0
                   \/ ~Kept(id, outbound, srv \ srvAuto)
    PROVE  Once'
<1> SUFFICES ASSUME NEW id \in SubIds PROVE Holding(id)' /\ Placed(id)'
  BY DEF Once
<1>1. Holding(id) /\ Placed(id)
  BY DEF Once
<1>2. Underway(id)' = Underway(id)
  BY DEF Underway
<1>3. Placed(id)'
  <2>1. \A i, j \in Underway(id) : i = j
    BY <1>1 DEF Placed
  <2> QED
    BY <1>1, <1>2, <2>1, LessPlaced
<1>4. Holding(id)'
  BY <1>1 DEF Holding
<1> QED
  BY <1>3, <1>4

\* A step that sends an op other than a SUB, outside of a reconnection.
LEMMA SendOnce ==
    ASSUME TypeOK, Once, NEW op \in ClientOp, op.op # "SUB",
           outbound' = Append(outbound, op), UNCHANGED <<srv, srvAuto>>,
           \A id \in SubIds :
                /\ Refused(id)' => Refused(id)
                /\ Unsent(id)' => Unsent(id)
                /\ pc' = "resub" /\ id \in todo' => id \in live'
                /\ op.id # id =>
                     (id \in live /\ remaining[id] = 0 => id \in live' /\ remaining'[id] = 0)
    PROVE  Once'
<1> SUFFICES ASSUME NEW id \in SubIds PROVE Holding(id)' /\ Placed(id)'
  BY DEF Once
<1>1. Holding(id) /\ Placed(id) /\ outbound \in Seq(ClientOp)
  BY DEF Once, TypeOK, ConnTypeOK
<1>2. /\ At("SUB", id, Append(outbound, op)) = At("SUB", id, outbound)
      /\ Kept(id, Append(outbound, op), srv \ srvAuto) =>
            op.id # id /\ Kept(id, outbound, srv \ srvAuto)
  BY <1>1, AppendOther
<1>3. Placed(id)'
  <2>1. Underway(id)' = Underway(id)
    BY <1>2 DEF Underway
  <2>2. \A i, j \in Underway(id) : i = j
    BY <1>1 DEF Placed
  <2> QED
    BY <1>1, <2>1, <2>2, LessPlaced
<1>4. Holding(id)'
  BY <1>1, <1>2 DEF Holding
<1> QED
  BY <1>3, <1>4

\* The SUB of an id that was nowhere.
LEMMA SubscribeOnce ==
    ASSUME TypeOK, Once, NEW id \in SubIds, Unsent(id), ~Unsent(id)',
           outbound' = Append(outbound, Op("SUB", id, 0)), UNCHANGED <<srv, srvAuto, acks>>,
           failedSub' \subseteq failedSub, id \in live', remaining'[id] = 0,
           pc' = "resub" => id \notin todo'
    PROVE  Holding(id)' /\ Placed(id)'
<1>1. Placed(id) /\ outbound \in Seq(ClientOp)
  BY DEF Once, TypeOK, ConnTypeOK
<1>2. Op("SUB", id, 0) \in ClientOp /\ Op("SUB", id, 0).op = "SUB" /\ Op("SUB", id, 0).id = id
  BY OpTypes DEF Op
<1>3. id \notin srv /\ ~Refused(id) /\ Underway(id) = {}
  BY <1>1 DEF Placed
<1>4. \A i, j \in At("SUB", id, Append(outbound, Op("SUB", id, 0))) : i = j
  BY <1>1, <1>2, <1>3, AppendSub DEF Underway
<1>5. \A i, j \in Underway(id)' : i = j
  BY <1>4 DEF Underway
<1>6. ~Refused(id)' /\ id \notin srv'
  BY <1>3 DEF Refused
<1> QED
  BY <1>5, <1>6 DEF Placed, Holding

\* A step that leaves the connection's ids to be sent alone.
LEMMA SameUnsent ==
    ASSUME UNCHANGED commands, NEW id \in SubIds,
           handle'[id] = "new" => handle[id] = "new",
           pc' \notin {"down", "load", "resub"}
    PROVE  Unsent(id)' => Unsent(id)
BY DEF Unsent

LEMMA SameRefused ==
    ASSUME UNCHANGED acks, failedSub' \subseteq failedSub, NEW id \in SubIds
    PROVE  Refused(id)' => Refused(id)
BY DEF Refused

\* The application's steps.
LEMMA ClientOnce ==
    ASSUME TypeOK, Once, ClientNext PROVE Once'
<1> USE DEF client, channel, subscriptions, mux, server, resume, control, app,
            tables, conn, handlerState, peers
<1>1. /\ commands \in Seq(Command)
      /\ handle \in [SubIds -> {"new", "open", "unsub", "dropping", "dropped",
                                "losing", "lost"}]
  BY DEF TypeOK, ConnTypeOK, AppTypeOK
<1>2. UNCHANGED <<pc, todo, live, remaining, failedSub, outbound, acks, srv, srvAuto>>
  BY DEF ClientNext, Subscribe, CloseSubscription, NoticeUnsubscribed,
         DropUnsubscribed, DropOpen, DropReceiver, Receive, CloseAfter, Request,
         TakeReply, DropRequest, DropReplyReceiver, Publish, CloseClient
<1>3. ASSUME NEW cmd \in Command, Push(cmd), NEW id \in SubIds,
             handle'[id] = "new" => handle[id] = "new",
             cmd.op = "Subscribe" /\ cmd.id = id => handle[id] = "new"
      PROVE  Unsent(id)' => Unsent(id)
  <2>1. Subs(id, Append(commands, cmd)) =
          Subs(id, commands)
            \cup (IF cmd.op = "Subscribe" /\ cmd.id = id THEN {Len(commands) + 1} ELSE {})
    BY <1>1, AtOfAppend DEF Subs
  <2> QED
    BY <1>2, <1>3, <2>1 DEF Unsent, Push
<1>4. ASSUME \A id \in SubIds : Unsent(id)' => Unsent(id) PROVE Once'
  <2>1. \A id \in SubIds : pc' = "resub" /\ id \in todo' => id \in live'
    BY <1>2 DEF Once, Placed
  <2>2. \A id \in SubIds : Refused(id)' => Refused(id)
    BY <1>2, SameRefused
  <2> QED
    BY <1>2, <1>4, <2>1, <2>2, QuietOnce
<1>5. ASSUME UNCHANGED commands,
             \A id \in SubIds : handle'[id] = "new" => handle[id] = "new"
      PROVE  Once'
  BY <1>2, <1>4, <1>5 DEF Unsent
<1>6. ASSUME NEW id \in SubIds, Subscribe(id) PROVE Once'
  <2> DEFINE cmd == Cmd("Subscribe", id, 0)
  <2>1. cmd \in Command /\ cmd.id = id
    BY CmdTypes DEF Cmd
  <2>2. Push(cmd) /\ handle[id] = "new" /\ handle' = [handle EXCEPT ![id] = "open"]
    BY <1>6 DEF Subscribe
  <2>3. \A other \in SubIds : handle'[other] = "new" => handle[other] = "new"
    BY <1>1, <2>2
  <2> HIDE DEF cmd
  <2> QED
    BY <1>3, <1>4, <2>1, <2>2, <2>3
<1>7. ASSUME NEW cmd \in Command, Push(cmd), cmd.op # "Subscribe",
             \A id \in SubIds : handle'[id] = "new" => handle[id] = "new"
      PROVE  Once'
  BY <1>3, <1>4, <1>7
<1>8. ASSUME NEW id \in SubIds, CloseSubscription(id) \/ DropOpen(id) PROVE Once'
  <2>1. \A other \in SubIds : handle'[other] = "new" => handle[other] = "new"
    BY <1>1, <1>8 DEF CloseSubscription, DropOpen
  <2>2. Push(Cmd("Unsubscribe", id, 0)) \/ UNCHANGED commands
    BY <1>8 DEF CloseSubscription, DropOpen
  <2> QED
    BY <1>5, <1>7, <2>1, <2>2, CmdTypes DEF Cmd
<1>9. ASSUME NEW id \in SubIds,
             NoticeUnsubscribed(id) \/ DropUnsubscribed(id) \/ DropReceiver(id) \/ Receive(id)
      PROVE  Once'
  BY <1>1, <1>5, <1>9 DEF NoticeUnsubscribed, DropUnsubscribed, DropReceiver, Receive
<1>10. ASSUME NEW id \in SubIds, NEW max \in Counts, CloseAfter(id, max) PROVE Once'
  <2>1. Cmd("Unsubscribe", id, max) \in Command
    BY CmdTypes, IdAssumption
  <2> QED
    BY <1>7, <1>10, <2>1 DEF CloseAfter, Cmd
<1>11. ASSUME NEW r \in Requests, Request(r) \/ DropRequest(r) PROVE Once'
  BY <1>5, <1>7, <1>11, CmdTypes DEF Request, DropRequest, Cmd
<1>12. CASE Publish
  BY <1>7, <1>12, CmdTypes DEF Publish, Cmd
<1>13. ASSUME CloseClient \/ (\E r \in Requests : TakeReply(r) \/ DropReplyReceiver(r))
       PROVE  Once'
  BY <1>5, <1>13 DEF CloseClient, TakeReply, DropReplyReceiver
<1> QED
  BY <1>6, <1>8, <1>9, <1>10, <1>11, <1>12, <1>13 DEF ClientNext

\* The stages of poll: the sweep forgets what was refused and unsubscribes
\* what was dropped.
LEMMA PollOnce ==
    ASSUME TypeOK, Once, PollStep PROVE Once'
<1> USE DEF client, channel, subscriptions, mux, server, resume, control, app,
            tables, conn, handlerState, peers
<1>1. /\ UNCHANGED <<commands, handle, acks, srv, srvAuto>>
      /\ pc' \notin {"down", "load", "resub"}
      /\ failedSub' \subseteq failedSub
  BY DEF PollStep, BeginPoll, SweepMux, SweepSubscription, SweepDone,
         CheckShutdown, ReadDone, CommandsDrained, EndPoll, Remove
<1>2. \A id \in SubIds : (Unsent(id)' => Unsent(id)) /\ (Refused(id)' => Refused(id))
  BY <1>1, SameUnsent, SameRefused
<1>3. ASSUME UNCHANGED <<outbound, live, remaining>> PROVE Once'
  BY <1>1, <1>2, <1>3, QuietOnce
<1>4. ASSUME NEW id \in SubIds, SweepSubscription(id) PROVE Once'
  <2>1. \A other \in SubIds \ {id} :
            other \in live /\ remaining[other] = 0 => other \in live' /\ remaining'[other] = 0
    BY <1>4 DEF SweepSubscription, Remove, TypeOK, TableTypeOK
  <2>2. CASE id \in failedSub
    <3>1. UNCHANGED outbound
      BY <1>4, <2>2 DEF SweepSubscription
    <3>2. ~Kept(id, outbound, srv \ srvAuto)
      BY <2>2, RefusedNotKept DEF Once, Refused
    <3> QED
      BY <1>1, <1>2, <2>1, <3>1, <3>2, QuietOnce
  <2>3. CASE id \notin failedSub /\ ChanClosed(id)
    <3> DEFINE op == Op("UNSUB", id, 0)
    <3>1. op \in ClientOp /\ op.op # "SUB" /\ op.id = id
      BY OpTypes DEF Op
    <3>2. outbound' = Append(outbound, op)
      BY <1>4, <2>3 DEF SweepSubscription, Send
    <3> HIDE DEF op
    <3> QED
      BY <1>1, <1>2, <2>1, <3>1, <3>2, SendOnce
  <2>4. CASE id \notin failedSub /\ ~ChanClosed(id)
    BY <1>3, <1>4, <2>4 DEF SweepSubscription
  <2> QED
    BY <2>2, <2>3, <2>4
<1> QED
  BY <1>3, <1>4
     DEF PollStep, BeginPoll, SweepMux, SweepDone, CheckShutdown, ReadDone,
         CommandsDrained, EndPoll

\* handle_server_op: the last message of a countdown, an UNSUB for a receiver
\* that is gone, and a refusal, which is that of the tracked subscription.
LEMMA ReadOnce ==
    ASSUME TypeOK, AckAlignment, Once, ReadNext PROVE Once'
<1> USE DEF client, channel, subscriptions, mux, server, resume, control, app,
            tables, conn, handlerState, peers
<1>1. /\ UNCHANGED <<commands, handle, srv, srvAuto>>
      /\ pc = "read" /\ UNCHANGED pc
  BY DEF ReadNext, ReadReply, ReadMessage, ReadSuccess, ReadError
<1>2. \A id \in SubIds : Unsent(id)' => Unsent(id)
  BY <1>1, SameUnsent
<1>3. live \subseteq SubIds /\ remaining \in [SubIds -> Nat]
  BY DEF TypeOK, TableTypeOK
<1>4. CASE ReadReply
  <2>1. UNCHANGED <<outbound, acks, live, remaining, failedSub>>
    BY <1>4 DEF ReadReply
  <2> QED
    BY <1>1, <1>2, <2>1, SameRefused, QuietOnce
<1>5. CASE ReadMessage
  <2>1. UNCHANGED acks /\ failedSub' \subseteq failedSub
    BY <1>5 DEF ReadMessage, CountDown, Remove
  <2>2. \A id \in SubIds : Refused(id)' => Refused(id)
    BY <2>1, SameRefused
  <2>3. ASSUME NEW id \in SubIds, CountDown(id), UNCHANGED outbound PROVE Once'
    <3>1. \A other \in SubIds :
            other \in live /\ remaining[other] = 0 => other \in live' /\ remaining'[other] = 0
      BY <1>3, <2>3 DEF CountDown, Remove
    <3> QED
      BY <1>1, <1>2, <2>2, <2>3, <3>1, QuietOnce
  <2>4. ASSUME NEW id \in SubIds, Send(Op("UNSUB", id, 0)), UNCHANGED <<live, remaining>>
        PROVE  Once'
    <3> DEFINE op == Op("UNSUB", id, 0)
    <3>1. op \in ClientOp /\ op.op # "SUB"
      BY OpTypes DEF Op
    <3>2. outbound' = Append(outbound, op)
      BY <2>4 DEF Send
    <3> HIDE DEF op
    <3> QED
      BY <1>1, <1>2, <2>2, <2>4, <3>1, <3>2, SendOnce
  <2>5. ASSUME UNCHANGED <<live, remaining, outbound>> PROVE Once'
    BY <1>1, <1>2, <2>2, <2>5, QuietOnce
  <2> QED
    BY <1>5, <2>3, <2>4, <2>5 DEF ReadMessage
<1>6. CASE ReadSuccess
  <2>1. /\ UNCHANGED <<outbound, live, remaining, failedSub>>
        /\ acks # <<>> /\ acks' = Tail(acks)
    BY <1>6 DEF ReadSuccess
  <2>2. acks \in Seq([cmd : ClientOp, ok : BOOLEAN])
    BY DEF TypeOK, ConnTypeOK
  <2>3. \A id \in SubIds : Refusal(id, Tail(acks)) => Refusal(id, acks)
    BY <2>1, <2>2, TailRefusal
  <2>4. \A id \in SubIds : Refused(id)' => Refused(id)
    BY <2>1, <2>3 DEF Refused
  <2> QED
    BY <1>1, <1>2, <2>1, <2>4, QuietOnce
<1>7. CASE ReadError
  <2>1. /\ UNCHANGED outbound
        /\ acks # <<>> /\ acks' = Tail(acks) /\ in_flight # <<>>
        /\ ~Head(acks).ok
    BY <1>7 DEF ReadError
  <2>2. acks \in Seq([cmd : ClientOp, ok : BOOLEAN]) /\ in_flight \in Seq(Tracks)
    BY DEF TypeOK, ConnTypeOK, Tracks
  <2>3. /\ \A id \in SubIds : Refusal(id, Tail(acks)) => Refusal(id, acks)
        /\ \A id \in SubIds : /\ Head(acks).cmd.op = "SUB" /\ Head(acks).cmd.id = id
                              /\ Head(acks).ok = FALSE
                              => Refusal(id, acks)
    BY <2>1, <2>2, TailRefusal
  <2>4. CASE Head(in_flight) \notin SubIds
    <3>1. UNCHANGED <<live, remaining, failedSub>>
      BY <1>7, <2>4 DEF ReadError
    <3>2. \A id \in SubIds : Refused(id)' => Refused(id)
      BY <2>1, <2>3, <3>1 DEF Refused
    <3> QED
      BY <1>1, <1>2, <2>1, <3>1, <3>2, QuietOnce
  <2>5. ASSUME NEW id \in SubIds, Head(in_flight) = id PROVE Once'
    <3>1. Head(acks).ok = FALSE
      <4> DEFINE Replies == [cmd : ClientOp, ok : BOOLEAN]
      <4>1. acks \in Seq(Replies)
        BY <2>2
      <4> HIDE DEF Replies
      <4>3. Head(acks) \in Replies
        BY <2>1, <4>1
      <4>2. Head(acks).ok \in BOOLEAN
        BY <4>3 DEF Replies
      <4> QED
        BY <2>1, <4>2, Zenon
    <3>2. Head(in_flight) = Tracked(Head(acks).cmd)
      <4>1. in_flight[1] = Tracked(acks[1].cmd)
        BY <2>1, <2>2 DEF AckAlignment, Aligned
      <4> QED
        BY <2>1, <2>2, <4>1
    <3>3. Head(acks).cmd.op = "SUB" /\ Head(acks).cmd.id = id
      BY <2>5, <3>2, IdAssumption DEF Tracked
    <3>4. Refused(id)
      BY <2>3, <3>1, <3>3 DEF Refused
    <3>5. ~Kept(id, outbound, srv \ srvAuto)
      BY <3>4, RefusedNotKept DEF Once
    <3>6. SubscribeRefused(id)
      BY <1>7, <2>5 DEF ReadError
    <3>7. \A other \in SubIds \ {id} :
            other \in live /\ remaining[other] = 0 => other \in live' /\ remaining'[other] = 0
      BY <1>3, <3>6 DEF SubscribeRefused, Remove
    <3>8. failedSub' \subseteq failedSub \cup {id}
      BY <3>6 DEF SubscribeRefused, Remove
    <3>9. \A other \in SubIds : Refused(other)' => Refused(other)
      BY <2>1, <2>3, <3>4, <3>8 DEF Refused
    <3> QED
      BY <1>1, <1>2, <2>1, <3>5, <3>7, <3>9, QuietOnce
  <2> QED
    BY <2>4, <2>5
<1> QED
  BY <1>4, <1>5, <1>6, <1>7 DEF ReadNext

\* receive_command: the Subscribe of an id is the only one, and every other
\* arm that forgets an id unsubscribes it.
LEMMA ReceiveOnce ==
    ASSUME TypeOK, Entries, Once, ReceiveCommand PROVE Once'
<1> USE DEF client, channel, subscriptions, mux, server, resume, control, app,
            tables, conn, handlerState, peers
<1> DEFINE cmd == Head(commands)
<1>1. /\ commands \in Seq(Command) /\ commands # <<>>
      /\ commands' = Tail(commands)
      /\ cmd \in Command
      /\ UNCHANGED <<handle, acks, srv, srvAuto>>
      /\ pc = "cmd" /\ UNCHANGED pc
  BY PopTypes
     DEF TypeOK, ConnTypeOK, ReceiveCommand, ReceivePublish, ReceiveRequest,
         ReceiveUnsubscribeMultiplexed, ReceiveSubscribe, ReceiveUnsubscribe, Pop
<1>2. ASSUME NEW id \in SubIds
      PROVE  /\ Unsent(id)' => Unsent(id)
             /\ cmd.op = "Subscribe" /\ cmd.id = id => Unsent(id) /\ ~Unsent(id)'
  <2>1. /\ \A i, j \in Subs(id, commands) : i = j
        /\ handle[id] = "new" => Subs(id, commands) = {}
    BY DEF Entries, Entry
  <2>2. /\ Subs(id, commands) = {} => Subs(id, Tail(commands)) = {}
        /\ cmd.op = "Subscribe" /\ cmd.id = id =>
             Subs(id, Tail(commands)) = {} /\ Subs(id, commands) # {}
    BY <1>1, <2>1, OnceInTail, AtOfTail DEF Subs
  <2> HIDE DEF cmd
  <2> QED
    BY <1>1, <2>1, <2>2 DEF Unsent
<1> HIDE DEF cmd
<1>3. live \subseteq SubIds /\ remaining \in [SubIds -> Nat] /\ outbound \in Seq(ClientOp)
  BY DEF TypeOK, TableTypeOK, ConnTypeOK
<1>4. ASSUME NEW op \in ClientOp, op.op # "SUB", outbound' = Append(outbound, op),
             failedSub' \subseteq failedSub,
             \A id \in SubIds : op.id # id =>
                (id \in live /\ remaining[id] = 0 => id \in live' /\ remaining'[id] = 0)
      PROVE  Once'
  BY <1>1, <1>2, <1>4, SameRefused, SendOnce
<1>5. CASE ReceivePublish
  <2>1. Op("PUB", None, 0) \in ClientOp /\ Op("PUB", None, 0).op # "SUB"
    BY OpTypes DEF Op
  <2> QED
    BY <1>4, <1>5, <2>1 DEF ReceivePublish, Send
<1>6. CASE ReceiveRequest
  <2> DEFINE pub == Op("PUB", cmd.id, 0)
             sub == InboxSub
  <2>1. /\ pub \in ClientOp /\ pub.op # "SUB"
        /\ sub \in ClientOp /\ \A id \in SubIds : sub.id # id
    <3>1. cmd.id \in Requests
      BY <1>1, <1>6, CommandFields DEF ReceiveRequest, Pop, cmd
    <3> QED
      BY <3>1, OpTypes, IdAssumption DEF Op, InboxSub
  <2>2. /\ UNCHANGED <<live, remaining, failedSub>>
        /\ \/ outbound' = Append(outbound, pub)
           \/ outbound' = Append(Append(outbound, sub), pub)
    BY <1>6 DEF ReceiveRequest, Send, SendTwo, cmd
  <2> HIDE DEF pub, sub
  <2>3. CASE outbound' = Append(outbound, pub)
    BY <1>4, <2>1, <2>2, <2>3
  <2>4. CASE outbound' = Append(Append(outbound, sub), pub)
    <3> SUFFICES ASSUME NEW id \in SubIds PROVE Holding(id)' /\ Placed(id)'
      BY DEF Once
    <3>1. Append(outbound, sub) \in Seq(ClientOp)
      BY <1>3, <2>1
    <3>2. /\ At("SUB", id, Append(outbound, sub)) = At("SUB", id, outbound)
          /\ Kept(id, Append(outbound, sub), srv \ srvAuto) =>
                Kept(id, outbound, srv \ srvAuto)
      BY <1>3, <2>1, AppendOther
    <3>3. /\ At("SUB", id, outbound') = At("SUB", id, outbound)
          /\ Kept(id, outbound', srv \ srvAuto) => Kept(id, outbound, srv \ srvAuto)
      BY <2>1, <2>4, <3>1, <3>2, AppendOther
    <3>4. Underway(id)' = Underway(id)
      BY <3>3 DEF Underway
    <3>5. Holding(id) /\ Placed(id) /\ \A i, j \in Underway(id) : i = j
      BY DEF Once, Placed
    <3>6. Placed(id)'
      BY <1>1, <1>2, <2>2, <3>4, <3>5, SameRefused, LessPlaced
    <3> QED
      BY <1>1, <2>2, <3>3, <3>5, <3>6 DEF Holding
  <2> QED
    BY <2>2, <2>3, <2>4
<1>7. CASE ReceiveUnsubscribeMultiplexed
  <2>1. UNCHANGED <<outbound, live, remaining, failedSub>>
    BY <1>7 DEF ReceiveUnsubscribeMultiplexed
  <2> QED
    BY <1>1, <1>2, <2>1, SameRefused, QuietOnce
<1>8. CASE ReceiveSubscribe
  <2>0. cmd.id \in SubIds /\ cmd.op = "Subscribe"
    BY <1>1, <1>8, CommandFields DEF ReceiveSubscribe, Pop, cmd
  <2>1. PICK id \in SubIds : cmd.id = id
    BY <2>0
  <2> DEFINE sub == Op("SUB", id, 0)
  <2>2. /\ outbound' = Append(outbound, sub)
        /\ live' = live \cup {id}
        /\ remaining' = [remaining EXCEPT ![id] = 0]
        /\ failedSub' \subseteq failedSub
    BY <1>8, <2>1 DEF ReceiveSubscribe, Send, cmd
  <2>3. sub \in ClientOp /\ sub.id = id
    BY <2>1, OpTypes DEF Op
  <2>4. Unsent(id) /\ ~Unsent(id)'
    BY <1>2, <2>0, <2>1
  <2>5. Holding(id)' /\ Placed(id)'
    <3>1. id \in live' /\ remaining'[id] = 0
      BY <1>3, <2>2
    <3> QED
      BY <1>1, <2>2, <2>4, <3>1, SubscribeOnce
  <2> HIDE DEF sub
  <2>6. ASSUME NEW other \in SubIds, other # id PROVE Holding(other)' /\ Placed(other)'
    <3>1. /\ At("SUB", other, outbound') = At("SUB", other, outbound)
          /\ Kept(other, outbound', srv \ srvAuto) => Kept(other, outbound, srv \ srvAuto)
      BY <1>3, <2>2, <2>3, <2>6, AppendOther
    <3>2. Underway(other)' = Underway(other)
      BY <3>1 DEF Underway
    <3>3. Holding(other) /\ Placed(other) /\ \A i, j \in Underway(other) : i = j
      BY DEF Once, Placed
    <3>4. Placed(other)'
      BY <1>1, <1>2, <2>2, <3>2, <3>3, SameRefused, LessPlaced
    <3> QED
      BY <1>1, <1>3, <2>2, <2>6, <3>1, <3>3, <3>4 DEF Holding
  <2> QED
    BY <2>5, <2>6 DEF Once
<1>9. CASE ReceiveUnsubscribe
  <2> DEFINE id == cmd.id
             op == Op("UNSUB", id, cmd.max)
  <2>1. id \in SubIds /\ cmd.max \in Nat
    BY <1>1, <1>9, CommandFields DEF ReceiveUnsubscribe, Pop, cmd
  <2>2. op \in ClientOp /\ op.op # "SUB" /\ op.id = id
    BY <2>1, OpTypes DEF Op
  <2>3. failedSub' \subseteq failedSub
    BY <1>9 DEF ReceiveUnsubscribe, Remove, cmd
  <2>4. \A other \in SubIds : other # id =>
            (other \in live /\ remaining[other] = 0 => other \in live' /\ remaining'[other] = 0)
    BY <1>3, <1>9, <2>1 DEF ReceiveUnsubscribe, Remove, cmd
  <2>5. CASE id \notin live
    <3>1. UNCHANGED <<live, remaining, outbound>>
      BY <1>9, <2>5 DEF ReceiveUnsubscribe, cmd
    <3> QED
      BY <1>1, <1>2, <2>3, <3>1, SameRefused, QuietOnce
  <2>6. CASE id \in live
    <3>1. outbound' = Append(outbound, op)
      <4>1. CASE cmd.max > 0
        BY <1>9, <2>6, <4>1 DEF ReceiveUnsubscribe, Send, cmd
      <4>2. CASE cmd.max = 0
        BY <1>9, <2>6, <4>2 DEF ReceiveUnsubscribe, Send, cmd
      <4> QED
        BY <2>1, <4>1, <4>2
    <3> HIDE DEF op, id
    <3> QED
      BY <1>4, <2>2, <2>3, <2>4, <3>1
  <2> QED
    BY <2>5, <2>6
<1> QED
  BY <1>5, <1>6, <1>7, <1>8, <1>9 DEF ReceiveCommand

\* A connection that is lost, or a task that ends, leaves nothing anywhere.
LEMMA LostOnce ==
    ASSUME LoseConnection, failedSub' = {}, pc' # "resub" PROVE Once'
<1>1. \A id : Underway(id)' = {} /\ ~Refusal(id, acks)'
  BY DEF LoseConnection, Underway, At, Refusal
<1>2. \A id : ~Kept(id, outbound', {})
  BY DEF LoseConnection, Kept
<1>3. srv' = {} /\ srvAuto' = {}
  BY DEF LoseConnection
<1>4. \A id : ~Refused(id)'
  BY <1>1 DEF Refused
<1>5. \A id : Placed(id)'
  BY <1>1, <1>3, <1>4 DEF Placed
<1> QED
  BY <1>2, <1>3, <1>5 DEF Once, Holding

\* The reconnection subscribes again to what is in the map, and tells the
\* server what is left of a countdown right behind.
LEMMA ConnectOnce ==
    ASSUME TypeOK, Entries, Once, ConnectNext PROVE Once'
<1> USE DEF client, channel, subscriptions, mux, server, resume, control, app,
            tables, conn, handlerState, peers
<1>1. CASE ShutdownWhileDown
  BY <1>1, LostOnce DEF ShutdownWhileDown, Terminate
<1>2. CASE ConnectLoad \/ ConnectStore \/ ConnectDone
  <2>1. UNCHANGED <<outbound, acks, srv, srvAuto, live, remaining, failedSub, commands, handle>>
    BY <1>2 DEF ConnectLoad, ConnectStore, ConnectDone
  <2>2. \A id \in SubIds : Unsent(id)' => Unsent(id)
    BY <1>2, <2>1 DEF ConnectLoad, ConnectStore, ConnectDone, Unsent
  <2>3. \A id \in SubIds : pc' = "resub" /\ id \in todo' => id \in live'
    BY <1>2, <2>1 DEF ConnectLoad, ConnectStore, ConnectDone
  <2> QED
    BY <2>1, <2>2, <2>3, SameRefused, QuietOnce
<1>3. ASSUME NEW id \in SubIds, Resubscribe(id) PROVE Once'
  <2> DEFINE sub == Op("SUB", id, 0)
             unsub == Op("UNSUB", id, remaining[id])
  <2>1. /\ UNCHANGED <<acks, srv, srvAuto, live, remaining, failedSub, commands, handle>>
        /\ pc = "resub" /\ UNCHANGED pc
        /\ id \in todo /\ todo' = todo \ {id}
    BY <1>3 DEF Resubscribe, IsLeast
  <2>2. outbound \in Seq(ClientOp) /\ remaining[id] \in Nat
    BY DEF TypeOK, ConnTypeOK, TableTypeOK
  <2>3. \/ remaining[id] = 0 /\ outbound' = Append(outbound, sub)
        \/ remaining[id] # 0 /\ outbound' = Append(Append(outbound, sub), unsub)
    BY <1>3 DEF Resubscribe, Send, SendTwo
  <2>4. /\ sub \in ClientOp /\ sub.id = id /\ sub.op = "SUB"
        /\ unsub \in ClientOp /\ unsub.id = id /\ unsub.op = "UNSUB"
    BY <2>2, OpTypes DEF Op
  <2>5. Unsent(id) /\ id \in live
    BY <2>1 DEF Unsent, Once, Placed
  <2>6. ~Unsent(id)'
    <3>1. handle[id] # "new" /\ Subs(id, commands) = {}
      BY <2>5 DEF Entries, Entry
    <3> QED
      BY <2>1, <3>1 DEF Unsent
  <2>7. CASE remaining[id] = 0
    <3>1. outbound' = Append(outbound, Op("SUB", id, 0))
      BY <2>3, <2>7
    <3> QED
      <4> HIDE DEF sub, unsub
      <4>1. Holding(id)' /\ Placed(id)'
        BY <2>1, <2>5, <2>6, <2>7, <3>1, SubscribeOnce
      <4>2. ASSUME NEW other \in SubIds, other # id PROVE Holding(other)' /\ Placed(other)'
        <5>1. /\ At("SUB", other, outbound') = At("SUB", other, outbound)
              /\ Kept(other, outbound', srv \ srvAuto) => Kept(other, outbound, srv \ srvAuto)
          BY <2>2, <2>4, <3>1, <4>2, AppendOther DEF sub
        <5>2. Underway(other)' = Underway(other)
          BY <5>1 DEF Underway
        <5>3. Holding(other) /\ Placed(other) /\ \A i, j \in Underway(other) : i = j
          BY DEF Once, Placed
        <5>4. Unsent(other)' => Unsent(other)
          BY <2>1 DEF Unsent
        <5>5. pc' = "resub" /\ other \in todo' => other \in live'
          BY <2>1, <5>3 DEF Placed
        <5>6. Placed(other)'
          BY <2>1, <5>2, <5>3, <5>4, <5>5, SameRefused, LessPlaced
        <5> QED
          BY <2>1, <5>1, <5>3, <5>6 DEF Holding
      <4> QED
        BY <4>1, <4>2 DEF Once
  <2>8. CASE remaining[id] # 0
    <3>1. outbound' = Append(Append(outbound, sub), unsub)
      BY <2>3, <2>8
    <3> HIDE DEF sub, unsub
    <3>2. Append(outbound, sub) \in Seq(ClientOp)
      BY <2>2, <2>4
    <3>3. Placed(id) /\ id \notin srv /\ ~Refused(id) /\ Underway(id) = {}
      BY <2>5 DEF Once, Placed
    <3>4. \A i, j \in At("SUB", id, Append(outbound, sub)) : i = j
      BY <2>2, <2>4, <3>3, AppendSub DEF Underway
    <3>5. /\ At("SUB", id, outbound') = At("SUB", id, Append(outbound, sub))
          /\ ~Kept(id, outbound', srv \ srvAuto)
      BY <2>4, <3>1, <3>2, AppendOther
    <3>6. \A i, j \in Underway(id)' : i = j
      BY <3>4, <3>5 DEF Underway
    <3>7. Placed(id)' /\ Holding(id)'
      <4>1. ~Refused(id)'
        BY <2>1, <3>3, SameRefused
      <4> QED
        BY <2>1, <2>6, <3>3, <3>5, <3>6, <4>1 DEF Placed, Holding
    <3>8. ASSUME NEW other \in SubIds, other # id PROVE Holding(other)' /\ Placed(other)'
      <4>1. /\ At("SUB", other, Append(outbound, sub)) = At("SUB", other, outbound)
            /\ Kept(other, Append(outbound, sub), srv \ srvAuto) =>
                  Kept(other, outbound, srv \ srvAuto)
        BY <2>2, <2>4, <3>8, AppendOther
      <4>2. /\ At("SUB", other, outbound') = At("SUB", other, outbound)
            /\ Kept(other, outbound', srv \ srvAuto) => Kept(other, outbound, srv \ srvAuto)
        <5> DEFINE sent == Append(outbound, sub)
        <5>1. sent \in Seq(ClientOp)
          BY <3>2
        <5> HIDE DEF sent
        <5>2. /\ At("SUB", other, Append(sent, unsub)) = At("SUB", other, sent)
              /\ Kept(other, Append(sent, unsub), srv \ srvAuto) =>
                    Kept(other, sent, srv \ srvAuto)
          BY <2>4, <5>1, AppendOther
        <5> QED
          BY <3>1, <4>1, <5>2 DEF sent
      <4>3. Underway(other)' = Underway(other)
        BY <4>2 DEF Underway
      <4>4. Holding(other) /\ Placed(other) /\ \A i, j \in Underway(other) : i = j
        BY DEF Once, Placed
      <4>5. Unsent(other)' => Unsent(other)
        BY <2>1 DEF Unsent
      <4>6. pc' = "resub" /\ other \in todo' => other \in live'
        BY <2>1, <4>4 DEF Placed
      <4>7. Placed(other)'
        BY <2>1, <4>3, <4>4, <4>5, <4>6, SameRefused, LessPlaced
      <4> QED
        BY <2>1, <4>2, <4>4, <4>7 DEF Holding
    <3> QED
      BY <3>7, <3>8 DEF Once
  <2> QED
    BY <2>7, <2>8
<1> QED
  BY <1>1, <1>2, <1>3 DEF ConnectNext

\* The server: a SUB is granted or refused, and an UNSUB, or the message that
\* completes a count, ends the subscription.
LEMMA ServerOnce ==
    ASSUME TypeOK, Once, ServerNext PROVE Once'
<1> USE DEF client, channel, subscriptions, mux, server, resume, control, app,
            tables, conn, handlerState, peers
<1> DEFINE op == Head(outbound)
           Replies == [cmd : ClientOp, ok : BOOLEAN]
<1>1. UNCHANGED <<pc, todo, live, remaining, failedSub, commands, handle>>
  BY ServerFrame
<1>2. outbound \in Seq(ClientOp) /\ acks \in Seq(Replies)
  BY DEF TypeOK, ConnTypeOK
<1>3. \A id \in SubIds : Unsent(id)' => Unsent(id)
  BY <1>1 DEF Unsent
<1>4. \A id \in SubIds : pc' = "resub" /\ id \in todo' => id \in live'
  BY <1>1 DEF Once, Placed
<1>5. CASE \/ \E id \in SubIds : ServerDeliver(id)
           \/ \E r \in Requests : ServerAnswer(r)
  <2> SUFFICES ASSUME NEW id \in SubIds PROVE Holding(id)' /\ Placed(id)'
    BY DEF Once
  <2>1. /\ UNCHANGED <<outbound, acks>>
        /\ srv' \subseteq srv
        /\ srv' \ srvAuto' \subseteq srv \ srvAuto
    BY <1>5 DEF ServerDeliver, ServerAnswer
  <2>2. Underway(id)' = Underway(id)
    BY <2>1 DEF Underway
  <2>3. Holding(id) /\ Placed(id) /\ \A i, j \in Underway(id) : i = j
    BY DEF Once, Placed
  <2>4. Placed(id)'
    BY <1>1, <1>3, <1>4, <2>1, <2>2, <2>3, SameRefused, LessPlaced
  <2>5. Kept(id, outbound, srv' \ srvAuto') => Kept(id, outbound, srv \ srvAuto)
    BY <2>1 DEF Kept
  <2> QED
    BY <1>1, <2>1, <2>3, <2>4, <2>5 DEF Holding
<1>6. ASSUME NEW ok \in BOOLEAN, Reply(ok), NEW id \in SubIds,
             op.op = "SUB" /\ op.id = id => (id \in srv' <=> ok = TRUE),
             ~(op.op = "SUB" /\ op.id = id) => (id \in srv' => id \in srv),
             id \in srv' \ srvAuto' =>
                \/ id \in srv \ srvAuto /\ op.id # id
                \/ op.op = "SUB" /\ op.id = id
      PROVE  Holding(id)' /\ Placed(id)'
  <2> DEFINE reply == [cmd |-> op, ok |-> ok]
  <2>1. outbound # <<>> /\ outbound' = Tail(outbound) /\ acks' = Append(acks, reply)
    BY <1>6 DEF Reply
  <2>2. op \in ClientOp /\ reply \in Replies
    BY <1>2, <2>1
  <2>3. Holding(id) /\ Placed(id) /\ \A i, j \in At("SUB", id, outbound) : i = j
    BY DEF Once, Placed, Underway
  <2>4. Kept(id, outbound', srv' \ srvAuto') => Kept(id, outbound, srv \ srvAuto)
    <3>1. id \in srv' \ srvAuto' =>
                \/ id \in srv \ srvAuto /\ op.id # id
                \/ op.op = "SUB" /\ op.id = id
      BY <1>6
    <3> DEFINE s == srv \ srvAuto
               now == srv' \ srvAuto'
    <3> HIDE DEF s, now
    <3>2. Kept(id, Tail(outbound), now) => Kept(id, outbound, s)
      <4>1. id \in now =>
                \/ id \in s /\ op.id # id
                \/ op.op = "SUB" /\ op.id = id
        BY <3>1 DEF s, now
      <4> QED
        BY <1>2, <2>1, <4>1, TailKept
    <3> QED
      BY <2>1, <3>2 DEF s, now
  <2>5. Holding(id)'
    BY <1>1, <2>3, <2>4 DEF Holding
  <2>6. /\ \A i, j \in At("SUB", id, Tail(outbound)) : i = j
        /\ op.op = "SUB" /\ op.id = id => At("SUB", id, Tail(outbound)) = {}
        /\ At("SUB", id, outbound) = {} => At("SUB", id, Tail(outbound)) = {}
        /\ op.op = "SUB" /\ op.id = id => 1 \in At("SUB", id, outbound)
    BY <1>2, <2>1, <2>3, OnceInTail, AtOfTail
  <2>7. /\ \A i, j \in Underway(id)' : i = j
        /\ op.op = "SUB" /\ op.id = id => Underway(id)' = {} /\ Underway(id) # {}
        /\ Underway(id) = {} => Underway(id)' = {}
    BY <2>1, <2>6 DEF Underway
  <2>8. reply.cmd = op /\ reply.ok = ok
    OBVIOUS
  <2> HIDE DEF op, reply, Replies
  <2>9. Refusal(id, acks') => \/ Refusal(id, acks)
                              \/ op.op = "SUB" /\ op.id = id /\ ok = FALSE
    BY <1>2, <2>1, <2>2, <2>8, AppendRefusal
  <2>10. Refused(id)' => Refused(id) \/ (op.op = "SUB" /\ op.id = id /\ ok = FALSE)
    BY <1>1, <2>9 DEF Refused
  <2>11. CASE ~(op.op = "SUB" /\ op.id = id)
    <3>1. Placed(id)'
      BY <1>3, <1>4, <1>6, <2>3, <2>7, <2>10, <2>11, LessPlaced
    <3> QED
      BY <2>5, <3>1
  <2>12. CASE op.op = "SUB" /\ op.id = id
    <3>1. id \notin srv /\ ~Refused(id) /\ ~Unsent(id) /\ Underway(id)' = {}
      BY <2>3, <2>7, <2>12 DEF Placed
    <3>2. Refused(id)' => ok = FALSE
      BY <2>10, <3>1
    <3>3. Refused(id)' => id \notin srv'
      BY <1>6, <2>12, <3>2
    <3>4. ~Unsent(id)'
      BY <1>3, <3>1
    <3>5. Placed(id)'
      BY <1>4, <2>7, <3>1, <3>3, <3>4 DEF Placed
    <3> QED
      BY <2>5, <3>5
  <2> QED
    BY <2>11, <2>12
<1>7. CASE ServerSub
  <2>1. Reply(TRUE) /\ op.op = "SUB" /\ srv' = srv \cup {op.id} /\ srvAuto' = srvAuto \ {op.id}
    BY <1>7 DEF ServerSub
  <2> HIDE DEF op
  <2> QED
    BY <1>6, <2>1 DEF Once
<1>8. CASE ServerRefuse
  <2>1. Reply(FALSE) /\ op.op \in {"SUB", "PUB"} /\ UNCHANGED <<srv, srvAuto>> /\ outbound # <<>>
    BY <1>8 DEF ServerRefuse, Reply
  <2>2. op \in ClientOp
    BY <1>2, <2>1
  <2>3. \A id \in SubIds : op.id = id => op.op = "SUB"
    BY <2>1, <2>2, ClientOpFields, IdAssumption
  <2>4. \A id \in SubIds : op.op = "SUB" /\ op.id = id => id \notin srv
    <3>1. \A id \in SubIds : op.op = "SUB" /\ op.id = id => Underway(id) # {}
      BY <1>2, <2>1, AtOfTail DEF Underway
    <3> QED
      BY <3>1 DEF Once, Placed
  <2> HIDE DEF op
  <2> QED
    BY <1>6, <2>1, <2>3, <2>4 DEF Once
<1>9. CASE ServerUnsub
  <2>1. /\ Reply(TRUE) /\ op.op = "UNSUB"
        /\ srv' \subseteq srv
        /\ srv' \ srvAuto' \subseteq srv \ srvAuto
        /\ op.id \notin srv' \ srvAuto'
    BY <1>9 DEF ServerUnsub
  <2> HIDE DEF op
  <2>2. \A id \in SubIds : id \in srv' \ srvAuto' => id \in srv \ srvAuto /\ op.id # id
    BY <2>1
  <2>3. op.op # "SUB" /\ \A id \in SubIds : id \in srv' => id \in srv
    BY <2>1
  <2> QED
    BY <1>6, <2>1, <2>2, <2>3 DEF Once
<1>10. CASE ServerPub
  <2>1. Reply(TRUE) /\ op.op = "PUB" /\ UNCHANGED <<srv, srvAuto>> /\ outbound # <<>>
    BY <1>10 DEF ServerPub, Reply
  <2>2. op \in ClientOp
    BY <1>2, <2>1
  <2>3. \A id \in SubIds : op.id # id
    BY <2>1, <2>2, ClientOpFields, IdAssumption
  <2> HIDE DEF op
  <2> QED
    BY <1>6, <2>1, <2>3 DEF Once
<1> QED
  BY <1>5, <1>7, <1>8, <1>9, <1>10 DEF ServerNext, ServerProcess

\* As long as no connection is lost between the refusal of a SUB and the
\* sweep that forgets it, the server never keeps a subscription the handler
\* has forgotten (handle_server_op, receive_command, failed_unsubscribe, the
\* loop that subscribes again).  The condition cannot be dropped: the next
\* connection subscribes again to what failed_subscribe marks, and the sweep
\* then forgets it without an UNSUB.
THEOREM HandlerNoServerLeak ==
    Spec /\ [][Disconnect => failedSub = {}]_vars => []NoServerLeak
<1> DEFINE Calm == Disconnect => failedSub = {}
<1>1. Init => Once
  BY DEF Init, Once, Holding, Placed, Kept, Refused, Refusal, Underway, At
<1>2. TypeOK /\ AckAlignment /\ Entries /\ Once /\ [Next]_vars /\ [Calm]_vars => Once'
  <2> SUFFICES ASSUME TypeOK, AckAlignment, Entries, Once, [Next]_vars, [Calm]_vars
               PROVE  Once'
    OBVIOUS
  <2> USE DEF client, channel, subscriptions, mux, server, resume, control, app,
              tables, conn, handlerState, peers
  <2>1. CASE Terminate
    BY <2>1, LostOnce DEF Terminate
  <2>2. CASE Disconnect
    <3>1. UNCHANGED failedSub /\ pc' = "down" /\ pc # "down" /\ LoseConnection
      BY <2>2 DEF Disconnect
    <3>2. failedSub = {}
      BY <2>2, <3>1 DEF Calm, vars
    <3> QED
      BY <3>1, <3>2, LostOnce
  <2>3. CASE UNCHANGED vars
    <3>1. UNCHANGED <<outbound, acks, srv, srvAuto, live, remaining, failedSub,
                      commands, handle, pc, todo>>
      BY <2>3 DEF vars
    <3>2. \A id \in SubIds : /\ Unsent(id)' => Unsent(id)
                             /\ Refused(id)' => Refused(id)
                             /\ pc' = "resub" /\ id \in todo' => id \in live'
      BY <3>1 DEF Unsent, Refused, Once, Placed
    <3> QED
      BY <3>1, <3>2, QuietOnce
  <2> QED
    BY <2>1, <2>2, <2>3, ClientOnce, PollOnce, ReadOnce, ReceiveOnce, ConnectOnce,
       ServerOnce
       DEF Next, Finish, Abort
<1>3. Once => NoServerLeak
  BY DEF Once, Holding, Kept, NoServerLeak, KeptByServer
<1> QED
  BY <1>1, <1>2, <1>3, HandlerTypeOK, HandlerAckAlignment, EntriesHold, PTL
     DEF Spec, Calm

\* On one connection, the first and the last, that is so whatever happens.
THEOREM OneConnectionNoServerLeak ==
    ASSUME ~Reconnects PROVE Spec => []NoServerLeak
<1>1. Spec => [][Disconnect => failedSub = {}]_vars
  <2>1. Next => (Disconnect => failedSub = {})
    BY DEF Disconnect
  <2> QED
    BY <2>1, PTL DEF Spec
<1> QED
  BY <1>1, HandlerNoServerLeak, PTL
=============================================================================
