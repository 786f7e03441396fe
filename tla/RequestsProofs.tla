--------------------------- MODULE RequestsProofs ---------------------------
(***************************************************************************)
(* Proofs about Requests, for any requests, any capacity of the command    *)
(* channel and any number of faults.                                       *)
(*                                                                         *)
(* A request that was refused never gave its publish to the channel, which *)
(* Unsent follows through the stages of a request; and a response that is  *)
(* waited for has its sender in the channel or in a map of the handler, or *)
(* something in its box, until a lost connection or a close takes it       *)
(* (Waits).  A request with a subscription of its own is sent where its    *)
(* reply is asked for because its SUB precedes its PUB in the channel, and *)
(* then is in the map of the handler, which every connection is given      *)
(* (Asks).  A request that was sent and still waits is in a map, and its   *)
(* reply, once given, is on its way, missed or in its box (Answers).       *)
(***************************************************************************)
EXTENDS Requests, TLAPS

\* The commands in a channel, whatever their order.
Cmds(queue) == {queue[i] : i \in 1..Len(queue)}
Cmd(op, r) == Command(op, r) \in Cmds(commands)

Subscribing == {"SUB", "MAX", "PUB", "UNSUB"}
Multiplexing == {"REQ", "FORGET"}
Commands == [op : Subscribing \cup Multiplexing, r : Requesters]

\* What the server sends.
Inbound == [r : Requesters, kind : {"msg", "none", "err"}]

\* Who gives which command, and who is at which stage.
Kinds == \A c \in Cmds(commands) :
    /\ c.op \in Subscribing => c.r \in Explicit
    /\ c.op \in Multiplexing => c.r \in Shared
Stages == \A r \in Requesters :
    /\ pc[r] \in {"subscribe", "limit", "publish"} => r \in Explicit
    /\ pc[r] = "multiplex" => r \in Shared
    /\ result[r] = None <=> pc[r] # "done"

Unsent == \A r \in Requesters :
    pc[r] \in {"subscribe", "limit", "publish", "multiplex"} \/ result[r] \in Refusals =>
        r \notin sent /\ ~Cmd("PUB", r) /\ ~Cmd("REQ", r)

\* Only a request that returned is unsubscribed or forgotten.
Quits == \A r \in Requesters : Cmd("UNSUB", r) \/ Cmd("FORGET", r) => result[r] # None

\* The sender of the reply's channel, as SenderAlive has it.
Sender(r) == r \in subs \/ r \in muxed \/ Cmd("SUB", r) \/ Cmd("REQ", r)
Waits == \A r \in Requesters :
    pc[r] \in {"limit", "publish", "wait"} /\ box[r] = <<>> => Sender(r) \/ r \in losses

Inv == RequestsTypeOK /\ Kinds /\ Stages /\ Unsent /\ Quits /\ Waits /\ ClosedOnlyByLoss

-----------------------------------------------------------------------------
(***************************************************************************)
(* The command channel.                                                    *)
(***************************************************************************)
\* What is in a channel is a command.
LEMMA CmdsType == \A queue \in Seq(Commands) : Cmds(queue) \subseteq Commands
BY DEF Cmds

\* A command that is sent ...
LEMMA CmdsOfAppend ==
    ASSUME NEW queue \in Seq(Commands), NEW c \in Commands
    PROVE  Cmds(Append(queue, c)) = Cmds(queue) \cup {c}
<1> DEFINE longer == Append(queue, c)
<1>1. /\ Len(longer) = Len(queue) + 1
      /\ \A i \in 1..Len(queue) : longer[i] = queue[i]
      /\ longer[Len(queue) + 1] = c
      /\ Len(queue) \in Nat
  OBVIOUS
<1> HIDE DEF longer
<1>2. \A i \in 1..Len(longer) : i \in 1..Len(queue) \/ i = Len(queue) + 1
  BY <1>1
<1>3. 1..Len(queue) \subseteq 1..Len(longer) /\ Len(queue) + 1 \in 1..Len(longer)
  BY <1>1
<1> QED
  BY <1>1, <1>2, <1>3 DEF Cmds, longer

\* ... and one that is taken.
LEMMA CmdsOfTail ==
    ASSUME NEW queue \in Seq(Commands), queue # <<>>
    PROVE  Cmds(queue) = Cmds(Tail(queue)) \cup {Head(queue)}
<1> DEFINE rest == Tail(queue)
<1>1. /\ Len(queue) \in Nat \ {0}
      /\ Len(rest) = Len(queue) - 1
      /\ \A i \in 1..Len(rest) : rest[i] = queue[i + 1]
      /\ Head(queue) = queue[1]
  OBVIOUS
<1> HIDE DEF rest
<1>2. ASSUME NEW i \in 1..Len(queue)
      PROVE  queue[i] \in Cmds(rest) \cup {Head(queue)}
  <2>1. CASE i = 1
    BY <1>1, <2>1
  <2>2. CASE i # 1
    <3>1. i - 1 \in 1..Len(rest) /\ rest[i - 1] = queue[i]
      BY <1>1, <2>2
    <3> QED
      BY <3>1 DEF Cmds
  <2> QED
    BY <2>1, <2>2
<1>3. Cmds(rest) \cup {Head(queue)} \subseteq Cmds(queue)
  <2>1. \A i \in 1..Len(rest) : i + 1 \in 1..Len(queue)
    BY <1>1
  <2>2. 1 \in 1..Len(queue)
    BY <1>1
  <2> QED
    BY <1>1, <2>1, <2>2 DEF Cmds
<1>4. Cmds(queue) \subseteq Cmds(rest) \cup {Head(queue)}
  BY <1>2 DEF Cmds
<1> QED
  BY <1>3, <1>4 DEF rest

\* What lazy_unsubscribe does with a command.
LEMMA LazyCmds ==
    ASSUME RequestsTypeOK, NEW c \in Commands, Lazily(c)
    PROVE  /\ commands' \in Seq(Commands) /\ Len(commands') <= CommandCap
           /\ unsubFailed' \in BOOLEAN
           /\ Cmds(commands) \subseteq Cmds(commands')
           /\ Cmds(commands') \subseteq Cmds(commands) \cup {c}
<1>1. commands \in Seq(Commands) /\ Len(commands) <= CommandCap /\ Len(commands) \in Nat
  BY DEF RequestsTypeOK, Commands, Subscribing, Multiplexing
<1>2. unsubFailed' \in BOOLEAN
  BY DEF Lazily, RequestsTypeOK
<1>3. CASE open /\ HasRoom
  <2>1. commands' = Append(commands, c)
    BY <1>3 DEF Lazily
  <2>2. Len(commands') <= CommandCap
    BY <1>1, <1>3, <2>1, RequestsAssumption DEF HasRoom
  <2> QED
    BY <1>1, <1>2, <2>1, <2>2, CmdsOfAppend
<1>4. CASE ~(open /\ HasRoom)
  BY <1>1, <1>2, <1>4 DEF Lazily
<1> QED
  BY <1>3, <1>4

\* Commanded and SenderAlive are about the commands, not their order.
LEMMA CommandedIs ==
    ASSUME NEW op, NEW r \in Requesters PROVE r \in Commanded(op) <=> Cmd(op, r)
BY DEF Commanded, Contains, Cmd, Cmds

\* The sender is in the channel or in a map of the handler.
LEMMA SenderIs == ASSUME NEW r \in Requesters PROVE SenderAlive(r) <=> Sender(r)
BY CommandedIs DEF SenderAlive, Sender

-----------------------------------------------------------------------------
\* Inv says what RequestsInv does.
LEMMA InvImplies == Inv => RequestsInv
<1> SUFFICES ASSUME Inv PROVE RequestsInv
  OBVIOUS
<1>1. RefusedIsNotSent
  BY CommandedIs DEF Inv, Unsent, RefusedIsNotSent
<1> QED
  BY <1>1 DEF Inv, RequestsInv

\* Inv holds before any request.
LEMMA InitInv == Init => Inv
<1> SUFFICES ASSUME Init PROVE Inv
  OBVIOUS
<1>1. commands = <<>> /\ Cmds(commands) = {}
  BY DEF Init, Cmds
<1> PICK made \in Uses : Makes(made)
  BY DEF Init
<1>2. pc \in [Requesters -> {"subscribe", "multiplex", "done"}]
  BY DEF Makes
<1>3. RequestsTypeOK
  <2>1. pc \in [Requesters -> DOMAIN Path \cup {"wait", "done"}]
    BY <1>2 DEF Path
  <2>2. /\ box \in [Requesters -> Seq({"msg", "none", "err"})]
        /\ result \in [Requesters -> Results \cup {None}]
        /\ mode \in [Requesters -> {"await", "try"}]
    BY DEF Init, Makes, Results, Refusals
  <2>3. /\ commands \in Seq(Commands) /\ Len(commands) <= CommandCap
        /\ inbound \in Seq([r : Requesters, kind : {"msg", "none", "err"}])
        /\ faults \in 0..MaxFaults
    BY RequestsAssumption DEF Init
  <2> QED
    BY <2>1, <2>2, <2>3
       DEF Init, RequestsTypeOK, Commands, Subscribing, Multiplexing
<1>4. Kinds /\ Quits /\ Waits
  BY <1>1, <1>2 DEF Kinds, Quits, Waits, Cmd
<1>5. Stages
  <2>1. "Cancelled" # None
    BY RequestsAssumption DEF Results, Refusals
  <2> QED
    BY <2>1 DEF Makes, Stages, Requesters
<1>6. Unsent
  BY <1>1, RequestsAssumption DEF Init, Unsent, Cmd
<1>7. ClosedOnlyByLoss
  BY RequestsAssumption DEF Makes, ClosedOnlyByLoss, Results, Refusals
<1> QED
  BY <1>3, <1>4, <1>5, <1>6, <1>7 DEF Inv

-----------------------------------------------------------------------------
(***************************************************************************)
(* The steps of a request.                                                 *)
(***************************************************************************)
\* What Drops adds to the channel, if anything, is about the request itself.
LEMMA DropsCmds ==
    ASSUME Inv, NEW r \in Requesters, Drops(r) \/ UNCHANGED <<commands, unsubFailed>>
    PROVE  /\ commands' \in Seq(Commands) /\ Len(commands') <= CommandCap
           /\ unsubFailed' \in BOOLEAN
           /\ Cmds(commands) \subseteq Cmds(commands')
           /\ \A c \in Cmds(commands') :
                c \in Cmds(commands) \/ c = Command(IF r \in Shared THEN "FORGET" ELSE "UNSUB", r)
<1>1. RequestsTypeOK /\ commands \in Seq(Commands) /\ Len(commands) <= CommandCap
  BY DEF Inv, RequestsTypeOK, Commands, Subscribing, Multiplexing
<1>2. Command("FORGET", r) \in Commands /\ Command("UNSUB", r) \in Commands
  BY DEF Command, Commands, Subscribing, Multiplexing
<1>3. CASE UNCHANGED <<commands, unsubFailed>>
  BY <1>1, <1>3 DEF RequestsTypeOK
<1>4. CASE Lazily(Command(IF r \in Shared THEN "FORGET" ELSE "UNSUB", r))
  BY <1>1, <1>2, <1>4, LazyCmds
<1> QED
  BY <1>3, <1>4 DEF Drops

\* A request that returns: Refuse, Cancel and the arms of ResponseFut::poll.
LEMMA ReturnsInv ==
    ASSUME Inv, NEW r \in Requesters, NEW what \in Results, Returns(r, what),
           Drops(r) \/ UNCHANGED <<commands, unsubFailed>>,
           pc[r] # "done",
           what \in Refusals => pc[r] \in DOMAIN First,
           what = "SubscriptionClosed" => r \in losses,
           UNCHANGED <<handler, server, losses, missed>>, faults' \in 0..MaxFaults
    PROVE  Inv'
<1> DEFINE last == Command(IF r \in Shared THEN "FORGET" ELSE "UNSUB", r)
<1>1. /\ commands' \in Seq(Commands) /\ Len(commands') <= CommandCap
      /\ unsubFailed' \in BOOLEAN
      /\ Cmds(commands) \subseteq Cmds(commands')
      /\ \A c \in Cmds(commands') : c \in Cmds(commands) \/ c = last
  BY DropsCmds
<1>2. /\ result' = [result EXCEPT ![r] = what]
      /\ box' = [box EXCEPT ![r] = <<>>]
      /\ pc' = [pc EXCEPT ![r] = "done"]
      /\ elapsed' = elapsed \ {r}
      /\ UNCHANGED <<mode, open, handler, server, losses, missed>>
  BY DEF Returns, Goes
<1>3. /\ result' \in [Requesters -> Results \cup {None}]
      /\ box' \in [Requesters -> Seq({"msg", "none", "err"})]
      /\ pc' \in [Requesters -> DOMAIN Path \cup {"wait", "done"}]
  BY <1>2 DEF Inv, RequestsTypeOK
<1>4. RequestsTypeOK'
  BY <1>1, <1>2, <1>3
     DEF Inv, RequestsTypeOK, handler, server, Commands, Subscribing, Multiplexing
<1>5. /\ pc'[r] = "done" /\ result'[r] = what
      /\ \A q \in Requesters \ {r} : pc'[q] = pc[q] /\ result'[q] = result[q] /\ box'[q] = box[q]
  BY <1>2 DEF Inv, RequestsTypeOK
<1>6. last.r = r /\ last.op = IF r \in Shared THEN "FORGET" ELSE "UNSUB"
  BY DEF Command
<1>7. r \in Explicit \/ r \in Shared
  BY DEF Requesters
<1>8. Kinds'
  BY <1>1, <1>6, <1>7 DEF Inv, Kinds, Subscribing, Multiplexing
<1>9. Stages'
  BY <1>5, RequestsAssumption DEF Inv, Stages
<1>10. \A q \in Requesters : Cmd("PUB", q)' => Cmd("PUB", q)
  BY <1>1, <1>6 DEF Cmd, Command
<1>11. \A q \in Requesters : Cmd("REQ", q)' => Cmd("REQ", q)
  BY <1>1, <1>6 DEF Cmd, Command
<1>12. Unsent'
  BY <1>2, <1>5, <1>10, <1>11 DEF Inv, Unsent, server, First
<1>13. \A q \in Requesters \ {r} : (Cmd("UNSUB", q)' => Cmd("UNSUB", q)) /\ (Cmd("FORGET", q)' => Cmd("FORGET", q))
  BY <1>1, <1>6 DEF Cmd, Command
<1>14. Quits'
  BY <1>5, <1>13, RequestsAssumption DEF Inv, Quits
<1>15. \A q \in Requesters : Sender(q) => Sender(q)'
  BY <1>1, <1>2 DEF Sender, Cmd, handler
<1>16. Waits'
  BY <1>2, <1>5, <1>15 DEF Inv, Waits
<1>17. ClosedOnlyByLoss'
  BY <1>2, <1>5 DEF Inv, ClosedOnlyByLoss
<1> QED
  BY <1>4, <1>8, <1>9, <1>12, <1>14, <1>16, <1>17 DEF Inv

\* A request that gives a command of its own and goes on to the next stage: it
\* has asked for its reply once it is past the first.
LEMMA StageInv ==
    ASSUME Inv, NEW r \in Requesters, NEW op \in {"SUB", "MAX", "PUB", "REQ"}, NEW to,
           Goes(r, to),
           commands' \in Seq(Commands), Len(commands') <= CommandCap,
           unsubFailed' \in BOOLEAN,
           Cmds(commands) \subseteq Cmds(commands'),
           Cmds(commands') \subseteq Cmds(commands) \cup {Command(op, r)},
           \/ pc[r] = "subscribe" /\ op = "SUB" /\ to = "limit"
           \/ pc[r] = "limit" /\ op = "MAX" /\ to = "publish"
           \/ pc[r] = "publish" /\ op = "PUB" /\ to = "wait"
           \/ pc[r] = "multiplex" /\ op = "REQ" /\ to = "wait",
           op \in {"SUB", "REQ"} => Command(op, r) \in Cmds(commands'),
           UNCHANGED <<mode, result, box, elapsed, open, handler, server, fault>>
    PROVE  Inv'
<1>1. pc' = [pc EXCEPT ![r] = to] /\ pc \in [Requesters -> DOMAIN Path \cup {"wait", "done"}]
  BY DEF Goes, Inv, RequestsTypeOK
<1>2. to \in DOMAIN Path \cup {"wait", "done"}
  BY DEF Path
<1>3. pc' \in [Requesters -> DOMAIN Path \cup {"wait", "done"}]
  BY <1>1, <1>2
<1>4. RequestsTypeOK'
  BY <1>3 DEF Inv, RequestsTypeOK, handler, server, fault, Commands, Subscribing,
     Multiplexing
<1>5. pc'[r] = to /\ \A q \in Requesters \ {r} : pc'[q] = pc[q]
  BY <1>1
<1>6. Command(op, r).op = op /\ Command(op, r).r = r
  BY DEF Command
<1>7. Kinds'
  BY <1>6 DEF Inv, Kinds, Stages, Subscribing, Multiplexing
<1>8. Stages'
  BY <1>5 DEF Inv, Stages
<1>9. \A q \in Requesters \ {r} : (Cmd("PUB", q)' => Cmd("PUB", q)) /\ (Cmd("REQ", q)' => Cmd("REQ", q))
  BY <1>6 DEF Cmd, Command
<1>10. op \in {"SUB", "MAX"} =>
          (Cmd("PUB", r)' => Cmd("PUB", r)) /\ (Cmd("REQ", r)' => Cmd("REQ", r))
  BY <1>6 DEF Cmd, Command
<1>11. result[r] \notin Refusals
  BY RequestsAssumption DEF Inv, Stages, Results
<1>12. Unsent'
  BY <1>5, <1>9, <1>10, <1>11 DEF Inv, Unsent, server
<1>13. \A q \in Requesters : (Cmd("UNSUB", q)' => Cmd("UNSUB", q)) /\ (Cmd("FORGET", q)' => Cmd("FORGET", q))
  BY <1>6 DEF Cmd, Command
<1>14. Quits'
  BY <1>13 DEF Inv, Quits
<1>15. \A q \in Requesters : Sender(q) => Sender(q)'
  BY DEF Sender, Cmd, handler
<1>16. op \in {"SUB", "REQ"} => Sender(r)'
  BY DEF Sender, Cmd
<1>17. Waits'
  BY <1>5, <1>15, <1>16 DEF Inv, Waits, fault
<1>18. ClosedOnlyByLoss'
  BY DEF Inv, ClosedOnlyByLoss, fault
<1> QED
  BY <1>4, <1>7, <1>8, <1>12, <1>14, <1>17, <1>18 DEF Inv

\* Every step of a request and of its response keeps Inv.
LEMMA RequesterInv ==
    ASSUME Inv, NEW r \in Requesters,
           Enqueue(r) \/ Limit(r) \/ Refuse(r) \/ Cancel(r) \/ Elapse(r) \/ Poll(r)
    PROVE  Inv'
<1>1. /\ RequestsTypeOK /\ commands \in Seq(Commands) /\ Len(commands) \in Nat
      /\ faults \in 0..MaxFaults
  BY DEF Inv, RequestsTypeOK, Commands, Subscribing, Multiplexing
<1>2. CASE Enqueue(r)
  <2> DEFINE op == First[pc[r]]
             to == Path[pc[r]]
  <2>1. \/ pc[r] = "subscribe" /\ op = "SUB" /\ to = "limit"
        \/ pc[r] = "publish" /\ op = "PUB" /\ to = "wait"
        \/ pc[r] = "multiplex" /\ op = "REQ" /\ to = "wait"
    BY <1>2 DEF Enqueue, First, Path
  <2>2. Goes(r, to) /\ HasRoom /\ commands' = Append(commands, Command(op, r))
        /\ UNCHANGED <<mode, result, box, elapsed, open, unsubFailed, handler, server, fault>>
    BY <1>2 DEF Enqueue, Enqueues
  <2> HIDE DEF op, to
  <2>3. Command(op, r) \in Commands
    BY <2>1 DEF Command, Commands, Subscribing, Multiplexing
  <2>4. commands' \in Seq(Commands) /\ Len(commands') <= CommandCap
        /\ Cmds(commands') = Cmds(commands) \cup {Command(op, r)}
    BY <1>1, <2>2, <2>3, CmdsOfAppend, RequestsAssumption DEF HasRoom
  <2>5. unsubFailed' \in BOOLEAN
    BY <1>1, <2>2 DEF RequestsTypeOK
  <2> QED
    BY <2>1, <2>2, <2>4, <2>5, StageInv
<1>3. CASE Limit(r)
  <2>1. pc[r] = "limit" /\ Lazily(Command("MAX", r)) /\ Goes(r, "publish")
        /\ UNCHANGED <<mode, result, box, elapsed, open, handler, server, fault>>
    BY <1>3 DEF Limit, Path
  <2>2. Command("MAX", r) \in Commands
    BY DEF Command, Commands, Subscribing, Multiplexing
  <2> QED
    BY <1>1, <2>1, <2>2, LazyCmds, StageInv
<1>4. CASE Refuse(r)
  <2>1. Refusal(r) \in Results /\ Refusal(r) \in Refusals /\ Refusal(r) # "SubscriptionClosed"
    BY DEF Refusal, Results, Refusals
  <2>2. pc[r] \in DOMAIN First /\ pc[r] # "done" /\ Returns(r, Refusal(r)) /\ Drops(r)
        /\ UNCHANGED <<handler, server, faults, losses, missed>>
    BY <1>4 DEF Refuse, First, fault
  <2> QED
    BY <1>1, <2>1, <2>2, ReturnsInv
<1>5. CASE Cancel(r)
  <2>1. PICK what \in {"Dropped", "Cancelled"} :
            Returns(r, what) /\ (what = "Cancelled" => pc[r] \in DOMAIN First)
    BY <1>5 DEF Cancel
  <2>2. what \in Results /\ what # "SubscriptionClosed" /\ (what \in Refusals => what = "Cancelled")
    BY DEF Results, Refusals
  <2>3. Drops(r) /\ pc[r] # "done" /\ UNCHANGED <<handler, server, losses, missed>>
        /\ faults' \in 0..MaxFaults
    BY <1>1, <1>5, RequestsAssumption DEF Cancel, Fault, First
  <2> QED
    BY <2>1, <2>2, <2>3, ReturnsInv
<1>6. CASE Elapse(r)
  <2>1. UNCHANGED <<mode, pc, result, box, channel, handler, server, fault>>
        /\ elapsed' = elapsed \cup {r}
    BY <1>6 DEF Elapse
  <2>2. RequestsTypeOK'
    BY <1>1, <2>1 DEF RequestsTypeOK, channel, handler, server, fault
  <2> QED
    BY <2>1, <2>2
       DEF Inv, Kinds, Stages, Unsent, Quits, Waits, ClosedOnlyByLoss, Sender, Cmd,
           channel, handler, server, fault
<1>7. CASE Poll(r)
  <2>1. ASSUME NEW what \in Results \ Refusals, Returns(r, what), pc[r] = "wait",
               Drops(r) \/ UNCHANGED <<commands, unsubFailed>>,
               what = "SubscriptionClosed" => r \in losses,
               UNCHANGED <<handler, server, fault>>
        PROVE  Inv'
    BY <1>1, <2>1, ReturnsInv DEF fault
  <2>2. CASE Answered(r)
    <3>1. box[r] # <<>> /\ box[r] \in Seq({"msg", "none", "err"})
      BY <1>1, <2>2 DEF Answered, RequestsTypeOK
    <3>2. Head(box[r]) \in {"msg", "none", "err"}
      BY <3>1
    <3> DEFINE what == Outcome[Head(box[r])]
    <3>3. what \in Results \ Refusals /\ what # "SubscriptionClosed"
      BY <3>2 DEF Outcome, Results, Refusals
    <3>4. /\ pc[r] = "wait" /\ Returns(r, what)
          /\ Drops(r) \/ UNCHANGED <<commands, unsubFailed>>
          /\ UNCHANGED <<handler, server, fault>>
      BY <2>2 DEF Answered
    <3> HIDE DEF what
    <3> QED
      BY <2>1, <3>3, <3>4
  <2>3. CASE SubscriptionClosed(r)
    <3>1. r \in losses
      BY <2>3, SenderIs DEF SubscriptionClosed, Inv, Waits
    <3>2. "SubscriptionClosed" \in Results \ Refusals
      BY DEF Results, Refusals
    <3> QED
      BY <2>1, <2>3, <3>1, <3>2 DEF SubscriptionClosed
  <2>4. CASE TimesOut(r)
    <3>1. "TimedOut" \in Results \ Refusals
      BY DEF Results, Refusals
    <3> QED
      BY <2>1, <2>4, <3>1 DEF TimesOut
  <2> QED
    BY <1>7, <2>2, <2>3, <2>4 DEF Poll
<1> QED
  BY <1>2, <1>3, <1>4, <1>5, <1>6, <1>7

-----------------------------------------------------------------------------
(***************************************************************************)
(* The steps of the handler.                                               *)
(***************************************************************************)
\* A request still waits for its sender only if it has not returned.
LEMMA WaitsReceive ==
    ASSUME Inv, NEW r \in Requesters, pc[r] \in {"limit", "publish", "wait"}
    PROVE  result[r] = None
BY DEF Inv, Stages

\* The handler takes a command: a sender moves from the channel to a map.
LEMMA TakeInv == ASSUME Inv, Take PROVE Inv'
<1> DEFINE c == Head(commands)
<1>1. commands \in Seq(Commands) /\ commands # <<>> /\ commands' = Tail(commands)
  BY DEF Take, Inv, RequestsTypeOK, Commands, Subscribing, Multiplexing
<1>2. c \in Commands /\ commands' \in Seq(Commands) /\ Len(commands') <= CommandCap
  BY <1>1, RequestsAssumption DEF Inv, RequestsTypeOK
<1>3. c = Command(c.op, c.r) /\ c.r \in Requesters /\ c.op \in Subscribing \cup Multiplexing
  BY <1>2 DEF Commands, Command
<1>4. Cmds(commands) = Cmds(commands') \cup {c}
  BY <1>1, CmdsOfTail
<1>5. /\ c.op \in Subscribing => c.r \in Explicit
      /\ c.op \in Multiplexing => c.r \in Shared
  BY <1>4 DEF Inv, Kinds
<1>6. /\ subs' = CASE c.op = "SUB" -> subs \cup {c.r}
                   [] c.op = "UNSUB" -> subs \ {c.r}
                   [] OTHER -> subs
      /\ limited' = CASE c.op = "MAX" /\ c.r \in subs -> limited \cup {c.r}
                      [] c.op = "UNSUB" -> limited \ {c.r}
                      [] OTHER -> limited
      /\ muxed' = CASE c.op = "REQ" -> muxed \cup {c.r}
                    [] c.op = "FORGET" -> muxed \ {c.r}
                    [] OTHER -> muxed
      /\ muxMade' = (muxMade \/ c.op = "REQ")
      /\ interest' = CASE c.op = "SUB" -> interest \cup {c.r}
                       [] c.op = "UNSUB" /\ c.r \in subs -> interest \ {c.r}
                       [] c.op = "REQ" /\ ~muxMade -> interest \cup {Mux}
                       [] OTHER -> interest
      /\ sent' = IF c.op \in {"PUB", "REQ"} THEN sent \cup {c.r} ELSE sent
      /\ asked' = IF c.op \in {"PUB", "REQ"} THEN asked \cup {c.r} ELSE asked
      /\ UNCHANGED <<request, unsubFailed, open, alive, up, shutting_down, denied,
                     inbound, fault>>
  BY DEF Take
<1> HIDE DEF c
<1>7. RequestsTypeOK'
  <2>1. subs' \subseteq Explicit
    BY <1>5, <1>6 DEF Inv, RequestsTypeOK, Subscribing
  <2>2. limited' \subseteq subs'
    BY <1>6 DEF Inv, RequestsTypeOK
  <2>3. muxed' \subseteq Shared /\ muxMade' \in BOOLEAN
    BY <1>5, <1>6 DEF Inv, RequestsTypeOK, Multiplexing
  <2>4. interest' \subseteq Keys
    BY <1>5, <1>6 DEF Inv, RequestsTypeOK, Subscribing, Keys
  <2>5. asked' \subseteq sent' /\ sent' \subseteq Requesters
    BY <1>3, <1>6 DEF Inv, RequestsTypeOK
  <2> QED
    BY <1>2, <1>6, <2>1, <2>2, <2>3, <2>4, <2>5
       DEF Inv, RequestsTypeOK, request, fault, Commands, Subscribing, Multiplexing
<1>8. Kinds' /\ Stages' /\ ClosedOnlyByLoss'
  BY <1>4, <1>6 DEF Inv, Kinds, Stages, ClosedOnlyByLoss, request, fault
<1>9. Quits'
  BY <1>4, <1>6 DEF Inv, Quits, Cmd, request
<1>10. \A q \in Requesters : q \in sent' => q \in sent \/ Cmd("PUB", q) \/ Cmd("REQ", q)
  BY <1>3, <1>4, <1>6 DEF Cmd
<1>11. Unsent'
  BY <1>4, <1>6, <1>10 DEF Inv, Unsent, Cmd, request
<1>12. ASSUME NEW q \in Requesters, Sender(q), result[q] = None PROVE Sender(q)'
  <2>1. ~Cmd("UNSUB", q) /\ ~Cmd("FORGET", q)
    BY <1>12 DEF Inv, Quits
  <2>2. c # Command("UNSUB", q) /\ c # Command("FORGET", q)
    BY <1>4, <2>1 DEF Cmd
  <2>3. q \in subs => q \in subs'
    BY <1>3, <1>6, <2>2
  <2>4. q \in muxed => q \in muxed'
    BY <1>3, <1>6, <2>2
  <2>5. Cmd("SUB", q) => q \in subs' \/ Cmd("SUB", q)'
    BY <1>4, <1>6 DEF Cmd, Command
  <2>6. Cmd("REQ", q) => q \in muxed' \/ Cmd("REQ", q)'
    BY <1>4, <1>6 DEF Cmd, Command
  <2> QED
    BY <1>12, <2>3, <2>4, <2>5, <2>6 DEF Sender
<1>13. Waits'
  BY <1>6, <1>12, WaitsReceive DEF Inv, Waits, request, fault
<1> QED
  BY <1>7, <1>8, <1>9, <1>11, <1>13 DEF Inv

\* A delivery takes a sender away only once something is in the box.
LEMMA DeliverInv == ASSUME Inv, Deliver PROVE Inv'
<1> DEFINE r == Head(inbound).r
           k == Head(inbound).kind
           known == r \in subs \cup muxed
           last == r \in limited \/ k = "err"
<1>1. inbound \in Seq([r : Requesters, kind : {"msg", "none", "err"}]) /\ inbound # <<>>
  BY DEF Deliver, Inv, RequestsTypeOK
<1>2. r \in Requesters /\ k \in {"msg", "none", "err"}
      /\ inbound' \in Seq([r : Requesters, kind : {"msg", "none", "err"}])
  <2>1. Head(inbound) \in Inbound
    <3>1. inbound \in Seq(Inbound)
      BY <1>1 DEF Inbound
    <3> QED
      BY <1>1, <3>1
  <2>2. inbound' \in Seq([r : Requesters, kind : {"msg", "none", "err"}])
    BY <1>1 DEF Deliver
  <2> QED
    BY <2>1, <2>2 DEF Inbound
<1>3. /\ box' = IF known /\ Receives(r) THEN [box EXCEPT ![r] = Append(@, k)] ELSE box
      /\ subs' = IF k = "err" \/ (last /\ Receives(r)) THEN subs \ {r} ELSE subs
      /\ limited' = limited \cap subs'
      /\ muxed' = muxed \ {r}
      /\ interest' = IF r \in subs /\ ~Receives(r) /\ k # "err" THEN interest \ {r} ELSE interest
      /\ UNCHANGED <<mode, pc, result, elapsed, channel, alive, up, shutting_down, muxMade,
                     denied, sent, asked, fault>>
  BY DEF Deliver
<1> HIDE DEF r, k, last
<1>4. box' \in [Requesters -> Seq({"msg", "none", "err"})]
  <2>1. Append(box[r], k) \in Seq({"msg", "none", "err"})
    BY <1>2 DEF Inv, RequestsTypeOK
  <2> QED
    BY <1>3, <2>1 DEF Inv, RequestsTypeOK
<1>5. RequestsTypeOK'
  BY <1>2, <1>3, <1>4 DEF Inv, RequestsTypeOK, channel, fault
<1>6. Kinds' /\ Stages' /\ Unsent' /\ Quits' /\ ClosedOnlyByLoss'
  BY <1>3 DEF Inv, Kinds, Stages, Unsent, Quits, ClosedOnlyByLoss, Cmd, channel, fault
<1>7. known /\ Receives(r) => box'[r] # <<>>
  <2>1. box[r] \in Seq({"msg", "none", "err"}) /\ box \in [Requesters -> Seq({"msg", "none", "err"})]
    BY <1>2 DEF Inv, RequestsTypeOK
  <2>2. Append(box[r], k) # <<>>
    BY <1>2, <2>1
  <2>3. known /\ Receives(r) => box'[r] = Append(box[r], k)
    BY <1>2, <1>3, <2>1
  <2> QED
    BY <2>2, <2>3
<1>8. \A q \in Requesters \ {r} : box'[q] = box[q]
  BY <1>3 DEF Inv, RequestsTypeOK
<1>9. ASSUME NEW q \in Requesters, pc[q] \in {"limit", "publish", "wait"}, box'[q] = <<>>
      PROVE  Sender(q)' \/ q \in losses
  <2>1. result[q] = None
    BY <1>9, WaitsReceive
  <2>2. CASE q # r
    <3>1. Sender(q) \/ q \in losses
      BY <1>8, <1>9, <2>2 DEF Inv, Waits
    <3> QED
      BY <1>3, <2>2, <3>1 DEF Sender, Cmd, channel
  <2>3. CASE q = r
    <3>1. ~known
      BY <1>7, <1>9, <2>1, <2>3 DEF Receives
    <3>2. box[q] = <<>>
      BY <1>3, <1>9, <3>1
    <3>3. Sender(q) \/ q \in losses
      BY <1>9, <3>2 DEF Inv, Waits
    <3> QED
      BY <1>3, <2>3, <3>1, <3>3 DEF Sender, Cmd, channel
  <2> QED
    BY <2>2, <2>3
<1>10. Waits'
  BY <1>3, <1>9 DEF Waits, fault
<1> QED
  BY <1>5, <1>6, <1>10 DEF Inv

\* failed_unsubscribe forgets only requests that returned.
LEMMA SweepInv == ASSUME Inv, Sweep PROVE Inv'
<1>1. /\ UNCHANGED <<request, commands, open, alive, up, shutting_down, muxMade, denied,
                     sent, asked, inbound, fault>>
      /\ unsubFailed' = FALSE
      /\ muxed' = {r \in muxed : Receives(r)}
      /\ subs' = {r \in subs : Receives(r)}
      /\ limited' = {r \in limited : Receives(r)}
      /\ interest' = interest \ {r \in subs : ~Receives(r)}
  BY DEF Sweep, Kept
<1>2. RequestsTypeOK'
  BY <1>1 DEF Inv, RequestsTypeOK, request, fault
<1>3. Kinds' /\ Stages' /\ Unsent' /\ Quits' /\ ClosedOnlyByLoss'
  BY <1>1 DEF Inv, Kinds, Stages, Unsent, Quits, ClosedOnlyByLoss, Cmd, request, fault
<1>4. \A r \in Requesters : Sender(r) /\ result[r] = None => Sender(r)'
  BY <1>1 DEF Sender, Cmd, Receives
<1>5. Waits'
  BY <1>1, <1>4, WaitsReceive DEF Inv, Waits, request, fault
<1> QED
  BY <1>2, <1>3, <1>5 DEF Inv

\* The multiplexed requests that a lost connection drops are the losses.
LEMMA DisconnectInv == ASSUME Inv, Disconnect PROVE Inv'
<1>1. /\ UNCHANGED <<request, channel, alive, subs, limited, sent, asked>>
      /\ up' = FALSE /\ shutting_down' = FALSE
      /\ muxed' = {} /\ muxMade' = FALSE /\ losses' = losses \cup muxed
      /\ missed' = missed \cup Arriving
      /\ interest' = {} /\ denied' = {} /\ inbound' = <<>>
      /\ faults' \in 0..MaxFaults
  BY RequestsAssumption DEF Disconnect, MuxAfterLoss, Fault, Inv, RequestsTypeOK
<1>2. inbound' \in Seq([r : Requesters, kind : {"msg", "none", "err"}])
  BY <1>1
<1>3. losses' \subseteq Requesters /\ missed' \subseteq Requesters
  BY <1>1 DEF Inv, RequestsTypeOK, Requesters, Arriving
<1>4. RequestsTypeOK'
  BY <1>1, <1>2, <1>3 DEF Inv, RequestsTypeOK, request, channel
<1>5. Kinds' /\ Stages' /\ Unsent' /\ Quits' /\ ClosedOnlyByLoss'
  BY <1>1 DEF Inv, Kinds, Stages, Unsent, Quits, ClosedOnlyByLoss, Cmd, request, channel
<1>6. \A r \in Requesters : Sender(r) => Sender(r)' \/ r \in losses'
  BY <1>1 DEF Sender, Cmd, channel
<1>7. Waits'
  BY <1>1, <1>6 DEF Inv, Waits, request
<1> QED
  BY <1>4, <1>5, <1>7 DEF Inv

\* The end of the handler takes every sender, and is every request's loss.
LEMMA StopsInv == ASSUME Inv, HandlerStops PROVE Inv'
<1>1. /\ UNCHANGED <<request, unsubFailed, sent, asked, faults, missed>>
      /\ alive' = FALSE /\ up' = FALSE /\ shutting_down' = FALSE
      /\ open' = FALSE /\ commands' = <<>>
      /\ subs' = {} /\ limited' = {} /\ muxed' = {} /\ muxMade' = FALSE
      /\ interest' = {} /\ denied' = {} /\ inbound' = <<>>
      /\ losses' = Requesters
  BY DEF HandlerStops
<1>2. /\ inbound' \in Seq([r : Requesters, kind : {"msg", "none", "err"}])
      /\ commands' \in Seq(Commands) /\ Len(commands') <= CommandCap
  BY <1>1, RequestsAssumption
<1>3. RequestsTypeOK'
  BY <1>1, <1>2 DEF Inv, RequestsTypeOK, request, Commands, Subscribing, Multiplexing
<1>4. Cmds(commands') = {}
  BY <1>1 DEF Cmds
<1>5. Kinds' /\ Stages' /\ Unsent' /\ Quits' /\ Waits' /\ ClosedOnlyByLoss'
  BY <1>1, <1>4
     DEF Inv, Kinds, Stages, Unsent, Quits, Waits, ClosedOnlyByLoss, Cmd, request
<1> QED
  BY <1>3, <1>5 DEF Inv

\* The steps of the server, of the responder and of the connection leave the
\* requests and the handler's maps alone.
LEMMA ElsewhereInv ==
    ASSUME Inv, RequestsTypeOK', sent' = sent,
           UNCHANGED <<request, commands, subs, muxed, losses>>
    PROVE  Inv'
BY DEF Inv, Kinds, Stages, Unsent, Quits, Waits, ClosedOnlyByLoss, Sender, Cmd, request

\* What the responder answers is on its way to the handler.
LEMMA ReplyInv ==
    ASSUME Inv, NEW r \in Requesters, NEW k \in {"msg", "none"}, Reply(r, k),
           faults' \in 0..MaxFaults
    PROVE  Inv'
<1>1. [r |-> r, kind |-> k] \in Inbound /\ inbound \in Seq(Inbound)
  BY DEF Inbound, Inv, RequestsTypeOK
<1>2. inbound' = inbound \/ inbound' = Append(inbound, [r |-> r, kind |-> k])
  BY DEF Reply
<1>3. inbound' \in Seq(Inbound) /\ missed' \subseteq Requesters
  BY <1>1, <1>2 DEF Reply, Inv, RequestsTypeOK
<1>4. RequestsTypeOK'
  BY <1>3 DEF Inbound, Reply, Inv, RequestsTypeOK, request, channel, handler
<1> QED
  BY <1>4, ElsewhereInv DEF Reply, request, channel, handler

\* So is the -ERR of a SUB.
LEMMA DeniesInv == ASSUME Inv, NEW k \in Keys, Denies(k) PROVE Inv'
<1>1. faults' \in 0..MaxFaults
  BY RequestsAssumption DEF Denies, Fault, Inv, RequestsTypeOK
<1>2. inbound' \in Seq([r : Requesters, kind : {"msg", "none", "err"}])
  <2>1. CASE k = Mux
    BY <2>1 DEF Denies, Inv, RequestsTypeOK
  <2>2. CASE k # Mux
    <3>1. [r |-> k, kind |-> "err"] \in [r : Requesters, kind : {"msg", "none", "err"}]
      BY <2>2 DEF Keys, Requesters
    <3> QED
      BY <2>2, <3>1 DEF Denies, Inv, RequestsTypeOK
  <2> QED
    BY <2>1, <2>2
<1>3. RequestsTypeOK'
  BY <1>1, <1>2 DEF Denies, Inv, RequestsTypeOK, request, channel, handler
<1> QED
  BY <1>3, ElsewhereInv DEF Denies, request, channel, handler

-----------------------------------------------------------------------------
\* Every step keeps Inv.
LEMMA NextInv == ASSUME Inv, [Next]_vars PROVE Inv'
<1>1. ASSUME NEW r \in Requesters, Replies(r) PROVE Inv'
  <2>1. faults' \in 0..MaxFaults
    BY <1>1 DEF Replies, Inv, RequestsTypeOK
  <2> QED
    BY <1>1, <2>1, ReplyInv DEF Replies
<1>2. ASSUME NEW r \in Requesters, RepliesAgain(r) PROVE Inv'
  <2>1. faults' \in 0..MaxFaults
    BY <1>2, RequestsAssumption DEF RepliesAgain, Fault, Inv, RequestsTypeOK
  <2> QED
    BY <1>2, <2>1, ReplyInv DEF RepliesAgain
<1>3. CASE Close
  <2>1. RequestsTypeOK'
    BY <1>3 DEF Close, Inv, RequestsTypeOK, request, server, fault
  <2> QED
    BY <1>3, <2>1, ElsewhereInv DEF Close, server, fault
<1>4. CASE HandlerEnds \/ CloseConnecting
  BY <1>4, StopsInv DEF HandlerEnds, CloseConnecting
<1>5. CASE Drained
  <2>1. RequestsTypeOK'
    BY <1>5 DEF Drained, Inv, RequestsTypeOK, request, channel, server, fault
  <2> QED
    BY <1>5, <2>1, ElsewhereInv DEF Drained, channel, server, fault
<1>6. CASE Connect
  <2>1. interest' \subseteq Keys
    BY <1>6 DEF Connect, Resubscribed, Inv, RequestsTypeOK, Keys
  <2>2. RequestsTypeOK'
    BY <1>6, <2>1 DEF Connect, Inv, RequestsTypeOK, request, channel, fault
  <2> QED
    BY <1>6, <2>2, ElsewhereInv DEF Connect, channel, fault
<1>7. CASE UNCHANGED vars
  <2>1. RequestsTypeOK'
    BY <1>7
       DEF Inv, RequestsTypeOK, vars, request, channel, handler, server, fault
  <2> QED
    BY <1>7, <2>1, ElsewhereInv DEF vars, channel, handler, server, fault
<1> QED
  BY <1>1, <1>2, <1>3, <1>4, <1>5, <1>6, <1>7,
     RequesterInv, TakeInv, DeliverInv, SweepInv, DisconnectInv, DeniesInv
     DEF Next

\* What a request returns is true, for any requests, capacity and faults: one
\* that was refused, cancelled or told that the client is closed is neither
\* sent nor on its way (client/mod.rs publish and request, try_ forms), and a
\* response ends as SubscriptionClosed (ResponseFut::poll) only when a lost
\* connection or the end of the handler took its sender.
THEOREM RequestsAreHonest == Spec => []RequestsInv
<1>1. Init => Inv
  BY InitInv
<1>2. Inv /\ [Next]_vars => Inv'
  BY NextInv
<1>3. Inv => RequestsInv
  BY InvImplies
<1> QED
  BY <1>1, <1>2, <1>3, PTL DEF Spec

-----------------------------------------------------------------------------
(***************************************************************************)
(* What is asked of the server, and what it answered.                      *)
(***************************************************************************)
Waiting(r) == result[r] = None /\ box[r] = <<>>

\* A request that is not sent has its SUB before its PUB in the channel, or has
\* been given to the handler.
Ahead(r) ==
    \A i \in 1..Len(commands) : commands[i] = Command("PUB", r) =>
        r \in subs \/ \E j \in 1..i - 1 : commands[j] = Command("SUB", r)

\* What the handler has in its maps the server was asked for on this connection.
Asks ==
    /\ \A r \in Explicit : Waiting(r) /\ r \notin sent => Ahead(r)
    /\ \A r \in Explicit : Waiting(r) /\ r \notin Arriving /\ up /\ r \in subs => r \in interest
    /\ muxMade => up /\ Mux \in interest
    /\ muxed # {} => muxMade
    /\ Arriving \subseteq sent
    /\ \A r \in Explicit : r \in losses => ~alive
    /\ ~alive => ~open /\ commands = <<>> /\ subs = {} /\ muxed = {}

\* A multiplexed request is given to the handler once.
Once ==
    /\ \A r \in Shared : r \in sent => ~Cmd("REQ", r)
    /\ \A r \in Shared : \A i, j \in 1..Len(commands) :
            commands[i] = Command("REQ", r) /\ commands[j] = Command("REQ", r) => i = j

\* A request that was sent and still waits is in a map of the handler, unless
\* it was cut off, and then it is in none and nothing brings it back.  Its
\* reply, once given, is on its way or missed.
Answers ==
    /\ Once
    /\ muxed \subseteq sent
    /\ \A r \in losses : r \notin subs \cup muxed /\ (alive => r \in sent)
    /\ \A r \in sent \ losses : Waiting(r) => r \in subs \cup muxed
    /\ \A r \in sent \ (asked \cup losses \cup missed) : Waiting(r) => r \in Arriving

AsksInv == Inv /\ Asks
AnswersInv == AsksInv /\ Answers

\* They hold before any request.
LEMMA InitAnswers == Init => Asks /\ Answers
<1> SUFFICES ASSUME Init PROVE Asks /\ Answers
  OBVIOUS
<1>1. /\ commands = <<>> /\ Len(commands) = 0 /\ inbound = <<>> /\ Len(inbound) = 0
      /\ sent = {} /\ subs = {} /\ muxed = {} /\ losses = {} /\ muxMade = FALSE /\ alive
  BY DEF Init
<1>2. Arriving = {}
  BY <1>1 DEF Arriving
<1> QED
  BY <1>1, <1>2 DEF Asks, Answers, Ahead, Once

-----------------------------------------------------------------------------
(***************************************************************************)
(* What is on its way.                                                     *)
(***************************************************************************)
\* A reply, or an error, that is sent ...
LEMMA ArrivingOfAppend ==
    ASSUME inbound \in Seq(Inbound), NEW m \in Inbound, inbound' = Append(inbound, m)
    PROVE  Arriving' = IF m.kind = "err" THEN Arriving ELSE Arriving \cup {m.r}
<1>1. /\ Len(inbound) \in Nat /\ Len(inbound') = Len(inbound) + 1
      /\ \A i \in 1..Len(inbound) : inbound'[i] = inbound[i]
      /\ inbound'[Len(inbound) + 1] = m
  OBVIOUS
<1>2. /\ \A i \in 1..Len(inbound') : i \in 1..Len(inbound) \/ i = Len(inbound) + 1
      /\ \A i \in 1..Len(inbound) : i \in 1..Len(inbound')
      /\ Len(inbound) + 1 \in 1..Len(inbound')
  BY <1>1
<1>3. m.r \in Requesters
  BY DEF Inbound
<1>4. \A r \in Requesters : r \in Arriving' <=>
          r \in Arriving \/ (m.r = r /\ m.kind # "err")
  BY <1>1, <1>2 DEF Arriving
<1>5. Arriving \subseteq Requesters /\ Arriving' \subseteq Requesters
  BY DEF Arriving
<1> QED
  BY <1>3, <1>4, <1>5

\* ... and one that is delivered.
LEMMA ArrivingOfTail ==
    ASSUME inbound \in Seq(Inbound), inbound # <<>>, inbound' = Tail(inbound)
    PROVE  /\ Arriving' \subseteq Arriving
           /\ Arriving \subseteq Arriving' \cup {Head(inbound).r}
<1>1. /\ Len(inbound) \in Nat \ {0} /\ Len(inbound') = Len(inbound) - 1
      /\ \A i \in 1..Len(inbound') : inbound'[i] = inbound[i + 1]
      /\ Head(inbound) = inbound[1]
  OBVIOUS
<1>2. \A i \in 1..Len(inbound') : i + 1 \in 1..Len(inbound)
  BY <1>1
<1>3. Arriving' \subseteq Arriving
  BY <1>1, <1>2 DEF Arriving
<1>4. ASSUME NEW r \in Arriving, r # Head(inbound).r PROVE r \in Arriving'
  <2>1. PICK i \in 1..Len(inbound) : inbound[i].r = r /\ inbound[i].kind # "err"
    BY DEF Arriving
  <2>2. i # 1
    BY <1>1, <1>4, <2>1
  <2>3. i - 1 \in 1..Len(inbound') /\ inbound'[i - 1] = inbound[i - 1 + 1] /\ i - 1 + 1 = i
    BY <1>1, <2>2
  <2>4. inbound'[i - 1].r = r /\ inbound'[i - 1].kind # "err"
    BY <2>1, <2>3
  <2>5. r \in Requesters
    BY DEF Arriving
  <2> QED
    BY <2>3, <2>4, <2>5 DEF Arriving
<1> QED
  BY <1>3, <1>4

\* A connection that ends carries nothing.
LEMMA ArrivingOfNone == ASSUME inbound' = <<>> PROVE Arriving' = {}
BY DEF Arriving

\* Arriving depends on what is inbound only.
LEMMA ArrivingElsewhere == ASSUME inbound' = inbound PROVE Arriving' = Arriving
BY DEF Arriving

\* A command that is sent leaves the ones before it where they are.
LEMMA AheadOfAppend ==
    ASSUME NEW r \in Explicit, Ahead(r), commands \in Seq(Commands), subs' = subs,
           NEW c \in Commands, commands' = Append(commands, c),
           c = Command("PUB", r) => r \in subs \/ Cmd("SUB", r)
    PROVE  Ahead(r)'
<1>1. /\ Len(commands) \in Nat /\ Len(commands') = Len(commands) + 1
      /\ \A i \in 1..Len(commands) : commands'[i] = commands[i]
      /\ commands'[Len(commands) + 1] = c
  OBVIOUS
<1>2. SUFFICES ASSUME NEW i \in 1..Len(commands'), commands'[i] = Command("PUB", r),
                      r \notin subs
               PROVE  \E j \in 1..i - 1 : commands'[j] = Command("SUB", r)
  BY DEF Ahead
<1>3. CASE i \in 1..Len(commands)
  <2>1. PICK j \in 1..i - 1 : commands[j] = Command("SUB", r)
    BY <1>1, <1>2, <1>3 DEF Ahead
  <2>2. j \in 1..Len(commands)
    BY <1>1, <1>3
  <2> QED
    BY <1>1, <2>1, <2>2
<1>4. CASE i = Len(commands) + 1
  <2>1. PICK j \in 1..Len(commands) : commands[j] = Command("SUB", r)
    BY <1>1, <1>2, <1>4 DEF Cmd, Cmds
  <2> QED
    BY <1>1, <1>4, <2>1
<1> QED
  BY <1>1, <1>3, <1>4

\* So does lazy_unsubscribe, which never publishes.
LEMMA AheadOfLazy ==
    ASSUME NEW r \in Explicit, Ahead(r), commands \in Seq(Commands), subs' = subs,
           NEW op \in {"MAX", "UNSUB", "FORGET"}, NEW q \in Requesters,
           Lazily(Command(op, q))
    PROVE  Ahead(r)'
<1>1. Command(op, q) \in Commands /\ Command(op, q) # Command("PUB", r)
  BY DEF Command, Commands, Subscribing, Multiplexing
<1>2. commands' = commands \/ commands' = Append(commands, Command(op, q))
  BY DEF Lazily
<1>3. CASE commands' = commands
  BY <1>3 DEF Ahead
<1> QED
  BY <1>1, <1>2, <1>3, AheadOfAppend

\* Nor does what a request drops.
LEMMA AheadOfDrops ==
    ASSUME NEW r \in Explicit, Ahead(r), commands \in Seq(Commands), subs' = subs,
           NEW q \in Requesters, Drops(q) \/ UNCHANGED <<commands, unsubFailed>>
    PROVE  Ahead(r)'
<1>1. CASE UNCHANGED <<commands, unsubFailed>>
  BY <1>1 DEF Ahead
<1>2. CASE Lazily(Command("FORGET", q)) \/ Lazily(Command("UNSUB", q))
  BY <1>2, AheadOfLazy
<1> QED
  BY <1>1, <1>2 DEF Drops

\* A request that waits after a step of a request waited before it.
LEMMA WaitingBefore ==
    ASSUME Inv, NEW q \in Requesters,
           Enqueue(q) \/ Limit(q) \/ Refuse(q) \/ Cancel(q) \/ Elapse(q) \/ Poll(q),
           NEW r \in Requesters, Waiting(r)'
    PROVE  Waiting(r)
<1>1. /\ result \in [Requesters -> Results \cup {None}]
      /\ box \in [Requesters -> Seq({"msg", "none", "err"})]
  BY DEF Inv, RequestsTypeOK
<1>2. CASE \E what : Returns(q, what)
  <2>1. PICK what : Returns(q, what)
    BY <1>2
  <2>2. CASE r = q
    <3>1. pc'[r] = "done"
      BY <2>1, <2>2 DEF Returns, Goes, Inv, RequestsTypeOK
    <3>2. Inv'
      BY RequesterInv
    <3>3. result'[r] # None
      BY <3>1, <3>2 DEF Inv, Stages
    <3> QED
      BY <3>3 DEF Waiting
  <2>3. CASE r # q
    BY <1>1, <2>1, <2>3 DEF Returns, Waiting
  <2> QED
    BY <2>2, <2>3
<1>3. CASE UNCHANGED <<result, box>>
  BY <1>3 DEF Waiting
<1> QED
  BY <1>2, <1>3 DEF Enqueue, Limit, Refuse, Cancel, Elapse, Poll, Answered,
     SubscriptionClosed, TimesOut

\* What a step of a request leaves alone.
LEMMA RequesterElsewhere ==
    ASSUME NEW q \in Requesters,
           Enqueue(q) \/ Limit(q) \/ Refuse(q) \/ Cancel(q) \/ Elapse(q) \/ Poll(q)
    PROVE  /\ UNCHANGED <<open, alive, up, subs, muxed, muxMade, interest, sent, asked>>
           /\ UNCHANGED <<inbound, losses, missed>>
<1>1. CASE Enqueue(q) \/ Limit(q) \/ Refuse(q) \/ Elapse(q)
  BY <1>1 DEF Enqueue, Enqueues, Limit, Refuse, Elapse, Returns, handler, server, fault, channel
<1>2. CASE Cancel(q)
  BY <1>2 DEF Cancel, Returns, handler, server
<1>3. CASE Poll(q)
  BY <1>3 DEF Poll, Answered, SubscriptionClosed, TimesOut, Returns, handler, server, fault
<1> QED
  BY <1>1, <1>2, <1>3

\* A request keeps to the order in which it asks and publishes.
LEMMA RequesterAsks ==
    ASSUME AsksInv, NEW q \in Requesters,
           Enqueue(q) \/ Limit(q) \/ Refuse(q) \/ Cancel(q) \/ Elapse(q) \/ Poll(q)
    PROVE  Asks'
<1>1. commands \in Seq(Commands) /\ Inv
  BY DEF AsksInv, Inv, RequestsTypeOK, Commands, Subscribing, Multiplexing
<1>2. /\ UNCHANGED <<open, alive, up, subs, muxed, muxMade, interest, sent, asked>>
      /\ UNCHANGED <<inbound, losses, missed>>
  BY RequesterElsewhere
<1>3. Arriving' = Arriving
  BY <1>2, ArrivingElsewhere
<1>4. Explicit \subseteq Requesters
  BY DEF Requesters
<1>5. ASSUME NEW r \in Explicit, Waiting(r)' PROVE Waiting(r)
  BY <1>1, <1>4, <1>5, WaitingBefore
<1>6. ASSUME NEW r \in Explicit, Waiting(r)', r \notin sent' PROVE Ahead(r)'
  <2>1. Waiting(r) /\ Ahead(r)
    BY <1>2, <1>5, <1>6 DEF AsksInv, Asks
  <2>2. CASE Enqueue(q)
    <3> DEFINE c == Command(First[pc[q]], q)
    <3>1. commands' = Append(commands, c) /\ pc[q] \in DOMAIN First /\ open
      BY <2>2 DEF Enqueue, Enqueues
    <3>2. c \in Commands
      BY <3>1 DEF First, Command, Commands, Subscribing, Multiplexing
    <3>3. ASSUME c = Command("PUB", r) PROVE r \in subs \/ Cmd("SUB", r)
      <4>1. q = r /\ pc[r] = "publish"
        BY <3>1, <3>3 DEF Command, First
      <4>2. Sender(r) \/ r \in losses
        BY <2>1, <4>1, <1>4 DEF AsksInv, Inv, Waits, Waiting
      <4>3. r \notin losses
        BY <3>1 DEF AsksInv, Asks
      <4>4. r \notin Shared
        BY RequestsAssumption
      <4>5. r \notin muxed /\ ~Cmd("REQ", r)
        BY <4>4 DEF AsksInv, Inv, RequestsTypeOK, Kinds, Cmd, Command, Multiplexing
      <4> QED
        BY <4>2, <4>3, <4>5 DEF Sender
    <3> HIDE DEF c
    <3> QED
      BY <1>1, <1>2, <2>1, <3>1, <3>2, <3>3, AheadOfAppend
  <2>3. CASE Limit(q)
    BY <1>1, <1>2, <2>1, <2>3, AheadOfLazy DEF Limit
  <2>4. CASE Drops(q) \/ UNCHANGED <<commands, unsubFailed>>
    BY <1>1, <1>2, <2>1, <2>4, AheadOfDrops
  <2> QED
    BY <2>2, <2>3, <2>4 DEF Refuse, Cancel, Elapse, Poll, Answered,
       SubscriptionClosed, TimesOut, channel
<1>7. ~open => commands' = commands
  BY DEF Enqueue, Enqueues, Limit, Refuse, Cancel, Elapse, Poll, Answered,
     SubscriptionClosed, TimesOut, Drops, Lazily, channel
<1> QED
  BY <1>2, <1>3, <1>5, <1>6, <1>7 DEF AsksInv, Asks

\* It gives its multiplexed request to the channel once.
LEMMA OnceOfAppend ==
    ASSUME Once, commands \in Seq(Commands), sent' = sent,
           NEW c \in Commands, commands' = Append(commands, c),
           \A r \in Shared : c = Command("REQ", r) => r \notin sent /\ ~Cmd("REQ", r)
    PROVE  Once'
<1>1. /\ Len(commands) \in Nat /\ Len(commands') = Len(commands) + 1
      /\ \A i \in 1..Len(commands) : commands'[i] = commands[i]
      /\ commands'[Len(commands) + 1] = c
  OBVIOUS
<1>2. ASSUME NEW r \in Shared, r \in sent' PROVE ~Cmd("REQ", r)'
  <2>1. Cmds(commands') = Cmds(commands) \cup {c}
    BY CmdsOfAppend
  <2> QED
    BY <1>2, <2>1 DEF Once, Cmd
<1>3. ASSUME NEW r \in Shared, NEW i \in 1..Len(commands'), NEW j \in 1..Len(commands'),
             commands'[i] = Command("REQ", r), commands'[j] = Command("REQ", r)
      PROVE  i = j
  <2>1. \A k \in 1..Len(commands') : k \in 1..Len(commands) \/ k = Len(commands) + 1
    BY <1>1
  <2>2. ASSUME c = Command("REQ", r), NEW k \in 1..Len(commands)
        PROVE  commands[k] # Command("REQ", r)
    BY <2>2 DEF Cmd, Cmds
  <2> QED
    BY <1>1, <1>3, <2>1, <2>2 DEF Once
<1> QED
  BY <1>2, <1>3 DEF Once

LEMMA RequesterAnswers ==
    ASSUME AnswersInv, NEW q \in Requesters,
           Enqueue(q) \/ Limit(q) \/ Refuse(q) \/ Cancel(q) \/ Elapse(q) \/ Poll(q)
    PROVE  Answers'
<1>1. commands \in Seq(Commands) /\ Inv
  BY DEF AnswersInv, AsksInv, Inv, RequestsTypeOK, Commands, Subscribing, Multiplexing
<1>2. /\ UNCHANGED <<open, alive, up, subs, muxed, muxMade, interest, sent, asked>>
      /\ UNCHANGED <<inbound, losses, missed>>
  BY RequesterElsewhere
<1>3. Arriving' = Arriving
  BY <1>2, ArrivingElsewhere
<1>4. \A r \in Requesters : Waiting(r)' => Waiting(r)
  BY <1>1, WaitingBefore
<1>5. sent \subseteq Requesters
  BY <1>1 DEF Inv, RequestsTypeOK
<1>6. ASSUME NEW op \in {"MAX", "UNSUB", "FORGET"}, Lazily(Command(op, q)) PROVE Once'
  <2>1. CASE commands' = commands
    BY <1>2, <2>1 DEF AnswersInv, Answers, Once, Cmd
  <2>2. CASE commands' = Append(commands, Command(op, q))
    <3>1. Command(op, q) \in Commands /\ \A r : Command(op, q) # Command("REQ", r)
      BY DEF Command, Commands, Subscribing, Multiplexing
    <3> QED
      BY <1>1, <1>2, <2>2, <3>1, OnceOfAppend DEF AnswersInv, Answers
  <2> QED
    BY <1>6, <2>1, <2>2 DEF Lazily
<1>7. Once'
  <2>1. CASE Enqueue(q)
    <3> DEFINE c == Command(First[pc[q]], q)
    <3>1. commands' = Append(commands, c) /\ pc[q] \in DOMAIN First
      BY <2>1 DEF Enqueue, Enqueues
    <3>2. c \in Commands
      BY <3>1 DEF First, Command, Commands, Subscribing, Multiplexing
    <3>3. ASSUME NEW r \in Shared, c = Command("REQ", r)
          PROVE  r \notin sent /\ ~Cmd("REQ", r)
      <4>1. q = r /\ pc[r] = "multiplex"
        BY <3>1, <3>3 DEF Command, First
      <4> QED
        BY <1>1, <4>1 DEF Inv, Unsent, Requesters
    <3> HIDE DEF c
    <3> QED
      BY <1>1, <1>2, <3>1, <3>2, <3>3, OnceOfAppend DEF AnswersInv, Answers
  <2>2. CASE Limit(q)
    BY <1>6, <2>2 DEF Limit
  <2>3. CASE Drops(q)
    BY <1>2, <1>6, <2>3 DEF Drops, AnswersInv, Answers, Once, Cmd
  <2>4. CASE UNCHANGED commands
    BY <1>2, <2>4 DEF AnswersInv, Answers, Once, Cmd
  <2> QED
    BY <2>1, <2>2, <2>3, <2>4 DEF Refuse, Cancel, Elapse, Poll, Answered,
       SubscriptionClosed, TimesOut, channel
<1> QED
  BY <1>2, <1>3, <1>4, <1>5, <1>7 DEF AnswersInv, Answers

\* The handler that takes a SUB has asked, and one that takes a PUB took the
\* SUB of it before.
LEMMA TakeAsks ==
    ASSUME AnswersInv, Take
    PROVE  /\ Asks' /\ Answers'
           /\ \A r \in sent' \ sent : Receives(r) /\ box[r] = <<>> => Key(r) \in interest'
<1> DEFINE c == Head(commands)
<1>1. commands \in Seq(Commands) /\ commands # <<>> /\ commands' = Tail(commands)
      /\ Inv /\ Asks /\ Answers
  BY DEF Take, AnswersInv, AsksInv, Inv, RequestsTypeOK, Commands, Subscribing, Multiplexing
<1>2. /\ Len(commands) \in Nat \ {0}
      /\ Len(commands') = Len(commands) - 1
      /\ \A i \in 1..Len(commands') : commands'[i] = commands[i + 1]
      /\ c = commands[1] /\ c \in Commands
      /\ 1 \in 1..Len(commands) /\ \A i \in 1..Len(commands') : i + 1 \in 1..Len(commands)
  BY <1>1
<1>3. /\ c = Command(c.op, c.r) /\ c.r \in Requesters
      /\ Cmds(commands) = Cmds(commands') \cup {c}
      /\ c.op \in Subscribing => c.r \in Explicit
      /\ c.op \in Multiplexing => c.r \in Shared
  <2>1. c = Command(c.op, c.r) /\ c.r \in Requesters
    BY <1>2 DEF Commands, Command
  <2>2. Cmds(commands) = Cmds(commands') \cup {c}
    BY <1>1, CmdsOfTail
  <2> QED
    BY <1>1, <2>1, <2>2 DEF Inv, Kinds
<1>4. /\ subs' = CASE c.op = "SUB" -> subs \cup {c.r}
                   [] c.op = "UNSUB" -> subs \ {c.r}
                   [] OTHER -> subs
      /\ muxed' = CASE c.op = "REQ" -> muxed \cup {c.r}
                    [] c.op = "FORGET" -> muxed \ {c.r}
                    [] OTHER -> muxed
      /\ muxMade' = (muxMade \/ c.op = "REQ")
      /\ interest' = CASE c.op = "SUB" -> interest \cup {c.r}
                       [] c.op = "UNSUB" /\ c.r \in subs -> interest \ {c.r}
                       [] c.op = "REQ" /\ ~muxMade -> interest \cup {Mux}
                       [] OTHER -> interest
      /\ sent' = IF c.op \in {"PUB", "REQ"} THEN sent \cup {c.r} ELSE sent
      /\ asked' = IF c.op \in {"PUB", "REQ"} THEN asked \cup {c.r} ELSE asked
      /\ UNCHANGED <<request, open, alive, up, inbound, fault>> /\ up
  BY DEF Take
<1> HIDE DEF c
<1>5. UNCHANGED <<result, box, losses, missed>> /\ Arriving' = Arriving /\ alive
  BY <1>1, <1>4, ArrivingElsewhere DEF request, fault, Inv, RequestsTypeOK
<1>6. /\ Explicit \subseteq Requesters /\ Shared \subseteq Requesters
      /\ \A r \in Requesters : r \in Explicit \/ r \in Shared
      /\ subs \subseteq Explicit /\ muxed \subseteq Shared
  BY <1>1 DEF Requesters, Inv, RequestsTypeOK
<1>7. ASSUME NEW r \in Requesters, Waiting(r)'
      PROVE  /\ Waiting(r) /\ (r \in subs => r \in subs') /\ (r \in muxed => r \in muxed')
             /\ r \in interest => r \in interest'
  <2>1. Waiting(r)
    BY <1>5, <1>7 DEF Waiting
  <2>2. c # Command("UNSUB", r) /\ c # Command("FORGET", r)
    BY <1>1, <1>3, <2>1 DEF Inv, Quits, Cmd, Waiting
  <2> QED
    BY <1>3, <1>4, <2>1, <2>2
<1>8. ASSUME NEW r \in Explicit, Waiting(r)', r \notin sent' PROVE Ahead(r)'
  <2>1. SUFFICES ASSUME NEW i \in 1..Len(commands'), commands'[i] = Command("PUB", r)
                 PROVE  r \in subs' \/ \E j \in 1..i - 1 : commands'[j] = Command("SUB", r)
    BY DEF Ahead
  <2>2. i + 1 \in 1..Len(commands) /\ commands[i + 1] = Command("PUB", r)
    BY <1>2, <2>1
  <2>3. Waiting(r) /\ r \notin sent /\ (r \in subs => r \in subs')
    BY <1>4, <1>6, <1>7, <1>8
  <2>4. CASE r \in subs
    BY <2>3, <2>4
  <2>5. CASE r \notin subs
    <3>1. PICK j \in 1..i + 1 - 1 : commands[j] = Command("SUB", r)
      BY <1>1, <2>2, <2>3, <2>5 DEF Ahead, Asks
    <3>2. CASE j = 1
      <4>1. c.op = "SUB" /\ c.r = r
        BY <1>2, <3>1, <3>2 DEF Command
      <4> QED
        BY <1>4, <4>1
    <3>3. CASE j # 1
      <4>1. j - 1 \in 1..i - 1 /\ j - 1 \in 1..Len(commands')
        BY <1>2, <3>1, <3>3
      <4>2. commands'[j - 1] = commands[j - 1 + 1] /\ j - 1 + 1 = j
        BY <1>2, <4>1
      <4> QED
        BY <3>1, <4>1, <4>2
    <3> QED
      BY <3>2, <3>3
  <2> QED
    BY <2>4, <2>5
<1>9. ASSUME NEW r \in Explicit, Waiting(r)', r \notin Arriving', r \in subs'
      PROVE  r \in interest'
  <2>1. CASE r \in subs
    BY <1>1, <1>4, <1>5, <1>6, <1>7, <1>9, <2>1 DEF Asks
  <2>2. CASE r \notin subs
    <3>1. c.op = "SUB" /\ c.r = r
      BY <1>4, <1>9, <2>2
    <3> QED
      BY <1>4, <3>1
  <2> QED
    BY <2>1, <2>2
<1>10. muxMade' => up' /\ Mux \in interest'
  <2>1. Mux \notin Requesters
    BY RequestsAssumption
  <2>2. Mux \in interest => Mux \in interest'
    BY <1>3, <1>4, <2>1
  <2>3. c.op = "REQ" /\ ~muxMade => Mux \in interest'
    BY <1>4
  <2> QED
    BY <1>1, <1>4, <2>2, <2>3 DEF Asks
<1>11. Asks'
  <2>1. muxed' # {} => muxMade'
    BY <1>1, <1>4 DEF Asks
  <2>2. Arriving' \subseteq sent'
    BY <1>1, <1>4, <1>5 DEF Asks
  <2>3. \A r \in Explicit : r \in losses' => ~alive'
    BY <1>1, <1>4, <1>5 DEF Asks
  <2> QED
    BY <1>4, <1>5, <1>8, <1>9, <1>10, <2>1, <2>2, <2>3 DEF Asks
<1>12. ASSUME c.op \in {"PUB", "REQ"}, Waiting(c.r)
       PROVE  /\ c.r \in subs' \cup muxed'
              /\ c.r \notin sent => Key(c.r) \in interest'
  <2>1. CASE c.op = "REQ"
    <3>1. Key(c.r) = Mux
      BY <1>3, <2>1, RequestsAssumption DEF Key, Multiplexing
    <3> QED
      BY <1>4, <1>10, <2>1, <3>1
  <2>2. CASE c.op = "PUB"
    <3>1. c.r \in Explicit /\ Key(c.r) = c.r /\ c.r \notin muxed
      BY <1>3, <1>6, <2>2, RequestsAssumption DEF Subscribing, Key
    <3>2. CASE c.r \in sent
      <4>1. c.r \notin losses
        BY <1>1, <1>5, <3>1 DEF Asks
      <4> QED
        BY <1>1, <1>4, <1>12, <2>2, <3>1, <3>2, <4>1 DEF Answers
    <3>3. CASE c.r \notin sent
      <4>1. Ahead(c.r)
        BY <1>1, <1>12, <3>1, <3>3 DEF Asks
      <4>2. commands[1] = Command("PUB", c.r) /\ 1..1 - 1 = {}
        BY <1>2, <1>3, <2>2
      <4>3. c.r \in subs
        BY <1>2, <4>1, <4>2 DEF Ahead
      <4>4. c.r \notin Arriving
        BY <1>1, <3>3 DEF Asks
      <4>5. c.r \in interest
        BY <1>1, <1>4, <1>12, <3>1, <4>3, <4>4 DEF Asks
      <4> QED
        BY <1>4, <2>2, <3>1, <4>3, <4>5
    <3> QED
      BY <3>2, <3>3
  <2> QED
    BY <1>12, <2>1, <2>2
<1>13. Once'
  <2>1. ASSUME NEW r \in Shared, NEW i \in 1..Len(commands'), NEW j \in 1..Len(commands'),
               commands'[i] = Command("REQ", r), commands'[j] = Command("REQ", r)
        PROVE  i = j
    <3>1. i + 1 = j + 1
      BY <1>1, <1>2, <2>1 DEF Answers, Once
    <3> QED
      BY <3>1
  <2>2. ASSUME NEW r \in Shared, r \in sent', Cmd("REQ", r)' PROVE FALSE
    <3>1. Cmd("REQ", r)
      BY <1>3, <2>2 DEF Cmd
    <3>2. r \notin sent
      BY <1>1, <3>1 DEF Answers, Once
    <3>3. c.r = r /\ c.op \in {"PUB", "REQ"}
      BY <1>4, <2>2, <3>2
    <3>4. c = Command("REQ", r)
      BY <1>3, <3>3, RequestsAssumption DEF Subscribing
    <3>5. PICK i \in 1..Len(commands') : commands'[i] = Command("REQ", r)
      BY <2>2 DEF Cmd, Cmds
    <3>6. i + 1 = 1
      BY <1>1, <1>2, <3>4, <3>5 DEF Answers, Once
    <3> QED
      BY <3>6
  <2> QED
    BY <2>1, <2>2 DEF Once
<1>14. muxed' \subseteq sent'
  BY <1>1, <1>4 DEF Answers
<1>15. ASSUME NEW r \in losses' PROVE r \notin subs' \cup muxed' /\ (alive' => r \in sent')
  <2>1. r \notin subs \cup muxed /\ r \in sent /\ r \notin Explicit
    BY <1>1, <1>5, <1>15 DEF Answers, Asks
  <2>2. r \in Shared /\ r \in Requesters
    BY <1>1, <1>5, <1>15, <2>1, <1>6 DEF Inv, RequestsTypeOK
  <2>3. c # Command("REQ", r)
    BY <1>1, <1>3, <2>1, <2>2 DEF Answers, Once, Cmd
  <2>4. r \notin subs'
    BY <1>3, <1>4, <2>1 DEF Subscribing
  <2> QED
    BY <1>3, <1>4, <2>1, <2>3, <2>4
<1>16. ASSUME NEW r \in sent' \ losses', Waiting(r)' PROVE r \in subs' \cup muxed'
  <2>1. r \in Requesters
    BY <1>1, <1>3, <1>4 DEF Inv, RequestsTypeOK
  <2>2. CASE r \in sent
    BY <1>1, <1>5, <1>7, <1>16, <2>1, <2>2 DEF Answers
  <2>3. CASE r \notin sent
    BY <1>4, <1>7, <1>12, <1>16, <2>1, <2>3
  <2> QED
    BY <2>2, <2>3
<1>17. ASSUME NEW r \in sent' \ (asked' \cup losses' \cup missed'), Waiting(r)'
       PROVE  r \in Arriving'
  BY <1>1, <1>4, <1>5, <1>17 DEF Answers, Waiting
<1>18. \A r \in sent' \ sent : Receives(r) /\ box[r] = <<>> => Key(r) \in interest'
  BY <1>4, <1>12 DEF Receives, Waiting
<1> QED
  BY <1>11, <1>13, <1>14, <1>15, <1>16, <1>17, <1>18 DEF Answers

\* A delivery fills the box of who waits before it leaves the maps.
LEMMA DeliverAsks == ASSUME AnswersInv, Deliver PROVE Asks' /\ Answers'
<1> DEFINE q == Head(inbound).r
           k == Head(inbound).kind
<1>1. inbound \in Seq(Inbound) /\ inbound # <<>> /\ inbound' = Tail(inbound)
      /\ Inv /\ Asks /\ Answers
  BY DEF Deliver, AnswersInv, AsksInv, Inv, RequestsTypeOK, Inbound
<1>2. q \in Requesters /\ k \in {"msg", "none", "err"}
  <2>1. Head(inbound) \in Inbound
    BY <1>1
  <2> QED
    BY <2>1 DEF Inbound
<1>3. /\ box' = IF q \in subs \cup muxed /\ Receives(q)
                THEN [box EXCEPT ![q] = Append(@, k)] ELSE box
      /\ subs' = IF k = "err" \/ ((q \in limited \/ k = "err") /\ Receives(q))
                 THEN subs \ {q} ELSE subs
      /\ muxed' = muxed \ {q}
      /\ interest' = IF q \in subs /\ ~Receives(q) /\ k # "err" THEN interest \ {q} ELSE interest
      /\ UNCHANGED <<result, channel, alive, up, muxMade, sent, asked, fault>>
  BY DEF Deliver
<1>4. Arriving' \subseteq Arriving /\ Arriving \subseteq Arriving' \cup {q}
  BY <1>1, ArrivingOfTail
<1> HIDE DEF q, k
<1>5. /\ box \in [Requesters -> Seq({"msg", "none", "err"})] /\ Explicit \subseteq Requesters
      /\ subs \subseteq Explicit /\ muxed \subseteq Shared /\ sent \subseteq Requesters
  BY <1>1 DEF Inv, RequestsTypeOK, Requesters
<1>6. UNCHANGED <<commands, open, losses, missed>>
  BY <1>3 DEF channel, fault
<1>7. box[q] \in Seq({"msg", "none", "err"}) /\ Append(box[q], k) # <<>>
  <2>1. box[q] \in Seq({"msg", "none", "err"})
    BY <1>2, <1>5
  <2> QED
    BY <1>2, <2>1
<1>8. \A r \in Requesters : Waiting(r)' /\ r \in subs \cup muxed => r # q
  <2>1. SUFFICES ASSUME result'[q] = None, box'[q] = <<>>, q \in subs \cup muxed
                 PROVE  FALSE
    BY DEF Waiting
  <2>2. box'[q] = Append(box[q], k)
    BY <1>2, <1>3, <1>5, <2>1 DEF Receives
  <2> QED
    BY <1>7, <2>1, <2>2
<1>9. \A r \in Requesters \ {q} : box'[r] = box[r]
  BY <1>3, <1>5
<1>10. \A r \in Requesters : Waiting(r)' => Waiting(r)
  <2>1. box'[q] = <<>> => box[q] = <<>>
    BY <1>2, <1>3, <1>5, <1>7
  <2> QED
    BY <1>3, <1>9, <2>1 DEF Waiting
<1>11. ASSUME NEW r \in Explicit, Waiting(r)', r \notin sent' PROVE Ahead(r)'
  <2>1. Ahead(r)
    BY <1>1, <1>3, <1>5, <1>10, <1>11 DEF Asks
  <2>2. r \in subs => r \in subs'
    BY <1>3, <1>5, <1>8, <1>11
  <2> QED
    BY <1>6, <2>1, <2>2 DEF Ahead
<1>12. ASSUME NEW r \in Explicit, Waiting(r)', r \notin Arriving', up', r \in subs'
       PROVE  r \in interest'
  <2>1. r # q
    BY <1>3, <1>5, <1>8, <1>12
  <2>2. r \in interest
    BY <1>1, <1>3, <1>4, <1>5, <1>10, <1>12, <2>1 DEF Asks
  <2> QED
    BY <1>3, <2>1, <2>2
<1>13. muxMade' => up' /\ Mux \in interest'
  <2>1. Mux # q
    BY <1>2, RequestsAssumption
  <2> QED
    BY <1>1, <1>3, <2>1 DEF Asks
<1>14. Asks'
  <2>1. muxed' # {} => muxMade'
    BY <1>1, <1>3 DEF Asks
  <2>2. Arriving' \subseteq sent'
    BY <1>1, <1>3, <1>4 DEF Asks
  <2>3. \A r \in Explicit : r \in losses' => ~alive'
    BY <1>1, <1>3, <1>6 DEF Asks
  <2>4. ~alive' => ~open' /\ commands' = <<>> /\ subs' = {} /\ muxed' = {}
    BY <1>1, <1>3, <1>6 DEF Asks
  <2> QED
    BY <1>11, <1>12, <1>13, <2>1, <2>2, <2>3, <2>4 DEF Asks
<1>15. Once'
  BY <1>1, <1>3, <1>6 DEF Answers, Once, Cmd
<1>16. \A r \in sent' \ losses' : Waiting(r)' => r \in subs' \cup muxed'
  <2> SUFFICES ASSUME NEW r \in sent \ losses, Waiting(r)' PROVE r \in subs' \cup muxed'
    BY <1>3, <1>6
  <2>1. r \in subs \cup muxed
    BY <1>1, <1>5, <1>10 DEF Answers
  <2>2. r # q
    BY <1>5, <1>8, <2>1
  <2> QED
    BY <1>3, <2>1, <2>2
<1>17. \A r \in sent' \ (asked' \cup losses' \cup missed') : Waiting(r)' => r \in Arriving'
  <2> SUFFICES ASSUME NEW r \in sent \ (asked \cup losses \cup missed), Waiting(r)'
               PROVE  r \in Arriving'
    BY <1>3, <1>6
  <2>1. r \in subs \cup muxed /\ r \in Arriving
    BY <1>1, <1>5, <1>10 DEF Answers
  <2>2. r # q
    BY <1>5, <1>8, <2>1
  <2> QED
    BY <1>4, <2>1, <2>2
<1> QED
  BY <1>1, <1>3, <1>6, <1>14, <1>15, <1>16, <1>17 DEF Answers

\* Where the commands and the replies stay, what the maps lose nobody waits for.
LEMMA AsksElsewhere ==
    ASSUME AnswersInv,
           UNCHANGED <<commands, result, box, sent, asked, alive, losses, missed>>,
           Arriving' = Arriving, open' => open,
           subs' \subseteq subs, muxed' \subseteq muxed,
           \A r \in Requesters : Waiting(r) => (r \in subs => r \in subs')
                                            /\ (r \in muxed => r \in muxed'),
           \A r \in Explicit : Waiting(r) /\ r \notin Arriving /\ up' /\ r \in subs' => r \in interest',
           muxMade' = muxMade, muxMade => up' /\ Mux \in interest'
    PROVE  Asks' /\ Answers'
<1>1. /\ Asks /\ Answers /\ Explicit \subseteq Requesters /\ sent \subseteq Requesters
      /\ \A r : Waiting(r)' <=> Waiting(r)
  BY DEF AnswersInv, AsksInv, Inv, RequestsTypeOK, Requesters, Waiting
<1>2. ASSUME NEW r \in Explicit, Waiting(r)', r \notin sent' PROVE Ahead(r)'
  <2>1. Ahead(r) /\ (r \in subs => r \in subs')
    BY <1>1, <1>2 DEF Asks
  <2> QED
    BY <2>1 DEF Ahead
<1>3. Asks'
  <2>1. ~alive' => ~open' /\ commands' = <<>> /\ subs' = {} /\ muxed' = {}
    BY <1>1 DEF Asks
  <2> QED
    BY <1>1, <1>2, <2>1 DEF Asks
<1>4. Once'
  BY <1>1 DEF Answers, Once, Cmd
<1> QED
  BY <1>1, <1>3, <1>4 DEF Answers

\* Only a subscription that nobody receives is swept.
LEMMA SweepAsks == ASSUME AnswersInv, Sweep PROVE Asks' /\ Answers'
<1>1. /\ UNCHANGED <<request, commands, open, alive, up, muxMade, sent, asked, inbound, fault>>
      /\ muxed' = {r \in muxed : Receives(r)}
      /\ subs' = {r \in subs : Receives(r)}
      /\ interest' = interest \ {r \in subs : ~Receives(r)}
  BY DEF Sweep, Kept
<1>2. UNCHANGED <<result, box, losses, missed>> /\ Arriving' = Arriving
  BY <1>1, ArrivingElsewhere DEF request, fault
<1>3. Asks /\ subs \subseteq Explicit /\ Mux \notin subs
  BY RequestsAssumption DEF AnswersInv, AsksInv, Inv, RequestsTypeOK, Requesters
<1>4. \A r \in Requesters : Waiting(r) => (r \in subs => r \in subs') /\ (r \in muxed => r \in muxed')
  BY <1>1 DEF Waiting, Receives
<1>5. \A r \in Explicit : Waiting(r) /\ r \notin Arriving /\ up' /\ r \in subs' => r \in interest'
  BY <1>1, <1>3 DEF Asks, Waiting, Receives
<1>6. muxMade => up' /\ Mux \in interest'
  BY <1>1, <1>3 DEF Asks
<1>7. subs' \subseteq subs /\ muxed' \subseteq muxed /\ (open' => open)
  BY <1>1
<1> QED
  BY <1>1, <1>2, <1>4, <1>5, <1>6, <1>7, AsksElsewhere

\* A lost connection loses multiplexed requests, and the replies it carried.
LEMMA DisconnectAsks == ASSUME AnswersInv, Disconnect PROVE Asks' /\ Answers'
<1>1. /\ UNCHANGED <<request, channel, alive, subs, sent, asked>>
      /\ up' = FALSE /\ muxed' = {} /\ muxMade' = FALSE /\ inbound' = <<>>
      /\ losses' = losses \cup muxed /\ missed' = missed \cup Arriving
      /\ alive
  BY DEF Disconnect, MuxAfterLoss, AnswersInv, AsksInv, Inv, RequestsTypeOK
<1>2. UNCHANGED <<result, box, commands, open>> /\ Arriving' = {}
  BY <1>1, ArrivingOfNone DEF request, channel
<1>3. /\ Asks /\ Answers /\ muxed \cap subs = {}
      /\ \A r \in Explicit : r \notin muxed
  BY RequestsAssumption DEF AnswersInv, AsksInv, Inv, RequestsTypeOK
<1>4. Asks'
  <2>1. \A r \in Explicit : Waiting(r)' /\ r \notin sent' => Ahead(r)'
    BY <1>1, <1>2, <1>3 DEF Asks, Ahead, Waiting
  <2> QED
    BY <1>1, <1>2, <1>3, <2>1 DEF Asks
<1>5. Once'
  BY <1>1, <1>2, <1>3 DEF Answers, Once, Cmd
<1>6. \A r \in losses' : r \notin subs' \cup muxed' /\ (alive' => r \in sent')
  BY <1>1, <1>3 DEF Answers
<1>7. \A r \in sent' \ losses' : Waiting(r)' => r \in subs' \cup muxed'
  BY <1>1, <1>2, <1>3 DEF Answers, Waiting
<1>8. \A r \in sent' \ (asked' \cup losses' \cup missed') : Waiting(r)' => r \in Arriving'
  BY <1>1, <1>2, <1>3 DEF Answers, Waiting
<1> QED
  BY <1>1, <1>4, <1>5, <1>6, <1>7, <1>8 DEF Answers

\* A new connection is asked for what is in the map.
LEMMA ConnectAsks == ASSUME AnswersInv, Connect PROVE Asks' /\ Answers'
<1>1. /\ UNCHANGED <<request, channel, alive, subs, muxed, muxMade, sent, asked, inbound, fault>>
      /\ ~up /\ up' = TRUE /\ interest' = subs
  BY DEF Connect, Resubscribed
<1>2. UNCHANGED <<result, box, commands, open, losses, missed>> /\ Arriving' = Arriving
  BY <1>1, ArrivingElsewhere DEF request, channel, fault
<1>3. ~muxMade
  BY <1>1 DEF AnswersInv, AsksInv, Asks
<1> QED
  BY <1>1, <1>2, <1>3, AsksElsewhere

\* The handler that stops leaves no command to take, and nobody who is not cut
\* off.
LEMMA StopsAsks == ASSUME AnswersInv, HandlerStops PROVE Asks' /\ Answers'
<1>1. /\ UNCHANGED <<sent, asked, missed>>
      /\ alive' = FALSE /\ up' = FALSE /\ open' = FALSE /\ commands' = <<>>
      /\ subs' = {} /\ muxed' = {} /\ muxMade' = FALSE /\ inbound' = <<>>
      /\ losses' = Requesters
  BY DEF HandlerStops
<1>2. Arriving' = {} /\ Len(commands') = 0 /\ sent \subseteq Requesters
  BY <1>1, ArrivingOfNone DEF AnswersInv, AsksInv, Inv, RequestsTypeOK
<1>3. Once'
  BY <1>1, <1>2 DEF Once, Cmd, Cmds
<1> QED
  BY <1>1, <1>2, <1>3 DEF Asks, Answers, Ahead

\* A reply is to a request that was sent, and who waits for it on a connection
\* that was asked is sent it.
LEMMA ReplyAsks ==
    ASSUME AnswersInv, NEW q \in sent, NEW k \in {"msg", "none"}, Reply(q, k)
    PROVE  Asks' /\ Answers'
<1> DEFINE heard == Key(q) \in interest \ denied
<1>1. /\ UNCHANGED <<result, box, commands, open, alive, up, subs, muxed, muxMade, sent, losses>>
      /\ asked' = asked \ {q}
      /\ missed' = IF up /\ Key(q) \notin denied THEN missed ELSE missed \cup {q}
      /\ inbound' = IF heard THEN Append(inbound, [r |-> q, kind |-> k]) ELSE inbound
      /\ interest' = IF heard THEN interest \ (limited \cap {q}) ELSE interest
  BY DEF Reply, request, channel, handler
<1>2. /\ Asks /\ Answers /\ inbound \in Seq(Inbound) /\ q \in Requesters
      /\ subs \subseteq Explicit /\ muxed \subseteq Shared /\ Explicit \cap Shared = {}
      /\ Explicit \subseteq Requesters
  BY RequestsAssumption DEF AnswersInv, AsksInv, Inv, RequestsTypeOK, Inbound, Requesters
<1>3. Arriving' = IF heard THEN Arriving \cup {q} ELSE Arriving
  <2>1. CASE heard
    <3> DEFINE m == [r |-> q, kind |-> k]
    <3>1. m \in Inbound /\ m.kind # "err" /\ m.r = q
      BY <1>2 DEF Inbound
    <3>2. inbound' = Append(inbound, m)
      BY <1>1, <2>1
    <3> HIDE DEF m
    <3>3. Arriving' = Arriving \cup {q}
      BY <1>2, <3>1, <3>2, ArrivingOfAppend
    <3> QED
      BY <2>1, <3>3
  <2>2. CASE ~heard
    BY <1>1, <2>2, ArrivingElsewhere
  <2> QED
    BY <2>1, <2>2
<1>4. \A r : Waiting(r)' <=> Waiting(r)
  BY <1>1 DEF Waiting
<1>5. ASSUME NEW r \in Explicit, Waiting(r), r \notin Arriving', up, r \in subs
      PROVE  r \in interest'
  BY <1>1, <1>2, <1>3, <1>5 DEF Asks
<1>6. muxMade => up /\ Mux \in interest'
  BY <1>1, <1>2, RequestsAssumption DEF Asks
<1>7. Asks'
  <2>1. \A r \in Explicit : Waiting(r)' /\ r \notin sent' => Ahead(r)'
    BY <1>1, <1>2, <1>4 DEF Asks, Ahead
  <2>2. Arriving' \subseteq sent'
    BY <1>1, <1>2, <1>3 DEF Asks
  <2> QED
    BY <1>1, <1>2, <1>4, <1>5, <1>6, <2>1, <2>2 DEF Asks
<1>8. Once'
  BY <1>1, <1>2 DEF Answers, Once, Cmd
<1>9. ASSUME q \notin losses \cup missed', Waiting(q) PROVE q \in Arriving'
  <2>1. up /\ Key(q) \notin denied
    BY <1>1, <1>9
  <2>2. q \in subs \cup muxed
    BY <1>2, <1>9 DEF Answers
  <2>3. CASE q \in Arriving
    BY <1>3, <2>3
  <2>4. CASE q \notin Arriving /\ q \in subs
    <3>1. Key(q) = q /\ q \in interest
      BY <1>2, <1>9, <2>1, <2>4 DEF Asks, Key
    <3> QED
      BY <1>3, <2>1, <3>1
  <2>5. CASE q \in muxed
    <3>1. Key(q) = Mux /\ Mux \in interest
      BY <1>2, <2>5 DEF Asks, Key
    <3> QED
      BY <1>3, <2>1, <3>1
  <2> QED
    BY <2>2, <2>3, <2>4, <2>5
<1>10. ASSUME NEW r \in sent \ (asked' \cup losses \cup missed'), Waiting(r)
       PROVE  r \in Arriving'
  <2>1. CASE r = q
    BY <1>9, <1>10, <2>1
  <2>2. CASE r # q
    <3>1. r \notin asked \cup missed
      BY <1>1, <1>10, <2>2
    <3> QED
      BY <1>2, <1>3, <1>10, <3>1 DEF Answers
  <2> QED
    BY <2>1, <2>2
<1> QED
  BY <1>1, <1>2, <1>4, <1>7, <1>8, <1>10 DEF Answers

\* An error is no reply.
LEMMA DeniesAsks == ASSUME AnswersInv, NEW k \in Keys, Denies(k) PROVE Asks' /\ Answers'
<1>1. /\ UNCHANGED <<request, channel, handler, interest, sent, asked, losses, missed>>
      /\ inbound' = inbound \/ (k # Mux /\ inbound' = Append(inbound, [r |-> k, kind |-> "err"]))
  BY DEF Denies
<1>2. Arriving' = Arriving
  <2>1. CASE inbound' = inbound
    BY <2>1, ArrivingElsewhere
  <2>2. CASE k # Mux /\ inbound' = Append(inbound, [r |-> k, kind |-> "err"])
    <3> DEFINE m == [r |-> k, kind |-> "err"]
    <3>1. m \in Inbound /\ m.kind = "err"
      BY <2>2 DEF Inbound, Keys, Requesters
    <3>2. inbound' = Append(inbound, m) /\ inbound \in Seq(Inbound)
      BY <2>2 DEF AnswersInv, AsksInv, Inv, RequestsTypeOK, Inbound
    <3> HIDE DEF m
    <3> QED
      BY <3>1, <3>2, ArrivingOfAppend
  <2> QED
    BY <1>1, <2>1, <2>2
<1>3. UNCHANGED <<result, box, commands, open, alive, up, subs, muxed, muxMade>>
  BY <1>1 DEF request, channel, handler
<1> QED
  BY <1>1, <1>2, <1>3, AsksElsewhere DEF AnswersInv, AsksInv, Asks

\* Every step keeps AnswersInv.
LEMMA NextAnswers == ASSUME AnswersInv, [Next]_vars PROVE AnswersInv'
<1>1. Inv' /\ AsksInv
  BY NextInv DEF AnswersInv, AsksInv
<1> SUFFICES Asks' /\ Answers'
  BY <1>1 DEF AnswersInv, AsksInv
<1>2. ASSUME UNCHANGED <<result, box, commands, alive, up, subs, muxed, muxMade>>,
             UNCHANGED <<interest, sent, asked, inbound, losses, missed>>, open' => open
      PROVE  Asks' /\ Answers'
  BY <1>2, AsksElsewhere, ArrivingElsewhere DEF AnswersInv, AsksInv, Asks
<1>3. CASE UNCHANGED vars
  BY <1>2, <1>3 DEF vars, request, channel, handler, server, fault
<1>4. CASE Close
  BY <1>2, <1>4 DEF Close, request, server, fault
<1>5. CASE Drained
  BY <1>2, <1>5 DEF Drained, request, channel, server, fault
<1>6. CASE HandlerEnds \/ CloseConnecting
  BY <1>6, StopsAsks DEF HandlerEnds, CloseConnecting
<1>7. ASSUME NEW r \in Requesters, Replies(r) \/ RepliesAgain(r) PROVE Asks' /\ Answers'
  <2>1. asked \subseteq sent
    BY DEF AnswersInv, AsksInv, Inv, RequestsTypeOK
  <2> QED
    BY <1>7, <2>1, ReplyAsks DEF Replies, RepliesAgain
<1>8. ASSUME NEW r \in Requesters,
             Enqueue(r) \/ Limit(r) \/ Refuse(r) \/ Cancel(r) \/ Elapse(r) \/ Poll(r)
      PROVE  Asks' /\ Answers'
  BY <1>1, <1>8, RequesterAsks, RequesterAnswers
<1> QED
  BY <1>3, <1>4, <1>5, <1>6, <1>7, <1>8, TakeAsks, DeliverAsks, SweepAsks,
     DisconnectAsks, ConnectAsks, DeniesAsks
     DEF Next

-----------------------------------------------------------------------------
\* For any requests, capacity and faults: a request that somebody waits for is
\* written only to a connection that was given the SUB of its reply subject, or
\* of the inbox, before it, and since the connection before it was lost
\* (client/commands/request.rs, handler/mod.rs connect and receive_command).
THEOREM RepliesAreAskedFor == Spec => AsksForRepliesFirst
<1> DEFINE Asked == \A r \in sent' \ sent :
                        Receives(r) /\ box[r] = <<>> => Key(r) \in interest'
<1>1. Init => AnswersInv
  BY InitInv, InitAnswers DEF AnswersInv, AsksInv
<1>2. AnswersInv /\ [Next]_vars => AnswersInv'
  BY NextAnswers
<1>3. AnswersInv /\ [Next]_vars => [Asked]_vars
  <2>1. ASSUME Next, ~Take PROVE sent' = sent
    BY <2>1 DEF Next, Enqueue, Enqueues, Limit, Refuse, Cancel, Elapse, Poll, Answered,
       SubscriptionClosed, TimesOut, Replies, RepliesAgain, Reply, Denies, Deliver,
       Sweep, Disconnect, Connect, Close, Drained, CloseConnecting, HandlerEnds,
       HandlerStops, server
  <2> QED
    BY <2>1, TakeAsks
<1> QED
  BY <1>1, <1>2, <1>3, PTL DEF Spec, AsksForRepliesFirst

\* For any requests, capacity and faults: ResponseFut::poll (commands/
\* request.rs) makes no timeout of a response whose reply reached the connected
\* client, whatever other requests are cancelled, swept or cut off meanwhile.
THEOREM TimeoutsMissNothing == Spec => TimeoutsAreHonest
<1> DEFINE Unanswered(r) == r \notin sent \/ r \in asked \cup Arriving \cup missed
           Honest == \A r \in Requesters :
               result[r] # "TimedOut" /\ result'[r] = "TimedOut" => Unanswered(r)
<1>1. Init => AnswersInv
  BY InitInv, InitAnswers DEF AnswersInv, AsksInv
<1>2. AnswersInv /\ [Next]_vars => AnswersInv'
  BY NextAnswers
<1>3. ASSUME AnswersInv, NEW r \in Requesters, TimesOut(r) PROVE Unanswered(r)
  <2>1. Inv /\ Asks /\ Answers
    BY <1>3 DEF AnswersInv, AsksInv
  <2>2. Waiting(r) /\ Sender(r)
    BY <1>3, <2>1, SenderIs DEF TimesOut, TimeIsUp, Inv, Stages, Waiting
  <2>3. ASSUME r \in losses PROVE FALSE
    <3>1. r \notin subs \cup muxed
      BY <2>1, <2>3 DEF Answers
    <3>2. Cmd("SUB", r) \/ Cmd("REQ", r)
      BY <2>2, <3>1 DEF Sender
    <3>3. alive
      <4>1. commands = <<>> => Cmds(commands) = {}
        BY DEF Cmds
      <4> QED
        BY <2>1, <3>2, <4>1 DEF Asks, Cmd
    <3>4. r \notin Explicit /\ r \in sent
      BY <2>1, <2>3, <3>3 DEF Asks, Answers
    <3>5. ~Cmd("SUB", r)
      BY <2>1, <3>4 DEF Inv, Kinds, Cmd, Command, Subscribing
    <3>6. ~Cmd("REQ", r)
      BY <2>1, <3>4 DEF Answers, Once, Requesters
    <3> QED
      BY <3>2, <3>5, <3>6
  <2> QED
    BY <2>1, <2>2, <2>3 DEF Answers
<1>4. AnswersInv /\ [Next]_vars => [Honest]_vars
  <2> SUFFICES ASSUME AnswersInv, Next PROVE Honest
    OBVIOUS
  <2>1. result \in [Requesters -> Results \cup {None}]
        /\ box \in [Requesters -> Seq({"msg", "none", "err"})]
    BY DEF AnswersInv, AsksInv, Inv, RequestsTypeOK
  <2>2. ASSUME NEW r \in Requesters, NEW what, Returns(r, what), what # "TimedOut"
        PROVE  Honest
    BY <2>1, <2>2 DEF Returns
  <2>3. ASSUME UNCHANGED result PROVE Honest
    BY <2>3
  <2>4. ASSUME NEW r \in Requesters, Enqueue(r) \/ Limit(r) \/ Elapse(r)
        PROVE  Honest
    BY <2>3, <2>4 DEF Enqueue, Limit, Elapse
  <2>5. ASSUME NEW r \in Requesters, Refuse(r) \/ Cancel(r) PROVE Honest
    BY <2>2, <2>5 DEF Refuse, Cancel, Refusal
  <2>6. ASSUME NEW r \in Requesters, Answered(r) PROVE Honest
    <3>1. box[r] # <<>> /\ box[r] \in Seq({"msg", "none", "err"})
      BY <2>1, <2>6 DEF Answered
    <3>2. Head(box[r]) \in {"msg", "none", "err"}
      BY <3>1
    <3>3. Outcome[Head(box[r])] # "TimedOut"
      BY <3>2 DEF Outcome
    <3> QED
      BY <2>2, <2>6, <3>3 DEF Answered
  <2>7. ASSUME NEW r \in Requesters, SubscriptionClosed(r) PROVE Honest
    BY <2>2, <2>7 DEF SubscriptionClosed
  <2>8. ASSUME NEW r \in Requesters, TimesOut(r) PROVE Honest
    <3>1. Unanswered(r)
      BY <1>3, <2>8
    <3>2. \A q \in Requesters \ {r} : result'[q] = result[q]
      BY <2>1, <2>8 DEF TimesOut, Returns
    <3> HIDE DEF Unanswered
    <3> QED
      BY <3>1, <3>2
  <2>9. CASE \/ \E r \in Requesters : Replies(r) \/ RepliesAgain(r)
             \/ \E k \in Keys : Denies(k)
             \/ Take \/ Deliver \/ Sweep \/ Disconnect \/ Connect
             \/ Close \/ CloseConnecting \/ Drained \/ HandlerEnds
    <3>1. UNCHANGED result
      BY <2>9 DEF Replies, RepliesAgain, Reply, Denies, Take, Deliver, Sweep, Disconnect,
         Connect, Close, CloseConnecting, Drained, HandlerEnds, HandlerStops, request
    <3> QED
      BY <2>3, <3>1
  <2> HIDE DEF Honest
  <2> QED
    BY <2>4, <2>5, <2>6, <2>7, <2>8, <2>9 DEF Next, Poll
<1> QED
  BY <1>1, <1>2, <1>4, PTL DEF Spec, TimeoutsAreHonest
=============================================================================
