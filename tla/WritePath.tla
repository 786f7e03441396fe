----------------------------- MODULE WritePath -----------------------------
(***************************************************************************)
(* The write half of Handler::poll on one connection: how commands move    *)
(* from the channel into the connection's buffer and out of it, and when   *)
(* poll reports HandlerOutput::Closed.                                     *)
(*                                                                         *)
(* Ops are counted, not told apart.  A poll runs through the stages        *)
(*     read -> (recv -> write)* -> flush -> idle                           *)
(* under tokio's cooperative budget: every successful read, receive and    *)
(* write of a poll spends one unit, and once none is left these calls      *)
(* return Pending without having looked at what they wait for.  wakers and *)
(* notified record whether the task has arranged to be polled again.       *)
(***************************************************************************)
EXTENDS Naturals

CONSTANTS
    Setups,      \* the kinds of connection and configuration
    Budget,      \* units per poll (128 in tokio)
    CommandCap,  \* CLIENT_OP_CHANNEL_SIZE
    RecvBuf,     \* RECV_BUF
    Limit,       \* the soft limit of may_enqueue_more_ops
    MaxBuf       \* bound: PINGs and PONGs are not added beyond it

ASSUME WriteAssumption ==
    /\ Setups \subseteq [websocket : BOOLEAN, write_delay : BOOLEAN,
                        reads : BOOLEAN, coop : BOOLEAN]
    /\ Budget \in Nat \ {0}
    /\ CommandCap \in Nat
    /\ RecvBuf \in Nat \ {0}
    /\ Limit \in Nat \ {0}
    /\ MaxBuf \in Nat

VARIABLES
    setup,         \* fixed when the connection is made
    cmds,          \* commands in the channel
    cmdOpen,       \* its receiving side is open
    shutdownReq,   \* a message is in the shutdown channel
    shutting_down,
    buf,           \* ops in the encoder (for a websocket: in the sink)
    should_flush,  \* WebsocketConnection::should_flush
    writing, flushing,
    delay,         \* Delayed: the timer is consumed, running or elapsed
    outcome,       \* the last ReceiveOutcome
    budget,        \* what is left of the coop budget
    wakers,        \* what a registered waker waits for
    notified,      \* the task has been woken
    pc

vars == <<setup, cmds, cmdOpen, shutdownReq, shutting_down, buf, should_flush,
          writing, flushing, delay, outcome, budget, wakers, notified, pc>>
input == <<setup, cmds, cmdOpen, shutdownReq, shutting_down>>
sched == <<budget, wakers, notified>>

\* Connection::Websocket rather than Connection::Streaming
Websocket == setup.websocket
\* ClientBuilder::write_delay is not zero
WriteDelay == setup.write_delay
\* the server sends data and the pinger's interval elapses meanwhile
Reads == setup.reads
\* the coop budget may run out before the poll is over
Coop == setup.coop

Init ==
    /\ setup \in Setups
    /\ cmds = 0
    /\ cmdOpen = TRUE
    /\ shutdownReq = FALSE
    /\ shutting_down = FALSE
    /\ buf = 0
    /\ should_flush = FALSE
    /\ writing = FALSE
    /\ flushing = FALSE
    /\ delay = "consumed"
    /\ outcome = "NoMoreCommands"
    /\ budget = Budget
    /\ wakers = {}
    /\ notified = TRUE
    /\ pc = "idle"

-----------------------------------------------------------------------------
\* coop::has_budget_remaining, and what made_progress does.
HasBudget == ~Coop \/ budget > 0
Spend == budget' = IF Coop THEN budget - 1 ELSE budget

\* The Pending of an exhausted budget reschedules the task.
Yield == notified' = TRUE /\ UNCHANGED <<budget, wakers>>
WaitFor(event) == wakers' = wakers \cup {event} /\ UNCHANGED <<budget, notified>>

\* Another thread or the reactor fires a waker.
Wake(event) == /\ wakers' = wakers \ {event}
               /\ notified' = (notified \/ event \in wakers)

Enqueue(n) == buf' = buf + n /\ should_flush' = (should_flush \/ n > 0)

-----------------------------------------------------------------------------
(***************************************************************************)
(* The other threads, the timer and the socket.                            *)
(***************************************************************************)
\* enqueue_command and the like.
SendCommand ==
    /\ cmdOpen
    /\ cmds < CommandCap
    /\ cmds' = cmds + 1
    /\ Wake("cmd")
    /\ UNCHANGED <<setup, cmdOpen, shutdownReq, shutting_down, buf, should_flush,
                   writing, flushing, delay, outcome, budget, pc>>

\* Client::close
CloseClient ==
    /\ ~shutdownReq
    /\ pc # "closed"
    /\ shutdownReq' = TRUE
    /\ notified' = TRUE
    /\ UNCHANGED <<setup, cmds, cmdOpen, shutting_down, buf, should_flush, writing,
                   flushing, delay, outcome, budget, wakers, pc>>

TimerElapses ==
    /\ delay = "running"
    /\ delay' = "elapsed"
    /\ Wake("delay")
    /\ UNCHANGED <<input, buf, should_flush, writing, flushing, outcome,
                   budget, pc>>

SocketWritable ==
    /\ "write" \in wakers
    /\ Wake("write")
    /\ UNCHANGED <<input, buf, should_flush, writing, flushing, delay, outcome,
                   budget, pc>>

-----------------------------------------------------------------------------
(***************************************************************************)
(* Handler::poll.                                                          *)
(***************************************************************************)
\* A poll may come without notified: the pinger's interval and the reading
\* side wake the task on their own.  The pinger may enqueue a PING.
BeginPoll ==
    /\ pc = "idle"
    /\ pc' = "read"
    /\ notified' = FALSE
    /\ \E ping \in {0, 1} : (ping = 1 => Reads /\ buf < MaxBuf) /\ Enqueue(ping)
    /\ LET shutdown == ~shutting_down /\ shutdownReq
       IN  /\ shutting_down' = (shutting_down \/ shutdown)
           /\ shutdownReq' = (shutdownReq /\ ~shutdown)
           /\ cmdOpen' = (cmdOpen /\ ~shutdown)
           /\ budget' = IF shutdown THEN Budget - 1 ELSE Budget
    /\ UNCHANGED <<setup, cmds, writing, flushing, delay, outcome, wakers>>

\* The read loop: an op is read, perhaps a PING that is answered ...
Read ==
    /\ Reads
    /\ pc = "read"
    /\ HasBudget
    /\ Spend
    /\ \E pong \in {0, 1} : (pong = 1 => buf < MaxBuf) /\ Enqueue(pong)
    /\ UNCHANGED <<input, writing, flushing, delay, outcome, wakers, notified,
                   pc>>

\* ... until there is none, or no budget.
ReadPending ==
    /\ pc = "read"
    /\ pc' = "recv"
    /\ IF HasBudget THEN WaitFor("read") ELSE Yield
    /\ UNCHANGED <<input, buf, should_flush, writing, flushing, delay, outcome>>

\* may_enqueue_more_ops: the soft limit of the encoder; a websocket's sink, if
\* it holds anything, may or may not be ready (Limit then bounds the model).
MayEnqueue == buf < Limit
MayBeFull == IF Websocket THEN buf > 0 ELSE buf >= Limit

\* Mutant of ReceiveSome: more is taken out than was received.
ReceiveTooMany ==
    /\ pc = "recv"
    /\ MayEnqueue
    /\ HasBudget
    /\ cmds > 0
    /\ cmds' = cmds - RecvBuf
    /\ Enqueue(RecvBuf)
    /\ Spend
    /\ UNCHANGED <<setup, cmdOpen, shutdownReq, shutting_down, writing, flushing,
                   delay, outcome, wakers, notified, pc>>

\* receive_command: poll_recv_many returns some commands ...
ReceiveSome ==
    /\ pc = "recv"
    /\ MayEnqueue
    /\ HasBudget
    /\ \E n \in 1..RecvBuf :
         /\ n <= cmds
         /\ cmds' = cmds - n
         /\ Enqueue(n)
    /\ Spend
    /\ UNCHANGED <<setup, cmdOpen, shutdownReq, shutting_down, writing, flushing,
                   delay, outcome, wakers, notified, pc>>

\* ... or is Pending, for want of commands or of budget ...
ReceivePending ==
    /\ pc = "recv"
    /\ MayEnqueue
    /\ \/ ~HasBudget /\ Yield
       \/ HasBudget /\ cmds = 0 /\ cmdOpen /\ WaitFor("cmd")
    /\ outcome' = "NoMoreCommands"
    /\ pc' = "write"
    /\ UNCHANGED <<input, buf, should_flush, writing, flushing, delay>>

\* ... or returns 0: the channel is closed and drained ...
ReceiveClosed ==
    /\ pc = "recv"
    /\ MayEnqueue
    /\ HasBudget
    /\ cmds = 0
    /\ ~cmdOpen
    /\ Spend
    /\ shutting_down' = TRUE
    /\ outcome' = "NoMoreCommands"
    /\ pc' = "write"
    /\ UNCHANGED <<setup, cmds, cmdOpen, shutdownReq, buf, should_flush, writing,
                   flushing, delay, wakers, notified>>

\* ... or is not called: writing starts at once.  A websocket's sink is asked
\* with a no-op waker, which takes the place of the task's.
ReceiveFull ==
    /\ pc = "recv"
    /\ MayBeFull
    /\ outcome' = "NoMoreSpace"
    /\ writing' = TRUE
    /\ pc' = "write"
    /\ wakers' = IF Websocket THEN wakers \ {"write"} ELSE wakers
    /\ UNCHANGED <<input, buf, should_flush, flushing, delay, budget, notified>>

\* Delayed::poll_can_proceed returns Ready ...
Proceed ==
    \/ ~WriteDelay /\ UNCHANGED <<delay, sched>>
    \/ /\ WriteDelay /\ delay = "elapsed" /\ HasBudget
       /\ delay' = "consumed"
       /\ Spend /\ UNCHANGED <<wakers, notified>>

\* ... or Pending; the timer is restarted if it was consumed.
ProceedLater ==
    /\ WriteDelay
    /\ delay' = IF delay = "consumed" THEN "running" ELSE delay
    /\ \/ ~HasBudget /\ Yield
       \/ HasBudget /\ delay # "elapsed" /\ WaitFor("delay")

\* Streaming: the decision to start writing.
StartWriting ==
    /\ pc = "write" /\ ~Websocket
    /\ buf > 0 /\ ~writing
    /\ IF flushing THEN UNCHANGED <<delay, sched>> ELSE Proceed
    /\ writing' = TRUE
    /\ UNCHANGED <<input, buf, should_flush, flushing, outcome, pc>>

DelayWriting ==
    /\ pc = "write" /\ ~Websocket
    /\ buf > 0 /\ ~writing /\ ~flushing
    /\ ProceedLater
    /\ pc' = "flush"
    /\ UNCHANGED <<input, buf, should_flush, writing, flushing, outcome>>

\* Mutant of WriteOk: no further iteration, so no waker.
WriteOnce ==
    /\ pc = "write" /\ ~Websocket
    /\ buf > 0 /\ writing /\ HasBudget
    /\ \E n \in 1..buf : buf' = buf - n
    /\ Spend
    /\ pc' = "flush"
    /\ UNCHANGED <<input, should_flush, writing, flushing, delay, outcome,
                   wakers, notified>>

\* poll_write_next takes part of the buffer: iterate again.
WriteOk ==
    /\ pc = "write" /\ ~Websocket
    /\ buf > 0 /\ writing /\ HasBudget
    /\ \E n \in 1..buf : buf' = buf - n
    /\ Spend
    /\ pc' = "recv"
    /\ UNCHANGED <<input, should_flush, writing, flushing, delay, outcome,
                   wakers, notified>>

\* poll_write_next is Pending: the socket is full, or (several writes of the
\* socket to one of a TLS stream) the budget ran out.
WritePending ==
    /\ pc = "write" /\ ~Websocket
    /\ buf > 0 /\ writing /\ HasBudget
    /\ \/ flushing' = FALSE /\ WaitFor("write")
       \/ Coop /\ budget' = 0 /\ notified' = TRUE /\ UNCHANGED <<flushing, wakers>>
    /\ pc' = "flush"
    /\ UNCHANGED <<input, buf, should_flush, writing, delay, outcome>>

\* Nothing is tried without budget.
WriteSkipped ==
    /\ pc = "write" /\ ~Websocket
    /\ buf > 0 /\ writing /\ ~HasBudget
    /\ pc' = "flush"
    /\ UNCHANGED <<input, buf, should_flush, writing, flushing, delay, outcome,
                   sched>>

\* Mutant of WriteDone: writing is not reset.
StayWriting ==
    /\ pc = "write" /\ ~Websocket
    /\ buf = 0
    /\ flushing' = (flushing \/ writing)
    /\ pc' = "flush"
    /\ UNCHANGED <<input, buf, should_flush, writing, delay, outcome, sched>>

\* Nothing is left to write: flush, if there was.
WriteDone ==
    /\ pc = "write" /\ ~Websocket
    /\ buf = 0
    /\ writing' = FALSE
    /\ flushing' = (flushing \/ writing)
    /\ pc' = "flush"
    /\ UNCHANGED <<input, buf, should_flush, delay, outcome, sched>>

\* Websocket: flush once the delay allows it.
SinkFlush ==
    /\ pc = "write" /\ Websocket
    /\ pc' = "flush"
    /\ \/ /\ should_flush /\ ~flushing
          /\ \/ Proceed /\ flushing' = TRUE
             \/ ProceedLater /\ UNCHANGED flushing
       \/ /\ ~should_flush \/ flushing
          /\ UNCHANGED <<flushing, delay, sched>>
    /\ UNCHANGED <<input, buf, should_flush, writing, outcome>>

\* Mutant of Return: unwritten data is not waited for.
ReturnWhileWriting(stillFlushing) ==
    pc' = IF shutting_down /\ outcome = "NoMoreCommands" /\ ~stillFlushing
          THEN "closed" ELSE "idle"

\* The end of poll: HandlerOutput::Closed, or Pending.
Return(stillFlushing) ==
    pc' = IF /\ shutting_down
             /\ outcome = "NoMoreCommands"
             /\ ~writing
             /\ ~stillFlushing
          THEN "closed" ELSE "idle"

FlushPending ==
    /\ pc = "flush" /\ flushing
    /\ \/ WaitFor("write")
       \/ ~HasBudget /\ Yield
    /\ Return(TRUE)
    /\ UNCHANGED <<input, buf, should_flush, writing, flushing, delay, outcome>>

FlushOk ==
    /\ pc = "flush" /\ flushing
    /\ flushing' = FALSE
    /\ buf' = IF Websocket THEN 0 ELSE buf
    /\ Return(FALSE)
    /\ UNCHANGED <<input, should_flush, writing, delay, outcome, sched>>

NoFlush ==
    /\ pc = "flush" /\ ~flushing
    /\ Return(FALSE)
    /\ UNCHANGED <<input, buf, should_flush, writing, flushing, delay, outcome,
                   sched>>

-----------------------------------------------------------------------------
PollStep ==
    \/ BeginPoll \/ ReadPending
    \/ ReceiveSome \/ ReceivePending \/ ReceiveClosed \/ ReceiveFull
    \/ StartWriting \/ DelayWriting \/ WriteSkipped \/ WriteDone
    \/ SinkFlush \/ NoFlush

Next ==
    \/ SendCommand \/ CloseClient \/ TimerElapses \/ SocketWritable
    \/ PollStep \/ Read \/ WriteOk \/ WritePending \/ FlushPending \/ FlushOk

Spec == Init /\ [][Next]_vars

\* The task runs, timers elapse, and the peer keeps reading: a socket does not
\* stay full for ever.
Fairness ==
    /\ WF_vars(PollStep \/ WritePending \/ FlushPending)
    /\ WF_vars(TimerElapses)
    /\ SF_vars(WriteOk)
    /\ SF_vars(FlushOk)

FairSpec == Spec /\ Fairness

-----------------------------------------------------------------------------
(***************************************************************************)
(* Properties.                                                             *)
(***************************************************************************)
\* The counters stay natural numbers within their bounds: no write takes more
\* than the buffer holds and no receive more than the channel does.
TypeOK ==
    /\ setup \in Setups
    /\ cmds \in 0..CommandCap
    /\ buf \in 0..(Limit + RecvBuf + MaxBuf + CommandCap)
    /\ budget \in 0..Budget
    /\ {cmdOpen, shutdownReq, shutting_down, should_flush, writing, flushing,
        notified} \subseteq BOOLEAN
    /\ delay \in {"consumed", "running", "elapsed"}
    /\ outcome \in {"NoMoreCommands", "NoMoreSpace"}
    /\ wakers \subseteq {"read", "cmd", "write", "delay"}
    /\ pc \in {"idle", "read", "recv", "write", "flush", "closed"}

\* What Client::close promises: when poll reports Closed, every command the
\* channel had accepted has been handed to the socket (which Handler::close then
\* shuts down, so that a websocket's sink needs no more than an empty channel).
ClosedIsDrained == pc = "closed" => cmds = 0 /\ (buf = 0 \/ Websocket)

\* Closed is never reported while commands or encoded ops are left behind, as
\* long as nothing but the socket holds the write loop up: the ops that wait for
\* a write_delay, and the commands that an exhausted coop budget hides, are lost.
NoLossOnClose == ~WriteDelay /\ ~Coop => ClosedIsDrained

\* A poll that returns Pending with something to write or to flush has arranged
\* to be polled again when that becomes possible, unless its budget ran out; the
\* no-op waker of may_enqueue_more_ops never replaces the only one.
NoLostWakeup ==
    ~Coop /\ pc = "idle" /\ (buf > 0 \/ flushing) =>
        notified \/ wakers \cap {"write", "delay"} # {}

\* Client::close is followed by the end of the handler.
CloseCompletes == shutdownReq ~> pc = "closed"

\* ... on a streaming connection: writing and flushing come down again, however
\* the delay, the budget and a slow socket end the polls in between.  It takes
\* the budget, or a flood of commands would keep a single poll going, and a
\* server and a pinger that do not add to the work of every poll.
StreamCloseCompletes ==
    ~Websocket /\ ~Reads /\ Coop /\ shutdownReq ~> pc = "closed"
=============================================================================
