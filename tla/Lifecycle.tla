----------------------------- MODULE Lifecycle -----------------------------
(***************************************************************************)
(* The task behind a Client, from connect or connect_lazy to its end:     *)
(* connecting (HappyEyeballs, then Handshake) under connect_timeout,      *)
(* serving, reconnecting with a growing delay, Client::close and the drop *)
(* of the last handle.  What a serving Handler does is abstracted to the  *)
(* commands it takes off the channel and to whether it writes or flushes  *)
(* them; modules Handler and WritePath have the detail.                   *)
(***************************************************************************)
EXTENDS HappyEyeballs, Handshake

CONSTANTS
    Scenarios,    \* the addresses with a server, and what is met there
    MinDelay,     \* MIN_RECONNECT_DELAY
    MaxDelay,     \* MAX_RECONNECT_DELAY
    MaxFaults,    \* failed attempts and lost connections of a behaviour
    MaxCommands,  \* commands the application enqueues
    MaxCloses     \* calls of Client::close

ASSUME LifecycleAssumption ==
    /\ MinDelay \in Nat \ {0}
    /\ MaxDelay \in Nat /\ MinDelay <= MaxDelay
    /\ MaxFaults \in Nat
    /\ MaxCommands \in Nat
    /\ MaxCloses \in Nat

VARIABLES
    task,         \* where the task is
    eager,        \* Client::connect is still waiting for its first connection
    backoff,      \* the delay of connect's loop
    commands,     \* commands in the channel
    cmdOpen,      \* its receiving side is open
    shutdownMsg,  \* a message is in the shutdown channel
    isConnected,  \* QuickInfo::is_connected
    shutting_down, \* of the serving handler
    buffered,     \* it has ops that no write has begun for
    writing,
    flushing,
    closes,       \* calls of Client::close so far
    sent,         \* commands enqueued so far
    faults        \* faults so far

requested == <<closes, sent>>
channels == <<commands, cmdOpen, shutdownMsg>>
output == <<buffered, writing, flushing>>
handler == <<shutting_down, output>>
frozen == <<accepting, peer>>
vars == <<dial, shake, frozen, task, eager, backoff, channels, isConnected,
          handler, requested, faults>>

Init ==
    /\ DialInit
    /\ ShakeInit
    /\ <<accepting, peer>> \in Scenarios
    /\ eager \in BOOLEAN
    /\ task = IF eager THEN "connecting" ELSE "sleeping"
    /\ backoff = 0
    /\ commands = 0
    /\ cmdOpen = TRUE
    /\ shutdownMsg = FALSE
    /\ isConnected = FALSE
    /\ shutting_down = FALSE
    /\ buffered = FALSE
    /\ writing = FALSE
    /\ flushing = FALSE
    /\ closes = 0
    /\ sent = 0
    /\ faults = 0

-----------------------------------------------------------------------------
(***************************************************************************)
(* connect's loop and Handler::connect.                                    *)
(***************************************************************************)
Bounded(n) == IF n < MaxDelay THEN n ELSE MaxDelay

\* Mutant of NextDelay: the delay is not doubled.
NextDelayStays == IF backoff < MinDelay THEN MinDelay ELSE Bounded(backoff)

\* Mutant of NextDelay: there is no cap.
NextDelayUncapped == IF backoff < MinDelay THEN MinDelay ELSE 2 * backoff

\* What an error makes of the delay.
NextDelay == IF backoff < MinDelay THEN MinDelay ELSE Bounded(2 * backoff)

\* The sleep is over.
SleepEnds ==
    /\ task = "sleeping"
    /\ ~shutdownMsg
    /\ task' = "connecting"
    /\ UNCHANGED <<dial, shake, eager, backoff, channels, isConnected, handler,
                   requested, faults>>

\* Handler::connect returns an error: connect's loop goes on with the recycled
\* handler, Client::connect returns it.
ConnectFails ==
    /\ DialDrop
    /\ ShakeDrop
    /\ task' = IF eager THEN "failed" ELSE "sleeping"
    /\ backoff' = IF eager THEN backoff ELSE NextDelay
    /\ cmdOpen' = (cmdOpen /\ ~eager)
    /\ UNCHANGED <<eager, commands, shutdownMsg, isConnected, handler,
                   requested>>

ConnectError ==
    /\ task = "connecting"
    /\ ~shutdownMsg
    /\ GivesUp \/ ShakeFails
    /\ ConnectFails
    /\ UNCHANGED faults

\* The lookup fails, or connect_timeout elapses.
ConnectFault ==
    /\ task = "connecting"
    /\ ~shutdownMsg
    /\ stage # "ok"
    /\ faults < MaxFaults
    /\ faults' = faults + 1
    /\ ConnectFails

Dialing ==
    /\ task = "connecting"
    /\ ~shutdownMsg
    /\ stage = "off"
    /\ \/ \E records \in Lookups : Lookup(records)
       \/ DialStep
    /\ UNCHANGED <<shake, task, eager, backoff, channels, isConnected, handler,
                   requested, faults>>

\* The first connection wins; the others are dropped with the JoinSet.
TcpConnected ==
    /\ task = "connecting"
    /\ ~shutdownMsg
    /\ Joinable
    /\ DialDrop
    /\ StartShake
    /\ UNCHANGED <<task, eager, backoff, channels, isConnected, handler,
                   requested, faults>>

Shaking ==
    /\ task = "connecting"
    /\ ~shutdownMsg
    /\ ClientShake
    /\ UNCHANGED <<dial, task, eager, backoff, channels, isConnected, handler,
                   requested, faults>>

\* Handler::connect returns the handler.
Connected ==
    /\ task = "connecting"
    /\ stage = "ok"
    /\ task' = "serving"
    /\ isConnected' = TRUE
    /\ eager' = FALSE
    /\ ShakeDrop
    /\ buffered' \in BOOLEAN            \* the subscriptions, again
    /\ writing' = FALSE
    /\ flushing' = FALSE
    /\ shutting_down' = FALSE
    /\ UNCHANGED <<dial, backoff, channels, requested, faults>>

\* Mutant of ShutsDown: Handler::connect is not fused with the shutdown.
ShutsDownAsleep == task = "sleeping" /\ shutdownMsg

ShutsDown ==
    task \in {"sleeping", "connecting"} /\ shutdownMsg /\ stage # "ok"

\* fuse_shutdown: the task ends and drops the recycled handler, and the
\* commands in its channel with it.
ShutDown ==
    /\ ShutsDown
    /\ DialDrop
    /\ ShakeDrop
    /\ task' = "gone"
    /\ commands' = 0
    /\ cmdOpen' = FALSE
    /\ shutdownMsg' = FALSE
    /\ UNCHANGED <<eager, backoff, isConnected, handler, requested, faults>>

-----------------------------------------------------------------------------
(***************************************************************************)
(* The serving handler.                                                    *)
(***************************************************************************)
\* Mutant of BeginShutdown: the command channel is not closed.
BeginShutdownOpen ==
    /\ task = "serving"
    /\ shutdownMsg
    /\ ~shutting_down
    /\ shutting_down' = TRUE
    /\ shutdownMsg' = FALSE
    /\ UNCHANGED <<dial, shake, task, eager, backoff, commands, cmdOpen,
                   isConnected, output, requested, faults>>

\* begin_shutdown
BeginShutdown ==
    /\ task = "serving"
    /\ shutdownMsg
    /\ ~shutting_down
    /\ shutting_down' = TRUE
    /\ shutdownMsg' = FALSE
    /\ cmdOpen' = FALSE
    /\ UNCHANGED <<dial, shake, task, eager, backoff, commands, isConnected,
                   output, requested, faults>>

\* receive_command.  NoMoreSpace sets writing, which only the streaming arm of
\* poll resets.
Serve ==
    /\ task = "serving"
    /\ commands > 0
    /\ commands' = commands - 1
    /\ buffered' = TRUE
    /\ writing' \in {writing, TRUE}
    /\ UNCHANGED <<dial, shake, task, eager, backoff, cmdOpen, shutdownMsg,
                   isConnected, shutting_down, flushing, requested, faults>>

Transmit ==
    /\ task = "serving"
    /\ UNCHANGED <<dial, shake, task, eager, backoff, channels, isConnected,
                   shutting_down, requested, faults>>

\* At once or after write_delay a stream begins to write, and a websocket,
\* whose ops are in the sink already, to flush.
StartWriting ==
    /\ Transmit
    /\ buffered
    /\ buffered' = FALSE
    /\ writing' = (writing \/ ~peer.websocket)
    /\ flushing' = (flushing \/ peer.websocket)

\* Mutant of WriteDone: the handler stays writing.
WriteDoneStays ==
    /\ Transmit
    /\ writing
    /\ ~peer.websocket
    /\ ~flushing
    /\ flushing' = TRUE
    /\ UNCHANGED <<writing, buffered>>

\* The encoder is empty.
WriteDone ==
    /\ Transmit
    /\ writing
    /\ ~peer.websocket
    /\ writing' = FALSE
    /\ flushing' = TRUE
    /\ buffered' = FALSE

FlushDone ==
    /\ Transmit
    /\ flushing
    /\ flushing' = FALSE
    /\ UNCHANGED <<buffered, writing>>

\* ServerError, Disconnected, UnexpectedState: recycle, and connect again.
Recycle(bit) ==
    /\ task = "serving"
    /\ faults < MaxFaults
    /\ faults' = faults + 1
    /\ task' = "sleeping"
    /\ isConnected' = bit
    /\ backoff' = MinDelay
    /\ shutting_down' = FALSE
    /\ buffered' = FALSE
    /\ writing' = FALSE
    /\ flushing' = FALSE
    /\ UNCHANGED <<dial, shake, eager, channels, requested>>

\* Mutant of Disconnected: recycle leaves the bit alone.
DisconnectedUnnoticed == Recycle(TRUE)

Disconnected == Recycle(FALSE)

\* NoMoreCommands with shutting_down set: poll_recv_many has returned 0, or it
\* is pending for want of coop budget, whatever is in the channel.
NoMoreCommands == shutting_down \/ (~cmdOpen /\ commands = 0)

\* HandlerOutput::Closed, and Handler::close, which only waits.  Commands that
\* are left go with the channel, and ops that are buffered with the encoder
\* (WritePath says when).
HandlerCloses ==
    /\ task = "serving"
    /\ NoMoreCommands
    /\ ~writing
    /\ ~flushing
    /\ task' = "gone"
    /\ isConnected' = FALSE
    /\ shutting_down' = TRUE
    /\ commands' = 0
    /\ shutdownMsg' = FALSE
    /\ UNCHANGED <<dial, shake, eager, backoff, cmdOpen, output, requested,
                   faults>>

-----------------------------------------------------------------------------
(***************************************************************************)
(* The application, which has a Client when the eager connect is over.     *)
(***************************************************************************)
Running == task \notin {"gone", "failed", "aborted"}

Enqueue ==
    /\ ~eager
    /\ cmdOpen
    /\ sent < MaxCommands
    /\ sent' = sent + 1
    /\ commands' = commands + 1
    /\ UNCHANGED <<dial, shake, task, eager, backoff, cmdOpen, shutdownMsg,
                   isConnected, handler, closes, faults>>

\* Client::close; the channel holds one message.
Close ==
    /\ ~eager
    /\ Running
    /\ closes < MaxCloses
    /\ closes' = closes + 1
    /\ shutdownMsg' = TRUE
    /\ UNCHANGED <<dial, shake, task, eager, backoff, commands, cmdOpen,
                   isConnected, handler, sent, faults>>

\* The last handle is dropped and the task aborted; a call of close has one.
DropClient ==
    /\ ~eager
    /\ Running
    /\ closes = 0
    /\ DialDrop
    /\ ShakeDrop
    /\ task' = "aborted"
    /\ commands' = 0
    /\ cmdOpen' = FALSE
    /\ UNCHANGED <<eager, backoff, shutdownMsg, isConnected, handler, requested,
                   faults>>

\* What happens on its own while the task is connecting.
Aside == task = "connecting" /\ UNCHANGED <<task, eager, backoff, channels,
    isConnected, handler, requested>>

TimePasses == DelayElapses /\ Aside /\ UNCHANGED <<shake, faults>>

AttemptDone(a) == AttemptEnds(a) /\ Aside /\ UNCHANGED <<shake, faults>>

ServerActs == ServerShake /\ Aside /\ UNCHANGED <<dial, faults>>

ServerFault ==
    /\ faults < MaxFaults
    /\ faults' = faults + 1
    /\ ServerGoes
    /\ Aside
    /\ UNCHANGED dial

TaskStep ==
    \/ SleepEnds \/ Dialing \/ TcpConnected \/ Shaking \/ Connected \/ ShutDown
    \/ ConnectError \/ BeginShutdown \/ Serve \/ StartWriting \/ WriteDone
    \/ FlushDone \/ HandlerCloses

AppStep == Enqueue \/ Close \/ DropClient

Faults == ConnectFault \/ Disconnected \/ ServerFault

Environment == TimePasses \/ ServerActs \/ \E a \in Addrs : AttemptDone(a)

Next == (TaskStep \/ AppStep \/ Faults \/ Environment) /\ UNCHANGED frozen

\* The runtime polls the task when it is woken, time passes, and servers that
\* are there answer and read what is written to them: one that does not is
\* Keepalive's subject, and its connection is lost.  Nothing is assumed of the
\* addresses without a server.
Fairness ==
    /\ WF_vars(TaskStep /\ UNCHANGED frozen)
    /\ WF_vars(TimePasses /\ UNCHANGED frozen)
    /\ WF_vars((\E a \in accepting : AttemptDone(a)) /\ UNCHANGED frozen)
    /\ WF_vars(ServerActs /\ UNCHANGED frozen)

Spec == Init /\ [][Next]_vars

FairSpec == Spec /\ Fairness

-----------------------------------------------------------------------------
LifecycleTypeOK ==
    /\ DialTypeOK
    /\ ShakeTypeOK
    /\ task \in {"sleeping", "connecting", "serving", "gone", "failed",
                 "aborted"}
    /\ eager \in BOOLEAN
    /\ backoff \in 0..MaxDelay
    /\ commands \in 0..MaxCommands
    /\ cmdOpen \in BOOLEAN
    /\ shutdownMsg \in BOOLEAN
    /\ isConnected \in BOOLEAN
    /\ shutting_down \in BOOLEAN
    /\ buffered \in BOOLEAN
    /\ writing \in BOOLEAN
    /\ flushing \in BOOLEAN
    /\ closes \in 0..MaxCloses
    /\ sent \in 0..MaxCommands
    /\ faults \in 0..MaxFaults
    /\ stage # "off" => task = "connecting"

\* Each attempt of connect's loop that fails at least doubles the wait before
\* the next one, between MIN_ and MAX_RECONNECT_DELAY.
BackoffGrows ==
    [][task = "connecting" /\ task' = "sleeping" =>
         /\ MinDelay <= backoff' /\ backoff' <= MaxDelay
         /\ backoff' = MaxDelay \/ backoff' >= 2 * backoff]_vars

\* QuickInfo::is_connected is never left set by a connection that is gone,
\* neither while the task reconnects nor once it has ended.
ConnectedIsServing == isConnected => task \in {"serving", "aborted"}

\* The whole of connect: the families take turns and no address is given up
\* unattempted, client and server stay at the same layers, and the handler is
\* handed a connection with everything answered and nothing left over.
ConnectInv ==
    /\ GivesUpAfterAll /\ FamiliesInterleave
    /\ NeverPanics /\ LayersAgree /\ CleanHandover /\ PingsAreAnswered

\* The state of the task is consistent, and the connected bit with it.
LifecycleInv == LifecycleTypeOK /\ ConnectedIsServing

\* No lost connection and no failed attempt makes the task forget a call of
\* Client::close: its message is still in the shutdown channel, or the handler
\* that took it is shutting down, or what that handler left to the next one is
\* a closed command channel, which ends that one too.
CloseIsRemembered ==
    closes > 0 /\ Running => shutdownMsg \/ shutting_down \/ ~cmdOpen

\* Client::close returns, also in the middle of a sleep, a lookup or a handshake
\* that would never end, and whatever is still to be written and flushed.  Two
\* things keep it waiting: the handler that took the message loses its
\* connection, and then it waits for another one; or a websocket has once been
\* short of space, and is writing for good.
CloseReturns ==
    closes > 0 /\ (task = "serving" \/ shutdownMsg) ~>
        \/ ~Running
        \/ task \in {"sleeping", "connecting"} /\ ~shutdownMsg
        \/ task = "serving" /\ peer.websocket /\ writing

\* HappyEyeballs finds the server when one of the addresses has one, whatever
\* the others do.
ReachableIsReached ==
    dialPc = "polling" /\ (ToSet(dns_received) \cup connecting) \cap accepting # {}
        ~> dialPc = "off"

=============================================================================
