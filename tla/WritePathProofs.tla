-------------------------- MODULE WritePathProofs --------------------------
(***************************************************************************)
(* Proofs about WritePath, for every kind of connection and configuration, *)
(* any budget and any sizes of the channel and of the batches.             *)
(*                                                                         *)
(* What makes Closed safe is spread over a poll: the channel is closed     *)
(* when shutting_down is set (Closing), it was empty when the last receive *)
(* said NoMoreCommands (Drained), and a stream that is not writing has     *)
(* nothing left to write (Written).                                        *)
(***************************************************************************)
EXTENDS WritePath, TLAPS

Numbers ==
    /\ setup \in Setups
    /\ cmds \in 0..CommandCap
    /\ buf \in 0..(Limit + RecvBuf + MaxBuf + CommandCap)
    /\ budget \in 0..Budget

Flags ==
    /\ cmdOpen \in BOOLEAN /\ shutdownReq \in BOOLEAN /\ shutting_down \in BOOLEAN
    /\ should_flush \in BOOLEAN /\ writing \in BOOLEAN /\ flushing \in BOOLEAN
    /\ notified \in BOOLEAN

States ==
    /\ delay \in {"consumed", "running", "elapsed"}
    /\ outcome \in {"NoMoreCommands", "NoMoreSpace"}
    /\ wakers \subseteq {"read", "cmd", "write", "delay"}
    /\ pc \in {"idle", "read", "recv", "write", "flush", "closed"}

Closing == /\ shutting_down => ~cmdOpen
           /\ pc = "closed" => shutting_down

Drained ==
    /\ pc \in {"write", "flush"} /\ shutting_down /\ outcome = "NoMoreCommands" /\ ~Coop
         => cmds = 0
    /\ pc = "closed" /\ ~Coop => cmds = 0

Written ==
    /\ pc = "flush" /\ ~writing /\ ~Websocket /\ ~WriteDelay => buf = 0
    /\ pc = "closed" /\ ~Websocket /\ ~WriteDelay => buf = 0

Armed == notified \/ "write" \in wakers \/ "delay" \in wakers

Woken ==
    /\ pc = "flush" /\ ~flushing /\ buf > 0 /\ ~Coop => Armed
    /\ pc = "flush" /\ flushing /\ ~Websocket /\ ~Coop => buf = 0
    /\ pc = "idle" /\ (buf > 0 \/ flushing) /\ ~Coop => Armed
    /\ Websocket /\ buf > 0 => should_flush

Inv == Numbers /\ Flags /\ States /\ Closing /\ Drained /\ Written /\ Woken

USE WriteAssumption

-----------------------------------------------------------------------------
\* What Inv says of the properties.
LEMMA InvImplies == Inv => TypeOK /\ NoLossOnClose /\ NoLostWakeup
<1> SUFFICES ASSUME Inv PROVE TypeOK /\ NoLossOnClose /\ NoLostWakeup
  OBVIOUS
<1>1. TypeOK
  BY Zenon DEF Inv, Numbers, Flags, States, TypeOK
<1>2. NoLossOnClose
  BY Zenon DEF Inv, Drained, Written, NoLossOnClose, ClosedIsDrained
<1>3. NoLostWakeup
  BY DEF Inv, Woken, Armed, NoLostWakeup
<1> QED
  BY <1>1, <1>2, <1>3

\* Inv holds of a new connection.
LEMMA InitInv == Init => Inv
<1> SUFFICES ASSUME Init PROVE Inv
  OBVIOUS
<1>1. Numbers
  BY DEF Init, Numbers
<1>2. Flags
  BY DEF Init, Flags
<1>3. States
  BY DEF Init, States
<1>4. Closing /\ Drained /\ Written /\ Woken
  BY DEF Init, Closing, Drained, Written, Woken
<1> QED
  BY <1>1, <1>2, <1>3, <1>4 DEF Inv

-----------------------------------------------------------------------------
\* Every step of a poll, of the other threads, of the timer and of the socket
\* keeps Inv.
LEMMA NextInv == ASSUME Inv, [Next]_vars PROVE Inv'
<1>1. CASE SendCommand
  <2>1. Numbers' /\ Flags' /\ States'
    BY <1>1 DEF SendCommand, Wake, Inv, Numbers, Flags, States
  <2>2. Closing' /\ Drained' /\ Written' /\ Woken'
    BY <1>1 DEF SendCommand, Wake, Websocket, WriteDelay, Coop, Inv, Closing,
       Drained, Written, Woken, Armed
  <2> QED
    BY <2>1, <2>2 DEF Inv
<1>2. CASE CloseClient
  <2>1. Numbers' /\ Flags' /\ States'
    BY <1>2 DEF CloseClient, Inv, Numbers, Flags, States
  <2>2. Closing' /\ Drained' /\ Written' /\ Woken'
    BY <1>2 DEF CloseClient, Websocket, WriteDelay, Coop, Inv, Closing,
       Drained, Written, Woken, Armed
  <2> QED
    BY <2>1, <2>2 DEF Inv
<1>3. CASE TimerElapses
  <2>1. Numbers' /\ Flags' /\ States'
    BY <1>3 DEF TimerElapses, input, Wake, Inv, Numbers, Flags, States
  <2>2. Closing' /\ Drained' /\ Written' /\ Woken'
    BY <1>3 DEF TimerElapses, input, Wake, Websocket, WriteDelay, Coop, Inv,
       Closing, Drained, Written, Woken, Armed
  <2> QED
    BY <2>1, <2>2 DEF Inv
<1>4. CASE SocketWritable
  <2>1. Numbers' /\ Flags' /\ States'
    BY <1>4 DEF SocketWritable, input, Wake, Inv, Numbers, Flags, States
  <2>2. Closing' /\ Drained' /\ Written' /\ Woken'
    BY <1>4 DEF SocketWritable, input, Wake, Websocket, WriteDelay, Coop, Inv,
       Closing, Drained, Written, Woken, Armed
  <2> QED
    BY <2>1, <2>2 DEF Inv
<1>5. CASE BeginPoll
  <2>1. Numbers'
    BY <1>5 DEF BeginPoll, Enqueue, Inv, Numbers
  <2>2. Flags'
    BY <1>5 DEF BeginPoll, Enqueue, Inv, Flags
  <2>3. States'
    BY <1>5 DEF BeginPoll, Enqueue, Inv, States
  <2>4. Closing' /\ Drained' /\ Written' /\ Woken'
    BY <1>5 DEF BeginPoll, Enqueue, Websocket, Inv, Numbers, Flags, Closing,
       Drained, Written, Woken
  <2> QED
    BY <2>1, <2>2, <2>3, <2>4 DEF Inv
<1>6. CASE Read
  <2>1. Numbers' /\ Flags' /\ States'
    BY <1>6 DEF Read, input, Enqueue, Spend, HasBudget, Inv, Numbers, Flags,
       States
  <2>2. Closing' /\ Drained' /\ Written' /\ Woken'
    BY <1>6 DEF Read, input, Enqueue, Spend, HasBudget, Websocket, Inv,
       Numbers, Closing, Drained, Written, Woken
  <2> QED
    BY <2>1, <2>2 DEF Inv
<1>7. CASE ReadPending
  <2>1. Numbers' /\ Flags' /\ States'
    BY <1>7 DEF ReadPending, input, HasBudget, WaitFor, Yield, Inv, Numbers,
       Flags, States
  <2>2. Closing' /\ Drained' /\ Written' /\ Woken'
    BY <1>7 DEF ReadPending, input, HasBudget, WaitFor, Yield, Websocket, Inv,
       Closing, Drained, Written, Woken
  <2> QED
    BY <2>1, <2>2 DEF Inv
<1>8. CASE ReceiveSome
  <2>1. Numbers' /\ Flags' /\ States'
    BY <1>8 DEF ReceiveSome, Enqueue, Spend, HasBudget, MayEnqueue, Inv,
       Numbers, Flags, States
  <2>2. Closing' /\ Drained' /\ Written' /\ Woken'
    BY <1>8 DEF ReceiveSome, Enqueue, Spend, HasBudget, MayEnqueue, Websocket,
       Inv, Numbers, Closing, Drained, Written, Woken
  <2> QED
    BY <2>1, <2>2 DEF Inv
<1>9. CASE ReceivePending
  <2>1. Numbers' /\ Flags' /\ States'
    BY <1>9 DEF ReceivePending, input, HasBudget, WaitFor, Yield, MayEnqueue,
       Inv, Numbers, Flags, States
  <2>2. Closing' /\ Drained' /\ Written' /\ Woken'
    BY <1>9 DEF ReceivePending, input, HasBudget, WaitFor, Yield, MayEnqueue,
       Websocket, Coop, Inv, Closing, Drained, Written, Woken
  <2> QED
    BY <2>1, <2>2 DEF Inv
<1>10. CASE ReceiveClosed
  <2>1. Numbers' /\ Flags' /\ States'
    BY <1>10 DEF ReceiveClosed, HasBudget, Spend, MayEnqueue, Inv, Numbers,
       Flags, States
  <2>2. Closing' /\ Drained' /\ Written' /\ Woken'
    BY <1>10 DEF ReceiveClosed, HasBudget, Spend, MayEnqueue, Websocket, Inv,
       Closing, Drained, Written, Woken
  <2> QED
    BY <2>1, <2>2 DEF Inv
<1>11. CASE ReceiveFull
  <2>1. Numbers' /\ Flags' /\ States'
    BY <1>11 DEF ReceiveFull, input, MayBeFull, Inv, Numbers, Flags, States
  <2>2. Closing' /\ Drained' /\ Written' /\ Woken'
    BY <1>11 DEF ReceiveFull, input, MayBeFull, Websocket, Inv, Closing,
       Drained, Written, Woken
  <2> QED
    BY <2>1, <2>2 DEF Inv
<1>12. CASE StartWriting
  <2>1. Numbers'
    BY <1>12 DEF StartWriting, input, sched, Proceed, HasBudget, Spend, Inv,
       Numbers
  <2>2. Flags'
    BY <1>12 DEF StartWriting, input, sched, Proceed, HasBudget, Spend, Inv,
       Flags
  <2>3. States'
    BY <1>12 DEF StartWriting, input, sched, Proceed, HasBudget, Spend, Inv,
       States
  <2>4. Closing' /\ Drained' /\ Written' /\ Woken'
    BY <1>12 DEF StartWriting, input, sched, Proceed, HasBudget, Spend,
       Websocket, Coop, Inv, Closing, Drained, Written, Woken
  <2> QED
    BY <2>1, <2>2, <2>3, <2>4 DEF Inv
<1>13. CASE DelayWriting
  <2>1. Numbers' /\ Flags' /\ States'
    BY <1>13 DEF DelayWriting, input, ProceedLater, HasBudget, Yield, WaitFor,
       Inv, Numbers, Flags, States
  <2>2. Closing' /\ Drained' /\ Written' /\ Woken'
    BY <1>13 DEF DelayWriting, input, ProceedLater, HasBudget, Yield, WaitFor,
       Websocket, WriteDelay, Coop, Inv, Closing, Drained, Written, Woken,
       Armed
  <2> QED
    BY <2>1, <2>2 DEF Inv
<1>14. CASE WriteOk
  <2>1. Numbers' /\ Flags' /\ States'
    BY <1>14 DEF WriteOk, input, HasBudget, Spend, Inv, Numbers, Flags, States
  <2>2. Closing' /\ Drained' /\ Written' /\ Woken'
    BY <1>14 DEF WriteOk, input, HasBudget, Spend, Websocket, Inv, Closing,
       Drained, Written, Woken
  <2> QED
    BY <2>1, <2>2 DEF Inv
<1>15. CASE WritePending
  <2>1. Numbers'
    BY <1>15 DEF WritePending, input, HasBudget, WaitFor, Inv, Numbers
  <2>2. Flags'
    BY <1>15 DEF WritePending, input, HasBudget, WaitFor, Inv, Flags
  <2>3. States'
    BY <1>15 DEF WritePending, input, HasBudget, WaitFor, Inv, States
  <2>4. Closing' /\ Drained' /\ Written' /\ Woken'
    BY <1>15 DEF WritePending, input, HasBudget, WaitFor, Websocket, Coop,
       Inv, Closing, Drained, Written, Woken, Armed
  <2> QED
    BY <2>1, <2>2, <2>3, <2>4 DEF Inv
<1>16. CASE WriteSkipped
  <2>1. Numbers' /\ Flags' /\ States'
    BY <1>16 DEF WriteSkipped, input, sched, HasBudget, Inv, Numbers, Flags,
       States
  <2>2. Closing' /\ Drained' /\ Written' /\ Woken'
    BY <1>16 DEF WriteSkipped, input, sched, HasBudget, Websocket, Coop, Inv,
       Closing, Drained, Written, Woken
  <2> QED
    BY <2>1, <2>2 DEF Inv
<1>17. CASE WriteDone
  <2>1. Numbers' /\ Flags' /\ States'
    BY <1>17 DEF WriteDone, input, sched, Inv, Numbers, Flags, States
  <2>2. Closing' /\ Drained' /\ Written' /\ Woken'
    BY <1>17 DEF WriteDone, input, sched, Coop, Inv, Closing, Drained,
       Written, Woken
  <2> QED
    BY <2>1, <2>2 DEF Inv
<1>18. CASE SinkFlush
  <2>1. Numbers'
    BY <1>18 DEF SinkFlush, input, sched, Proceed, ProceedLater, HasBudget,
       Spend, Yield, WaitFor, Inv, Numbers
  <2>2. Flags'
    BY <1>18 DEF SinkFlush, input, sched, Proceed, ProceedLater, HasBudget,
       Spend, Yield, WaitFor, Inv, Flags
  <2>3. States'
    BY <1>18 DEF SinkFlush, input, sched, Proceed, ProceedLater, HasBudget,
       Spend, Yield, WaitFor, Inv, States
  <2>4. Closing' /\ Drained' /\ Written' /\ Woken'
    BY <1>18 DEF SinkFlush, input, sched, Proceed, ProceedLater, HasBudget,
       Spend, Yield, WaitFor, Websocket, Coop, Inv, Closing, Drained, Written,
       Woken, Armed
  <2> QED
    BY <2>1, <2>2, <2>3, <2>4 DEF Inv
<1>19. CASE FlushPending
  <2>1. Numbers' /\ Flags' /\ States'
    BY <1>19 DEF FlushPending, input, WaitFor, HasBudget, Yield, Return, Inv,
       Numbers, Flags, States
  <2>2. Closing' /\ Drained' /\ Written' /\ Woken'
    BY <1>19 DEF FlushPending, input, WaitFor, HasBudget, Yield, Return,
       Websocket, Inv, Closing, Drained, Written, Woken, Armed
  <2> QED
    BY <2>1, <2>2 DEF Inv
<1>20. CASE FlushOk
  <2>1. Numbers'
    BY <1>20 DEF FlushOk, input, sched, Return, Inv, Numbers
  <2>2. Flags'
    BY <1>20 DEF FlushOk, input, sched, Return, Inv, Flags
  <2>3. States'
    BY <1>20 DEF FlushOk, input, sched, Return, Inv, States
  <2>4. Closing' /\ Drained' /\ Written' /\ Woken'
    BY <1>20 DEF FlushOk, input, sched, Return, Websocket, WriteDelay, Coop,
       Inv, Closing, Drained, Written, Woken
  <2> QED
    BY <2>1, <2>2, <2>3, <2>4 DEF Inv
<1>21. CASE NoFlush
  <2>1. Numbers' /\ Flags' /\ States'
    BY <1>21 DEF NoFlush, input, sched, Return, Inv, Numbers, Flags, States
  <2>2. Closing' /\ Drained' /\ Written' /\ Woken'
    BY <1>21 DEF NoFlush, input, sched, Return, Websocket, WriteDelay, Coop,
       Inv, Closing, Drained, Written, Woken, Armed
  <2> QED
    BY <2>1, <2>2 DEF Inv
<1>22. CASE UNCHANGED vars
  <2>1. Numbers' /\ Flags' /\ States'
    BY <1>22 DEF vars, Inv, Numbers, Flags, States
  <2>2. Closing' /\ Drained' /\ Written' /\ Woken'
    BY <1>22 DEF vars, Inv, Closing, Drained, Written, Woken, Armed,
       Websocket, WriteDelay, Coop
  <2> QED
    BY <2>1, <2>2 DEF Inv
<1> QED
  BY <1>1, <1>2, <1>3, <1>4, <1>5, <1>6, <1>7, <1>8, <1>9, <1>10, <1>11,
     <1>12, <1>13, <1>14, <1>15, <1>16, <1>17, <1>18, <1>19, <1>20, <1>21,
     <1>22 DEF Next, PollStep

-----------------------------------------------------------------------------
\* Inv is invariant.
LEMMA SpecInv == Spec => []Inv
BY InitInv, NextInv, PTL DEF Spec

\* The counters keep to their bounds: no receive takes more than the channel
\* holds and no write more than the buffer.
THEOREM WritePathTypeOK == Spec => []TypeOK
BY SpecInv, InvImplies, PTL

\* HandlerOutput::Closed (handler/mod.rs:546) is never reported with a command
\* in the channel or an op in the encoder, without write_delay and with budget.
THEOREM ClosedLosesNothing == Spec => []NoLossOnClose
BY SpecInv, InvImplies, PTL

\* poll never returns Pending with ops to write or to flush and without a waker
\* or a notification that brings it back, whatever may_enqueue_more_ops replaces.
THEOREM PollIsWokenAgain == Spec => []NoLostWakeup
BY SpecInv, InvImplies, PTL

=============================================================================
