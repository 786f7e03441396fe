----------------------------- MODULE Keepalive -----------------------------
(***************************************************************************)
(* The Pinger of a connection (watermelon/src/handler/pinger.rs), driven   *)
(* by Handler::poll, against a server that answers late, sends PINGs of    *)
(* its own, or falls silent.                                               *)
(*                                                                         *)
(* Time is counted in ticks.  poll takes none, but the task may be polled  *)
(* up to Lag ticks after it has been woken, and a server that is alive     *)
(* answers a PING within Latency ticks of it being the oldest one.  The    *)
(* order between the kinds of ops in flight does not matter here, so each  *)
(* kind is counted.                                                        *)
(***************************************************************************)
EXTENDS Naturals

CONSTANTS
    Interval,   \* INTERVAL
    Latency,    \* the slowest answer of a server that is alive
    Lag,        \* the longest a woken task waits to be polled
    MaxOther    \* other ops the connection may hold unread

ASSUME KeepaliveAssumption ==
    /\ Interval \in Nat \ {0}
    /\ Latency \in Nat
    /\ Lag \in Nat
    /\ MaxOther \in Nat
\* The server and the runtime are fast enough for the two unanswered PINGs the
\* pinger puts up with.
ASSUME HealthyAssumption ==
    /\ Lag < Interval
    /\ Latency + Lag < 2 * Interval

VARIABLES
    pc,             \* "idle", "read" (in the read loop) or "disconnected"
    timer,          \* ticks until Pinger::interval elapses
    pending_pings,
    handled,        \* handled_server_op
    pingsOut,       \* our PINGs the server has not answered
    pongsOut,       \* our PONGs it has not processed
    pongsIn,        \* its PONGs, not read
    pingsIn,        \* its PINGs, not read
    otherIn,        \* its other ops, not read
    silent,         \* the server is gone without closing the connection
    owed,           \* ticks the oldest of pingsOut has waited
    late,           \* ticks the woken task has waited
    quiet           \* ticks since the handler last read an op

outgoing == <<pingsOut, pongsOut>>
incoming == <<pongsIn, pingsIn, otherIn>>
pinger == <<timer, pending_pings>>
clocks == <<owed, late, quiet>>
pingerVars == <<pc, timer, pending_pings, handled, pingsOut, pongsOut, pongsIn,
                pingsIn, otherIn, silent, owed, late, quiet>>

PingerInit ==
    /\ pc = "idle"
    /\ timer = Interval
    /\ pending_pings = 0
    /\ handled = FALSE
    /\ pingsOut = 0
    /\ pongsOut = 0
    /\ pongsIn = 0
    /\ pingsIn = 0
    /\ otherIn = 0
    /\ silent = FALSE
    /\ owed = 0
    /\ late = 0
    /\ quiet = 0

-----------------------------------------------------------------------------
Readable == pongsIn + pingsIn + otherIn > 0

\* Something has woken the task: its timer or its socket.
Woken == timer = 0 \/ Readable

\* The top of poll: Pinger::poll, and do_ping once the interval has elapsed.
PollNoPing ==
    /\ pc = "idle"
    /\ timer > 0
    /\ pc' = "read"
    /\ handled' = FALSE
    /\ late' = 0
    /\ UNCHANGED <<outgoing, incoming, pinger, silent, owed, quiet>>

\* Mutant of DoPing: one PING more than two.
DoPingOneMore ==
    /\ pc = "idle"
    /\ timer = 0
    /\ pending_pings <= 2
    /\ pingsOut' = pingsOut + 1
    /\ pending_pings' = pending_pings + 1
    /\ timer' = Interval
    /\ owed' = IF pingsOut = 0 THEN 0 ELSE owed
    /\ pc' = "read"
    /\ handled' = FALSE
    /\ late' = 0
    /\ UNCHANGED <<incoming, pongsOut, silent, quiet>>

\* Mutant of DoPing: the timer is not started again.
DoPingNoReset ==
    /\ pc = "idle"
    /\ timer = 0
    /\ pending_pings < 2
    /\ pingsOut' = pingsOut + 1
    /\ pending_pings' = pending_pings + 1
    /\ owed' = IF pingsOut = 0 THEN 0 ELSE owed
    /\ pc' = "read"
    /\ handled' = FALSE
    /\ late' = 0
    /\ UNCHANGED <<incoming, timer, pongsOut, silent, quiet>>

\* do_ping: one more PING, and the timer starts again.
DoPing ==
    /\ pc = "idle"
    /\ timer = 0
    /\ pending_pings < 2
    /\ pingsOut' = pingsOut + 1
    /\ pending_pings' = pending_pings + 1
    /\ timer' = Interval
    /\ owed' = IF pingsOut = 0 THEN 0 ELSE owed
    /\ pc' = "read"
    /\ handled' = FALSE
    /\ late' = 0
    /\ UNCHANGED <<incoming, pongsOut, silent, quiet>>

\* Mutant of TooManyInFlightPings: the outcome is ignored.
IgnoreOutcome ==
    /\ pc = "idle"
    /\ timer = 0
    /\ pending_pings >= 2
    /\ UNCHANGED pingerVars

\* TooManyInFlightPings: poll returns Disconnected.
TooManyInFlightPings ==
    /\ pc = "idle"
    /\ timer = 0
    /\ pending_pings >= 2
    /\ pc' = "disconnected"
    /\ UNCHANGED <<outgoing, incoming, pinger, clocks, handled, silent>>

\* Mutant of ReadPong: any PONG answers every PING.
ReadPongResets ==
    /\ pc = "read"
    /\ pongsIn > 0
    /\ pongsIn' = pongsIn - 1
    /\ pending_pings' = 0
    /\ handled' = TRUE
    /\ UNCHANGED <<outgoing, clocks, pc, timer, pingsIn, otherIn, silent>>

\* handle_server_op: Pong, with handle_pong's saturating_sub.
ReadPong ==
    /\ pc = "read"
    /\ pongsIn > 0
    /\ pongsIn' = pongsIn - 1
    /\ pending_pings' = IF pending_pings = 0 THEN 0 ELSE pending_pings - 1
    /\ handled' = TRUE
    /\ UNCHANGED <<outgoing, clocks, pc, timer, pingsIn, otherIn, silent>>

\* handle_server_op: Ping.
ReadPing ==
    /\ pc = "read"
    /\ pingsIn > 0
    /\ pingsIn' = pingsIn - 1
    /\ pongsOut' = pongsOut + 1
    /\ handled' = TRUE
    /\ UNCHANGED <<pinger, clocks, pc, pingsOut, pongsIn, otherIn, silent>>

\* handle_server_op: every other op.
ReadOther ==
    /\ pc = "read"
    /\ otherIn > 0
    /\ otherIn' = otherIn - 1
    /\ handled' = TRUE
    /\ UNCHANGED <<outgoing, pinger, clocks, pc, pongsIn, pingsIn, silent>>

\* Mutant of ReadDone: every poll resets the timer.
ResetAlways ==
    /\ pc = "read"
    /\ handled \/ ~Readable
    /\ timer' = Interval
    /\ quiet' = IF handled THEN 0 ELSE quiet
    /\ pc' = "idle"
    /\ UNCHANGED <<outgoing, incoming, pending_pings, handled, silent, owed, late>>

\* The end of the read loop.  poll_read_next is Pending when nothing is left
\* to read, or when the coop budget is used up, which takes a read.
ReadDone ==
    /\ pc = "read"
    /\ handled \/ ~Readable
    /\ timer' = IF handled THEN Interval ELSE timer
    /\ quiet' = IF handled THEN 0 ELSE quiet
    /\ pc' = "idle"
    /\ UNCHANGED <<outgoing, incoming, pending_pings, handled, silent, owed, late>>

-----------------------------------------------------------------------------
(***************************************************************************)
(* The server and the network (external), and time.                        *)
(***************************************************************************)
ServerPong ==
    /\ ~silent
    /\ pingsOut > 0
    /\ pingsOut' = pingsOut - 1
    /\ pongsIn' = pongsIn + 1
    /\ owed' = 0
    /\ UNCHANGED <<pinger, pc, handled, pongsOut, pingsIn, otherIn, silent, late, quiet>>

\* The server too stops at two unanswered PINGs.
ServerPing ==
    /\ ~silent
    /\ pingsIn + pongsOut < 2
    /\ pingsIn' = pingsIn + 1
    /\ UNCHANGED <<outgoing, pinger, clocks, pc, handled, pongsIn, otherIn, silent>>

ServerTakesPong ==
    /\ ~silent
    /\ pongsOut > 0
    /\ pongsOut' = pongsOut - 1
    /\ UNCHANGED <<incoming, pinger, clocks, pc, handled, pingsOut, silent>>

ServerOther ==
    /\ ~silent
    /\ otherIn < MaxOther
    /\ otherIn' = otherIn + 1
    /\ UNCHANGED <<outgoing, pinger, clocks, pc, handled, pongsIn, pingsIn, silent>>

GoSilent ==
    /\ ~silent
    /\ silent' = TRUE
    /\ UNCHANGED <<outgoing, incoming, pinger, clocks, pc, handled>>

Tick ==
    /\ pc = "idle"
    /\ Woken => late < Lag
    /\ ~silent /\ pingsOut > 0 => owed < Latency
    /\ timer' = IF timer = 0 THEN 0 ELSE timer - 1
    /\ late' = IF Woken THEN late + 1 ELSE 0
    /\ owed' = IF ~silent /\ pingsOut > 0 THEN owed + 1 ELSE owed
    /\ quiet' = quiet + 1
    /\ UNCHANGED <<outgoing, incoming, pending_pings, pc, handled, silent>>

Poll ==
    \/ PollNoPing \/ DoPing \/ TooManyInFlightPings
    \/ ReadPong \/ ReadPing \/ ReadOther \/ ReadDone

Server == ServerPong \/ ServerPing \/ ServerTakesPong \/ ServerOther \/ GoSilent

PingerNext == Poll \/ Server \/ Tick

PingerSpec == PingerInit /\ [][PingerNext]_pingerVars

\* Polls take no time, so no number of them may hold time back for ever; and
\* a task that has been woken, or is in the read loop, gets on.
PingerFairness ==
    SF_pingerVars(Tick) /\ WF_pingerVars(Woken /\ Poll) /\ WF_pingerVars(pc = "read" /\ Poll)

FairPingerSpec == PingerSpec /\ PingerFairness

-----------------------------------------------------------------------------
\* Type invariant of the pinger and its surroundings: the timer stays within
\* Interval and pending_pings within the two PINGs do_ping allows.
TypeOK ==
    /\ pc \in {"idle", "read", "disconnected"}
    /\ timer \in 0..Interval
    /\ pending_pings \in 0..2
    /\ handled \in BOOLEAN
    /\ pingsOut \in Nat
    /\ pongsOut \in Nat
    /\ pongsIn \in Nat
    /\ pingsIn \in Nat
    /\ otherIn \in Nat
    /\ silent \in BOOLEAN
    /\ owed \in Nat
    /\ late \in Nat
    /\ quiet \in Nat

\* pending_pings is the number of PINGs that are still to be answered or whose
\* answer is still to be read: saturating_sub never hides a PONG too many, and
\* no reset of the timer makes the count drift.
PendingIsOutstanding == pending_pings = pingsOut + pongsIn

\* A connection is given up only because the server is gone, however its
\* answers, its own traffic and the polls interleave.
OnlyDeadIsDropped == pc = "disconnected" => silent

\* A connection that carries nothing is given up after three intervals and
\* the delays of the three polls they end in.
DeadIsDroppedInTime == quiet <= 3 * (Interval + Lag)

\* ... and in the end it always is.
DeadIsDropped == silent ~> pc = "disconnected"
=============================================================================
