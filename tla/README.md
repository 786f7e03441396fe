# watermelon, modelled in TLA+

TLA+ models of watermelon, an asynchronous NATS client in Rust, with the TLC
configurations that check them on small instances and TLAPS proofs of the
properties that matter most. Paths below are relative to the repository root,
which the project knows as `src/`.

1. The system · 2. Modules · 3. Runs that pass · 4. Runs that find a violation ·
5. Proofs · 6. Not modelled

## 1. The system

An application holds cloned `Client` handles, `Subscription` streams and
`ResponseFut` futures. All of them talk to **one background task**, which owns
the connection: it alternates between connecting (with back-off) and polling a
`Handler` until that reports an end. JetStream is built on top, out of requests
and subscriptions.

```
 application threads                    client task                         server
 -------------------    commands    -------------------   ops (verbose)   ----------
 Client, publish    --> mpsc(512) -> Handler::poll     -> encoder, socket -> parse,
 Subscription      <--  mpsc(256) <-  tables, in_flight <- decoder, socket <- +OK/-ERR
 Response           <-  oneshot   <-  pinger, delay                         MSG, PING
        \--- QuickInfo (atomic bits) ---/
 JetStream lists, consumers, publishes, management = requests + subscriptions
```

| component | state | operations | interacts through |
|---|---|---|---|
| Handler, tables (`watermelon/src/handler/mod.rs`) | `subscriptions`, `multiplexed_subscriptions`, `in_flight_commands`, `shutting_down` | `poll`, `handle_server_op`, `receive_command`, `failed_unsubscribe`, `connect`, `recycle`, `close` | command channel, one channel per subscription, oneshots, QuickInfo, ops |
| Handler, write path (same file, `handler/delayed.rs`) | `writing`, `flushing`, `Delayed`, the connection's buffer, registered wakers | the receive/write/flush loop | coop budget, timer, socket |
| Pinger (`handler/pinger.rs`) | `interval`, `pending_pings` | `poll`, `do_ping`, `handle_pong`, `reset` | PING/PONG |
| Client (`client/mod.rs`) | channel ends, reference count, back-off | `subscribe`, `multiplexed_request`, `lazy_unsubscribe*`, `close`, the connect loop | command and shutdown channels |
| Subscription, MultiplexedSubscription | receiver, batch, status | `poll_next`, `close`, `close_after`, `drop` | its channel, `lazy_unsubscribe` |
| Requests (`client/commands`) | subscription, timeout | `request`, `try_request`, `ResponseFut::poll` | the two above |
| QuickInfo (`client/quick_info.rs`) | one `AtomicU32` | `store`, `store_is_failed_unsubscribe`, ... | shared by every thread |
| Decoder (`watermelon-proto/.../decoder`) | `DecoderStatus`, read buffer | `decode`, `decode_frame` | `poll_read_next` |
| Encoder (`.../encoder`), BufList | chunks | `enqueue_write_op`, `Buf` | `poll_write_next` |
| Streaming and websocket connections (`watermelon-net`) | socket, sink, `may_flush`, `should_flush`, `residual_frame` | `poll_read_next`, `poll_write_next`, `poll_flush`, `may_enqueue_more_ops` | Handler |
| Happy eyeballs (`watermelon-net/src/happy_eyeballs.rs`) | attempts, records left, delay | `poll_next`, `next_dns_record` | lookup, sockets, timer |
| Connector, handshake (`watermelon-mini`, `watermelon-net/src/connection`) | layers of the connection | `connect`, `authenticate`, the TLS and zstd upgrades | the server's INFO and answers |
| JetStream consumer | a batch's count, its deadline, what the application holds | `ConsumerBatch`, `ConsumerStream`, acknowledgments | an inbox, requests, the server |
| JetStream lists, management, publish, resources | offsets and pages; none; none; none | paged lists, create/get/delete, publish with expectations, JSON | requests |
| Protocol types | `HeaderMap`'s count | validation, parsing, the header map | Encoder, Decoder |

What is hard about it, and what has to hold:

- **Replies carry no identifier.** The connection is verbose, and the handler
  matches the n-th `+OK`/`-ERR` with the n-th entry of `in_flight_commands`. One
  entry too many or too few misattributes every later reply.
- **Drop cannot wait.** A `Subscription` dropped while the command channel is
  full can only set a bit and hope that the handler sweeps. The bit, the
  channel, the map and the server's table are changed by different threads at
  different times.
- **Reconnection** keeps the tables and the channel but loses everything in
  flight, at any step of a poll.
- **poll** is a hand-written state machine over several readiness sources under
  a cooperative budget. It may lose a wake-up, spin, or report `Closed` early.
- **A request is several commands**, into a channel others fill, and its answer
  races its timeout, the loss of the connection and the close of the client.
- **Connecting** is a race of attempts, then a handshake in which both sides must
  change layers (TLS, zstd) at the same op, all of it under a timeout and a
  close that may come at any moment.
- **Keepalive** races answers with timers and late polls.
- **Bytes**: decoding must not depend on where the network cuts the stream, nor
  encoding on where the socket stops; what is validated on one side must be
  what the other side reads.
- **JetStream** answers from state others change: lists are paged while items
  come and go, publishes are tried again without knowing what became of them,
  batches end in a dozen ways.

PROJECT.json lists these hazards one by one, at the line where each bites, with
the properties aimed at it.

## 2. Modules

Every module names the field or the function that a variable or an action stands
for; PROJECT.json maps each definition to its lines.

### The connection

**`Handler`**: the tables of the handler, the application threads and the
server. A poll is cut into the stages between which other threads can act (`pc`:
`connected`/`idle`, `sweepMux`, `sweep`, `shutdown`, `read`, `cmd`, and `down`,
`load`, `resub` of a reconnection). Inside a stage, every op read, every command
received and every subscription swept or resubscribed is one action. Dropping a
`Subscription` takes two actions, because `lazy_unsubscribe` runs before the
receiver goes; `RawQuickInfo::store` takes two as well, its load and its store.
Encoder, socket and server input are one FIFO `outbound`. Replies and deliveries
come back in two, since the handler relies on no order between them. A reply in
`acks` remembers the op it answers: no code reads that, it is what `AckAlignment`
compares with.

**`WritePath`**: the write half of `poll`, with ops counted instead of told
apart: `buf`, `writing`, `flushing`, the timer of `Delayed`, the coop budget,
and the wakers the task has registered. `setup` fixes the kind of connection and
whether there is a write delay, inbound traffic, and a budget that can run out.

**`Keepalive`**: `Pinger` and the read loop that resets it, over discrete time,
against a server that answers within `Latency`, sends PINGs and other ops, or
falls silent. `Lag` is how late a woken task may be polled.

**`Lifecycle`**, which extends **`HappyEyeballs`** and **`Handshake`**: the task
behind a `Client` from `connect` or `connect_lazy` to its end. The three share
their state: a connect is the dial of `HappyEyeballs` followed by the awaits of
`Handshake`, both under the timeout, and `Lifecycle` adds the connect loop, the
back-off, the shutdown message, `Client::close` and the drop of the last handle.
A serving handler is, here, what it takes off the channel and whether it is
`writing` or `flushing`, since `Closed` waits for both. In `Handshake` an op
on the wire carries the layers it was written through, and a side that reads
through other ones is `garbled`.

### Requests and JetStream

**`Requests`**: `request` and `try_request` over a subscription of their own or
the shared inbox, with each command they give as an action, `ResponseFut::poll`,
and below them the command channel, the handler's tables, the server and a
responder. The client is connected (`up`) or not, possibly for ever; `Close` ends
the channel, and the handler goes on with it over further connections. What a lost
connection or a close cuts off is remembered in `losses`, and a reply that comes to
no connection, or to a refused subscription, in `missed`.

**`Consumer`**: `ConsumerBatch`, `ConsumerStream` and the acknowledgments of the
messages they yield. The state is the batch's (`pending`, its timer, the
`Subscription`'s channel with the batch `poll_next` takes off it and reverses),
the handler's (command channel, inboxes), and the server's (which message is with
whom). It hands out, redelivers, beats, and ends a request with the statuses the
code knows.

**`Listing`** (`Streams`, `Consumers`), **`Management`** (create, look up and
delete), **`Publishing`** (`do_publish` and what its answers mean) and
**`Resources`** (configurations to JSON and back) are each one task or a few
against a server that others change too. An answer to a publish may be unreadable,
which says as little of the message as none. A number that does not fit its JSON
type, a duration beyond `u64` nanoseconds among them, is an error of
`create_stream` and a panic of `create_consumer`, whose `json!` unwraps. `seen` in `Management` is the states the
server went through during a call; no code reads it.

### The bytes

**`Decoder`** and **`OpStream`**: `decode` as a position in a stream of frames
of which only the lengths are known; the bytes arrive in any chunks
(`StreamDecoder`) or as websocket messages (`decode_frame`). `OpStream` is the
abstract specification: the ops come out in order, and reading fails only at an
op that may be rejected. `ReadsTheStream` states that `Decoder` implements it,
with `failed` mapped to `pc = "failed"`.

**`Encoder`** and **`ByteQueue`**: `StreamEncoder` and `BufList` under
`poll_write_next` and `poll_flush`, with small and large payloads, vectored and
plain writes that the socket may cut anywhere, and a websocket's frames with
`send_error`. `ByteQueue` is the abstract specification, one queue of bytes;
`IsAQueue` states that the chunks and the flat buffer implement it.

**`Wire`**, with the operators of **`Values`** and **`HeaderMap`**: what an op is
written as and read as. `Values` holds the validations and the numbers,
`HeaderMap` the map that ignores case. In `Wire` an op is built by the
constructors, encoded, read by a server that splits its arguments as the protocol
has it, relayed and decoded. Strings are sequences of symbols, because these
properties are about single characters: a symbol is a character, a line
terminator or a verb, and `Letters`, the characters without a meaning of their
own, is a parameter. What recurs (`Decimal`, `ParseUint`, `Lines`, `SplitSpaces`,
`CollectHeaders`) is a recursive function, so that it can be proved about.

### Instances

**`MCHandler`**, **`MCWritePath`**, **`MCKeepalive`**, **`MCRequests`**,
**`MCConsumer`** and **`MCLifecycle`** give constants their values.
**`MCReconnect`** is `Handler` with lost connections. Its initial states are those
of three kinds of applications, told apart by a second request that is never made:
one with a subscription and a request, one with a subscription that uses
`close_after` and with publishes, and one with a request and publishes; the last
two may close the client. **`MCCodec`** (Decoder, Encoder and Wire) and
**`MCJetstream`** (Listing, Management, Publishing, Resources) check modules that
do not interact in one run: `component` picks one of them in the initial state,
the others stay where they are, so that TLC explores the sum of their states and
not the product. Their properties are
conjunctions of the modules' own, grouped by the question they ask.

**`*Proofs`**: the theorems, see 5.

Definitions whose comment says "Mutant of" or "A mutant" are variants with a
plausible mistake in them. They are not part of any specification. Put in place
of the definition they vary, they make TLC report the property PROJECT.json pairs
them with, which shows that the property depends on that code.

### What the models leave out

In `Handler`, payloads, subjects and headers; the wording of errors; queue
groups. The fatal errors of the server and every failed read or write are one
action, `Disconnect`. The server may end a subscription at any time after an
`UNSUB` with a count, instead of counting deliveries. In `WritePath`, a
websocket's sink may be full at any moment it holds data. In `Requests` and
`Consumer` the handler takes a command and writes it in one step: how the two come
apart is `Handler`'s and `WritePath`'s subject. That the network loses a request
is a responder that does not answer. In `Handshake`, TLS and zstd are layers and
credentials a kind; signing is assumed to succeed. In `Resources`, the fields
that serde passes through unchanged are absent, and an object is the set of its
fields, in no order.

## 3. Runs that pass

| run | instance | shows |
|---|---|---|
| `handler_reconnect` | lost connections under three applications: one subscription, one request, `close_after(2)`, publishes, `Client::close`, abort | `TypeOK`, `AckAlignment`, `DroppedIsQueued`; `ErrorEndsStream`: nothing is delivered behind a refusal; `InboxBeforeRequests`: on every connection requests follow the inbox, and the handler takes it for subscribed exactly when it is |
| `handler_subs` | a subscription and a request, two command slots, one connection, fairness | `NoServerLeak`: the server keeps no subscription the handler has forgotten. `DroppedIsForgotten`: what is dropped with its command enqueued leaves the maps |
| `writepath_all` | all 16 setups, fairness | `TypeOK`, `NoLossOnClose`, `NoLostWakeup`, `StreamCloseCompletes` |
| `keepalive` | interval 4, latency 6, lag 1, fairness | `PendingIsOutstanding`, `OnlyDeadIsDropped`, `DeadIsDroppedInTime`, `DeadIsDropped` |
| `lifecycle` | three addresses of both families, nine scenarios, one fault, two closes, fairness | `ConnectInv`: the families take turns, no address is given up unattempted, both sides stay at the same layers, nothing is left over for the handler. `LifecycleInv`, `BackoffGrows`; `CloseIsRemembered`: no lost connection forgets a close; `CloseReturns`, `ReachableIsReached` |
| `requests` | an explicit and a shared request, or two shared ones, awaited or tried, two command slots, one fault, a close, fairness | `RequestsInv`: what a request returned is true. `AsksForRepliesFirst`: a request is sent where its reply is asked for. `TimeoutsAreHonest`: no reply that reached the client ends as a timeout. `EveryRequestEnds` |
| `consumer` | two messages, batches of two, a channel of one, one fault, fairness | `ConsumerInv`: a batch never counts more than it was given, never asks without a subscription, an acknowledgment is sent once, a stream breaks only on errors. `ConsumerEnds` |
| `jetstream` | lists of up to five items in pages of two; two callers, two configurations; two publishers with twelve kinds of expectations; every small configuration | `ListingInv`, `ListingEnds`, `ManagementInv`, `PublishingInv`, `ResourcesInv` |
| `codec` | every stream of up to two of ten frames in every chunking; ops of up to 14 bytes; every subject of up to three awkward symbols | `DecoderInv`: the read buffer moves on. `ReadsTheStream`. `EncoderInv`: no assertion fails and no op is lost in silence. `IsAQueue`, `AllIsFlushed`. `WireTypeOK`: `len` of a `HeaderMap`. `ServerUnderstands`: the server reads the op that was enqueued. `ArrivesAsSent`: a message is decoded as it was sent |

**Bounds.** In `Handler`, with two slots a channel holds a `Subscribe` and its
`Unsubscribe`, and is full with either; a subscription and a request compete for
it. `SubCap = 2` in `handler_reconnect` lets an error stand behind a message, and
`SubCap = 1` makes the channel full at once. All that an application may do at once
is beyond TLC with lost connections, hence the three kinds of `MCReconnect`; the
theorems of section 5 have no such restriction. `MaxOutbound`, `MaxAcks` and `MaxMsgs`
bound what a connection holds: the first is the code's soft limit, the others
stand for socket buffers. In `WritePath`, `CommandCap = 3`, `RecvBuf = 2`,
`Limit = 3`: a batch can overshoot the soft limit, a full channel needs two
batches, and a budget of 4 can end in any of the calls of a poll. `Latency = 6`
with `Interval = 4` and `Lag = 1` is the largest value the assumption of
`Keepalive` admits; with 7, and the assumption taken out, TLC finds a healthy
server dropped, so the assumption is tight. `Lifecycle` needs two addresses of
one family and one of the other for the turns to matter, `MaxDelay = 3` with
`MinDelay = 1` makes the doubling overshoot its maximum, and one failure before or
after a connection is served is what a close can meet. In `Requests`, `MaxFaults`
counts every misfortune together: a cancelled request, a lost connection, a
refused SUB, a second answer; a close is not counted and may follow any of them.
With two slots the three commands of an explicit request do not fit at once, and
the second of two shared requests finds the inbox subscribed to, or gone with a
connection. `Consumer` redelivers while batches follow
each other, so two messages and two inboxes let a message of one batch arrive in
the next; `SubCap = 1` makes the channel overflow. `Listing` needs more than two
full pages, `Publishing` a second attempt of both callers. In `Resources`, numbers
go one beyond the signed type, and optional fields are absent, null or present.
The decoder's frames have the lengths of real ones (`+OK\r\n` is 5), its limits
lie exactly at the longest accepted frame, and two frames are enough for a mistake
in the first to displace the second. The encoder's payloads are empty, flattened
and kept as chunks of their own. `Wire` edits a header map twice, which is enough
for a name to be replaced, appended to or removed in another spelling, and with
`MaxMsgLen = 26` some of the messages it makes are too long. The proofs
of section 5 need none of these bounds.

**Deadlock** is checked in `handler_subs`, which has no final state; every other
instance ends: in `closed`, `disconnected` or `failed`, with every request
returned, or at the end of the stream.

**Fairness** is what the runtime gives the tasks, and never that of a server, a
network or an application unless it is said here.
- `Handler`: the tasks run (weak fairness of `PollStep`, `ConnectNext`,
  `ServerProcess`). Receiving commands and reading replies get strong fairness:
  a poll may end before it reaches them, when its budget is used up, but not
  every poll does. A server that fills every poll with 128 ops would break this
  assumption; the code has no counter-measure. `handler_subs` has no lost
  connections, because no client gets anywhere over connections that are lost
  for ever before it has sent its commands.
- `WritePath`: the task is polled and timers elapse (weak), and the peer keeps
  reading (strong fairness of a successful write and flush).
  `StreamCloseCompletes` is stated for a server and a pinger that do not add
  work to every poll, and with the budget: without it a flood of commands keeps
  one poll going.
- `Keepalive`: polls take no time, hence strong fairness of `Tick`; a woken task
  is polled and the read loop goes on.
- `Lifecycle`: the task is polled, time passes, and servers that are there answer
  and read what is written to them; one that does not is `Keepalive`'s subject.
  Addresses without a server may stay silent for ever.
- `Requests`: the tasks of the requests are polled, the timer elapses, and a
  connected handler takes commands. Waiting for room in the command channel is
  strongly fair, since tokio's `mpsc` serves its senders in turn. The responder owes
  nothing, and neither does the network: the client may never connect. Then one
  request does not end, which `EveryRequestEnds` names: one that awaits room in a
  full channel, since its timeout runs only from its last command on
  (request.rs:372-399).
- `Consumer`: the same, and the application settles what it holds, and the server
  hands out what it has, redelivers and ends requests. `AllAreProcessed`, a part
  of `ConsumerEnds`, is about the server as much as the client, so it needs this.
- `Listing`, `Encoder`: the task is polled while it is awake, and a request has
  an outcome (a reply or its timeout); whoever has something to write or to flush
  does.

## 4. Runs that find a violation

Each one checks what a doc comment, a test or an assertion says of the program.

| run | what happens |
|---|---|
| `writepath_delay_loss` | With a `write_delay`, encoded messages wait with `writing` and `flushing` false; `Client::close` in that window ends the handler and they are lost. |
| `writepath_websocket_close` | `NoMoreSpace` sets `writing` on a websocket, where nothing clears it; `Client::close` then never returns. |
| `handler_lost` | A `Subscription` dropped while its own `Subscribe` still fills the channel sets the bit; the handler sweeps before it receives the `Subscribe`, and the subscription stays for good. |

Further disagreements are stated in the modules, without a run of their own:

- `LostIsForgotten` also fails when the sweep runs between `lazy_unsubscribe` and
  the drop of the receiver (two subscriptions, `CommandCap = 1`), and when
  `RawQuickInfo::store` writes back an old bit.
- `ClosedIsDrained` also fails without a delay if the reads of a poll use up the
  coop budget, since `poll_recv_many` is then `Pending` with commands in the
  channel; the same exhaustion lets a poll end with `writing` set and no waker
  for the socket, which is why `NoLossOnClose` and `NoLostWakeup` exclude it.
- `NoServerLeak` fails with `Reconnects = TRUE`: a refused subscription whose
  channel is full is put back, subscribed to again by the next connection, and
  then swept without an `UNSUB` (handler/mod.rs:393 against :349). This is the only
  way: `HandlerNoServerLeak` (section 5) has no other hypothesis than that no
  connection is lost while a refused subscription waits for its sweep.
- A close may drop commands that are in the channel: while the task sleeps or
  connects (`Lifecycle!ShutDown`, client/mod.rs:588), and when the coop budget of the
  poll is used up (`Lifecycle!HandlerCloses`, handler/mod.rs:579), against the
  comment at client/mod.rs:530. So `Lifecycle` does not claim that a closed channel
  is drained, only that the close is not forgotten (`CloseIsRemembered`) and returns
  (`CloseReturns`, but for a websocket that is writing for good).
- `Resources!CreateResource`: a number of a consumer that does not fit makes
  `create_consumer` panic (jetstream/mod.rs:191-196), although it returns a
  `Result` with `JetstreamError::Json`, which `create_stream` uses for the same
  mistake.
- `Requests!BufferFullIsFull`: `try_reserve` and the mapping of its error say
  `BufferFull` for a closed client too (client/mod.rs:372, :428 against :97).
- `Consumer!SaysAlreadyAcknowledged`: the second acknowledgment of a message
  returns `NoReplySubject`, because the first took the reply subject
  (jetstream/commands/message.rs:68 against :21-24 and :65-66).
- `Listing!ErrorTerminates`: a list of consumers that failed with an error asks
  again when it is polled again and may yield errors for ever
  (consumer_list.rs:125-128 against jetstream/mod.rs:217-219).
- `Decoder!WaitsOnlyForBytes`: `last_bytes_read` survives an `-ERR` or `INFO`; if
  as many bytes are left in the buffer, a complete op waits there until more
  arrive (decoder/mod.rs:96 against stream.rs:36).
- `Decoder!FastOkIsFresh`: a `+OK\r\n` split over two reads trips the
  `debug_assert` of the fast path (decoder/mod.rs:90 against :88).

## 5. Proofs

Each theorem is `Spec => []P`, or of a step that `Spec` allows, from an inductive
invariant that TLC checked first, for every value of the constants that the
module's `ASSUME` admits.

`HandlerProofs`:

- `HandlerTypeOK`: `TypeOK` is inductive, proved in five groups of variables; it
  holds the one numeric fact that could go wrong, that the countdown of
  `close_after` never drops below zero.
- `HandlerAckAlignment`: inductive together with `TypeOK`. The state splits into
  the three queues of `Aligned`, and every action does one of five things to
  them: nothing, append to both ends (`Send`, `SendTwo`), move a reply across
  (`Reply`), take one off both heads (`ReadSuccess`, `ReadError`), or empty all
  three (`LoseConnection`). One lemma per shape, one case per action.
- `HandlerDroppedIsQueued`: inductive together with `TypeOK`: the invariant
  already says that the `Unsubscribe` stands behind the `Subscribe`, which is what
  makes popping the channel's head preserve it. The lemmas follow one id through
  an append and through a pop.
- `HandlerInboxBeforeRequests`: `Published` says of a queue of ops that a request
  in it has the `SUB` of the inbox in front of it, unless the server has seen that
  on this connection. It survives an append, the pair of inbox and request, and the
  server taking the head. That the handler takes the inbox for subscribed exactly
  where that is so is carried along: refusals, sweeps and replies leave it alone, and
  a lost connection resets both sides.
- `HandlerErrorEndsStream`: an error ends a stream because its id has no entry
  in `subscriptions` afterwards, which needs that an id is subscribed to once:
  an entry, a `Subscribe` in the channel and a handle not yet made exclude each
  other (`Entries`).
- `HandlerNoServerLeak` and `OneConnectionNoServerLeak`: a `SUB` of an id is in one
  place at most, on its way, at the server, or refused (`Placed`), and what the
  server keeps, or will keep after the ops on their way, the handler has an entry
  for (`Holding`). With reconnections this needs
  `[][Disconnect => failedSub = {}]_vars`: no connection is lost between a refusal
  and the sweep that acts on it (section 4 has what happens otherwise); with one
  connection it needs nothing.

`WritePathProofs`: one invariant for three theorems. `WritePathTypeOK` is its
numeric part. `ClosedLosesNothing` rests on facts that are established at
different calls of a poll: the channel is closed once `shutting_down` is set
(`Closing`), it was empty when the last receive said `NoMoreCommands` (`Drained`),
and a stream that is not writing has nothing to write (`Written`).
`PollIsWokenAgain` adds that whatever is left at the flush has a waker or a
notification (`Woken`), which the no-op waker of `may_enqueue_more_ops` can only
undo on a websocket with `should_flush` set.

`RequestsProofs`:

- `RequestsAreHonest`. Order in the channel does not matter here, so it becomes the
  set of its commands (`Cmds`), with one lemma for an append and one for a tail.
  `Unsent` says at which stages a request has neither reached the server nor the
  channel. `Waits` says that a response that is waited for has its sender in the
  channel or in a map, or something in its box, or was cut off; only commands of
  requests that returned take a sender away (`Quits`).
- `RepliesAreAskedFor`: no request whose caller waits is published where its reply is
  not subscribed to. Here the order matters: the `SUB` of an explicit request stands
  before its `PUB`, or it is in the map, which every connection is given (`Asks`);
  and the handler takes the inbox for subscribed only where it is.
- `TimeoutsMissNothing`: a request is given to the channel and sent once (`Once`),
  and one that is sent and still waits has a map to be found in and its reply on the
  way, or with the responder, or missed; else it has something in its box, and then
  it does not time out (`Answers`). Cancellations, sweeps, refusals and lost
  connections in between keep this.

`ConsumerProofs`: `ConsumerIsSound`. `pending` is at least what the server owes the
batch or has sent (`Due`), so it never underruns. A `NEXT` stands behind the `SUB`
of its inbox in the channel, or the handler has subscribed to it (`Listens`), until
something is reported as failed. One acknowledgment was sent of a message that is
marked, and none of another (`Settled`).

`JetstreamProofs`:

- `CallsReturnTheTruth`. A call in progress has seen the state the server is in
  (`Current`), a reply was true of a state the call has seen (`Witnessed`), and so
  what the client makes of it is (`Told`).
- `PublishesAreHonest`. A request is known by its caller and attempt. As long as
  the first of a caller is on its way nothing of the caller is stored (`FirstIsOpen`),
  and once it was refused nothing ever is without another attempt
  (`RefusedLeavesNothing`). An id is in the log once, so a second attempt with it
  is told the sequence of the first (`Acknowledged`).
- `ListsAreComplete`. The place of an item in a list is its rank, which others
  created meanwhile can only raise; without deletions, all old items with a rank up
  to the offset were fetched, and the list ends when no rank is left. That ranks
  number the items without gaps is a counting argument over finite sets.
- `ConfigurationsReadBack`: for all configurations the types of the program allow,
  up to the fields left out. An object is the union of its parts, which share no
  name (`BodyHas`), so each field is read as it was written (`FieldIs`,
  `FieldIsNot`), and the fields make up the configuration (`ConsumerReadsBack`,
  `StreamReadsBack`). It needs that `None` is neither a number nor a string.

`CodecProofs`, first of the decoder (assuming of the frames that a `+OK` and a
`PING` have the length they have, that no `MSG` is shorter than a `PING`, and that
only messages have a payload and only an `HMSG` has headers):

- `DecoderKeepsUp`: the buffer holds what was read and not yet returned, up to
  the limits. `last_bytes_read` stays below what would be a complete op, unless an
  `-ERR` or `INFO` comes between (`Counts`).
- `DecoderReadsTheStream`: `Decoder` implements `OpStream`, step by step. The
  decoder is at the start of a part of the next frame, and its status says of which
  (`Places`), hence what it returns is that frame and no other. Where frames start
  is a recursive function, whose values and growth are proved by induction in the
  form of a statement about sets (`SetInduction`, from `WellFoundedInduction`).

and then of the encoder (with at least two slices in a vectored write):

- `BufferIsWhole`: the assertions of `BufList` and `poll_write_next` hold: `len` is
  the length of the pieces, none of which is empty (`Whole`).
- `LossesAreReported`: what was written is due to be flushed, and an op that a
  websocket refused has its error stored or reported (`SentOrWaiting`,
  `SentUnlessRefused`). `EncoderKeepsAll` is both.
- `EncoderIsAQueue`: `Encoder` implements `ByteQueue`. Appending an op appends its
  bytes to the content, flat or as pieces, and a write of any length, plain or
  vectored, takes them off the front. This rests on what `FlattenSeq` makes of one
  piece more and of one piece less, again by `SetInduction`.

`WireProofs`, for strings, headers, payloads and status lines of any length and
any number of edits (assuming that the lengths of what is in memory are a `usize`,
and that a head the server writes by itself is a line within `MAX_MSG_LEN`). The
invariant `WireInv` has two parts: the `HeaderMap` holds what the application
asked for (`Holds`), and for every stage of an op `AtStage` says what `op`, `wire`
and `read` have to do with each other. Most of the module is about the operators:

- The functions: `Recursion` finds the function that a recursive definition asks
  for, when each step goes to something smaller, from `StrongInduction`. It gives
  the equations of `Decimal`, `ParseUint`, `Lines`, `SplitSpaces` and
  `CollectHeaders`.
- Numbers: what `itoa` writes, `parse_u64` and `parse_usize` read back
  (`ParseDecimal`), and the three digits of a status code are kept (`CodeRead`).
- Control lines: words separated by blanks split into these words (`SplitsArg`),
  a line is cut off at its terminator (`ControlLine`), and a length cuts off the
  string it was measured on (`TakeIs`), since a longer beginning has more bytes.
  With `ReadsPublish`, `ReadsSubscribe` and `ReadsUnsubscribe` this is
  `OpsAreRead`: the server reads every op as it was enqueued. `FrameRead` says the
  same of `decode` and a message of the server.
- Header blocks: `lines_iter` undoes the lines (`LinesUnlines`), a header line is
  split at its first colon, which no name contains (`HeaderLineRead`), hence
  `decode_headers` returns the map collected from the pairs (`BlockRead`).
- `HeaderMap`: `insert`, `append` and `remove` change the values of one name, in
  any spelling, and no other's (`InsertIs`, `AppendIs`, `RemoveIs`), and `iter`
  yields for each name what `get_all` returns, whatever the order of the tree is
  (`MapPairs`). Two sequences of pairs that agree on every name have the same
  length (`SameLength`), which is why `len` is right (`WireTypeCorrect`) and
  arrives as it was (`PublicationsArrive`).
- `GrammarKept`: `validate_subject` goes from token to token, the grammar from
  symbol to symbol; `TokensFair` and `FairTokens` are the two directions of their
  equivalence (`SubjectGrammar`).
- `StatusesAreRead`, from `HeadRead`. `ServersUnderstand` and `MessagesArrive`
  combine these theorems into the invariants of the run.

`LifecycleProofs`:

- `ConnectIsSound`. The dial: an address with a server that was tried is in the
  `JoinSet` (`Attempted`), and once two attempts in a row are of one family no
  record of the other is left (`Turns`), which rests on what `next_dns_record`
  picks (`NextRecordIs`). The handshake: `ShakeInv` is a table of its stages, and
  the channels depend on whether the server has read the `CONNECT`: before, it
  has said nothing but its `INFO` (`Unread`); after, all it says goes through the
  layers both end up with, the `+OK` first and the `PONG` when nothing of the
  client's is on the wire (`Answered`). Hence no half of the `ZstdStream` is used
  without the socket, and nothing is left for the handler.
- `LifecycleIsConsistent`: the invariant of the task is inductive on its own,
  with the commands of the channel bounded by those that were sent.
- `BackoffDoubles` needs that a delay is zero or at least `MIN_RECONNECT_DELAY`
  (`BackoffStarts`): a delay in between would be raised without being doubled.
- `CloseSurvivesReconnects`: the message of a close is taken only by a handler that
  begins its shutdown and closes the channel, which no step opens again; so what a
  lost connection leaves behind still ends the next handler.

and those of the pinger (with `Lag < Interval` and `Latency + Lag < 2 * Interval`):

- `PingsAreCounted`: `pending_pings` is the number of PINGs whose answer is
  still to be read.
- `HealthyIsKept`: a server that answers is never dropped. The invariant ties
  together what the code keeps apart: when two PINGs are outstanding, the oldest
  one has waited at least as long as the timer has run since the second
  (`Overdue`), so the timer elapses only after `Latency` is over
  (`AnswerInTime`), and an answer that is there is read before the pinger gives up.
- `DeadIsFound`: at most three intervals and three delays of silence. The
  invariant bounds the silence by the PINGs spent so far (`Spent`).

Only model-checked:

- Liveness, and with it everything that rests on fairness or on `ENABLED`
  (`DroppedIsForgotten`, `StreamCloseCompletes`, `DeadIsDropped`, `AllIsFlushed`,
  `CloseReturns`, `ReachableIsReached`, `EveryRequestEnds`, `ConsumerEnds`,
  `ListingEnds`): the provers do not cover it.

Every invariant and every other action property of the passing runs is a theorem.

## 6. Not modelled

- TLS, zstd, websocket framing, sockets and the resolver (I/O, and other crates):
  `Handshake` has when they are entered, `HappyEyeballs` what they may answer.
- nkeys: base32, CRC-16 and Ed25519 signing, pure functions over bytes and
  cryptography. The reading of credentials files likewise.
- Server addresses (the `url` crate), the texts of server errors, and the serde
  data types of INFO and CONNECT.
- The builders (`ClientBuilder`, the setters of publishes, requests and
  consumers): they keep values and change nothing. What they configure is a
  constant or an initial state (`Setups`, `Options`, `Explicit` and `Shared`).
- Fields of JetStream configurations that serde writes as they are, and the states
  of streams and consumers that are only read.
- The lame duck bit of QuickInfo, which the client only hands to the application.
- A server that keeps the read loop busy without end: stated as a fairness
  assumption of `Handler`, since the code does nothing against it.
- The testkit and the example.

What would come next: a composition of `Handler` with `WritePath`, in which an op
may be encoded and lost; `Decoder` and `Wire` in one model, with the bytes of the
second cut up as in the first; lame duck mode, should the client come to act on it.
