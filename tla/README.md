# stompman: a TLA+ development

stompman is an asyncio client for STOMP brokers that hides lost connections from
its application; faststream-stomp puts it behind FastStream. What is hard in it is
not any single function but what happens when several tasks find out, at different
suspension points, that the connection they were using is gone. This directory
models that core, checks it with TLC and proves, with TLAPS, every safety property that
the runs check.

Paths below are relative to `src/packages/stompman/stompman/` unless they start
with `faststream_stomp/`.

## 1. Inventory

| Component | State it keeps | Operations | Talks to |
|---|---|---|---|
| Connection manager (`connection_manager.py`) | `_active_connection_state`, `_reconnection_count`, `_reconnect_lock`, heartbeat and monitor tasks, a task group | enter, exit, reconnect with retries, `write_frame_reconnecting`, `write_heartbeat_reconnecting`, `read_frames_reconnecting`, `maybe_write_frame`, discard | everybody calls it; calls lifespan and connection |
| Connection lifespan (`connection_lifespan.py`) | none of its own | CONNECT handshake, resubscribe and replay on a new connection, DISCONNECT | called by the manager under its lock; reads subscriptions and transactions |
| Client (`client.py`) | exit stack, listener task, handler semaphore | enter, exit, `send`, `begin`, `subscribe`, dispatch of frames | owns all of the above |
| Transactions (`transaction.py`) | the shared set `_active_transactions`, each one's `sent_frames` | begin, send, commit or abort, replay | written to by blocks, iterated by whoever reconnects |
| Subscriptions (`subscription.py`) | the shared dictionary of active subscriptions and its event | subscribe, unsubscribe, resubscribe, ack, nack | as transactions; read by the listener |
| Frame parser and serializer (`serde.py`) | the partial frame, its headers and content length | parse a chunk, dump a frame | one parser per `read_frames` call of `connection.py` |
| TCP connection (`connection.py`) | reader, writer | connect, close, write, read | below the manager |
| WebSocket connection (`connection_ws.py`) | the socket | the same, with a message for a chunk | the same |
| Frames and configuration (`frames.py`, `config.py`) | the headers dictionary a frame refers to | `SendFrame.build`, intervals | made by whoever sends |
| FastStream broker and subscribers (`faststream_stomp/broker.py`, `subscriber.py`, `models.py`) | `_attempted_to_connect`, `_stopping`, `_subscription`, `committed` | connect, start, stop, ping, the listener's done callback; ack, nack, reject of a message | enters and leaves a Client, asks it whether it is alive |
| Publisher and producer (`faststream_stomp/publisher.py`) | none; the command refers to the application's headers | publish, publish_batch, request, responses | calls the client and its transactions |
| Test broker (`faststream_stomp/testing.py`) | none | publish to the handlers directly | replaces the producer |
| Registrator, router, telemetry, metrics | none | registration, forwarding, instrumentation | |

**What is hard.** Many tasks reconnect for each other: one holds the lock, the
others wait and must look again. A heartbeat sender that reconnects cancels itself
half way. A task may notice the failure of a connection that was replaced long ago.
The shared set of transactions is iterated across awaits. ACK and NACK must not go
to a connection other than the one the message came on, nor be written twice by a
handler and by FastStream's middleware. Leaving the client races with all of it.
Three parsers follow each other on one byte stream. Whether the server is alive is
decided by a clock that stands still while the listener waits for a permit. A frame
refers to a dictionary that its caller may use again before the frame is written.

**What correctness means, per component.**

- Connection manager: one reconnection at a time; no connection is forgotten
  but those of dials that nobody awaits; a late failure never discards a newer connection; the reconnection count identifies
  the connection a message came on; background tasks live as long as the connection;
  reconnection happens, writes end, the exit ends, and leaves none of the connections it found.
- Transactions: one COMMIT or ABORT where there was a BEGIN, and at most the block's own after
  that of a restore; a replay is complete, and
  is not repeated once it has succeeded; no commit is lost; what was aborted is not
  committed later; the exceptions a block may see have known causes.
- Subscriptions: a message is settled, once and only where it was received, unless its
  handler raises what nobody suppresses; at most one SUBSCRIBE per connection; every active subscription is known to the server and the
  server knows no others; no message waits for ever.
- Parser: frames come out as they were sent, in order, however the stream is cut.
- Aliveness: a server that keeps its interval is not called dead, one that hangs is.
- Publishing: what is written, retried or replayed is what the call asked for; the test
  broker shows a handler what the real one would.
- Broker: the client is entered once; stopping ends and releases everything.

`PROJECT.json` lists the hazards behind these, each at the line where it bites, and
maps every definition to the lines it models.

## 2. Modules

| Module | Models | Composition |
|---|---|---|
| `ConnectionSlot` | the abstract promise: one slot, empty or holding the active connection, one connection at a time being prepared | implemented by `ConnectionManager`, instantiated by `Transactions` and `Subscriptions` |
| `ConnectionManager` | the manager, the handshake and the exit, as the tasks `main`, `listener`, two heartbeat senders, the application's tasks and the monitor | `Slot` instance with a refinement mapping |
| `MCConnectionManager` | the symmetry set for TLC | extends `ConnectionManager` |
| `ConnectionManagerProofs`, `TransactionsProofs`, `SubscriptionsProofs`, `BrokerProofs`, `FrameParserProofs`, `HeaderCodecProofs`, `PublishingProofs` | an inductive invariant each, and the theorems | each extends its module and `TLAPS` |
| `SequenceFacts` | no code: induction over numbers, and facts about sequences | extended by the proofs about the parser and the codec |
| `Transactions` | `async with client.begin()` blocks, `commit_pending_transactions`, the client's exit as far as it concerns them | on the slot |
| `Subscriptions` | subscribing, resubscribing, dispatch, the handler semaphore, ACK and NACK, FastStream's `committed` | on the slot |
| `FrameParser` | the parser's state machine and the three readers of one TCP or WebSocket connection | |
| `MCFrameParser` | the content-length lines for TLC | extends `FrameParser` |
| `HeaderCodec` | escaping and unescaping of one header | |
| `Aliveness` | `is_alive`, `last_read_time`, the server's interval | actions only, extended by `Broker` |
| `Broker` | the life of a FastStream broker, its subscribers, the client they share, `ping()` | extends `Aliveness` |
| `Publishing` | from a publishing call to the SEND frame, retried and replayed; the test broker's producer | |

A step of a module is the code between two suspension points. Some steps are cut
finer than that (for instance asking for the connection and getting it): the
model then has more interleavings than the event loop, and none fewer.

### ConnectionManager

State corresponds one to one: `active` is `_active_connection_state`, `count` is
`_reconnection_count`, `lock` is `_reconnect_lock` and names its holder, `attempt`
is the holder's loop variable, `hbTask` is `_send_heartbeat_task`, `monitor` says that
the monitor task runs, `aborted` that the task group is shutting down, `cancelled`
holds the cancellations not delivered yet. Connections are numbered as they are
opened; `open` is the set of those not closed. `pc` and `conn` are each task's place
and the connection it works with; `epoch` is the listener's local variable.

`GetActive`, `AcquireLock`, `Connect`, `HandshakeSucceeds`, `RestoreSucceeds`, and
their failing counterparts, walk through `_get_active_connection_state` and
`_connect_to_any_server`; `WriteLost`, `HeartbeatLost`, `ReadLost` and `MonitorFires` are the
ways a failure is noticed; `Leave`, `CancelBackgroundTasks`, `TaskGroupEnds`, `CloseActive`
are the exit. Two heartbeat senders are enough: a sender starts a second one only
while it reconnects, and its own cancellation is delivered before anybody else can
reconnect (proved: `SenderLives`).

An attempt dials `Servers` servers at once, each in a task of its own that
`asyncio.as_completed` makes. The first that answers is taken. The other dials go on, and so do
all of them if the task that awaits them is cancelled (`LeaveDialling`): whether one of them
opens a connection, which then is nobody's, is `orphaned`; `gaveUp` says that a task was cancelled
while it was dialling. `open` holds the connections the manager got. A restore fails with the
connection (`RestoreFails`, retried) or with the `RuntimeError` of a replay whose set has changed
its size (`RestoreRaises`): this leaves whatever task reconnects, at once, and ends a listener
or a sender also under `keep_alive_on_connection_failure`. `Transactions` has the replay itself.

### Transactions

`Transactions` and `Subscriptions` take the connection from `ConnectionSlot`, which
`ConnectionManager` is shown to implement, and add what happens around it. A frame is
*written* once it was given to the transport; its task then waits for `drain()`, which may
fail, and which may also return normally on a connection closed in the meantime. An
application task does not reconnect by itself in them: some task does.

Every block is a task: `at` is its place, `op` the frame it is about, `sent` the length of
`sent_frames`. `replay` is the state of the iteration over the set: what the iterator
remembers, what it has yielded, how many frames of the current transaction were replayed.
`wire` holds what was written, by connection; the ends of one transaction on one connection
are numbered (`EndFrame`), so that a COMMIT or ABORT that is repeated shows.
Python's set iterator compares the size of the set only, and so does `SizeUnchanged`; a
transaction that was added under the iterator's eyes may or may not be yielded.

A block ends in one of three ways besides the normal one. `error`: `remove()` raises
`KeyError`, because a restore has committed and cleared the set while the block ran. `cut`:
the application cancels `__aexit__` while its frame drains, and the set is not touched; the
transaction is then committed by the next reconnection, also if its frame was ABORT. `failed`:
`__aenter__` raised. `Exit` is `Client.__aexit__` in an application that ends its blocks first: it
commits nothing, and a COMMIT that waits for a reconnection is lost with it. `late`
and `restored` are history variables, used by properties only.

### Subscriptions

`snapshot` is what `resubscribe_to_active_subscriptions` has copied and not yet written;
`known` is the server's side of it, the subscriptions whose SUBSCRIBE it has seen and
whose UNSUBSCRIBE it has not. ACK and NACK differ in their command only and share
`WriteSettle`. There are three kinds of subscriptions: `AutoAck` settles when its handler has
ended, `ManualAck` whenever the application likes, also from tasks that outlive the handler or
run beside it, and `Stream`, among the manual ones, is FastStream's: its messages have
`committed`, looked at before the frame is written and set after it has drained, and its
middleware (external) settles when the handler ends. `overlapped` remembers the messages for
which a second call came while the first was draining. A message may lack the `ack` header, and
is then never settled. A handler that raises an exception which `suppressed_exception_classes`
leaves out ends as `raised`, with neither ACK nor NACK. The client's exit is not part of this
module: waiting for the subscriptions to end is in `Broker`.

### FrameParser and HeaderCodec

`FrameParser` reads byte by byte. A command or a header line is one symbol; a body is a
sequence of bytes out of `BodyBytes`, as long as the last of `ContentLengthLines` says at
most. The model puts no condition on those bytes: a member of `BodyBytes` may be the text
of a command. Those of the run are single bytes, and only `ReceiptFound` needs that. The
server sends CONNECTED, messages with every short body (with a right, a missing, a too small,
a repeated and a negative content length, and one that `int` refuses), heartbeats, RECEIPT, or,
at any time and also in place of CONNECTED, an ERROR, after which it is silent. `errorDropped` says
that the ERROR began in the chunk in which the first reader found its CONNECTED. The transport is a socket, read in chunks of any size up to `read_max_chunk_size`,
or a WebSocket, where each chunk is one message of the server. `HeaderCodec` goes inside
one header line, with the characters that have a meaning in it and two that have one after
a backslash.

### Broker and Aliveness

One task calls `start()`, another `connect()`, `stop()` follows once `start()` has
returned or raised, and a health check calls `ping()` at any time. FastStream's `BrokerUsecase`
is external and modelled from how `StompBroker` uses it. Leaving the client waits for the event
of the active subscriptions unless an exception was passed to `stop()`.

`Aliveness` counts time in ticks. `quiet` is the age of `last_read_time`, capped at the
threshold `is_alive` compares it with; `gap` is the time since the server has sent, which a
server that does not hang keeps within its interval. Reading takes no time: a tick waits until
the listener has read what it can. It cannot read while it waits for the handler semaphore
(`blocked`), nor before the connection it restores has become active, though
`last_read_time` dates from CONNECTED.

### Publishing

A call names a route (stompman's own `send` and transactions, FastStream's `publish`,
`publish_batch`, a response, the unsupported `request`), bodies, and a dictionary of headers,
of the application or none. `SendFrame.build` writes into the dictionary it is given; a frame
is `shared` when it refers to the application's, and is then dumped as that dictionary is at
the time. `builds` counts who wrote into it. A frame waits for its connection, is written
again on a retry, and again on the replay of a transaction; the connection itself is not part of
the module. `testing` puts `FakeStompProducer` in the producer's place.

## 3. Runs

| Run | Result | What it shows | Bounds |
|---|---|---|---|
| `ConnectionManagerSafety` | pass | `TypeOK`, `OneConnector`, `OnlyUnawaitedDialsLeak`, `EpochNamesConnection`, `BackgroundTasksAlive`, `ExitReleasesConnection`, `ActiveLeavesClosed`, and `ImplementsSlot` (refinement) | two users, two servers, two attempts, three harmful events |
| `ConnectionManagerReconnect` | pass | `ListenerReconnects`, `WritesComplete` (liveness) | one user, keep-alive on, two events |
| `ConnectionManagerExit` | pass | `ExitTerminates` (liveness) | no users, four events |
| `ConnectionManagerExitHang` | violation | with a user, `ExitTerminates` fails | one user, one event |
| `Transactions` | pass | `TypeOK`, `CommitKept`, `NoneWaitsWhileConnected`, `KeyErrorExplained`, `EndsOnce`, `ReplayIsComplete`, `ReplayedOnce`, `AbortedStaysAborted`, `PendingCommitted` (liveness) | two overlapping blocks, two sends each, two events |
| `TransactionsLostCommit` | violation | with two blocks, `CommitNotLost` fails | two blocks, three events |
| `Subscriptions` | pass | `TypeOK`, `SettledWhereReceived`, `HandledIsSettled`, `SettledOnce`, `SubscribedOnce`, `NoneForgotten`, `PromptSubscribedOnActive` for the subscription whose `drain()` is prompt, `MessageHandled` (liveness) | an automatic subscription and one of FastStream's, with a late `drain()`, one permit, two messages, two settlements each, two events |
| `SubscriptionsLate` | violation | with a late `drain()`, `SubscribedOnActive` (the same for every subscription) fails | one event |
| `FrameParser` | pass | `FramesInOrder`, `ReceiptFound`, `PopsCarriage` | two messages, or one and an ERROR, bodies of up to two carriage returns and null bytes, lengths from -1 to 2, chunks of up to three or WebSocket messages, one heartbeat |
| `HeaderCodec` | pass | `RoundTrip` | keys and values of up to three characters |
| `Broker` | pass | `EntersOnce`, `StopReleases`, `AliveWhileHealthy`, `StopEnds`, `DeadNoticed` (the last two liveness) | two subscribers, an interval of two ticks, a factor of two |
| `Publishing` | pass | `DeliveredAsAsked`, `TestBrokerAgrees` | two calls at a time, one dictionary or none, two bodies |

Why the bounds are enough for the interesting cases. A *harmful event* is a broken or
refused connection, a failed handshake or restore, a cancellation. Three of them let
a connection fail, the reconnection fail in turn, and a task that noticed nothing of
either act on its old connection while another one is being prepared. Two users are what
it takes for one to hold the lock, one to wait, and the listener or a sender to come
third; they may outlive the exit. Two servers leave one dial under way when the other has
answered; where the leaks of dials do not matter to the question there is one. Two blocks are the fewest that can keep the size of the set while changing its
members, and two sends let a transaction grow while it is the one that is replayed. One permit and two messages make the listener wait for the semaphore
across a reconnection. Chunks of up to three symbols put a chunk boundary at every place of a
frame, frame ends in the middle of a chunk, and an ERROR behind CONNECTED in its chunk; two messages let the first one's
parsing damage the second. A carriage return is a byte that stays in the buffer of a reader which
begins inside a body, and the null byte is the one that must clear it; other bytes, newlines
among them, are left to the proofs. Three characters hold every pair of escapes with a neighbour.
Two subscribers let a start fail with one started and one under way, and one under way with
one not begun. An interval of two ticks tells a server that sends late from one that sends
early, and a factor of two is the smallest one with which `is_alive` tolerates both. Two
settlements are what a handler and the middleware, or two calls that overlap, can
write. Two calls on one dictionary are the fewest that can disturb each other, and two
bodies let a batch disturb itself. `Subscriptions` was also explored with its manual subscription
a plain one (`Stream = {}`), with the same result.

`CHECK_DEADLOCK FALSE` stands where the application may make no more calls and the server
send no more bytes (`Subscriptions*`, `FrameParser`, `HeaderCodec`, `Publishing`). The other runs
check for deadlock; there the terminated states are explicit (`Stopped`, `Finished`).

### Fairness

- `ConnectionManager`: weak fairness of each task's own progress and of the exit, because
  the event loop runs whatever is ready, timers fire and timeouts end; strong fairness of
  `AcquireLock`, because `asyncio.Lock` serves waiters in order. No fairness makes a user
  call, the client leave, or a connection break.
- `Transactions`: weak fairness of reconnecting, which is what `ListenerReconnects` shows
  of the manager.
- `Subscriptions`: the listener takes a free permit, writes of ACKs end, and of handlers that
  can end again and again one does, or begins to settle because it is about to (strong, as a
  handler may write ACKs in between). Handlers that never end would keep their permits,
  and the code does nothing against them.
- `Broker`: calls under way go on and their awaits end, also if the connection comes and goes
  meanwhile (strong); the event loop reads what can be read (weak); time passes
  (strong, as each reading interrupts it). Nothing makes the server hang, a
  permit come back or the application call.

### Findings

Three runs end in a counterexample that contradicts what the repository says of itself;
`PROJECT.json` quotes the lines.

1. *Exit hangs.* An application task that reconnects while the client leaves makes a new
   heartbeat sender after the old one was cancelled; the task group waits for it.
2. *Lost commit.* If one block leaves the set and another enters it while it is replayed,
   the iterator sees no change of size and `clear()` drops the newcomer.
3. *Unknown subscription.* A subscription is registered after `drain()`; a reconnection in
   between does not know of it.

More that a reader of the models should know, for which no run is kept:

- A task of the application that is restoring when the client has left makes a connection active
  that nobody closes. That needs an exit which found no connection to close: the exception that
  `ExitReleasesConnection` names, and which the run reaches; otherwise it holds for any tasks.
- The connections of slower servers, and of dials whose task is cancelled (by the application, or a
  listener or sender that is connecting when the client leaves, with one server too), are
  opened and never closed; `OnlyUnawaitedDialsLeak` says that nothing else leaks.
- A `RuntimeError` out of the replay ends the listener or the heartbeat sender, and with it the
  client, also with `keep_alive_on_connection_failure`.
- On a connection where a restore has committed a transaction whose block is still running, the
  block's own COMMIT or ABORT is written as well: the exception of `EndsOnce`.
- A handler that raises an exception which `suppressed_exception_classes` leaves out gets neither
  ACK nor NACK, where the repository's README (line 105) promises a NACK: the exception of
  `HandledIsSettled`.
- A negative content-length, which `int` accepts, is never reached: the frame and all that follow on
  the connection are swallowed, a RECEIPT too. An ERROR in the chunk behind CONNECTED is thrown
  away with it. These two are the exceptions of `FramesInOrder`.
- A reconnection commits every transaction of the set, also those whose block is still
  running; if the block then raises, what it sent has been committed. The block's own exit
  then raises `KeyError` (`KeyErrorExplained`).
- A block that is cancelled while it writes its ABORT is committed by the next reconnection;
  `AbortedStaysAborted` names this case as its exception.
- A client that is left while it has no connection loses the commits that wait for one;
  while it has one, none wait (`NoneWaitsWhileConnected`).
- A `subscribe()` given up while it drains, or an `unsubscribe()` during a resubscription,
  leaves a subscription with the server that nobody ends: the two exceptions of `NoneForgotten`.
- `ack()` and `nack()` of one FastStream message that overlap are both written, the exception of
  `SettledOnce`.
- While all permits are taken, a healthy client is not alive to `is_alive`, and so to `ping()`;
  `AliveWhileHealthy` excludes a listener that waits. A `ping()` under way when `stop()` begins may
  still answer True, and one that meets a client which a second `connect()` stored before it
  was entered raises `AttributeError`.
- `Client.send` and `Transaction.send` given one dictionary twice mix the two frames while the
  first waits, is retried or replayed: the exception of `DeliveredAsAsked`. FastStream copies.
  Its test broker does not, so that a second message may show the first one's content type.
- The headers of CONNECT are written unescaped, where the README says they are escaped;
  `RoundTrip` excludes those that would need it.
- A client that leaves in the middle of a message whose body spells a RECEIPT frame may take that
  for the answer to its DISCONNECT, as the new parser knows nothing of the frame it begins
  in. TLC shows it with `BodyBytes = {"LF", "RECEIPT"}` and bodies of three bytes; the frames
  the listener gets are not affected (`FramesInOrder` holds there, and is proved for any bytes).

## 4. Proofs

Every theorem holds for all values of the constants: any tasks, transactions, subscriptions,
messages, calls, intervals and retry limits, and any amount of harm.

| Module | Theorem | States |
|---|---|---|
| `ConnectionManagerProofs` | `Invariance` | `Spec => []IInv` |
| | `TypeCorrect`, `MutualExclusion`, `WhatLeaks`, `EpochIsExact`, `SenderLives` | the invariants of `ConnectionManagerSafety` |
| | `LateFailuresHarmless` | the action property `ActiveLeavesClosed` |
| | `ExitReleases` | `ExitReleasesConnection`, and that nothing can become active after an exit that found a connection |
| | `Refinement` | `ConnectionManager` implements `ConnectionSlot` |
| `TransactionsProofs` | `Invariant` | `Spec => []Inv` |
| | `TypeCorrect`, `CommitKeptAlways`, `NoneWaits`, `KeyErrorExplainedAlways` | the invariants of `Transactions` |
| | `EndsOnceAlways`, `ReplayIsCompleteAlways`, `ReplayedOnceAlways`, `AbortedStaysAbortedAlways` | its action properties |
| `SubscriptionsProofs` | `TypesInvariant`, `Invariant` | `Spec => []Types`, `Spec => []Inv` |
| | `TypeCorrect`, `SettledWhereReceivedAlways`, `HandledIsSettledAlways`, `SettledOnceAlways`, `SubscribedOnceAlways`, `PromptSubscribedAlways`, `NoneForgottenAlways` | the invariants of `Subscriptions` |
| `BrokerProofs` | `Invariant`, `EntersOnceAlways`, `StopReleasesAlways`, `AliveWhileHealthyAlways` | the invariants of `Broker` and `Aliveness` |
| `FrameParserProofs` | `Invariant`, `StreamInvariant` | `Spec => []Inv`, `Spec => []StreamInv` |
| | `PopsCarriageAlways`, `FramesInOrderAlways` | invariants of `FrameParser`, for bodies of any bytes |
| | `ReceiptFoundAlways` | the last one, if no body spells a command (`CommandsApart`) |
| `HeaderCodecProofs` | `Invariant`, `RoundTripAlways` | the invariant of `HeaderCodec` |
| `PublishingProofs` | `Invariant`, `DeliveredAsAskedAlways`, `TestBrokerAgreesAlways` | the invariants of `Publishing` |

The assumptions are those the modules name (`ConstantsAssumption`, `TransactionsAssumption`,
`SubscriptionsAssumption`, `BrokerAssumption`, `AlivenessAssumption`, `ParserAssumption`,
`CodecAssumption`; `Publishing` needs none): the names of tasks, subscriptions and transactions are
different from each other and from the values that stand for none, limits are natural numbers,
those of attempts, servers, permits, chunks and intervals positive, switches Boolean,
content-length lines (those of lengths, negative ones and junk) different from each other, from the commands and from the ends of lines, the characters without
a meaning in a header different from those with one, and the
transactions finitely many, as a Python set is. TLC evaluates them on each run.

Each proof has the same shape: one lemma per action that shows it preserves the inductive
invariant, by conjunct where the action disturbs it, a lemma that joins them, and the
theorems read off. Facts about one operator that several actions use (what discarding does,
what a step that leaves a transaction alone keeps) are lemmas of their own.

### The connection manager

The checked invariants are not inductive. `IInv` adds

- `PlacesOK`: which places each kind of task can be in;
- `ConnectionsOK`: the active connection is open, tasks work only with connections that were
  opened, and a task that writes or closes has one;
- `PreparingOK`: what is being prepared is the newest connection, is open, and nobody else
  works with it, so that establishing it cannot confuse it with an older one;
- `EnteringOK`: until the client is entered, `main` alone connects; at most the first sender
  already waits for the lock;
- `SenderOK`: a sender other than `hbTask` has its cancellation coming and is restoring, so it
  holds the lock and is gone before anybody else reconnects; without this neither the
  number of senders nor the life of the current one is known;
- `ListenerOK`: the listener is gone before the background tasks are ended, and its epoch is
  exact and never ahead of `count`;
- `SealedOK`: once the exit has taken the connection nobody is restoring, so nothing can
  become active any more.

`LateFailuresHarmless` and `Refinement` classify each action by what it does to the slot (stutters,
opens, gives up, establishes, discards, seals, closes) and use `IInv` for the classification.
`ExitReleases` adds `ExitOK`: from the end of the task group on the senders are off for good, and a
connection in the slot is the one exit holds, or a task of the application made it
after exit had found none.

### Transactions

`TxnOK` says of one transaction what its place allows: what it may be writing (`PlaceOK`); that nobody
knows of it before its block has begun (`StartingOK`); that its COMMIT is on the wire or a restore
will put it there (`CommitOK`); that it stays in the set until a restore or its own end takes it out
(`MemberOK`); and that while the block runs only restores have ended it, once on a connection, and
not where it has begun (`OpenOK`).
`ReplayOK` relates the iteration to the connection being prepared: what has been yielded is
committed there, the frames up to the position of the current one are written there, the set has
grown since the iteration began by latecomers only, and no BEGIN is ever on a connection before
it is active. `OpenOK` and the last fact are what `EndsOnce` rests on: a replayed COMMIT never meets a BEGIN, and
the block's own end finds no end or that one.
`late` is the exception in `CommitKept`: the size check cannot see a transaction that takes another's
place, which is the finding of `TransactionsLostCommit`.

### Subscriptions

Three layers, each proved on top of the previous one. `Types` holds the slot, and in it that
every connection but the first was paid for by harm, which is what keeps `subscribes` and `known`
within their domains. `ServerInv` says what each connection has seen of each subscription: nothing
unless it was written, nothing on the active connection from a subscription that waits, drains
elsewhere or has not begun, and on the one in preparation exactly what left the snapshot.
`MessageInv` says what a message's handler can have written, by its place, and that tags and the
listener's epoch name connections: an epoch equal to `count` means that the connection it was read
with is still the active one. This is the fact `EpochIsExact` proves of the manager, and from it
`SettledWhereReceived` follows. `PermitsOK` counts: free permits and handlers at work add up to the
semaphore's bound.

### Broker and Publishing

`BrokerProofs` says who may be entering the client, what `start()` has left behind wherever it ended,
and that `stop()` comes after it; `ClockOK`, that the age of `last_read_time` is no more than the
server's silence if nothing is unread, gives `AliveWhileHealthy` with `Factor > 1`.

`PublishingProofs` counts: a dictionary in which no frame was built is as the application filled it, and
one in which one frame was built holds what that frame's call asked for. A frame refers to
its dictionary only on stompman's own routes (`FrameOK`), so what is dumped later, however often, is
what was asked for as long as nobody else has built in it; `WrittenOK` and `ReceivedOK` keep this for
what is already out, since dictionaries change only with their count (`DictsForward`).

### FrameParser

`PopsCarriage` needs nothing of the stream (`Inv`): whatever bytes arrive, in whatever chunks and to
whichever reader, the byte popped is a carriage return.

`FramesInOrder` and `ReceiptFound` compare what the parser has made of a whole stream with what was sent.
`StreamInv` does so one byte at a time. The frames the server has sent are a *script*, with
heartbeats between them. A *place* of a script is the number of frames that are wholly read,
whether the next byte is inside of a frame, and what is left of that frame (or of that
heartbeat). `Leads` says that the unread bytes, in the chunk and on the wire, take a
reader from a place to the end of the script, each byte from one place to the next; `ParserAt`, that the
parser's variables are what the part of the frame before that place has made of them; `ReaderAt`,
how many frames the reader at that place has got. The server's steps append to the script and to
the unread bytes, a chunk that is taken moves no byte out of their order, and each byte
parsed moves the place on by one. At a null byte the choice between the frame's end and the
inside of its body falls as in the frame that was sent: this is where the
content length and the bytes of the body come in. Where the length is negative the parser never
leaves the body again (`Swallowing`), whatever the place. The first reader is followed up
to its CONNECTED, behind which only an ERROR can be (`ConnectingAt`, `Behind`); if that one's
beginning was thrown away, nothing is left that could be a command (`Stuck`). The last reader may begin inside of a frame
(`Lost`). Then no line that it can see there is a command, as long as no body spells one, and the null
byte that ends the frame resets it. Where a body can spell a command, `StreamInv` follows the
readers up to the listener only (`Follows`), which is all that `FramesInOrder` needs.

### HeaderCodec

The line still to be read is the escaped text of the key from some character on, a colon and the
escaped value, or the escaped value from some character on; or it stands between the two bytes of an
escape. What is in the buffers is the text before that character without its carriage returns.
`just_escaped_line` is part of it: set, it says that the last byte completed a character, without
which the next `n` could not be told from the end of an escape.

Both proofs need induction, over the length of a text and for what `FlattenSeq`, a recursive function,
computes. The library states induction for an operator, which the provers cannot instantiate.
`SequenceFacts` states it for a set of numbers (a set that holds 0 and the successor of
each of its members holds them all, by the least number that it does not hold), and the lemmas
say what to prove as such a set.

### Only model-checked

- All liveness (`ListenerReconnects`, `WritesComplete`, `ExitTerminates`, `PendingCommitted`,
  `MessageHandled`, `StopEnds`, `DeadNoticed`): fairness and `ENABLED` are beyond the prover.
- The runs that end in a counterexample.

## 5. Not modelled

- Real time: `is_alive` counts ticks; the heartbeat sender, the monitor and all timeouts of
  `ConnectionManager` fire at any time.
- Which server answers: `ConnectionManager` counts dials, and does not tell servers apart.
- WebSockets apart from reading: connecting and writing are those of the TCP connection, except
  that a heartbeat's error is seen by nobody; `max_size` is not modelled.
- The exit of the client inside `Subscriptions`: the waiting is in `Broker`, a failure of
  `unsubscribe_from_all_active_subscriptions` in `ConnectionManager`.
- `start()` and `stop()` of a broker that overlap or are repeated.
- Registrator and router (registration and forwarding, without state of their own),
  telemetry and metrics (instrumentation), the AsyncAPI schemas.
- `from_pydantic_multihost_hosts`, the other data types of `frames.py`, `errors.py` and
  `config.py`, logging, scripts and examples.

## 6. Plan

Done: `ConnectionSlot`, `ConnectionManager` and its proofs, then `Transactions`,
`Subscriptions`, `FrameParser`, `HeaderCodec`, `Broker`, in this order: the connection first, since
the others stand on it. Then the client's exit and cancellations in `Transactions`, the server's
view and FastStream's messages in `Subscriptions`, ERROR frames and the WebSocket in `FrameParser`,
`Aliveness` and `ping()`, and `Publishing`. Then the proofs of all safety properties, those
of the parser and the codec last.

Next, in the proofs: `TransactionsProofs` and `SubscriptionsProofs` prove the same facts about their
slots; state them once.

Next, in the model: `start()` and `stop()` that overlap, the exit of the client composed with
`Subscriptions`.
