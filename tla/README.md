# A TLA+ model of ac-signalr-server-lib-rs

The repository implements a SignalR server over Hyper and tokio: WebSocket
upgrades, the SignalR handshake, hub callbacks, JSON and MessagePack messages,
keepalive, and a shutdown that lets connections drain.  This directory models
its connections, from the upgrade to the drain, and its codecs in TLA+, checks
them with TLC on small instances and proves every safety property that is
checked, of the concurrent core and of the codecs, with TLAPS for every instance.

Paths below are relative to `src/` unless they name a module.

## 1. Inventory

### The parts and how they interact

| part | source | state | operations |
|---|---|---|---|
| Shutdown state | `src/server.rs:77-172` | `draining`, `active_connections` (atomics), `shutdown_tx` (watch), `drained` (Notify) | `try_register_connection`, `begin_shutdown`, `wait_for_shutdown`, drop of the guard |
| Shutdown handle | `src/server.rs:232-248` | a clone of the above | `begin_shutdown`, `wait_for_shutdown`, `shutdown` |
| WebSocket endpoint | `src/server.rs:321-355` | the guard, moved into a task | register, upgrade, spawn the connection |
| Connection | `src/server.rs:359-675` | two bounded queues, four watch flags, two tasks, timers | handshake, reader loop, writer loop, join, `on_disconnected` |
| Hub context | `src/hub.rs` | a queue sender, the disconnect flag, the connection | `send` |
| Handshake | `src/server.rs:716-791`, `src/protocol.rs:54-105` | none | read, parse, validate, answer |
| Hub dispatch | `src/server.rs:794-908` | none of its own | parse, call the hub, send the completion |
| Codecs | `src/protocol.rs`, `src/message.rs` | none | JSON and MessagePack framing, conversion |
| Connection metadata | `src/connection.rs` | a value under a lock | read, replace |
| Negotiation | `src/server.rs:281-318` | none | answer with a fresh identifier |
| Examples, .NET client | `examples/`, `clients/` | rooms, streaming tasks | applications of the library |

A request that reaches the endpoint registers with the *shutdown state*, gets a
guard, and spawns a task that upgrades it and runs the *connection*.  The
connection shakes hands, calls `on_connected`, and splits into a *reader* task,
which hands data frames to *dispatch* (and thereby to hub callbacks), and a
*writer* task, the only one that writes.  They share the hub message queue
(filled by `HubContext::send`, from callbacks and from any task the
application started), the automatic frame queue (pongs and the echo of the
client's Close, filled by the reader), and the flags *shutdown*, *disconnect*
(a full queue), *ws_close_sent* (the writer has sent Close) and *reader_done*.
When both tasks have ended `on_disconnected` is called, the connection's task
ends, and its guard counts it out, which may wake the handles that wait for the
drain.

### What is hard

`PROJECT.json` lists the hazards, each at its line.  In short:

- **Shutdown state.**  The drain check and the compare-exchange that counts a
  connection are two steps; drops race with registrations and with waiters that
  are about to sleep.  Correct means: the counter is exact, no wake-up is lost,
  nobody new is admitted while draining, everyone who waits returns.
- **Connection.**  Four flags and two queues, each seen by a task only where it
  looks, a `biased` `select!` whose branch order matters, a queue that fills up
  and closes the connection, a flush that waits for a sender to be dropped,
  writes that fail or block, callbacks that panic.  Correct means: what is
  written is an unbroken stream of what was accepted; a Close of the client is
  answered; nothing follows the server's own Close; after `on_disconnected`
  nothing happens; and a connection that is to close does close.
- **Handshake.**  A timeout races the request, the answer may fail to be
  written, and what was read behind the request is lost.  Correct means: client
  and server agree on the outcome, and a client that waits for it loses nothing.
- **Dispatch.**  One failing message ends a binary frame but not a text frame;
  the reader's completions and those of the tasks that callbacks spawned meet in
  one queue that refuses what does not fit.  Correct means: one completion per
  invocation and nothing of it afterwards, items in order, nothing skipped
  without a failure, and no task that outlives its connection for ever.
- **Codecs.**  Variable-length prefixes, truncation of integers, two encodings
  that tell apart different things.  Correct means: bytes are split in the one way
  there is, and a message sent on in either encoding keeps its meaning.
- **Timers.**  Keepalive and timeouts against callbacks and writes that take long.
  Correct means: a silent client is noticed, an idle one gets its pings.

## 2. Modules

| module | what it is |
|---|---|
| `ShutdownState` | the shutdown state, the endpoint's use of the guard and the handles, one action per atomic operation |
| `DrainContract` | what the handle promises: a gate that closes once, waiters released only while nothing is tracked |
| `ShutdownStateProofs` | invariants of `ShutdownState` and its refinement of `DrainContract`, proved |
| `HubConnection` | one connection: `handle_socket`, reader, writer, `HubContext::send`, the peer and the network |
| `HubConnectionProofs`, `HubConnectionClosingProofs` | the safety properties of `HubConnection`, proved |
| `Handshake` | `perform_handshake` against a client, up to the first data frames |
| `HubDispatch` | frames of messages, hub callbacks, completions, and the examples' forwarding tasks |
| `MessagePackFraming` | the length-prefixed frames of the MessagePack protocol, written and split |
| `HubMessageCodec` | both encodings of the hub messages, over abstract values |
| `ConnectionTimers` | the clocks of a connection's reader and writer |
| `HandshakeProofs`, `ConnectionTimersProofs`, `HubDispatchProofs` | the safety properties of the three, proved |
| `MessagePackFramingProofs` | lengths and payloads come back, and there is one way to split, proved for all bytes |
| `HubMessageCodecProofs` | values and messages keep their meaning in any mix of protocols, proved |
| `MCShutdownState`, `MCHubConnection` | symmetry sets for TLC |
| `MCHubDispatch`, `MCMessagePackFraming`, `MCHubMessageCodec` | the frames, bytes and messages that TLC tries |

Definitions called `Mutant...` are plausible faults of the code.  They take no
part in any specification; each stands for a bug that the property named beside
it in `PROJECT.json` notices.

### ShutdownState

`up[u]` is where upgrade request `u` is in `websocket_handler` and the task it
spawns, `call[h]` where handle `h` is in the call `api[h]`; `loaded[u]` is the
local `active` of the compare-exchange loop.  Each load, store, read-modify-write
and notification is an action of its own:

- `Arrive`, `CheckDraining`, `LoadActive`, `ExchangeSucceeds` and
  `ExchangeFails` are the loop of `try_register_connection`
  (`compare_exchange_weak` may fail for no reason, so `ExchangeFails` has no
  guard on the count);
- `UpgradeRejected`, `SpawnTask`, `UpgradeErrors`, `ServeSocket`, `SocketDone`
  follow the guard through the endpoint; `DropGuard` and `NotifyDrained` are its
  `Drop`, the decision taken on the old value of `fetch_sub`;
- `StoreDraining`, `PublishShutdown`, `ProbeActive`, `NotifyEmpty` are
  `begin_shutdown`; `Arm`, `InspectEmpty`, `InspectBusy`, `Park`, `Wake` the loop of
  `wait_for_shutdown`.

`Notify` is external.  What the model uses of it is its documented rule: a
`Notified` future receives every `notify_waiters` made after the future was
created, whether or not it has been polled.  The atomics are modelled as
sequentially consistent.  The code uses Acquire/Release, and that makes no
difference here: all updates of the counter are read-modify-writes of one
location, hence totally ordered, and the one pair of accesses to different
locations (a waiter creates its future, then reads the counter; a drop
decrements, then notifies) is ordered by `Notify`'s own sequentially consistent
state.

### HubConnection

`phase` is where `handle_socket` is; `rd` and `wr` are where its two tasks are;
`queue` and `autoq` the bounded channels; `shutdown`, `disconnect`, `closeSent`,
`readerDone` the watch flags; `wire` what has been written.

- A hub message is represented by the position at which the queue accepted it.
  Since the queue is FIFO this tells apart everything ordering, loss and
  duplication can be about.
- `SendAccepted`, `SendFull`, `SignalFull` are `HubContext::send`, whose refusal
  and disconnect signal are two steps.  A hub callback that sends is a sender
  like any other; a data frame (`ReadData`, `HandlerReturns`, `HandlerPanics`)
  may take any time.  A send on a closed queue changes nothing and has no action.
- The reader is `ReaderTop` ... `DropAutoSender`.  `PushAuto` is the `send_fn`
  passed to `read_frame`: it queues a pong or the echo of a Close, or, refused,
  raises the disconnect flag (`AutoRefused`).  A reader that saw `ws_close_sent`
  awaits the echo, each other frame (`EchoIgnored`) starting a new timeout.
- The writer is `WriterTop` ... `FlushEnds`.  One poll of the `biased` `select!`
  is `PollFlags` followed by `TakeAuto`, `TakeMessage`, `KeepaliveTick` or `Park`,
  in the order of its branches; in between another thread may raise a flag, as
  in the code.  `WriterTop` reads shutdown, disconnect and reader_done in one
  step: they only ever rise, and a flag raised between two of these reads gives
  the same outcome as one raised after or before the whole step.
- `WriteCompletes` and `WriteFails` are the awaited `write_frame`.  After a failed
  data or automatic frame the writer ends; after a failed notice it goes on to
  the Close frame and then announces `ws_close_sent` all the same, as the code
  does.  A write that never completes is a `Network` action that never happens.
- Pings and pongs occupy the writer but are not recorded on `wire`.  Timeouts
  (client, handshake, close echo, reader) and the keepalive tick may happen
  whenever the task waits.

Connections of one server meet only in the shutdown state, and there only
through `shutdown_tx` (`BeginShutdown` here, `PublishShutdown` there) and the
guard (`SocketDone` there is `phase = "closed"` here), so one connection and N
guards are modelled separately.  The next five modules look into what is coarse
in `HubConnection`: its handshake is one step there with any outcome, a data frame
is a callback that may do anything, a message is a number, and a timeout may
expire whenever a task waits.

### Handshake

Frame 1 is the client's first, the request, a member of `Requests`; the frames
behind it are data.  `VerdictOf` has the checks of `validate_handshake` in
their order.  `ReadRequest` takes any number of frames that have arrived, since
one read of the socket may bring in more than the frame it is for; what was
`taken` beyond the request is lost when `handle_socket` takes the stream back
(`into_inner`).  The collector's buffer belongs to the WebSocket library and is
external.  A client that is `patient` sends data only once it was told
`"success"`; others may send at once.  `TimesOut` and a bad request are answered
with an error, `ReadFails` with nothing, and `WriteFails` drops the connection
whatever the verdict.

### HubDispatch

A message is the position `nr` at which it was read, which stands for its
invocation id as well; `parts[nr]` has its kind, its frame and its `fate`.  The
queue is `out`, with the part not yet written bounded by `Capacity`; what goes on
behind it is in `HubConnection`.

- `ReadFrame` parses a frame at once, as `handle_message` does: a text frame
  message by message and only under JSON, a binary frame as MessagePack under
  either protocol and as a whole.
- `Dispatch` is `dispatch_hub_message`; `CallReturns`, `FireReturns`, `StreamFails` and
  `StreamStarts` are the outcomes of the two handlers.  `Answer` is
  `send_completion`, whose refusal is the error of the message, and `Settle`
  what an error does to the rest of its frame.
- `tasks[nr]` is the task `ChatHub::on_stream_invocation` spawns for stream `nr`,
  `tasks[0]` the one of `MarketHub::on_connected`; `Forward`, `ForwardRefused`, `Lag`,
  `ChannelCloses` and `Complete` are its loop and what follows it.  The broadcast
  channel is external: `published` counts its items, of which it keeps
  `ChannelCapacity`; a receiver that has fallen behind is told so and moved to the
  oldest item kept.
- `CallbackPanics` unwinds the reader task: the message whose callback it was and
  those waiting behind it in the frame are `"lost"`, and nothing more is read.  What
  the connection does then is in `HubConnection`.

### MessagePackFraming

The payloads a sender `framed` are concatenated in `data`, each behind its
`WriteVarint`; a client may also send any bytes in `Wild`.  `ReadFrame` is one round
of the loop of `split_messagepack_frames`, `Reject` all its errors.  `Base` is the
number of values of one digit of a prefix, 128 in the code.  `Weight` is what a digit counts
by its place (the shift in the code) and `Number` the sum over the digits of a prefix; both are
recursive functions, which can be proved about.  The reference the
reader is compared with, `OneFrame` and `Splittable`, says what frames are without
saying how to find them.

### HubMessageCodec

JSON and MessagePack values are abstract: records tagged with their type.
`ToMsgPack` and `FromMsgPack` are the conversions between the two, recursive functions
over `Json` and `MsgPack`, the values there are: any two sets that hold, with a value, what it
is made of and what it is converted to (`Depth` says that this ends).  `ToJson`,
`FromJson`, `ToMsgPackBody` and `FromMsgPackBody` the encodings of the seven kinds of
message with every field, optional ones as sequences of at most one value.  What
may fail returns such a sequence too.  A message that arrived is sent on, in
either protocol, up to `MaxHops` times.  Tokens, number formats and the bytes of
MessagePack values belong to `serde_json` and `rmpv` and are external.  `I64Max`
keeps the place where `as_i64` gives up.

### ConnectionTimers

The same two tasks as in `HubConnection` with coarser steps and a clock.  `Pass`
lets a unit of time go by, and only when neither task has a step left: the
runtime is taken to be prompt.  Hub callbacks and writes to the socket take any
time.  `patience` is the timeout of the reader's current read, `giveUp` that of the
writer after its Close, `due` the time to the next tick of `keepalive_interval`,
which is negative when ticks were missed (`MissedTickBehavior::Burst` hands them out
at once).  `WriterThrough` is what sends the reader to the wait for the echo: the
flag, or its channel closed by a writer whose write failed (`changed.is_err()`).  A
callback that panics (`CallbackPanics`) ends the reader.  `idle`, `after` and `quiet`
measure what the properties are about and are read by no action.  Time stands still
while the queue has messages the writer can take, so a steady flow of messages that
cannot be serialised, which would starve the keepalive, takes no time here and is
not covered by `KeepaliveSent`.

## 3. Runs

| run | instance | distinct states | shows |
|---|---|---|---|
| `shutdown_safety` | 3 requests, 2 handles | 234 thousand | `TypeOK`, `CountIsGuards`, `NoLostWakeup`, `AdmissibleShrinks`, `ImplementsContract` |
| `shutdown_liveness` | 2 requests, 2 handles | 92 thousand | `DrainCompletes` |
| `shutdown_late_registration` | 1 request, 1 handle | | violates `ShutdownIsFinal` |
| `connection_safety` | 2 senders, queues of 2, 4 messages, one not serialisable | 258 thousand | `TypeOK`, `DeliveredInOrder`, `NothingLostWhileServing`, `CloseAnswered`, `NoticeEndsWire`, `ClosingFramesOnce`, `SilentAfterDisconnected` |
| `connection_liveness` | 1 sender, queues of 1, 2 messages | 64 thousand | `CloseCompletes`, `FullQueueCloses` |
| `connection_slow_peer` | the same, writes may block | | violates `FullQueueCloses` |
| `handshake` | 108 requests, 4 frames | 7 thousand | `TypeOK`, `OutcomeAgreed`, `NothingLostBehindAnswer`, `HandshakeEnds` |
| `dispatch_batches` | 2 messages, 3 items, a queue of 1, a channel that keeps 1 | 514 thousand | `TypeOK`, `CompletionIsLast`, `AnswersInOrder`, `BatchOutcome`, `DoneMeansAnswered`, `ItemsInOrder`, `EveryMessageSettles`, `TaskEndsAtNextItem` |
| `messagepack_framing` | digits of one bit, lengths to 5, data to 6 bytes, 2 payloads | 21 thousand | `TypeOK`, `PayloadsRecovered`, `SplitIffSplittable`, `ReaderEnds` |
| `codec_relay` | every kind of message, one field or item out of place, 3 hops | 23 thousand | `TypeOK`, `MeaningKept`, `AcceptedStaysSendable` |
| `codec_message_type` | the same | | violates `OnlySupportedTypes` |
| `timers` | durations 7, 3, 2 and 2 + 1, a queue of 2 | 292 thousand | `SilenceNoticed`, `KeepaliveSent`, `GivesUpOnBusyReaderOnly` |

All runs set `CHECK_DEADLOCK FALSE`: a closed connection, a drained server, a
message that is not sent on and a client that sends no more do stop.

**Bounds.**  Three requests are the fewest with which one exchange can fail
because of another's success while a third drops; two handles, one that arms
while the other notifies.  Their numbers are parameters, and the counter is
bounded by the number of requests, so nothing is cut off.  In `HubConnection`
`MaxAccepted` bounds what the queue accepts (twice its capacity, so it fills,
drains and fills again) and `MaxChatter` the frames a client sends while the
reader awaits its echo.  `MaxChatter` is a bound with a meaning: a client that
never stops sending keeps the reader in that loop, each frame restarting the
timeout, although the writer's own 5 s timeout has ended the writer; liveness
holds for a client that stops.  Frames before that are not bounded.  Symmetry
is used in safety runs only.

Two messages are enough for `HubDispatch` because all that messages do to each
other goes from one to a later one: the first of a frame fails, is answered or
starts a stream, and the second is an invocation, in the same frame or the next.
Three items against a channel that keeps one let a task fall behind, go on, and
fall behind again.  Four frames in `Handshake` are a request, two that one read
may bring along, and one that comes later.  In `MessagePackFraming` a byte has
one bit of a length and the flag, so a prefix has up to three bytes, some of
them overlong (1 as the digits 1, 0), the maximum length of 5 is, as in the code, below what
the longest prefix can say and above what one digit fewer can, and data of six bytes hold up to six frames;
every string of such bytes is tried.  In `HubMessageCodec` the messages have every
combination of optional fields with each kind of value; three hops are enough
to cross JSON, MessagePack and JSON again.  The durations of `ConnectionTimers`
keep the order of the code's (30 s, 10 s, 5 s and 5 + 1 s): the keepalive fits twice into
the client's timeout, the echo's timeout is shorter than both, the writer's a
little longer than the reader's.  `MaxBehind` is two intervals and one unit, enough for two
missed ticks.

**Fairness.**  A task that is ready is polled, so each task's step is weakly
fair; a hub callback returns or panics; every read is under a timeout
(`CLIENT_TIMEOUT`, `CLOSE_ECHO_TIMEOUT`), hence ends.  `SeeCloseSent` is strongly
fair because the reader's `select!` picks at random among ready branches: it
does not pass over the same one for ever.  `FairSpec` adds that a write
completes or fails, which the code does not ensure by itself (no write is under
a timeout); `SlowPeerSpec` leaves it out, and that is the second finding.  In
`ShutdownState` a socket is only fair to end once the shutdown was published;
the connection run shows when that is justified.

In `HubDispatch` the reader's callbacks return, unless they panic, and a forwarding
task that can go on does; whether the client sends, an item is published or a write completes is
left open, so that `TaskEndsAtNextItem` says what the code ensures, namely that a
task ends at the *next* item.  In `Handshake` the read ends because it is under a
timeout; that the write of the answer completes or fails is an assumption, as no
timeout covers it.  In `MessagePackFraming` the loop goes round.  `ConnectionTimers`
states its bounds on time as invariants and needs no fairness.

**Findings.**

- `shutdown_late_registration`: a request that read `draining` before it was
  stored completes its compare-exchange after it, even after `shutdown()` has
  returned to its caller, and is then served (it sees the shutdown signal and
  closes).  The comment on `begin_shutdown` says that it stops accepting new
  upgrades.  What does hold is `AdmissibleShrinks`: only requests already between
  check and exchange can do so.
- `connection_slow_peer`: "A full queue causes the affected client connection to
  close" needs a peer that reads.  The writer looks at the disconnect flag
  between writes only, and a write to a peer that has stopped reading does not
  complete, be it that of a message or, as in the counterexample, of the closing
  notice; neither does the drain of the server.
- `codec_message_type`: "Returns an error if the message ... does not match a
  supported `SignalR` hub message shape" does not hold of an integer type beyond
  eight bits, which is cut (`n as u8`): 257 is taken for an invocation, -250 for a
  ping.  The string `"257"` and a MessagePack type of 257 are refused.

**Shown beside them.**  Some of the properties say exactly what is lost, where the
code does lose something.  `MeaningKept`: an empty list of stream ids is lost in
MessagePack, a null result in JSON, and nothing else.  `AcceptedStaysSendable`: a
completion with a result and an error is accepted in JSON and cannot be sent in
MessagePack.  `DoneMeansAnswered`: an invocation whose completion the full queue
refused is never answered (the connection then closes).
`NothingLostBehindAnswer`: only a client that sends data before it was accepted
can lose it.

## 4. Proofs

In the first two modules the parameters are arbitrary: any finite set of requests and any handles
(`UpgradesFinite`); any senders, any capacity of at least one
(`CapacityPositive`), any bounds and any set of unserialisable messages
(`BoundsAreNat`, `UnserializableOK`).  Nothing else is assumed; the other modules name
their assumptions below.

**ShutdownStateProofs.**  The inductive invariant is `TypeOK`, `CountIsGuards` and
`NoLostWakeup`, strengthened by `ApiMatchesCall`: which of the three calls a
handle under way makes agrees with where it is.  `TypeOK` is not inductive
without `CountIsGuards`: that the unsigned counter does not go below zero follows
from whoever decrements it being counted (`GuardIsCounted`).  `CountIsGuards`
rests on `GuardSteps`: the set of guards changes only together with the counter.
Theorems: `TypeCorrect`,
`CounterExact`, `WakeupNotLost`, `DrainAdmitsNobodyNew` and `Implementation`, the
refinement of `DrainContract`: each step of a request or a handle is the
contract's step or a stutter (`UpgradeImplements`, `HandleImplements`), the
release of a waiter needing `CountIsGuards` to know that a zero counter means
that nothing is tracked.

**HubConnectionProofs.**  The central notion is `Taken`, how many messages the
writer has taken out of the queue.  `QueueInv` says the queue holds
`Taken + 1 .. accepted` in order; `OutInv` says a message being written is
`Taken` itself; `ServedInv` says that, as long as the writer serves, exactly the
messages up to `Taken` are on the wire, but for the one being written.  None of
these is inductive alone: that an appended message is new and follows all the
others needs `ServedInv`, which needs `OutInv`, which needs `QueueInv`.
`NoticeInv` follows the closing notice from write to publication, `EchoInv` the
answer to a client's Close from the automatic queue to the wire; the latter
needs the former because a reader that awaits the echo of the server's own
Close only gets there after that Close was published.  `Lifecycle` ties both tasks
to the phase.  Theorems: `TypeCorrect`, `InOrder`, `NothingLost`,
`ClosesAnswered`, `NoticeIsLast`, `SilentOnceDisconnected`.

**HubConnectionClosingProofs.**  The echo of the client's Close is in one place at
most: `EchoPlace` follows it from the automatic queue through the writer to the
wire, and there is only one because a reader that has read a Close reads no
more.  `NoticePlace` says which frames of the notice can be on the wire, by where the
writer is; the writes of an ordinary frame put neither there.  The steps rest on
the invariant of `HubConnectionProofs`.  Theorem: `ClosesOnce`.

**HandshakeProofs.**  `StageInv` says what is known at each stage (nothing is taken
before there is a verdict, an accepted connection read the request it was
accepted for), `PatientInv` that a patient client has sent nothing else by then,
`HandledInv` that data is handled from behind what was taken.  The only assumption is
that a client may send a frame (`MaxFramesPositive`).  Theorems: `TypeCorrect`,
`OutcomeShared`, `PatientLosesNothing`.

**ConnectionTimersProofs.**  The durations are any positive numbers
(`DurationsArePositive`): neither their order nor the code's ratios matter for
these properties, only that `Slack` is not zero.  `IdleInv` adds what the client has
been silent for to what is left of the reader's timeout, in all and since the writer
is through, and says that no time passes before the reader has noticed that; `QuietInv` does the same
for the writer's silence and the next tick; `WaitInv` compares the two timeouts
of the closing handshake, of which the writer's stays ahead by `Slack` unless the
reader was kept.  Theorems: `SilentClientNoticed`, `IdleClientPinged`,
`WriterOutwaitsReader`.

**HubDispatchProofs.**  Assumed are two capacities of at least one, bounds that are
numbers and batches of the modelled kinds (`CapacitiesPositive`, `BoundsAreNat`,
`BatchesAreKinds`).  The invariant says who may still act for a message: `OneAtATime`, that
the reader has one message in hand, all behind it wait or were dropped with it, and
a reader that lost one to a panic has none and reads no more;
`TasksOfStreams`, that a task belongs to a stream whose callback has returned, or to
`on_connected`.  `CompletionIsLast` is not inductive without the converse of
`DoneMeansAnswered`: a completion in the queue is that of a message that is done or of a task
that ended (`CompletedAreDone`), so nothing is left that could send behind it.
`ItemsInOrder` needs `ItemsTrackTask`, that the last item of a stream in the queue is the one
before its task's `next`, unless the task has lagged behind its channel since.  The two actions with several sends (the callback, and the
task that completes) are where the order of these matters.  Theorems: `TypeCorrect`,
`OneCompletion`, `AnswersOrdered`, `BatchesFareAsFrames`, `HandledIsAnswered`,
`ForwardedInOrder`.

**MessagePackFramingProofs.**  Assumed are a base of at least two, a permitted length that
the permitted number of digits can hold, and bytes that are bytes (`BaseAtLeastTwo`,
`PrefixHoldsEveryLength`, `WildAreBytes`, `PayloadsAreBytes`).  Induction is by the least
counterexample, over numbers: the library's induction theorems take a predicate as a parameter, but
the well-foundedness of `<` does not.  `Weight` and `Number` are unfolded to their recursion,
and `VarintRoundTrip` follows for every length: `WriteVarint` is a sequence of remainders whose
sum, weighed, is the length.  Two invariants come on top.  `Sent`: the payloads the
sender framed lie in `data` one behind the other, and the reader's frames are the first of them;
a round of the loop finds the next one, because no shorter prefix ends there and
because the number read is the one that was written.  `Walked`: every way to cut the data
into frames begins as the reader has cut it, so when the reader is through there is one way,
and when it rejects there is none; only one prefix ends at a place (`PrefixEnds`), so a cut has
no choice.  Theorems: `TypeCorrect`, `VarintRoundTrip`, `PayloadsComeBack`, `OneWayToSplit`.

**HubMessageCodecProofs.**  Assumed are the closure of `Json` and `MsgPack` described above,
that texts and bodies are made of such values (`TextsHoldValues`, `BodiesHoldValues`), and
that `as_i64` has a value for the number of every kind (`TypesAreI64`).  The conversions are shown to be the
functions their definitions say they are (the recursion ends, by `Depth`), and a value to come
back from MessagePack as it was: `ThereAndBack`, by induction over its depth, arrays item by item
and objects key by key.  `Relayed(m, p)` is what is left of a message sent on in
protocol `p`: all but one field in one case.  `JsonRelay` and `MsgPackRelay` show that what is
written is read back as that, for MessagePack kind by kind, as each has its own places; `Whole` is
what is known of a message that was parsed.  The invariant then does not speak of the bytes
but of what the next parse will make of them (`Decoded`), which agrees with the first
message but for what the protocols crossed so far lose (`Kept`); that these losses do not add up
to others is `KeptRelayed`.  Theorems: `TypeCorrect`, `ThereAndBack`, `MeaningSurvives`,
`StaysSendable`.

**Model-checked only.**  The liveness properties (`DrainCompletes`,
`CloseCompletes`, `FullQueueCloses`, `HandshakeEnds`, `EveryMessageSettles`,
`TaskEndsAtNextItem`, `ReaderEnds`), which need fairness and `ENABLED`.  Every
other property of a passing run is a theorem.

## 5. Not modelled

- The text of errors, logging, the HTTP responses and the negotiation endpoint,
  which keeps nothing: its identifiers are not used by the connection afterwards.
- The connection's metadata (`src/connection.rs`): a value under a lock that
  `handle_socket` sets once, before the first callback; nothing in the repository
  reads, changes and replaces it.
- A `read_frame` that the reader's `select!` drops half-way: behaviour of a library
  that is not part of this repository.
- The library's own rule that a peer may refuse frames after a Close: the wire
  records what the server attempted and was told is written.
- The unbounded variant of the hub queue (`HubContext::new`), used by tests:
  it neither fills nor raises the disconnect flag.
- JSON text and the bytes of MessagePack values, which `serde_json` and `rmpv`
  read and write.
- Of the examples, the content of the items, the stubs for replay and
  backtesting and the generators of random data; and the .NET client, a console
  program over another library.

## 6. Plan

Done: `ShutdownState`, `DrainContract` and their proofs; `HubConnection` and its
proofs; `Handshake`; `HubDispatch` with the examples' streams;
`MessagePackFraming`; `HubMessageCodec`; `ConnectionTimers`.

The proofs of all of them are done, but for liveness.

Left:

1. An abstract connection (an accepted stream, a delivered prefix of it, an end)
   that `HubConnection` implements, checked and proved step by step in
   `HubConnectionClosingProofs`, on the invariants that are there.
2. A server composed of N connections with `DrainContract`.  What it would add
   is little: connections meet in the shutdown state only, and what crosses it is
   two events.
3. The client's half of a stream (`StreamItem`, `Completion` and `CancelInvocation` that
   the server takes note of and ignores), once the code does something with it.
