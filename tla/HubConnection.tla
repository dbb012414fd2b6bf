--------------------------- MODULE HubConnection ---------------------------
(***************************************************************************)
(* One WebSocket connection from its handshake to on_disconnected:         *)
(* handle_socket with the reader and the writer task it spawns             *)
(* (src/src/server.rs) and HubContext::send (src/src/hub.rs).              *)
(*                                                                         *)
(* The tasks share two bounded mpsc queues (hub messages and automatic     *)
(* WebSocket frames) and four watch flags: the server's shutdown, the      *)
(* disconnect flag of a full queue, "the writer has sent Close" and "the   *)
(* reader is done".  A task is interleaved with the others at each await   *)
(* and at each access to a queue or flag.                                  *)
(*                                                                         *)
(* A hub message is the position at which its queue accepted it: queues    *)
(* are FIFO, so the order of each sender is that of the positions.  Pings  *)
(* and pongs occupy the writer but leave no trace in wire.  How a frame's  *)
(* payload becomes hub calls is not modelled here: a data frame may run    *)
(* callbacks of any length.                                                *)
(***************************************************************************)
EXTENDS Integers, Sequences

CONSTANTS
    Senders,          \* tasks and hub callbacks that hold a clone of the HubContext
    Capacity,         \* outbound_channel_capacity, of each of the two queues
    MaxAccepted,      \* bound: messages the hub queue accepts in a behaviour
    MaxChatter,       \* bound: frames a client still sends after it was told to close
    Unserializable    \* messages that outgoing_frame cannot serialise

ASSUME CapacityPositive == Capacity \in Nat \ {0}
ASSUME BoundsAreNat == MaxAccepted \in Nat /\ MaxChatter \in Nat
ASSUME UnserializableOK == Unserializable \subseteq 1..MaxAccepted

VARIABLES
    phase,         \* where handle_socket is
    rd, wr,        \* where the reader task and the writer task are
    out,           \* the frame the writer is writing
    shutdown,      \* the server's shutdown flag, as this connection sees it
    disconnect,    \* disconnect_tx
    closeSent,     \* ws_close_sent_tx
    readerDone,    \* reader_done_tx
    queue,         \* the hub message queue
    autoq,         \* the automatic frame queue
    wire,          \* the frames written so far
    accepted,      \* how many messages queue has accepted so far
    signalling,    \* senders refused by a full queue, before they set disconnect
    clientClosed,  \* the reader has read a Close frame
    chatter,       \* data frames read while awaiting the close echo
    faults         \* "write": a write failed; "auto": autoq refused a frame

flags == <<shutdown, disconnect, closeSent, readerDone>>
writing == <<wr, out, wire>>
sending == <<queue, accepted, signalling>>
vars == <<phase, rd, flags, writing, sending, autoq, clientClosed, chatter, faults>>

Phases == {"handshake", "connecting", "running", "disconnecting", "closed"}
ReaderStates == {"none", "loop", "read", "handle", "overflow", "echo",
                 "ending", "dropping", "done"}
WriterStates == {"none", "loop", "select", "poll", "writeFrame", "writeNotice",
                 "writeClose", "publish", "awaitReader", "flush", "writeFlush", "done"}

Message(k) == [kind |-> "message", nr |-> k]
Control(k) == [kind |-> k, nr |-> 0]
Pong == Control("pong")
CloseEcho == Control("echo")
ClosingNotice == <<Control("notice"), Control("close")>>   \* SignalR Close, WebSocket Close 1001
Controls == {Control(k) : k \in {"ping", "pong", "echo", "notice", "close"}}
Frames == {Message(k) : k \in 1..MaxAccepted} \cup Controls

\* The receiver of the hub queue lives in handle_socket, then in the writer.
ReceiverAlive == phase = "connecting" \/ (phase = "running" /\ wr # "done")

\* What the writer sees of reader_done: the flag, or a channel closed by a panic.
ReaderGone == readerDone \/ rd = "done"

Init ==
    /\ phase = "handshake"
    /\ rd = "none" /\ wr = "none" /\ out = Control("ping")
    /\ shutdown \in BOOLEAN
    /\ disconnect = FALSE /\ closeSent = FALSE /\ readerDone = FALSE
    /\ queue = <<>> /\ autoq = <<>> /\ wire = <<>>
    /\ accepted = 0 /\ signalling = {}
    /\ clientClosed = FALSE /\ chatter = 0 /\ faults = {}

----------------------------------------------------------------------------
\* Whoever shares the connection: the shutdown handle and the senders

BeginShutdown ==
    /\ ~shutdown
    /\ shutdown' = TRUE
    /\ UNCHANGED <<phase, rd, disconnect, closeSent, readerDone, writing, sending,
                   autoq, clientClosed, chatter, faults>>

\* (A fault for the properties to notice, like each Mutant below: a queue that
\* holds one message more than its capacity.)
MutantSendAccepted(s) ==
    /\ ReceiverAlive /\ s \notin signalling
    /\ Len(queue) <= Capacity /\ accepted < MaxAccepted
    /\ accepted' = accepted + 1
    /\ queue' = Append(queue, accepted + 1)
    /\ UNCHANGED <<phase, rd, flags, writing, signalling, autoq, clientClosed, chatter, faults>>

\* HubContext::send: try_send succeeds ...  (On a closed queue it only errs.)
SendAccepted(s) ==
    /\ ReceiverAlive /\ s \notin signalling
    /\ Len(queue) < Capacity /\ accepted < MaxAccepted
    /\ accepted' = accepted + 1
    /\ queue' = Append(queue, accepted + 1)
    /\ UNCHANGED <<phase, rd, flags, writing, signalling, autoq, clientClosed, chatter, faults>>

\* A full queue makes room by dropping its oldest message.
MutantSendFull(s) ==
    /\ ReceiverAlive /\ s \notin signalling
    /\ Len(queue) = Capacity /\ accepted < MaxAccepted
    /\ accepted' = accepted + 1
    /\ queue' = Append(Tail(queue), accepted + 1)
    /\ UNCHANGED <<phase, rd, flags, writing, signalling, autoq, clientClosed, chatter, faults>>

\* ... or finds the queue full ...
SendFull(s) ==
    /\ ReceiverAlive /\ s \notin signalling
    /\ Len(queue) = Capacity
    /\ signalling' = signalling \cup {s}
    /\ UNCHANGED <<phase, rd, flags, writing, queue, accepted, autoq, clientClosed, chatter, faults>>

\* A refused send only returns its error.
MutantSignalFull(s) ==
    /\ s \in signalling
    /\ signalling' = signalling \ {s}
    /\ UNCHANGED <<phase, rd, flags, writing, queue, accepted, autoq, clientClosed, chatter, faults>>

\* ... and then raises the disconnect flag.
SignalFull(s) ==
    /\ s \in signalling
    /\ signalling' = signalling \ {s}
    /\ disconnect' = TRUE
    /\ UNCHANGED <<phase, rd, shutdown, closeSent, readerDone, writing, queue, accepted,
                   autoq, clientClosed, chatter, faults>>

----------------------------------------------------------------------------
\* handle_socket itself

PhaseMoves(from, to) == phase = from /\ phase' = to

\* perform_handshake succeeds and on_connected is called, or it fails or
\* times out and the connection is dropped without any hub callback.
HandshakeEnds ==
    /\ \/ PhaseMoves("handshake", "connecting")
       \/ PhaseMoves("handshake", "closed")
    /\ UNCHANGED <<rd, flags, writing, sending, autoq, clientClosed, chatter, faults>>

\* on_connected returns and the two tasks are spawned ...
SpawnTasks ==
    /\ PhaseMoves("connecting", "running")
    /\ rd' = "loop" /\ wr' = "loop"
    /\ UNCHANGED <<flags, out, wire, sending, autoq, clientClosed, chatter, faults>>

\* ... or it panics, which unwinds the task that runs handle_socket.
OnConnectedPanics ==
    /\ PhaseMoves("connecting", "closed")
    /\ UNCHANGED <<rd, flags, writing, sending, autoq, clientClosed, chatter, faults>>

\* select! in the place of join!: the first task to end ends the connection.
MutantJoined ==
    /\ rd = "done" \/ wr = "done"
    /\ PhaseMoves("running", "disconnecting")
    /\ UNCHANGED <<rd, flags, writing, sending, autoq, clientClosed, chatter, faults>>

\* tokio::join!(read_task, write_task), whatever the tasks returned
Joined ==
    /\ rd = "done" /\ wr = "done"
    /\ PhaseMoves("running", "disconnecting")
    /\ UNCHANGED <<rd, flags, writing, sending, autoq, clientClosed, chatter, faults>>

\* on_disconnected returns (or panics).
OnDisconnectedEnds ==
    /\ PhaseMoves("disconnecting", "closed")
    /\ UNCHANGED <<rd, flags, writing, sending, autoq, clientClosed, chatter, faults>>

----------------------------------------------------------------------------
\* The reader task

ReaderMoves(from, to) == rd = from /\ rd' = to

ReaderTop ==
    /\ ReaderMoves("loop", IF closeSent THEN "echo" ELSE "read")
    /\ UNCHANGED <<phase, flags, writing, sending, autoq, clientClosed, chatter, faults>>

\* ws_close_sent_rx.changed(): the flag is set, or its sender went with the writer.
SeeCloseSent ==
    /\ closeSent \/ wr = "done"
    /\ ReaderMoves("read", "echo")
    /\ UNCHANGED <<phase, flags, writing, sending, autoq, clientClosed, chatter, faults>>

\* A text or binary frame: its messages are handled in the reader task.
ReadData ==
    /\ ReaderMoves("read", "handle")
    /\ UNCHANGED <<phase, flags, writing, sending, autoq, clientClosed, chatter, faults>>

HandlerReturns ==
    /\ ReaderMoves("handle", "loop")
    /\ UNCHANGED <<phase, flags, writing, sending, autoq, clientClosed, chatter, faults>>

\* The panic drops reader_done_tx and auto_frame_tx with the task.
HandlerPanics ==
    /\ ReaderMoves("handle", "done")
    /\ UNCHANGED <<phase, flags, writing, sending, autoq, clientClosed, chatter, faults>>

\* read_frame hands the automatic answer to send_fn, whose try_send may find
\* the automatic queue full or its receiver gone.
PushAuto(frame, next) ==
    IF wr # "done" /\ Len(autoq) < Capacity
    THEN autoq' = Append(autoq, frame) /\ rd' = next
    ELSE rd' = "overflow" /\ UNCHANGED autoq

ReadPing ==
    /\ rd = "read" /\ PushAuto(Pong, "loop")
    /\ UNCHANGED <<phase, flags, writing, sending, clientClosed, chatter, faults>>

ReadClose ==
    /\ rd = "read" /\ PushAuto(CloseEcho, "ending")
    /\ clientClosed' = TRUE
    /\ UNCHANGED <<phase, flags, writing, sending, chatter, faults>>

\* send_fn raises the disconnect flag; then the frame it answered is acted upon.
AutoRefused ==
    /\ ReaderMoves("overflow", IF clientClosed THEN "ending" ELSE "loop")
    /\ disconnect' = TRUE
    /\ faults' = faults \cup {"auto"}
    /\ UNCHANGED <<phase, shutdown, closeSent, readerDone, writing, sending,
                   autoq, clientClosed, chatter>>

\* A read error, the end of the stream, or CLIENT_TIMEOUT
ReadEnds ==
    /\ ReaderMoves("read", "ending")
    /\ UNCHANGED <<phase, flags, writing, sending, autoq, clientClosed, chatter, faults>>

\* Any other frame while awaiting the echo starts a new CLOSE_ECHO_TIMEOUT.
EchoIgnored ==
    /\ rd = "echo" /\ chatter < MaxChatter
    /\ chatter' = chatter + 1
    /\ UNCHANGED <<phase, rd, flags, writing, sending, autoq, clientClosed, faults>>

EchoReceived ==
    /\ ReaderMoves("echo", "ending")
    /\ clientClosed' = TRUE
    /\ UNCHANGED <<phase, flags, writing, sending, autoq, chatter, faults>>

\* A read error, the end of the stream, or CLOSE_ECHO_TIMEOUT
EchoEnds ==
    /\ ReaderMoves("echo", "ending")
    /\ UNCHANGED <<phase, flags, writing, sending, autoq, clientClosed, chatter, faults>>

AnnounceReaderDone ==
    /\ ReaderMoves("ending", "dropping")
    /\ readerDone' = TRUE
    /\ UNCHANGED <<phase, shutdown, disconnect, closeSent, writing, sending,
                   autoq, clientClosed, chatter, faults>>

\* The task ends, and auto_frame_tx with it.
DropAutoSender ==
    /\ ReaderMoves("dropping", "done")
    /\ UNCHANGED <<phase, flags, writing, sending, autoq, clientClosed, chatter, faults>>

----------------------------------------------------------------------------
\* The writer task

WriterMoves(from, to) == wr = from /\ wr' = to

\* Where the writer is once the frame it was writing is on the wire ...
AfterWrite == [writeFrame |-> "loop", writeNotice |-> "writeClose",
               writeClose |-> "publish", writeFlush |-> "flush"]

\* A message or answer that cannot be written is given up, and the loop goes on.
MutantAfterFailure == [writeFrame |-> "loop", writeNotice |-> "writeClose",
                       writeClose |-> "publish", writeFlush |-> "done"]

\* ... and once writing it failed: the closing notice is attempted to its end.
AfterFailure == [writeFrame |-> "done", writeNotice |-> "writeClose",
                 writeClose |-> "publish", writeFlush |-> "done"]

\* Both flags are read at the head of the loop, shutdown and disconnect first.
WriterTop ==
    /\ wr = "loop"
    /\ IF shutdown \/ disconnect THEN wr' = "writeNotice" /\ out' = ClosingNotice[1]
       ELSE wr' = (IF readerDone THEN "flush" ELSE "select") /\ UNCHANGED out
    /\ UNCHANGED <<phase, rd, flags, wire, sending, autoq, clientClosed, chatter, faults>>

\* The writer ends with the reader, without flushing the automatic frames.
MutantPollFlags ==
    /\ WriterMoves("select", IF ReaderGone THEN "done"
                             ELSE IF shutdown \/ disconnect THEN "loop" ELSE "poll")
    /\ UNCHANGED <<phase, rd, flags, out, wire, sending, autoq, clientClosed, chatter, faults>>

\* One poll of the biased select!: first the flags, the reader's before the
\* two that lead back to the head of the loop ...
PollFlags ==
    /\ WriterMoves("select", IF ReaderGone THEN "flush"
                             ELSE IF shutdown \/ disconnect THEN "loop" ELSE "poll")
    /\ UNCHANGED <<phase, rd, flags, out, wire, sending, autoq, clientClosed, chatter, faults>>

\* ... then the automatic frames, the hub messages and the keepalive timer.
TakeAuto ==
    /\ WriterMoves("poll", "writeFrame")
    /\ autoq # <<>>
    /\ out' = Head(autoq) /\ autoq' = Tail(autoq)
    /\ UNCHANGED <<phase, rd, flags, wire, sending, clientClosed, chatter, faults>>

TakeMessage ==
    /\ wr = "poll" /\ autoq = <<>> /\ queue # <<>>
    /\ queue' = Tail(queue)
    /\ IF Head(queue) \in Unserializable
       THEN wr' = "loop" /\ UNCHANGED out
       ELSE wr' = "writeFrame" /\ out' = Message(Head(queue))
    /\ UNCHANGED <<phase, rd, flags, wire, accepted, signalling, autoq,
                   clientClosed, chatter, faults>>

KeepaliveTick ==
    /\ WriterMoves("poll", "writeFrame")
    /\ autoq = <<>> /\ queue = <<>>
    /\ out' = Control("ping")
    /\ UNCHANGED <<phase, rd, flags, wire, sending, autoq, clientClosed, chatter, faults>>

\* Nothing is ready: the task sleeps until it is polled again.
Park ==
    /\ WriterMoves("poll", "select")
    /\ autoq = <<>> /\ queue = <<>>
    /\ UNCHANGED <<phase, rd, flags, out, wire, sending, autoq, clientClosed, chatter, faults>>

\* The write the task awaits completes ...
WriteCompletes ==
    /\ wr \in DOMAIN AfterWrite
    /\ wr' = AfterWrite[wr]
    /\ wire' = IF out.kind \in {"ping", "pong"} THEN wire ELSE Append(wire, out)
    /\ out' = IF wr = "writeNotice" THEN ClosingNotice[2] ELSE out
    /\ UNCHANGED <<phase, rd, flags, sending, autoq, clientClosed, chatter, faults>>

\* ... or fails.
WriteFails ==
    /\ wr \in DOMAIN AfterFailure
    /\ wr' = AfterFailure[wr]
    /\ out' = IF wr = "writeNotice" THEN ClosingNotice[2] ELSE out
    /\ faults' = faults \cup {"write"}
    /\ UNCHANGED <<phase, rd, flags, wire, sending, autoq, clientClosed, chatter>>

PublishCloseSent ==
    /\ WriterMoves("publish", "awaitReader")
    /\ closeSent' = TRUE
    /\ UNCHANGED <<phase, rd, shutdown, disconnect, readerDone, out, wire, sending,
                   autoq, clientClosed, chatter, faults>>

\* The break after the closing handshake is forgotten.
MutantAwaitEnds ==
    /\ WriterMoves("awaitReader", "loop")
    /\ UNCHANGED <<phase, rd, flags, out, wire, sending, autoq, clientClosed, chatter, faults>>

\* wait_for_flag(reader_done_rx) returns, or its timeout expires.
AwaitEnds ==
    /\ WriterMoves("awaitReader", "done")
    /\ UNCHANGED <<phase, rd, flags, out, wire, sending, autoq, clientClosed, chatter, faults>>

\* while let Some(frame) = auto_frame_rx.recv().await: the queue ends when it
\* is empty and the reader has dropped its sender.
FlushAuto ==
    /\ WriterMoves("flush", "writeFlush")
    /\ autoq # <<>>
    /\ out' = Head(autoq) /\ autoq' = Tail(autoq)
    /\ UNCHANGED <<phase, rd, flags, wire, sending, clientClosed, chatter, faults>>

\* handle_socket holds on to a clone of auto_frame_tx.
MutantFlushEnds ==
    /\ WriterMoves("flush", "done")
    /\ autoq = <<>> /\ phase # "running"
    /\ UNCHANGED <<phase, rd, flags, out, wire, sending, autoq, clientClosed, chatter, faults>>

FlushEnds ==
    /\ WriterMoves("flush", "done")
    /\ autoq = <<>> /\ rd = "done"
    /\ UNCHANGED <<phase, rd, flags, out, wire, sending, autoq, clientClosed, chatter, faults>>

----------------------------------------------------------------------------
Environment == BeginShutdown \/ \E s \in Senders : SendAccepted(s) \/ SendFull(s)

Socket == HandshakeEnds \/ SpawnTasks \/ OnConnectedPanics \/ Joined \/ OnDisconnectedEnds

Reader ==
    \/ ReaderTop \/ SeeCloseSent \/ ReadData \/ HandlerReturns \/ HandlerPanics
    \/ ReadPing \/ ReadClose \/ AutoRefused \/ ReadEnds
    \/ EchoIgnored \/ EchoReceived \/ EchoEnds
    \/ AnnounceReaderDone \/ DropAutoSender

Writer ==
    \/ WriterTop \/ PollFlags \/ TakeAuto \/ TakeMessage \/ KeepaliveTick \/ Park
    \/ PublishCloseSent \/ AwaitEnds \/ FlushAuto \/ FlushEnds

Network == WriteCompletes \/ WriteFails

Next ==
    \/ Environment \/ Socket \/ Reader \/ Writer \/ Network
    \/ \E s \in Senders : SignalFull(s)

Spec == Init /\ [][Next]_vars

(***************************************************************************)
(* Fairness of what the code schedules: a ready task is polled, a hub      *)
(* callback returns or panics, every read and both waits of the closing    *)
(* handshake are under a timeout, and the reader's unbiased select! does   *)
(* not pass over the close signal for ever.                                *)
(***************************************************************************)
CodeFairness ==
    /\ WF_vars(Socket) /\ WF_vars(Reader) /\ WF_vars(Writer)
    /\ SF_vars(SeeCloseSent)
    /\ \A s \in Senders : WF_vars(SignalFull(s))

\* Writes are under no timeout: that each completes or fails is up to the peer.
FairSpec == Spec /\ CodeFairness /\ WF_vars(Network)
SlowPeerSpec == Spec /\ CodeFairness

----------------------------------------------------------------------------
\* Properties

TypeOK ==
    /\ phase \in Phases
    /\ rd \in ReaderStates /\ wr \in WriterStates /\ out \in Frames
    /\ shutdown \in BOOLEAN /\ disconnect \in BOOLEAN
    /\ closeSent \in BOOLEAN /\ readerDone \in BOOLEAN
    /\ queue \in Seq(1..MaxAccepted) /\ Len(queue) <= Capacity
    /\ autoq \in Seq({Pong, CloseEcho}) /\ Len(autoq) <= Capacity
    /\ wire \in Seq(Frames)
    /\ accepted \in 0..MaxAccepted
    /\ signalling \subseteq Senders
    /\ clientClosed \in BOOLEAN /\ chatter \in 0..MaxChatter
    /\ faults \subseteq {"write", "auto"}

\* The client receives the messages in the order they were accepted, once
\* each and without a gap, whatever failed in between; only a message that
\* cannot be serialised is missing from the stream.
DeliveredInOrder ==
    \A i \in DOMAIN wire : wire[i].kind = "message" =>
        /\ \A j \in 1..(i - 1) : wire[j] # wire[i]
        /\ \A k \in 1..(wire[i].nr - 1) \ Unserializable :
               \E j \in 1..(i - 1) : wire[j] = Message(k)

\* As long as the writer serves its queues, a message whose send() returned
\* Ok is queued, being written or written: neither the biased select! nor a
\* refused send loses one.
NothingLostWhileServing ==
    wr \in {"none", "loop", "select", "poll", "writeFrame"} =>
        \A k \in 1..accepted \ Unserializable :
            \/ \E i \in DOMAIN queue : queue[i] = k
            \/ wr = "writeFrame" /\ out = Message(k)
            \/ \E i \in DOMAIN wire : wire[i] = Message(k)

\* A client that sent a Close frame has been sent one by the time the
\* connection is over, by the flush of the automatic frames or by the closing
\* notice of a writer that was already closing, unless a write failed or the
\* automatic queue refused the echo.
CloseAnswered ==
    (phase \in {"disconnecting", "closed"} /\ clientClosed /\ faults = {}) =>
        \E i \in DOMAIN wire : wire[i].kind \in {"echo", "close"}

\* From the moment ws_close_sent is published the last two frames on the wire
\* are, and stay, the SignalR Close message and the WebSocket Close frame.
NoticeEndsWire ==
    (closeSent /\ "write" \notin faults) =>
        /\ Len(wire) >= 2
        /\ wire[Len(wire) - 1] = ClosingNotice[1]
        /\ wire[Len(wire)] = ClosingNotice[2]

\* The echo of the client's Close and the two frames of the closing notice are
\* each written at most once, and no echo follows the notice: when a shutdown
\* and the client's Close cross, one of the two goes first.
ClosingFramesOnce ==
    \A i, j \in DOMAIN wire :
        i < j /\ wire[i].kind \in {"echo", "notice", "close"} =>
            wire[j] # wire[i] /\ wire[j].kind # "echo"

\* Once on_disconnected has been called no hub callback of the connection
\* runs, no frame is written and no send() is accepted.
SilentAfterDisconnected ==
    [][(phase \in {"disconnecting", "closed"})
        => (rd' # "handle" /\ wire' = wire /\ accepted' = accepted)]_vars

\* A connection that is to be closed (by the shutdown, by the disconnect flag
\* or because its reader is done) does close, even if its client keeps
\* sending until it is told to close.
CloseCompletes ==
    (shutdown \/ disconnect \/ rd \in {"ending", "dropping", "done"}) ~> phase = "closed"

\* A send() refused by a full queue closes the connection: "A full queue
\* causes the affected client connection to close instead of allowing memory
\* usage to grow without a bound."
FullQueueCloses == (signalling # {}) ~> (phase = "closed")

============================================================================
