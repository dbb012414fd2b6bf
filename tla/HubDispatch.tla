---------------------------- MODULE HubDispatch ----------------------------
(***************************************************************************)
(* What one connection does with the frames it reads: the batches of       *)
(* messages in them, the hub callbacks, the completions, and the tasks     *)
(* that hub callbacks spawn to forward a broadcast channel to the client   *)
(* (src/src/server.rs, src/examples).                                      *)
(*                                                                         *)
(* A message is the position nr at which it was read; nr stands for its    *)
(* invocation id as well.  Frames are handled one at a time, and messages  *)
(* one after the other, by the reader task; the spawned tasks and the      *)
(* writer run beside it.  The queue is the part of out that is not yet     *)
(* written; HubConnection models what happens behind it, and what is here  *)
(* one refused send is there a refusal and the signal that follows it.     *)
(***************************************************************************)
EXTENDS Integers, Sequences

CONSTANTS
    Capacity,         \* outbound_channel_capacity
    ChannelCapacity,  \* how many items the broadcast channel retains
    Batches,          \* the frames a client may send, as sequences of Kinds
    MaxMessages,      \* bound: messages the client sends
    MaxPublished      \* bound: items published on the broadcast channel

ASSUME CapacitiesPositive == Capacity \in Nat \ {0} /\ ChannelCapacity \in Nat \ {0}
ASSUME BoundsAreNat == MaxMessages \in Nat /\ MaxPublished \in Nat

VARIABLES
    protocol,    \* what the handshake agreed on
    frames,      \* the opcode of every data frame read
    parts,       \* every message read: its kind, its frame and its fate
    busy,        \* the reader task is in a hub callback
    reading,     \* the reader task reads on
    tasks,       \* the forwarding tasks: of each stream, or 0, started in on_connected
    published,   \* how many items the broadcast channel has carried
    out,         \* every message the queue has accepted
    written,     \* how many of them the writer has taken
    open         \* the queue's receiver is alive

reader == <<frames, parts, busy, reading>>
queue == <<out, written, open>>
vars == <<protocol, reader, tasks, published, queue>>

\* An invocation with an id and one without, a stream invocation, a message
\* that is dispatched to nobody, and text or bytes that do not parse.
Kinds == {"call", "fire", "stream", "ignored", "malformed"}
ASSUME BatchesAreKinds == Batches \subseteq Seq(Kinds)
Fates == {"waiting", "running", "done", "failed", "dropped", "lost"}

\* Tasks of streams are numbered like their messages, from 1.
Task(at, next) == [at |-> at, next |-> next, lagged |-> FALSE]
TaskStates == {"none", "receiving", "completing", "ended"}

Completion(nr) == [kind |-> "completion", nr |-> nr, item |-> 0]
Item(nr, k) == [kind |-> "item", nr |-> nr, item |-> k]
Welcome == [kind |-> "welcome", nr |-> 0, item |-> 0]

\* on_connected of the two examples: a greeting, or the task that forwards bars
\* (and two like it, for trades and symbols, each with a channel of its own).
OnConnected(hub) ==
    LET feed == IF hub = "MarketHub" THEN "receiving" ELSE "none" IN
    /\ tasks = [t \in 0..MaxMessages |-> Task(IF t = 0 THEN feed ELSE "none", 1)]
    /\ out = IF hub = "ChatHub" THEN <<Welcome>> ELSE <<>>

Init ==
    /\ protocol \in {"json", "messagepack"}
    /\ frames = <<>> /\ parts = <<>>
    /\ busy = FALSE /\ reading = TRUE
    /\ published = 0
    /\ written = 0 /\ open = TRUE
    /\ \E hub \in {"ChatHub", "MarketHub"} : OnConnected(hub)

----------------------------------------------------------------------------
\* The queue, as HubContext::send finds it

\* (A fault for the properties to notice, like each Mutant below: a queue
\* without a bound.)
MutantCanSend == open

CanSend == open /\ Len(out) - written < Capacity

WriterTakes ==
    /\ open /\ written < Len(out)
    /\ written' = written + 1
    /\ UNCHANGED <<protocol, reader, tasks, published, out, open>>

\* The writer ends: a full queue, a write that failed, a shutdown, the client.
WriterEnds ==
    /\ open /\ open' = FALSE
    /\ UNCHANGED <<protocol, reader, tasks, published, out, written>>

----------------------------------------------------------------------------
\* The reader task

Waiting == {nr \in DOMAIN parts : parts[nr].fate = "waiting"}
Strict(nr) == frames[parts[nr].frame] = "binary"

\* A malformed message is skipped, the others of its frame are handled.
MutantParsed(opcode, kinds, i) ==
    IF kinds[i] = "malformed" \/ (opcode = "text" /\ protocol # "json")
    THEN "dropped" ELSE "waiting"

\* What becomes of the messages of a frame before the first is dispatched: the
\* parts of a text frame are parsed one by one, and only under JSON; a binary
\* frame is taken for MessagePack under either protocol, and parsed as a whole.
Parsed(opcode, kinds, i) ==
    IF IF opcode = "text" THEN protocol # "json" \/ kinds[i] = "malformed"
                          ELSE \E j \in DOMAIN kinds : kinds[j] = "malformed"
    THEN "dropped" ELSE "waiting"

ReadFrame(opcode, kinds) ==
    /\ reading /\ ~busy /\ Waiting = {}
    /\ Len(parts) + Len(kinds) <= MaxMessages
    /\ frames' = Append(frames, opcode)
    /\ parts' = parts \o [i \in DOMAIN kinds |->
           [kind |-> kinds[i], frame |-> Len(frames) + 1, fate |-> Parsed(opcode, kinds, i)]]
    /\ UNCHANGED <<protocol, busy, reading, tasks, published, queue>>

ReaderEnds ==
    /\ reading /\ ~busy /\ Waiting = {}
    /\ reading' = FALSE
    /\ UNCHANGED <<protocol, frames, parts, busy, tasks, published, queue>>

\* dispatch_hub_message hands the messages of a frame to as many tasks.
MutantFirst(nr) == nr \in Waiting

First(nr) == nr \in Waiting /\ \A other \in Waiting : nr <= other

\* dispatch_hub_message: an invocation enters its callback, and a ping, a close,
\* a cancellation, a completion or a stream item has no effect.
Dispatch(nr) ==
    /\ ~busy /\ First(nr)
    /\ parts' = [parts EXCEPT ![nr].fate = IF parts[nr].kind = "ignored" THEN "done" ELSE "running"]
    /\ busy' = (parts[nr].kind # "ignored")
    /\ UNCHANGED <<protocol, frames, reading, tasks, published, queue>>

\* An error is logged, whatever the frame.
MutantSettle(nr, fate) ==
    /\ busy' = FALSE
    /\ parts' = [parts EXCEPT ![nr].fate = fate]

\* The message is done with.  An error ends a binary frame at the first `?`
\* on its way, whereas the loop over a text frame logs it and goes on.
Settle(nr, fate) ==
    /\ busy' = FALSE
    /\ parts' = [i \in DOMAIN parts |-> [parts[i] EXCEPT !.fate =
           CASE i = nr -> fate
             [] i \in Waiting /\ fate = "failed" /\ Strict(nr) -> "dropped"
             [] OTHER -> @]]

Running(nr, kind) == busy /\ parts[nr].kind = kind /\ parts[nr].fate = "running"

\* The reader awaits room in the queue.
MutantAnswer(nr) ==
    CanSend /\ out' = Append(out, Completion(nr)) /\ Settle(nr, "done")

\* send_completion, whose own error is the error of the message
Answer(nr) ==
    \/ CanSend /\ out' = Append(out, Completion(nr)) /\ Settle(nr, "done")
    \/ ~CanSend /\ UNCHANGED out /\ Settle(nr, "failed")

\* Ok(None) is taken for no answer.
MutantCallReturns(nr) ==
    /\ Running(nr, "call")
    /\ Answer(nr) \/ (Settle(nr, "done") /\ UNCHANGED out)
    /\ UNCHANGED <<protocol, frames, reading, tasks, published, written, open>>

\* An invocation with an id is answered whether it returns a value or an error ...
CallReturns(nr) ==
    /\ Running(nr, "call") /\ Answer(nr)
    /\ UNCHANGED <<protocol, frames, reading, tasks, published, written, open>>

\* ... and nobody is told of one without, though its error counts as one.
FireReturns(nr) ==
    /\ Running(nr, "fire")
    /\ Settle(nr, "done") \/ Settle(nr, "failed")
    /\ UNCHANGED <<protocol, frames, reading, tasks, published, queue>>

StreamFails(nr) ==
    /\ Running(nr, "stream") /\ Answer(nr)
    /\ UNCHANGED <<protocol, frames, reading, tasks, published, written, open>>

\* The task is spawned, and the stream is answered at once like a call.
MutantStreamStarts(nr) ==
    /\ Running(nr, "stream") /\ Answer(nr)
    /\ tasks' = [tasks EXCEPT ![nr] = Task("receiving", published + 1)]
    /\ UNCHANGED <<protocol, frames, reading, published, written, open>>

\* The hub returns Ok: ChatHub after subscribing and spawning the task that
\* will answer, or, for a target it does not know, without; MarketHub, whose
\* task is 0, does without always.
StreamStarts(nr) ==
    /\ Running(nr, "stream") /\ Settle(nr, "done")
    /\ \/ tasks[0].at = "none"
          /\ tasks' = [tasks EXCEPT ![nr] = Task("receiving", published + 1)]
       \/ UNCHANGED tasks
    /\ UNCHANGED <<protocol, frames, reading, published, queue>>

\* A callback panics: that unwinds the reader task, and the message and what
\* waits behind it in its frame are lost.  No task was spawned: the hub spawns
\* one last.
CallbackPanics(nr) ==
    /\ busy /\ parts[nr].fate = "running"
    /\ busy' = FALSE /\ reading' = FALSE
    /\ parts' = [i \in DOMAIN parts |-> [parts[i] EXCEPT !.fate =
                     IF i = nr \/ i \in Waiting THEN "lost" ELSE @]]
    /\ UNCHANGED <<protocol, frames, tasks, published, queue>>

----------------------------------------------------------------------------
\* The broadcast channel and the forwarding tasks

Publish ==
    /\ published < MaxPublished
    /\ published' = published + 1
    /\ UNCHANGED <<protocol, reader, tasks, queue>>

Unread(t) == tasks[t].at = "receiving" /\ tasks[t].next <= published
Overrun(t) == published - tasks[t].next >= ChannelCapacity

\* RecvError::Lagged: the receiver is moved to the oldest item retained.
Lag(t) ==
    /\ Unread(t) /\ Overrun(t)
    /\ tasks' = [tasks EXCEPT ![t].next = published - ChannelCapacity + 1, ![t].lagged = TRUE]
    /\ UNCHANGED <<protocol, reader, published, queue>>

Forward(t) ==
    /\ Unread(t) /\ ~Overrun(t) /\ CanSend
    /\ out' = Append(out, Item(t, tasks[t].next))
    /\ tasks' = [tasks EXCEPT ![t].next = @ + 1]
    /\ UNCHANGED <<protocol, reader, published, written, open>>

\* A stream's task still owes a completion when it leaves its loop, a task
\* started in on_connected does not.
AfterLoop(t) == IF t = 0 THEN "ended" ELSE "completing"

\* A refused item is skipped.
MutantForwardRefused(t) ==
    /\ Unread(t) /\ ~Overrun(t) /\ ~CanSend
    /\ tasks' = [tasks EXCEPT ![t].next = @ + 1]
    /\ UNCHANGED <<protocol, reader, published, queue>>

ForwardRefused(t) ==
    /\ Unread(t) /\ ~Overrun(t) /\ ~CanSend
    /\ tasks' = [tasks EXCEPT ![t].at = AfterLoop(t)]
    /\ UNCHANGED <<protocol, reader, published, queue>>

\* RecvError::Closed: the hub, which holds the sender, outlives its connections.
ChannelCloses(t) ==
    /\ tasks[t].at = "receiving" /\ ~Unread(t)
    /\ ~open /\ ~reading
    /\ tasks' = [tasks EXCEPT ![t].at = AfterLoop(t)]
    /\ UNCHANGED <<protocol, reader, published, queue>>

\* let _ = ctx.send(completion)
Complete(t) ==
    /\ tasks[t].at = "completing"
    /\ tasks' = [tasks EXCEPT ![t].at = "ended"]
    /\ out' = IF CanSend THEN Append(out, Completion(t)) ELSE out
    /\ UNCHANGED <<protocol, reader, published, written, open>>

----------------------------------------------------------------------------
Client == \E opcode \in {"text", "binary"} : \E kinds \in Batches : ReadFrame(opcode, kinds)

Reader ==
    \E nr \in DOMAIN parts :
        Dispatch(nr) \/ CallReturns(nr) \/ FireReturns(nr) \/ StreamFails(nr) \/ StreamStarts(nr)

Forwarder(t) == Lag(t) \/ Forward(t) \/ ForwardRefused(t) \/ Complete(t)

Next ==
    \/ Client \/ ReaderEnds \/ Reader \/ \E nr \in DOMAIN parts : CallbackPanics(nr)
    \/ \E t \in DOMAIN tasks : Forwarder(t) \/ ChannelCloses(t)
    \/ Publish \/ WriterTakes \/ WriterEnds

Spec == Init /\ [][Next]_vars

\* Callbacks return, unless they panic, and the tasks that can go on do.  Whether
\* the client sends, an item is published or a write completes is up to others.
FairSpec == Spec /\ WF_vars(Reader) /\ \A t \in 0..MaxMessages : WF_vars(Forwarder(t))

----------------------------------------------------------------------------
\* Properties

TypeOK ==
    /\ protocol \in {"json", "messagepack"}
    /\ frames \in Seq({"text", "binary"})
    /\ parts \in Seq([kind : Kinds, frame : 1..Len(frames), fate : Fates])
    /\ Len(parts) <= MaxMessages
    /\ busy \in BOOLEAN /\ reading \in BOOLEAN
    /\ tasks \in [0..MaxMessages -> [at : TaskStates, next : 1..(MaxPublished + 1),
                                     lagged : BOOLEAN]]
    /\ published \in 0..MaxPublished
    /\ out \in Seq([kind : {"completion", "item", "welcome"}, nr : 0..MaxMessages, item : 0..MaxPublished])
    /\ written \in 0..Len(out) /\ Len(out) - written <= Capacity
    /\ open \in BOOLEAN

HasFate(nr, fates) == nr \in DOMAIN parts /\ parts[nr].fate \in fates
Completed(nr) == \E i \in DOMAIN out : out[i] = Completion(nr)

\* Of one invocation id the client gets at most one completion, and nothing
\* after it: the reader's answer to a stream that failed and the completion of
\* a stream's task exclude each other.
CompletionIsLast ==
    \A i, j \in DOMAIN out : i < j /\ out[i].kind = "completion" => out[j].nr # out[i].nr

\* Invocations are answered in the order in which the client sent them.
AnswersInOrder ==
    \A i, j \in DOMAIN out :
        /\ i < j /\ out[i].kind = "completion" /\ out[j].kind = "completion"
        /\ parts[out[i].nr].kind = "call" /\ parts[out[j].nr].kind = "call"
        => out[i].nr < out[j].nr

\* A message that parsed is passed over only in a binary frame, behind a
\* message whose handling failed or beside one that did not parse; and in a
\* binary frame nothing is handled behind a failure.  Behind a panic nothing is
\* handled at all, in a text frame neither, and no further frame is read.
BatchOutcome ==
    \A j \in DOMAIN parts :
        LET peers == {i \in DOMAIN parts : parts[i].frame = parts[j].frame} IN
        /\ (protocol = "json" \/ Strict(j)) /\ parts[j].fate = "dropped" =>
             \/ parts[j].kind = "malformed"
             \/ Strict(j) /\ \E i \in peers : i < j /\ parts[i].fate = "failed"
             \/ Strict(j) /\ \E i \in peers : parts[i].kind = "malformed"
        /\ Strict(j) /\ (\E i \in peers : \/ i < j /\ parts[i].fate = "failed"
                                          \/ parts[i].kind = "malformed")
             => parts[j].fate = "dropped"
        /\ parts[j].fate = "lost" =>
             ~reading /\ \A i \in DOMAIN parts : j < i => parts[i].fate \in {"dropped", "lost"}

\* An invocation with an id that was handled has its completion in the queue,
\* whatever the callback returned ("Returning Ok(None) sends an empty
\* completion"); one whose completion was refused never gets another.
DoneMeansAnswered ==
    \A nr \in DOMAIN parts : parts[nr].kind = "call" => (parts[nr].fate = "done" <=> Completed(nr))

\* The items a task forwards are in the order of the broadcast channel, none
\* twice, and without a gap unless the channel overran the task.
ItemsInOrder ==
    \A i, j \in DOMAIN out :
        /\ i < j /\ out[i].kind = "item" /\ out[j].kind = "item" /\ out[i].nr = out[j].nr
        /\ \A k \in (i + 1)..(j - 1) : out[k].nr # out[i].nr
        => \/ out[j].item = out[i].item + 1
           \/ tasks[out[i].nr].lagged /\ out[j].item > out[i].item

\* A message that parsed is handled or passed over in the end, and so is every
\* other of its frame: no callback that returns stops the reader, whatever it
\* returns and whether or not its answer is accepted.  A panic loses them.
EveryMessageSettles ==
    \A nr \in 1..MaxMessages :
        HasFate(nr, {"waiting", "running"}) ~> HasFate(nr, {"done", "failed", "dropped", "lost"})

\* A forwarding task outlives its connection until the next item, and no longer.
TaskEndsAtNextItem ==
    \A t \in 0..MaxMessages : (~open /\ Unread(t)) ~> (tasks[t].at = "ended")

============================================================================
