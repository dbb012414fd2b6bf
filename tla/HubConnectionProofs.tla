------------------------ MODULE HubConnectionProofs ------------------------
(***************************************************************************)
(* Proofs of the safety properties of HubConnection, for every set of      *)
(* senders, every capacity and every set of messages that cannot be        *)
(* serialised: what is on the wire is an unbroken stream of what the queue *)
(* accepted, nothing is lost while the writer serves, a Close of the       *)
(* client is answered, the closing notice is the last word, and a          *)
(* connection is silent once on_disconnected was called.                   *)
(***************************************************************************)
EXTENDS HubConnection, SequenceTheorems, TLAPS

\* How many messages the writer has taken out of the queue.
Taken == accepted - Len(queue)

\* The writer has not begun to close or to flush.
Serving == wr \in {"none", "loop", "select", "poll", "writeFrame"}

\* The two tasks exist from the return of on_connected on, and both have
\* ended when on_disconnected is called.
Lifecycle ==
    /\ phase \in {"handshake", "connecting"} => rd = "none" /\ wr = "none"
    /\ phase = "disconnecting" => rd = "done" /\ wr = "done"
    /\ phase = "closed" => (rd = "none" /\ wr = "none") \/ (rd = "done" /\ wr = "done")
    /\ rd = "none" => ~clientClosed

\* The queue holds the latest messages accepted, in their order.
QueueInv ==
    /\ Len(queue) <= accepted
    /\ \A i \in 1..Len(queue) : queue[i] = Taken + i

\* What the writer writes, by where it is.
OutInv ==
    /\ wr = "writeFrame" =>
         out.kind # "message" \/ (Taken \in 1..MaxAccepted /\ out = Message(Taken))
    /\ wr = "writeFlush" => out.kind # "message"
    /\ wr = "writeNotice" => out = ClosingNotice[1]
    /\ wr = "writeClose" => out = ClosingNotice[2]

\* The messages on the wire were taken from the queue, and those taken are on
\* the wire but for the one being written, as long as the writer serves.
ServedInv ==
    /\ \A i \in 1..Len(wire) : wire[i].kind = "message" =>
         /\ wire[i].nr \in 1..Taken
         /\ wr = "writeFrame" => wire[i] # out
    /\ Serving => \A k \in 1..Taken \ Unserializable :
         \/ wr = "writeFrame" /\ out = Message(k)
         \/ \E i \in 1..Len(wire) : wire[i] = Message(k)

\* How far the closing notice has got.
NoticeInv ==
    /\ closeSent => wr \in {"awaitReader", "done"}
    /\ wr = "awaitReader" => closeSent
    /\ "write" \notin faults =>
         /\ wr = "writeClose" => Len(wire) >= 1 /\ wire[Len(wire)] = ClosingNotice[1]
         /\ (wr = "publish" \/ closeSent) =>
              /\ Len(wire) >= 2
              /\ wire[Len(wire) - 1] = ClosingNotice[1]
              /\ wire[Len(wire)] = ClosingNotice[2]

\* How the writer ended, and where the answer to the client's Close is.
EchoInv ==
    /\ (wr = "done" /\ rd # "done" /\ faults = {}) => closeSent
    /\ (rd = "echo" /\ faults = {}) => closeSent
    /\ (wr = "done" /\ faults = {} /\ ~closeSent) => autoq = <<>>
    /\ (clientClosed /\ faults = {}) =>
         \/ rd = "overflow"
         \/ \E i \in 1..Len(autoq) : autoq[i] = CloseEcho
         \/ wr \in {"writeFrame", "writeFlush"} /\ out = CloseEcho
         \/ wr \in {"writeNotice", "writeClose"}
         \/ \E i \in 1..Len(wire) : wire[i].kind \in {"echo", "close"}

IInv == /\ TypeOK /\ Lifecycle /\ QueueInv /\ OutInv /\ ServedInv
        /\ DeliveredInOrder /\ NoticeInv /\ EchoInv

----------------------------------------------------------------------------
LEMMA AfterWriteValues ==
  /\ DOMAIN AfterWrite = {"writeFrame", "writeNotice", "writeClose", "writeFlush"}
  /\ DOMAIN AfterFailure = DOMAIN AfterWrite
  /\ AfterWrite["writeFrame"] = "loop" /\ AfterWrite["writeNotice"] = "writeClose"
  /\ AfterWrite["writeClose"] = "publish" /\ AfterWrite["writeFlush"] = "flush"
  /\ AfterFailure["writeFrame"] = "done" /\ AfterFailure["writeNotice"] = "writeClose"
  /\ AfterFailure["writeClose"] = "publish" /\ AfterFailure["writeFlush"] = "done"
  BY DEF AfterWrite, AfterFailure

LEMMA FrameFacts ==
  /\ \A k \in 1..MaxAccepted : Message(k) \in Frames
  /\ Controls \subseteq Frames
  /\ Pong \in Controls /\ CloseEcho \in Controls /\ Control("ping") \in Controls
  /\ ClosingNotice[1] \in Controls /\ ClosingNotice[2] \in Controls
  <1>1. ClosingNotice[1] = Control("notice") /\ ClosingNotice[2] = Control("close")
    BY DEF ClosingNotice
  <1> QED BY <1>1 DEF Pong, CloseEcho, Controls, Frames

\* The automatic queue after send_fn, and both queues after a receive.
LEMMA PushAutoType ==
  ASSUME TypeOK, NEW frame \in {Pong, CloseEcho}, NEW next \in {"loop", "ending"},
         PushAuto(frame, next)
  PROVE  rd' \in ReaderStates /\ autoq' \in Seq({Pong, CloseEcho}) /\ Len(autoq') <= Capacity
  <1> DEFINE Autos == {Pong, CloseEcho}
  <1>1. autoq \in Seq(Autos) /\ Len(autoq) \in Nat /\ frame \in Autos /\ Len(autoq) <= Capacity
    BY LenProperties DEF TypeOK
  <1> HIDE DEF Autos
  <1>2. Append(autoq, frame) \in Seq(Autos) /\ Len(Append(autoq, frame)) = Len(autoq) + 1
    BY <1>1, AppendProperties
  <1>3. autoq' \in Seq(Autos) /\ Len(autoq') <= Capacity
    <2>1. CASE wr # "done" /\ Len(autoq) < Capacity
      <3>1. autoq' = Append(autoq, frame)
        BY <2>1 DEF PushAuto
      <3> QED BY <1>1, <1>2, <2>1, <3>1, CapacityPositive
    <2>2. CASE ~(wr # "done" /\ Len(autoq) < Capacity)
      <3>1. autoq' = autoq
        BY <2>2 DEF PushAuto
      <3> QED BY <1>1, <3>1
    <2> QED BY <2>1, <2>2
  <1>4. rd' \in ReaderStates
    BY DEF PushAuto, ReaderStates
  <1> QED BY <1>3, <1>4 DEF Autos

LEMMA ReceiveType ==
  ASSUME NEW S, NEW q \in Seq(S), q # <<>>
  PROVE  /\ Head(q) \in S /\ Head(q) = q[1]
         /\ Tail(q) \in Seq(S) /\ Len(Tail(q)) = Len(q) - 1 /\ Len(q) \in Nat \ {0}
         /\ \A i \in 1..Len(Tail(q)) : Tail(q)[i] = q[i + 1]
  BY HeadTailProperties, EmptySeq

LEMMA TypeStep == TypeOK /\ [Next]_vars => TypeOK'
  <1> SUFFICES ASSUME TypeOK, [Next]_vars PROVE TypeOK'
    OBVIOUS
  <1> USE CapacityPositive, BoundsAreNat DEF TypeOK, flags, writing, sending
  <1>1. CASE UNCHANGED vars
    BY <1>1 DEF vars
  <1>2. CASE BeginShutdown
    BY <1>2 DEF BeginShutdown
  <1>3. ASSUME NEW s \in Senders, SendAccepted(s) PROVE TypeOK'
    <2>1. accepted + 1 \in 1..MaxAccepted
      BY <1>3 DEF SendAccepted
    <2>2. queue' \in Seq(1..MaxAccepted) /\ Len(queue') <= Capacity
      BY <1>3, <2>1, AppendProperties DEF SendAccepted
    <2> QED BY <1>3, <2>1, <2>2 DEF SendAccepted
  <1>4. ASSUME NEW s \in Senders, SendFull(s) PROVE TypeOK'
    BY <1>4 DEF SendFull
  <1>5. ASSUME NEW s \in Senders, SignalFull(s) PROVE TypeOK'
    BY <1>5 DEF SignalFull
  <1>6. CASE Socket
    <2> USE DEF PhaseMoves, Phases, ReaderStates, WriterStates
    <2>1. CASE HandshakeEnds BY <2>1 DEF HandshakeEnds
    <2>2. CASE SpawnTasks BY <2>2 DEF SpawnTasks
    <2>3. CASE OnConnectedPanics BY <2>3 DEF OnConnectedPanics
    <2>4. CASE Joined BY <2>4 DEF Joined
    <2>5. CASE OnDisconnectedEnds BY <2>5 DEF OnDisconnectedEnds
    <2> QED BY <1>6, <2>1, <2>2, <2>3, <2>4, <2>5 DEF Socket
  <1>7. CASE Reader
    <2> USE DEF ReaderMoves, ReaderStates
    <2>1. CASE ReaderTop \/ SeeCloseSent \/ ReadData \/ HandlerReturns \/ HandlerPanics
      BY <2>1 DEF ReaderTop, SeeCloseSent, ReadData, HandlerReturns, HandlerPanics
    <2>2. CASE ReadPing
      BY <2>2, PushAutoType DEF ReadPing
    <2>3. CASE ReadClose
      BY <2>3, PushAutoType DEF ReadClose
    <2>4. CASE AutoRefused \/ ReadEnds \/ EchoReceived \/ EchoEnds
      BY <2>4 DEF AutoRefused, ReadEnds, EchoReceived, EchoEnds
    <2>5. CASE EchoIgnored
      BY <2>5 DEF EchoIgnored
    <2>6. CASE AnnounceReaderDone \/ DropAutoSender
      BY <2>6 DEF AnnounceReaderDone, DropAutoSender
    <2> QED BY <1>7, <2>1, <2>2, <2>3, <2>4, <2>5, <2>6 DEF Reader
  <1>8. CASE Writer
    <2> USE DEF WriterMoves, WriterStates
    <2>1. CASE WriterTop
      BY <2>1, FrameFacts DEF WriterTop
    <2>2. CASE PollFlags \/ Park \/ PublishCloseSent \/ AwaitEnds \/ FlushEnds
      BY <2>2 DEF PollFlags, Park, PublishCloseSent, AwaitEnds, FlushEnds
    <2>3. CASE TakeAuto \/ FlushAuto
      <3>1. autoq # <<>> /\ out' = Head(autoq) /\ autoq' = Tail(autoq)
        BY <2>3 DEF TakeAuto, FlushAuto
      <3>2. /\ out' \in {Pong, CloseEcho} /\ autoq' \in Seq({Pong, CloseEcho})
            /\ Len(autoq') <= Capacity
        BY <3>1, ReceiveType
      <3> QED BY <2>3, <3>2, FrameFacts DEF TakeAuto, FlushAuto
    <2>4. CASE TakeMessage
      <3>1. queue # <<>> /\ queue' = Tail(queue)
        BY <2>4 DEF TakeMessage
      <3>2. /\ Head(queue) \in 1..MaxAccepted /\ queue' \in Seq(1..MaxAccepted)
            /\ Len(queue') <= Capacity
        BY <3>1, ReceiveType
      <3> QED BY <2>4, <3>2, FrameFacts DEF TakeMessage
    <2>5. CASE KeepaliveTick
      BY <2>5, FrameFacts DEF KeepaliveTick
    <2> QED BY <1>8, <2>1, <2>2, <2>3, <2>4, <2>5 DEF Writer
  <1>9. CASE Network
    <2>1. CASE WriteCompletes
      <3>1. wire' \in Seq(Frames)
        BY <2>1, AppendProperties DEF WriteCompletes
      <3> QED BY <2>1, <3>1, FrameFacts, AfterWriteValues DEF WriteCompletes, WriterStates
    <2>2. CASE WriteFails
      BY <2>2, FrameFacts, AfterWriteValues DEF WriteFails, WriterStates
    <2> QED BY <1>9, <2>1, <2>2 DEF Network
  <1> QED BY <1>1, <1>2, <1>3, <1>4, <1>5, <1>6, <1>7, <1>8, <1>9 DEF Next, Environment

----------------------------------------------------------------------------
\* What each kind of step leaves alone.
LEMMA QuietStep ==
  ASSUME [Next]_vars
  PROVE  \/ UNCHANGED <<phase, rd, closeSent, readerDone, writing, queue, accepted,
                        autoq, clientClosed, chatter, faults>>
         \/ \E s \in Senders : SendAccepted(s)
         \/ Socket \/ Reader \/ Writer \/ Network
  <1>1. CASE UNCHANGED vars
    BY <1>1 DEF vars, flags, sending, writing
  <1>2. CASE BeginShutdown
    BY <1>2 DEF BeginShutdown, sending, writing
  <1>3. ASSUME NEW s \in Senders, SendFull(s) \/ SignalFull(s)
        PROVE  UNCHANGED <<phase, rd, closeSent, readerDone, writing, queue, accepted,
                           autoq, clientClosed, chatter, faults>>
    BY <1>3 DEF SendFull, SignalFull, flags, writing
  <1> QED BY <1>1, <1>2, <1>3 DEF Next, Environment

LEMMA SendFrame ==
  ASSUME NEW s \in Senders, SendAccepted(s)
  PROVE  /\ UNCHANGED <<phase, rd, closeSent, readerDone, writing, autoq,
                        clientClosed, chatter, faults>>
         /\ accepted' = accepted + 1 /\ queue' = Append(queue, accepted + 1)
         /\ ReceiverAlive
  BY DEF SendAccepted, flags

LEMMA SocketFrame ==
  ASSUME Socket
  PROVE  /\ UNCHANGED <<closeSent, readerDone, out, wire, queue, accepted, autoq,
                        clientClosed, chatter, faults>>
         /\ \/ UNCHANGED <<rd, wr>>
            \/ phase = "connecting" /\ phase' = "running" /\ rd' = "loop" /\ wr' = "loop"
  BY DEF Socket, HandshakeEnds, SpawnTasks, OnConnectedPanics, Joined,
     OnDisconnectedEnds, PhaseMoves, flags, sending, writing

LEMMA ReaderFrame ==
  ASSUME Reader
  PROVE  /\ UNCHANGED <<phase, closeSent, writing, queue, accepted>>
         /\ rd # "none" /\ rd # "done" /\ rd' # "none"
         /\ rd = "overflow" => AutoRefused
         /\ UNCHANGED autoq \/ ReadPing \/ ReadClose
         /\ UNCHANGED clientClosed \/ ReadClose \/ EchoReceived
         /\ UNCHANGED faults \/ AutoRefused
  <1> USE DEF ReaderMoves, PushAuto, flags, writing, sending
  <1>1. CASE ReaderTop BY <1>1 DEF ReaderTop
  <1>2. CASE SeeCloseSent BY <1>2 DEF SeeCloseSent
  <1>3. CASE ReadData \/ HandlerReturns \/ HandlerPanics
    BY <1>3 DEF ReadData, HandlerReturns, HandlerPanics
  <1>4. CASE ReadPing BY <1>4 DEF ReadPing
  <1>5. CASE ReadClose BY <1>5 DEF ReadClose
  <1>6. CASE AutoRefused BY <1>6 DEF AutoRefused
  <1>7. CASE ReadEnds \/ EchoIgnored \/ EchoReceived \/ EchoEnds
    BY <1>7 DEF ReadEnds, EchoIgnored, EchoReceived, EchoEnds
  <1>8. CASE AnnounceReaderDone \/ DropAutoSender
    BY <1>8 DEF AnnounceReaderDone, DropAutoSender
  <1> QED BY <1>1, <1>2, <1>3, <1>4, <1>5, <1>6, <1>7, <1>8 DEF Reader

LEMMA WriterFrame ==
  ASSUME Writer
  PROVE  /\ UNCHANGED <<phase, rd, readerDone, wire, accepted, clientClosed, chatter, faults>>
         /\ wr \in {"loop", "select", "poll", "publish", "awaitReader", "flush"}
         /\ wr' \notin {"none", "writeClose", "publish"}
         /\ UNCHANGED queue \/ TakeMessage
         /\ UNCHANGED autoq \/ TakeAuto \/ FlushAuto
         /\ UNCHANGED closeSent \/ PublishCloseSent
  <1> USE DEF WriterMoves, flags, sending
  <1>1. CASE WriterTop BY <1>1 DEF WriterTop
  <1>2. CASE PollFlags BY <1>2 DEF PollFlags
  <1>3. CASE TakeAuto BY <1>3 DEF TakeAuto
  <1>4. CASE TakeMessage BY <1>4 DEF TakeMessage
  <1>5. CASE KeepaliveTick \/ Park BY <1>5 DEF KeepaliveTick, Park
  <1>6. CASE PublishCloseSent BY <1>6 DEF PublishCloseSent
  <1>7. CASE AwaitEnds \/ FlushEnds BY <1>7 DEF AwaitEnds, FlushEnds
  <1>8. CASE FlushAuto BY <1>8 DEF FlushAuto
  <1> QED BY <1>1, <1>2, <1>3, <1>4, <1>5, <1>6, <1>7, <1>8 DEF Writer

LEMMA NetworkFrame ==
  ASSUME Network
  PROVE  /\ UNCHANGED <<phase, rd, closeSent, readerDone, queue, accepted, autoq,
                        clientClosed, chatter>>
         /\ wr \in {"writeFrame", "writeNotice", "writeClose", "writeFlush"}
         /\ wr = "writeNotice" => wr' = "writeClose" /\ out' = ClosingNotice[2]
         /\ wr = "writeClose" => wr' = "publish"
         /\ \/ /\ faults' = faults
               /\ wire' = IF out.kind \in {"ping", "pong"} THEN wire ELSE Append(wire, out)
               /\ wr = "writeFrame" => wr' = "loop"
               /\ wr = "writeFlush" => wr' = "flush"
            \/ /\ faults' = faults \cup {"write"}
               /\ wire' = wire
               /\ wr \in {"writeFrame", "writeFlush"} => wr' = "done"
  <1>1. CASE WriteCompletes
    BY <1>1, AfterWriteValues DEF WriteCompletes, flags, sending
  <1>2. CASE WriteFails
    BY <1>2, AfterWriteValues DEF WriteFails, flags, sending
  <1> QED BY <1>1, <1>2 DEF Network

----------------------------------------------------------------------------
LEMMA LifecycleStep == TypeOK /\ Lifecycle /\ [Next]_vars => Lifecycle'
  <1> SUFFICES ASSUME TypeOK, Lifecycle, [Next]_vars PROVE Lifecycle'
    OBVIOUS
  <1> USE DEF Lifecycle, writing
  <1>1. CASE UNCHANGED <<phase, rd, closeSent, readerDone, writing, queue, accepted,
                         autoq, clientClosed, chatter, faults>>
    BY <1>1
  <1>2. ASSUME NEW s \in Senders, SendAccepted(s) PROVE Lifecycle'
    BY <1>2, SendFrame
  <1>3. CASE Socket
    <2>1. CASE HandshakeEnds BY <2>1 DEF HandshakeEnds, PhaseMoves
    <2>2. CASE SpawnTasks BY <2>2 DEF SpawnTasks, PhaseMoves
    <2>3. CASE OnConnectedPanics BY <2>3 DEF OnConnectedPanics, PhaseMoves
    <2>4. CASE Joined BY <2>4 DEF Joined, PhaseMoves
    <2>5. CASE OnDisconnectedEnds BY <2>5 DEF OnDisconnectedEnds, PhaseMoves
    <2> QED BY <1>3, <2>1, <2>2, <2>3, <2>4, <2>5 DEF Socket
  <1>4. CASE Reader
    BY <1>4, ReaderFrame
  <1>5. CASE Writer
    BY <1>5, WriterFrame
  <1>6. CASE Network
    BY <1>6, NetworkFrame
  <1> QED BY <1>1, <1>2, <1>3, <1>4, <1>5, <1>6, QuietStep

LEMMA QueueStep == TypeOK /\ QueueInv /\ [Next]_vars => QueueInv'
  <1> SUFFICES ASSUME TypeOK, QueueInv, [Next]_vars PROVE QueueInv'
    OBVIOUS
  <1> USE DEF QueueInv, Taken
  <1>1. CASE UNCHANGED <<queue, accepted>>
    BY <1>1
  <1>2. ASSUME NEW s \in Senders, SendAccepted(s) PROVE QueueInv'
    <2>1. queue \in Seq(Nat) /\ accepted \in Nat /\ Len(queue) \in Nat
      BY LenProperties DEF TypeOK
    <2>2. queue' = Append(queue, accepted + 1) /\ accepted' = accepted + 1
      BY <1>2, SendFrame
    <2>3. /\ Len(queue') = Len(queue) + 1
          /\ \A i \in 1..Len(queue) : queue'[i] = queue[i]
          /\ queue'[Len(queue) + 1] = accepted + 1
      BY <2>1, <2>2, AppendProperties
    <2> QED BY <2>1, <2>2, <2>3
  <1>3. CASE TakeMessage
    <2>1. queue # <<>> /\ queue' = Tail(queue) /\ accepted' = accepted
      BY <1>3 DEF TakeMessage
    <2>2. /\ Len(queue) \in Nat \ {0} /\ Len(queue') = Len(queue) - 1
          /\ \A i \in 1..Len(queue') : queue'[i] = queue[i + 1]
      BY <2>1, ReceiveType DEF TypeOK
    <2>3. accepted \in Nat
      BY DEF TypeOK
    <2> QED BY <2>1, <2>2, <2>3
  <1> QED BY <1>1, <1>2, <1>3, QuietStep, SocketFrame, ReaderFrame, WriterFrame, NetworkFrame

\* Only TakeMessage takes a message, and it takes the next one.
LEMMA TakenStep ==
  ASSUME TypeOK, QueueInv, [Next]_vars
  PROVE  /\ Taken \in 0..accepted
         /\ TakeMessage => /\ Taken' = Taken + 1 /\ Taken + 1 \in 1..MaxAccepted
                           /\ Head(queue) = Taken + 1
         /\ ~TakeMessage => Taken' = Taken
  <1>1. accepted \in Nat /\ MaxAccepted \in Nat /\ Len(queue) \in Nat /\ accepted <= MaxAccepted
    BY LenProperties, BoundsAreNat DEF TypeOK
  <1>2. Taken \in 0..accepted
    BY <1>1 DEF Taken, QueueInv
  <1>3. ASSUME TakeMessage
        PROVE  Taken' = Taken + 1 /\ Taken + 1 \in 1..MaxAccepted /\ Head(queue) = Taken + 1
    <2>1. queue # <<>> /\ queue' = Tail(queue) /\ accepted' = accepted
      BY <1>3 DEF TakeMessage
    <2>2. /\ Len(queue) \in Nat \ {0} /\ Len(queue') = Len(queue) - 1
          /\ Head(queue) = queue[1]
      BY <2>1, ReceiveType DEF TypeOK
    <2>3. queue[1] = Taken + 1
      BY <2>2 DEF QueueInv
    <2> QED BY <1>1, <1>2, <2>1, <2>2, <2>3 DEF Taken
  <1>4. ASSUME ~TakeMessage PROVE Taken' = Taken
    <2>1. CASE UNCHANGED <<queue, accepted>>
      BY <2>1 DEF Taken
    <2>2. ASSUME NEW s \in Senders, SendAccepted(s) PROVE Taken' = Taken
      <3>1. queue' = Append(queue, accepted + 1) /\ accepted' = accepted + 1
        BY <2>2, SendFrame
      <3>2. Len(queue') = Len(queue) + 1
        BY <3>1, <1>1, AppendProperties DEF TypeOK
      <3> QED BY <3>1, <3>2, <1>1 DEF Taken
    <2> QED BY <1>4, <2>1, <2>2, QuietStep, SocketFrame, ReaderFrame, WriterFrame, NetworkFrame
  <1> QED BY <1>2, <1>3, <1>4

LEMMA KindFacts ==
  /\ Pong.kind = "pong" /\ CloseEcho.kind = "echo" /\ Control("ping").kind = "ping"
  /\ ClosingNotice[1].kind = "notice" /\ ClosingNotice[2].kind = "close"
  /\ \A k \in Int : Message(k).kind = "message" /\ Message(k).nr = k
  /\ \A f \in Frames : f.kind = "message" => f.nr \in 1..MaxAccepted /\ f = Message(f.nr)
  <1>1. ClosingNotice[1] = Control("notice") /\ ClosingNotice[2] = Control("close")
    BY DEF ClosingNotice
  <1>2. \A f \in Frames : f.kind = "message" => f.nr \in 1..MaxAccepted /\ f = Message(f.nr)
    BY DEF Frames, Controls, Control, Message
  <1> QED BY <1>1, <1>2 DEF Pong, CloseEcho, Control, Message

\* The wire after a write.
LEMMA Written ==
  ASSUME TypeOK
  PROVE  /\ Len(wire) \in Nat /\ DOMAIN wire = 1..Len(wire)
         /\ \A i \in 1..Len(wire) : wire[i] \in Frames
         /\ wire' = Append(wire, out) =>
              /\ Len(wire') = Len(wire) + 1 /\ DOMAIN wire' = 1..(Len(wire) + 1)
              /\ \A i \in 1..Len(wire) : wire'[i] = wire[i]
              /\ wire'[Len(wire) + 1] = out
  <1>1. wire \in Seq(Frames) /\ out \in Frames
    BY DEF TypeOK
  <1>2. /\ Len(wire) \in Nat /\ DOMAIN wire = 1..Len(wire)
        /\ \A i \in 1..Len(wire) : wire[i] \in Frames
    BY <1>1, LenProperties, ElementOfSeq
  <1>3. ASSUME wire' = Append(wire, out)
        PROVE  /\ Len(wire') = Len(wire) + 1 /\ DOMAIN wire' = 1..(Len(wire) + 1)
               /\ \A i \in 1..Len(wire) : wire'[i] = wire[i]
               /\ wire'[Len(wire) + 1] = out
    BY <1>1, <1>3, AppendProperties, LenProperties
  <1> QED BY <1>2, <1>3

LEMMA OutStep == TypeOK /\ QueueInv /\ OutInv /\ [Next]_vars => OutInv'
  <1> SUFFICES ASSUME TypeOK, QueueInv, OutInv, [Next]_vars PROVE OutInv'
    OBVIOUS
  <1> USE DEF OutInv
  <1>1. CASE UNCHANGED <<writing, queue, accepted>>
    BY <1>1 DEF writing, Taken
  <1>2. ASSUME NEW s \in Senders, SendAccepted(s) PROVE OutInv'
    <2>1. ~TakeMessage
      BY <1>2 DEF SendAccepted, TakeMessage, writing, WriterMoves
    <2> QED BY <1>2, <2>1, SendFrame, TakenStep DEF writing
  <1>3. CASE Socket
    BY <1>3, SocketFrame DEF Taken
  <1>4. CASE Writer
    <2> USE DEF WriterMoves
    <2>1. CASE WriterTop BY <2>1 DEF WriterTop
    <2>2. CASE TakeAuto \/ FlushAuto
      <3>1. autoq # <<>> /\ out' = Head(autoq) /\ wr' \in {"writeFrame", "writeFlush"}
        BY <2>2 DEF TakeAuto, FlushAuto
      <3>2. out' \in {Pong, CloseEcho}
        BY <3>1, ReceiveType DEF TypeOK
      <3> QED BY <3>1, <3>2, KindFacts
    <2>3. CASE TakeMessage
      BY <2>3, TakenStep DEF TakeMessage
    <2>4. CASE KeepaliveTick BY <2>4, KindFacts DEF KeepaliveTick
    <2>5. CASE PollFlags \/ Park \/ PublishCloseSent \/ AwaitEnds \/ FlushEnds
      BY <2>5 DEF PollFlags, Park, PublishCloseSent, AwaitEnds, FlushEnds
    <2> QED BY <1>4, <2>1, <2>2, <2>3, <2>4, <2>5 DEF Writer
  <1>5. CASE Network
    BY <1>5, NetworkFrame
  <1> QED BY <1>1, <1>2, <1>3, <1>4, <1>5, QuietStep, ReaderFrame

----------------------------------------------------------------------------
\* What ServedInv, DeliveredInOrder and NoticeInv depend on moves in few steps.
LEMMA WireStep ==
  ASSUME [Next]_vars
  PROVE  /\ wire' # wire => Network /\ wire' = Append(wire, out)
         /\ Network \/ Writer \/ SpawnTasks \/ UNCHANGED <<wr, out>>
         /\ Socket \/ Reader \/ Writer \/ Network \/ UNCHANGED <<phase, rd>>
         /\ faults \subseteq faults'
         /\ UNCHANGED closeSent \/ PublishCloseSent
  <1>1. CASE UNCHANGED <<phase, rd, closeSent, readerDone, writing, queue, accepted,
                         autoq, clientClosed, chatter, faults>>
    BY <1>1 DEF writing
  <1>2. ASSUME NEW s \in Senders, SendAccepted(s)
        PROVE  UNCHANGED <<phase, rd, closeSent, writing, faults>>
    BY <1>2, SendFrame
  <1>3. CASE Socket
    <2>1. SpawnTasks \/ UNCHANGED <<wr, out>>
      BY <1>3 DEF Socket, SpawnTasks, HandshakeEnds, OnConnectedPanics, Joined,
         OnDisconnectedEnds, writing
    <2> QED BY <1>3, <2>1, SocketFrame
  <1>4. CASE Reader
    <2>1. faults \subseteq faults'
      BY <1>4, ReaderFrame DEF AutoRefused
    <2> QED BY <1>4, <2>1, ReaderFrame DEF writing
  <1>5. CASE Writer
    BY <1>5, WriterFrame
  <1>6. CASE Network
    BY <1>6, NetworkFrame
  <1> QED BY <1>1, <1>2, <1>3, <1>4, <1>5, <1>6, QuietStep DEF writing

\* The writer starts to write something in six actions.
LEMMA WriteBegins ==
  ASSUME Lifecycle, [Next]_vars
  PROVE  /\ wr' = "writeFrame" => \/ TakeAuto \/ TakeMessage \/ KeepaliveTick
                                  \/ wr = "writeFrame" /\ out' = out
         /\ Serving' => Serving
         /\ Network /\ Serving' => wr = "writeFrame"
         /\ TakeMessage => wr = "poll"
  <1>1. Network /\ Serving' => wr = "writeFrame"
    BY NetworkFrame DEF Serving
  <1>2. TakeMessage => wr = "poll"
    BY DEF TakeMessage
  <1>3. CASE Writer
    <2> USE <1>1, <1>2 DEF WriterMoves, Serving
    <2>1. CASE WriterTop BY <2>1 DEF WriterTop
    <2>2. CASE TakeAuto \/ TakeMessage \/ KeepaliveTick
      BY <2>2 DEF TakeAuto, TakeMessage, KeepaliveTick
    <2>3. CASE PollFlags \/ Park
      BY <2>3 DEF PollFlags, Park
    <2>4. CASE PublishCloseSent \/ AwaitEnds \/ FlushAuto \/ FlushEnds
      BY <2>4 DEF PublishCloseSent, AwaitEnds, FlushAuto, FlushEnds
    <2> QED BY <1>3, <2>1, <2>2, <2>3, <2>4 DEF Writer
  <1>4. CASE Network
    BY <1>1, <1>2, <1>4, NetworkFrame DEF Serving
  <1>5. CASE SpawnTasks
    BY <1>1, <1>2, <1>5 DEF SpawnTasks, PhaseMoves, Lifecycle, Serving
  <1>6. CASE UNCHANGED <<wr, out>>
    BY <1>1, <1>2, <1>6 DEF Serving
  <1> QED BY <1>3, <1>4, <1>5, <1>6, WireStep

LEMMA ServedStep ==
  TypeOK /\ Lifecycle /\ QueueInv /\ OutInv /\ ServedInv /\ [Next]_vars => ServedInv'
  <1> SUFFICES ASSUME TypeOK, Lifecycle, QueueInv, OutInv, ServedInv, [Next]_vars
               PROVE  ServedInv'
    OBVIOUS
  <1>1. Taken \in Nat /\ Taken' \in {Taken, Taken + 1}
    BY TakenStep DEF TypeOK
  <1>2. ASSUME wire' = wire PROVE ServedInv'
    <2>1. ASSUME NEW i \in 1..Len(wire'), (wire[i].kind = "message")'
          PROVE  (wire[i].nr \in 1..Taken)' /\ (wr' = "writeFrame" => wire'[i] # out')
      <3>1. wire'[i] = wire[i] /\ wire[i].nr \in 1..Taken
        BY <1>2, <2>1 DEF ServedInv
      <3>2. (wire[i].nr \in 1..Taken)'
        BY <1>1, <3>1
      <3>3. ASSUME wr' = "writeFrame" PROVE wire'[i] # out'
        <4>1. CASE TakeAuto \/ KeepaliveTick
          <5>1. out'.kind # "message"
            <6>1. CASE KeepaliveTick BY <6>1, KindFacts DEF KeepaliveTick
            <6>2. CASE TakeAuto
              <7>1. autoq # <<>> /\ out' = Head(autoq)
                BY <6>2 DEF TakeAuto
              <7> QED BY <7>1, ReceiveType, KindFacts DEF TypeOK
            <6> QED BY <4>1, <6>1, <6>2
          <5> QED BY <2>1, <5>1
        <4>2. CASE TakeMessage
          <5>1. out' = Message(Taken + 1)
            BY <3>3, <4>2, TakenStep DEF TakeMessage
          <5> QED BY <1>1, <3>1, <5>1, KindFacts
        <4>3. CASE wr = "writeFrame" /\ out' = out
          BY <1>2, <2>1, <4>3 DEF ServedInv
        <4> QED BY <3>3, <4>1, <4>2, <4>3, WriteBegins
      <3> QED BY <3>2, <3>3
    <2>2. ASSUME Serving', NEW k \in 1..Taken' \ Unserializable
          PROVE  \/ wr' = "writeFrame" /\ out' = Message(k)
                 \/ \E i \in 1..Len(wire') : wire'[i] = Message(k)
      <3>1. Serving
        BY <2>2, WriteBegins
      <3>2. CASE TakeMessage
        <4>1. CASE k = Taken + 1
          BY <2>2, <3>2, <4>1, TakenStep DEF TakeMessage
        <4>2. CASE k # Taken + 1
          <5>1. k \in 1..Taken \ Unserializable /\ wr = "poll"
            BY <1>1, <2>2, <4>2, <3>2, WriteBegins
          <5> QED BY <1>2, <3>1, <5>1 DEF ServedInv
        <4> QED BY <4>1, <4>2
      <3>3. CASE ~TakeMessage
        <4>1. k \in 1..Taken \ Unserializable
          BY <2>2, <3>3, TakenStep
        <4>2. CASE wr = "writeFrame" /\ out = Message(k)
          <5>1. CASE Network
            \* Only a failed write leaves the wire alone and the writer serving nobody.
            <6>1. out.kind = "message"
              BY <1>1, <4>1, <4>2, KindFacts
            <6>2. wire' # Append(wire, out)
              <7>1. Len(Append(wire, out)) = Len(wire) + 1 /\ Len(wire) \in Nat
                BY AppendProperties, LenProperties DEF TypeOK
              <7> QED BY <1>2, <7>1
            <6>3. wr' = "done"
              BY <4>2, <5>1, <6>1, <6>2, NetworkFrame
            <6> QED BY <2>2, <6>3 DEF Serving
          <5>2. ~Writer /\ ~SpawnTasks
            BY <4>2, WriterFrame DEF SpawnTasks, PhaseMoves, Lifecycle
          <5> QED BY <4>2, <5>1, <5>2, WireStep
        <4>3. CASE \E i \in 1..Len(wire) : wire[i] = Message(k)
          BY <1>2, <4>3
        <4> QED BY <3>1, <4>1, <4>2, <4>3 DEF ServedInv
      <3> QED BY <3>2, <3>3
    <2> QED BY <2>1, <2>2 DEF ServedInv
  <1>3. ASSUME wire' # wire PROVE ServedInv'
    <2>1. Network /\ wire' = Append(wire, out)
      BY <1>3, WireStep
    <2>2. ~TakeMessage /\ Taken' = Taken /\ wr' # "writeFrame"
      BY <2>1, TakenStep, NetworkFrame DEF TakeMessage
    <2>3. ASSUME NEW i \in 1..Len(wire'), (wire[i].kind = "message")'
          PROVE  (wire[i].nr \in 1..Taken)'
      <3>1. CASE i \in 1..Len(wire)
        BY <2>1, <2>2, <2>3, <3>1, Written DEF ServedInv
      <3>2. CASE i = Len(wire) + 1
        <4>1. wire'[i] = out
          BY <2>1, <3>2, Written
        <4>2. wr = "writeFrame"
          BY <2>1, <2>3, <4>1, NetworkFrame, KindFacts DEF OutInv
        <4> QED BY <2>2, <2>3, <4>1, <4>2, KindFacts DEF OutInv
      <3> QED BY <2>1, <3>1, <3>2, Written
    <2>4. ASSUME Serving', NEW k \in 1..Taken' \ Unserializable
          PROVE  \E i \in 1..Len(wire') : wire'[i] = Message(k)
      <3>1. Serving
        BY <2>4, WriteBegins
      <3>2. \/ out = Message(k)
            \/ \E i \in 1..Len(wire) : wire[i] = Message(k)
        BY <2>2, <2>4, <3>1 DEF ServedInv
      <3> QED BY <2>1, <3>2, Written
    <2> QED BY <2>2, <2>3, <2>4 DEF ServedInv
  <1> QED BY <1>2, <1>3

LEMMA DeliveredStep ==
  TypeOK /\ QueueInv /\ OutInv /\ ServedInv /\ DeliveredInOrder /\ [Next]_vars
    => DeliveredInOrder'
  <1> SUFFICES ASSUME TypeOK, QueueInv, OutInv, ServedInv, DeliveredInOrder, [Next]_vars,
                      wire' # wire
               PROVE  DeliveredInOrder'
    BY DEF DeliveredInOrder
  <1>1. Network /\ wire' = Append(wire, out)
    BY WireStep
  <1> SUFFICES ASSUME NEW n \in DOMAIN wire', wire'[n].kind = "message"
               PROVE  /\ \A j \in 1..(n - 1) : wire'[j] # wire'[n]
                      /\ \A k \in 1..(wire'[n].nr - 1) \ Unserializable :
                             \E j \in 1..(n - 1) : wire'[j] = Message(k)
    BY DEF DeliveredInOrder
  <1>2. /\ Len(wire) \in Nat /\ DOMAIN wire = 1..Len(wire)
        /\ DOMAIN wire' = 1..(Len(wire) + 1) /\ wire'[Len(wire) + 1] = out
        /\ \A i \in 1..Len(wire) : wire'[i] = wire[i]
    BY <1>1, Written
  <1>3. n \in 1..(Len(wire) + 1)
    BY <1>2
  <1>4. CASE n \in 1..Len(wire)
    <2>1. wire'[n] = wire[n] /\ \A j \in 1..(n - 1) : wire'[j] = wire[j]
      BY <1>2, <1>4
    <2> QED BY <1>2, <1>4, <2>1 DEF DeliveredInOrder
  <1>5. CASE n = Len(wire) + 1
    <2>1. wire'[n] = out /\ \A j \in 1..(n - 1) : wire'[j] = wire[j]
      BY <1>2, <1>5
    <2>2. wr = "writeFrame" /\ out = Message(Taken) /\ Taken \in 1..MaxAccepted
      BY <1>1, <2>1, NetworkFrame, KindFacts DEF OutInv
    <2>3. ASSUME NEW j \in 1..(n - 1) PROVE wire'[j] # wire'[n]
      <3>1. j \in 1..Len(wire) /\ wire'[j] = wire[j]
        BY <1>2, <1>5, <2>1
      <3> QED BY <2>1, <2>2, <3>1 DEF ServedInv
    <2>4. ASSUME NEW k \in 1..(wire'[n].nr - 1) \ Unserializable
          PROVE  \E j \in 1..(n - 1) : wire'[j] = Message(k)
      <3>1. k \in 1..Taken \ Unserializable /\ out # Message(k) /\ Serving
        BY <2>1, <2>2, KindFacts DEF Serving
      <3>2. PICK j \in 1..Len(wire) : wire[j] = Message(k)
        BY <3>1 DEF ServedInv
      <3> QED BY <1>2, <1>5, <2>1, <3>2
    <2> QED BY <2>3, <2>4
  <1> QED BY <1>2, <1>3, <1>4, <1>5

\* Only two steps move the closing notice: the writes and their publication.
LEMMA NoticeStep == TypeOK /\ Lifecycle /\ OutInv /\ NoticeInv /\ [Next]_vars => NoticeInv'
  <1> SUFFICES ASSUME TypeOK, Lifecycle, OutInv, NoticeInv, [Next]_vars PROVE NoticeInv'
    OBVIOUS
  <1> USE DEF NoticeInv
  <1>1. "write" \notin faults' => "write" \notin faults
    BY WireStep
  <1>2. Len(wire) \in Nat
    BY Written
  <1>3. CASE UNCHANGED <<wr, out, wire, closeSent>>
    BY <1>1, <1>3
  <1>4. CASE SpawnTasks
    <2>1. wr = "none" /\ wr' = "loop" /\ UNCHANGED <<closeSent, wire>>
      BY <1>4, SocketFrame DEF SpawnTasks, PhaseMoves, Lifecycle, Socket
    <2> QED BY <1>1, <2>1
  <1>5. CASE Writer
    <2>1. CASE PublishCloseSent
      BY <1>1, <2>1 DEF PublishCloseSent, WriterMoves
    <2>2. CASE AwaitEnds
      BY <1>1, <2>2 DEF AwaitEnds, WriterMoves, flags
    <2>3. CASE ~PublishCloseSent /\ ~AwaitEnds
      <3>1. UNCHANGED <<closeSent, wire, faults>> /\ wr' \notin {"writeClose", "publish"}
        BY <1>5, <2>3, WriterFrame
      <3>2. wr # "awaitReader" /\ wr' # "awaitReader"
        BY <1>5, <2>3 DEF Writer, WriterMoves, WriterTop, PollFlags, TakeAuto, TakeMessage,
           KeepaliveTick, Park, FlushAuto, FlushEnds
      <3>3. ~closeSent
        BY <1>5, <3>2, WriterFrame
      <3> QED BY <1>1, <3>1, <3>2, <3>3
    <2> QED BY <2>1, <2>2, <2>3
  <1>6. CASE Network
    <2>1. ~closeSent /\ ~closeSent' /\ wr' # "awaitReader"
      BY <1>6, NetworkFrame
    <2> SUFFICES ASSUME "write" \notin faults', wr' \in {"writeClose", "publish"}
                 PROVE  /\ wr' = "writeClose" =>
                             Len(wire') >= 1 /\ wire'[Len(wire')] = ClosingNotice[1]
                        /\ wr' = "publish" =>
                             /\ Len(wire') >= 2
                             /\ wire'[Len(wire') - 1] = ClosingNotice[1]
                             /\ wire'[Len(wire')] = ClosingNotice[2]
      BY <2>1
    <2>2. /\ out = IF wr' = "writeClose" THEN ClosingNotice[1] ELSE ClosingNotice[2]
          /\ wr = IF wr' = "writeClose" THEN "writeNotice" ELSE "writeClose"
      BY <1>6, NetworkFrame DEF OutInv
    <2>3. wire' = Append(wire, out)
      BY <1>6, <2>2, NetworkFrame, KindFacts
    <2>4. /\ Len(wire') = Len(wire) + 1 /\ wire'[Len(wire) + 1] = out
          /\ \A i \in 1..Len(wire) : wire'[i] = wire[i]
      BY <2>3, Written
    <2> QED BY <1>1, <1>2, <2>2, <2>4
  <1>7. UNCHANGED <<wr, out>> /\ ~Network /\ ~Writer => UNCHANGED <<wire, closeSent>>
    BY WireStep DEF Writer
  <1> QED BY <1>3, <1>4, <1>5, <1>6, <1>7, WireStep

\* An element keeps its place in a queue that grows and moves up in one that
\* is read.
LEMMA QueuedAnswer ==
  ASSUME TypeOK
  PROVE  /\ \A f : autoq' = Append(autoq, f) /\ f \in {Pong, CloseEcho} =>
                /\ Len(autoq') = Len(autoq) + 1 /\ autoq'[Len(autoq) + 1] = f
                /\ \A i \in 1..Len(autoq) : autoq'[i] = autoq[i]
         /\ (autoq # <<>> /\ autoq' = Tail(autoq)) =>
              \A i \in 1..Len(autoq) : autoq[i] # Head(autoq) =>
                 \E j \in 1..Len(autoq') : autoq'[j] = autoq[i]
         /\ Len(autoq) \in Nat
  <1> DEFINE Autos == {Pong, CloseEcho}
  <1>1. autoq \in Seq(Autos)
    BY DEF TypeOK
  <1> HIDE DEF Autos
  <1>2. Len(autoq) \in Nat
    BY <1>1, LenProperties
  <1>3. ASSUME NEW f \in Autos, autoq' = Append(autoq, f)
        PROVE  /\ Len(autoq') = Len(autoq) + 1 /\ autoq'[Len(autoq) + 1] = f
               /\ \A i \in 1..Len(autoq) : autoq'[i] = autoq[i]
    BY <1>1, <1>3, AppendProperties
  <1>4. ASSUME autoq # <<>>, autoq' = Tail(autoq), NEW i \in 1..Len(autoq),
               autoq[i] # Head(autoq)
        PROVE  \E j \in 1..Len(autoq') : autoq'[j] = autoq[i]
    <2>1. /\ Head(autoq) = autoq[1] /\ Len(autoq') = Len(autoq) - 1
          /\ \A j \in 1..Len(autoq') : autoq'[j] = autoq[j + 1]
      BY <1>1, <1>4, ReceiveType
    <2>2. i - 1 \in 1..Len(autoq') /\ (i - 1) + 1 = i
      BY <1>2, <1>4, <2>1
    <2> QED BY <2>1, <2>2
  <1> QED BY <1>2, <1>3, <1>4 DEF Autos

\* Where the answer to a Close that the reader has read is.
Answered == \/ rd = "overflow"
            \/ \E i \in 1..Len(autoq) : autoq[i] = CloseEcho
            \/ wr \in {"writeFrame", "writeFlush"} /\ out = CloseEcho
            \/ wr \in {"writeNotice", "writeClose"}
            \/ \E i \in 1..Len(wire) : wire[i].kind \in {"echo", "close"}

\* The reader queues the answer, and ends up awaiting an echo only once
\* ws_close_sent is published.
LEMMA ReaderEcho ==
  ASSUME TypeOK, NoticeInv, EchoInv, Reader, faults' = {}
  PROVE  EchoInv'
  <1> USE DEF EchoInv
  <1>1. /\ UNCHANGED <<closeSent, wr, out, wire>> /\ faults = {} /\ rd # "done" /\ ~AutoRefused
    BY ReaderFrame DEF writing, AutoRefused
  <1>2. rd # "overflow"
    BY <1>1, ReaderFrame
  <1>3. wr = "done" => closeSent
    BY <1>1
  <1>4. rd' = "echo" => closeSent
    BY <1>1, <1>3 DEF Reader, ReaderTop, SeeCloseSent, ReadData, HandlerReturns, HandlerPanics,
       ReadPing, ReadClose, ReadEnds, EchoIgnored, EchoReceived, EchoEnds,
       AnnounceReaderDone, DropAutoSender, ReaderMoves, PushAuto
  <1>5. ASSUME clientClosed' PROVE Answered'
    <2>1. CASE ReadClose
      <3>1. rd' = "overflow" \/ autoq' = Append(autoq, CloseEcho)
        BY <2>1 DEF ReadClose, PushAuto
      <3> QED BY <3>1, QueuedAnswer DEF Answered
    <2>2. CASE EchoReceived
      <3>1. closeSent
        BY <1>1, <2>2 DEF EchoReceived, ReaderMoves
      <3>2. Len(wire) >= 2 /\ wire[Len(wire)] = ClosingNotice[2]
        BY <1>1, <3>1 DEF NoticeInv
      <3>3. Len(wire) \in 1..Len(wire) /\ wire[Len(wire)].kind = "close"
        BY <3>2, KindFacts, Written
      <3> QED BY <1>1, <3>3 DEF Answered
    <2>3. CASE ~ReadClose /\ ~EchoReceived
      <3>1. clientClosed
        BY <1>5, <2>3, ReaderFrame
      <3>2. CASE UNCHANGED autoq
        BY <1>1, <1>2, <3>1, <3>2 DEF Answered
      <3>3. CASE ReadPing
        <4>1. rd' = "overflow" \/ autoq' = Append(autoq, Pong)
          BY <3>3 DEF ReadPing, PushAuto
        <4> QED BY <1>1, <1>2, <3>1, <4>1, QueuedAnswer DEF Answered
      <3> QED BY <2>3, <3>2, <3>3, ReaderFrame
    <2> QED BY <2>1, <2>2, <2>3
  <1> QED BY <1>1, <1>3, <1>4, <1>5 DEF Answered

\* The writer ends after a closing handshake or with an empty automatic queue.
LEMMA WriterEcho ==
  ASSUME TypeOK, NoticeInv, EchoInv, Writer, faults' = {}
  PROVE  EchoInv'
  <1> USE DEF EchoInv
  <1>1. /\ UNCHANGED <<rd, wire, clientClosed>> /\ faults = {}
        /\ wr \notin {"done", "writeFrame", "writeFlush", "writeNotice", "writeClose"}
    BY WriterFrame
  <1>2. closeSent => closeSent'
    BY WriterFrame DEF PublishCloseSent
  <1>3. wr' = "done" => \/ closeSent
                        \/ rd = "done" /\ autoq' = <<>>
    <2>1. wr' = "done" => AwaitEnds \/ FlushEnds
      BY DEF Writer, WriterMoves, WriterTop, PollFlags, TakeAuto, TakeMessage, KeepaliveTick,
         Park, PublishCloseSent, AwaitEnds, FlushAuto, FlushEnds
    <2>2. AwaitEnds => closeSent
      BY DEF AwaitEnds, WriterMoves, NoticeInv
    <2>3. FlushEnds => rd = "done" /\ autoq' = <<>>
      BY DEF FlushEnds
    <2> QED BY <2>1, <2>2, <2>3
  <1>4. ASSUME clientClosed' PROVE Answered'
    <2>1. Answered
      BY <1>1, <1>4 DEF Answered
    <2>2. CASE UNCHANGED autoq
      BY <1>1, <2>1, <2>2 DEF Answered
    <2>3. CASE TakeAuto \/ FlushAuto
      <3>1. /\ autoq # <<>> /\ autoq' = Tail(autoq) /\ out' = Head(autoq)
            /\ wr' \in {"writeFrame", "writeFlush"}
        BY <2>3 DEF TakeAuto, FlushAuto, WriterMoves
      <3>2. CASE Head(autoq) = CloseEcho
        BY <3>1, <3>2 DEF Answered
      <3>3. CASE Head(autoq) # CloseEcho
        <4>1. (\E i \in 1..Len(autoq) : autoq[i] = CloseEcho)
                => \E i \in 1..Len(autoq') : autoq'[i] = CloseEcho
          BY <3>1, <3>3, QueuedAnswer
        <4> QED BY <1>1, <2>1, <4>1 DEF Answered
      <3> QED BY <3>2, <3>3
    <2> QED BY <2>2, <2>3, WriterFrame
  <1> QED BY <1>1, <1>2, <1>3, <1>4 DEF Answered

\* A completed write puts the answer on the wire.
LEMMA NetworkEcho ==
  ASSUME TypeOK, OutInv, EchoInv, Network, faults' = {}
  PROVE  EchoInv'
  <1> USE DEF EchoInv
  <1>1. /\ UNCHANGED <<rd, closeSent, autoq, clientClosed>> /\ faults = {} /\ wr' # "done"
        /\ wire' = IF out.kind \in {"ping", "pong"} THEN wire ELSE Append(wire, out)
        /\ wr \in {"writeFrame", "writeNotice", "writeClose", "writeFlush"}
        /\ wr = "writeNotice" => wr' = "writeClose"
    BY NetworkFrame
  <1>2. ASSUME clientClosed' PROVE Answered'
    <2>1. Answered
      BY <1>1, <1>2 DEF Answered
    <2>2. CASE \E i \in 1..Len(wire) : wire[i].kind \in {"echo", "close"}
      <3>1. PICK i \in 1..Len(wire) : wire[i].kind \in {"echo", "close"}
        BY <2>2
      <3>2. i \in 1..Len(wire') /\ wire'[i] = wire[i]
        <4>1. CASE wire' = wire
          BY <3>1, <4>1
        <4>2. CASE wire' = Append(wire, out)
          BY <3>1, <4>2, Written
        <4> QED BY <1>1, <4>1, <4>2
      <3> QED BY <3>1, <3>2 DEF Answered
    <2>3. CASE out.kind \in {"echo", "close"}
      <3>1. wire' = Append(wire, out)
        BY <1>1, <2>3
      <3>2. Len(wire) + 1 \in 1..Len(wire') /\ wire'[Len(wire) + 1] = out
        BY <3>1, Written
      <3> QED BY <2>3, <3>2 DEF Answered
    <2>4. (wr \in {"writeFrame", "writeFlush"} /\ out = CloseEcho) \/ wr = "writeClose"
            => out.kind \in {"echo", "close"}
      BY KindFacts DEF OutInv
    <2> QED BY <1>1, <2>1, <2>2, <2>3, <2>4 DEF Answered
  <1> QED BY <1>1, <1>2 DEF Answered

LEMMA EchoStep ==
  TypeOK /\ Lifecycle /\ OutInv /\ NoticeInv /\ EchoInv /\ [Next]_vars => EchoInv'
  <1> SUFFICES ASSUME TypeOK, Lifecycle, OutInv, NoticeInv, EchoInv, [Next]_vars PROVE EchoInv'
    OBVIOUS
  <1>1. CASE faults' # {}
    BY <1>1 DEF EchoInv
  <1>2. ASSUME faults' = {},
               UNCHANGED <<rd, closeSent, wr, out, wire, autoq, clientClosed, faults>>
        PROVE  EchoInv'
    BY <1>2 DEF EchoInv
  <1>3. ASSUME faults' = {}, Socket PROVE EchoInv'
    <2>1. CASE UNCHANGED <<rd, wr>>
      BY <1>2, <1>3, <2>1, SocketFrame
    <2>2. CASE phase = "connecting" /\ rd' = "loop" /\ wr' = "loop"
      <3>1. ~clientClosed'
        BY <1>3, <2>2, SocketFrame DEF Lifecycle
      <3> QED BY <2>2, <3>1 DEF EchoInv
    <2> QED BY <1>3, <2>1, <2>2, SocketFrame
  <1>4. ASSUME NEW s \in Senders, faults' = {}, SendAccepted(s) PROVE EchoInv'
    BY <1>2, <1>4, SendFrame DEF writing
  <1> QED BY <1>1, <1>2, <1>3, <1>4, QuietStep, ReaderEcho, WriterEcho, NetworkEcho DEF writing

----------------------------------------------------------------------------
LEMMA InitIInv == Init => IInv
  <1> SUFFICES ASSUME Init PROVE IInv
    OBVIOUS
  <1>1. queue = <<>> /\ autoq = <<>> /\ wire = <<>> /\ accepted = 0
    BY DEF Init
  <1>2. Len(queue) = 0 /\ Len(autoq) = 0 /\ Len(wire) = 0
    BY <1>1
  <1>3. Taken = 0
    <2>1. accepted = 0 /\ Len(queue) = 0
      BY <1>1, <1>2
    <2> QED BY <2>1 DEF Taken
  <1>4. /\ queue \in Seq(1..MaxAccepted) /\ autoq \in Seq({Pong, CloseEcho})
        /\ wire \in Seq(Frames)
    BY <1>1, EmptySeq
  <1>5. TypeOK
    <2>1. accepted \in 0..MaxAccepted /\ 0 \in 0..MaxChatter
      BY <1>1, BoundsAreNat
    <2>2. Len(queue) <= Capacity /\ Len(autoq) <= Capacity
      BY <1>2, CapacityPositive
    <2>3. /\ phase \in Phases /\ rd \in ReaderStates /\ wr \in WriterStates /\ out \in Frames
          /\ signalling \subseteq Senders /\ faults \subseteq {"write", "auto"}
      BY FrameFacts DEF Init, Phases, ReaderStates, WriterStates
    <2>4. /\ shutdown \in BOOLEAN /\ disconnect \in BOOLEAN /\ clientClosed \in BOOLEAN
          /\ closeSent \in BOOLEAN /\ readerDone \in BOOLEAN /\ chatter = 0
      BY DEF Init
    <2> QED BY <1>4, <2>1, <2>2, <2>3, <2>4 DEF TypeOK
  <1>6. DOMAIN wire = 1..0
    BY <1>2, <1>5, Written
  <1>7. Lifecycle /\ OutInv /\ NoticeInv /\ EchoInv
    BY DEF Init, Lifecycle, OutInv, NoticeInv, EchoInv
  <1>8. QueueInv /\ ServedInv /\ DeliveredInOrder
    BY <1>1, <1>2, <1>3, <1>6 DEF QueueInv, ServedInv, DeliveredInOrder
  <1> QED BY <1>5, <1>7, <1>8 DEF IInv

LEMMA NextIInv == IInv /\ [Next]_vars => IInv'
  BY TypeStep, LifecycleStep, QueueStep, OutStep, ServedStep, DeliveredStep, NoticeStep,
     EchoStep DEF IInv

\* The whole inductive invariant holds of every connection, whatever its
\* capacity, its senders and the messages that cannot be serialised.
THEOREM Inductive == Spec => []IInv
  BY InitIInv, NextIInv, PTL DEF Spec

\* Every variable keeps its type; in particular neither bounded queue ever
\* holds more than outbound_channel_capacity entries.
THEOREM TypeCorrect == Spec => []TypeOK
  <1>1. IInv => TypeOK
    BY DEF IInv
  <1> QED BY <1>1, Inductive, PTL

\* The messages a client receives are those the queue accepted, in that
\* order, each once and without a gap.
THEOREM InOrder == Spec => []DeliveredInOrder
  <1>1. IInv => DeliveredInOrder
    BY DEF IInv
  <1> QED BY <1>1, Inductive, PTL

\* No message that HubContext::send accepted is lost as long as the writer
\* serves its queues.
THEOREM NothingLost == Spec => []NothingLostWhileServing
  <1>1. ASSUME IInv PROVE NothingLostWhileServing
    <2> USE <1>1 DEF IInv
    <2> SUFFICES ASSUME Serving, NEW k \in 1..accepted \ Unserializable
                 PROVE  \/ \E i \in DOMAIN queue : queue[i] = k
                        \/ wr = "writeFrame" /\ out = Message(k)
                        \/ \E i \in DOMAIN wire : wire[i] = Message(k)
      BY DEF NothingLostWhileServing, Serving
    <2>1. /\ accepted \in Nat /\ Len(queue) \in Nat /\ Len(queue) <= accepted
          /\ DOMAIN queue = 1..Len(queue) /\ DOMAIN wire = 1..Len(wire)
      BY LenProperties DEF TypeOK, QueueInv
    <2>2. CASE k <= Taken
      <3>1. k \in 1..Taken \ Unserializable
        BY <2>1, <2>2 DEF Taken
      <3> QED BY <2>1, <3>1 DEF ServedInv
    <2>3. CASE k > Taken
      <3>1. k - Taken \in 1..Len(queue) /\ Taken + (k - Taken) = k
        BY <2>1, <2>3 DEF Taken
      <3>2. queue[k - Taken] = k
        BY <3>1 DEF QueueInv
      <3> QED BY <2>1, <3>1, <3>2
    <2> QED BY <2>1, <2>2, <2>3 DEF Taken
  <1> QED BY <1>1, Inductive, PTL

\* Once the connection is over, a client that sent a Close frame was sent one,
\* unless a write failed or the automatic queue refused the echo.
THEOREM ClosesAnswered == Spec => []CloseAnswered
  <1>1. ASSUME IInv PROVE CloseAnswered
    <2> USE <1>1 DEF IInv
    <2> SUFFICES ASSUME phase \in {"disconnecting", "closed"}, clientClosed, faults = {}
                 PROVE  \E i \in DOMAIN wire : wire[i].kind \in {"echo", "close"}
      BY DEF CloseAnswered
    <2>1. rd = "done" /\ wr = "done"
      BY DEF Lifecycle
    <2>2. CASE closeSent
      <3>1. Len(wire) >= 2 /\ wire[Len(wire)] = ClosingNotice[2]
        BY <2>2 DEF NoticeInv
      <3>2. Len(wire) \in DOMAIN wire
        BY <3>1, Written
      <3> QED BY <3>1, <3>2, KindFacts
    <2>3. CASE ~closeSent
      <3>1. autoq = <<>>
        BY <2>1, <2>3 DEF EchoInv
      <3>2. Len(autoq) = 0
        BY <3>1
      <3>3. \E i \in 1..Len(wire) : wire[i].kind \in {"echo", "close"}
        BY <2>1, <3>2 DEF EchoInv
      <3> QED BY <3>3, Written
    <2> QED BY <2>2, <2>3
  <1> QED BY <1>1, Inductive, PTL

\* Nothing is written after the closing notice.
THEOREM NoticeIsLast == Spec => []NoticeEndsWire
  <1>1. IInv => NoticeEndsWire
    BY DEF IInv, NoticeInv, NoticeEndsWire
  <1> QED BY <1>1, Inductive, PTL

\* After on_disconnected was called no hub callback of the connection starts,
\* nothing is written and nothing is accepted for it.
THEOREM SilentOnceDisconnected == Spec => SilentAfterDisconnected
  <1>1. ASSUME IInv, [Next]_vars
        PROVE  [(phase \in {"disconnecting", "closed"})
                  => (rd' # "handle" /\ wire' = wire /\ accepted' = accepted)]_vars
    <2> SUFFICES ASSUME phase \in {"disconnecting", "closed"}
                 PROVE  rd' # "handle" /\ wire' = wire /\ accepted' = accepted
      OBVIOUS
    <2>1. rd \in {"none", "done"} /\ wr \in {"none", "done"}
      BY <1>1 DEF IInv, Lifecycle
    <2>2. ~Reader /\ ~Writer /\ ~Network
      BY <2>1, ReaderFrame, WriterFrame, NetworkFrame
    <2>3. \A s \in Senders : ~SendAccepted(s)
      BY SendFrame DEF ReceiverAlive
    <2>4. UNCHANGED <<rd, wire, accepted>>
      <3>1. CASE Socket
        BY <3>1, SocketFrame
      <3> QED BY <1>1, <2>2, <2>3, <3>1, QuietStep DEF writing
    <2> QED BY <2>1, <2>4
  <1> QED BY <1>1, Inductive, PTL DEF Spec, SilentAfterDisconnected

============================================================================
