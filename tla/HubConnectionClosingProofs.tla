-------------------- MODULE HubConnectionClosingProofs --------------------
(***************************************************************************)
(* Proof that the closing frames of HubConnection are written once each:   *)
(* the echo of the client's Close, the SignalR Close message and the       *)
(* WebSocket Close frame, with no echo behind the notice, for every set of *)
(* senders and every capacity.  The echo is followed from the automatic    *)
(* queue to the writer to the wire, and is at one of these places at most. *)
(***************************************************************************)
EXTENDS HubConnectionProofs

EchoQueued == \E i \in 1..Len(autoq) : autoq[i] = CloseEcho
EchoWriting == wr \in {"writeFrame", "writeFlush"} /\ out = CloseEcho
EchoWritten == \E i \in 1..Len(wire) : wire[i] = CloseEcho
Closed(kinds) == \E i \in 1..Len(wire) : wire[i].kind \in kinds

\* A reader that has read the client's Close reads no more, hence queues one
\* echo; the echo is in one place.
EchoPlace ==
    /\ clientClosed => rd \in {"overflow", "ending", "dropping", "done"}
    /\ EchoQueued \/ EchoWriting \/ EchoWritten => clientClosed
    /\ \A i, j \in 1..Len(autoq) : autoq[i] = CloseEcho /\ autoq[j] = CloseEcho => i = j
    /\ ~(EchoQueued /\ EchoWriting) /\ ~(EchoQueued /\ EchoWritten) /\ ~(EchoWriting /\ EchoWritten)

\* What is written outside the closing handshake is no part of it, and of the
\* notice there is on the wire what the writer has passed.
NoticePlace ==
    /\ wr \in {"writeFrame", "writeFlush"} => out.kind \notin {"notice", "close"}
    /\ wr \notin {"writeClose", "publish", "awaitReader", "done"} => ~Closed({"notice", "close"})
    /\ wr = "writeClose" => ~Closed({"close"})

ClosingInv == EchoPlace /\ NoticePlace /\ ClosingFramesOnce

----------------------------------------------------------------------------
LEMMA EchoKind == \A f \in Frames : f.kind = "echo" <=> f = CloseEcho
  BY DEF Frames, Controls, Control, Message, CloseEcho

LEMMA NoticeKind == /\ ClosingNotice[1] # CloseEcho /\ ClosingNotice[2] # CloseEcho
                    /\ Control("ping") # CloseEcho /\ Pong # CloseEcho
                    /\ \A k \in Int : Message(k) # CloseEcho
  BY KindFacts

\* What read_frame's send_fn may do to the automatic queue.
LEMMA QueuedStep ==
  ASSUME TypeOK, [Next]_vars
  PROVE  \/ UNCHANGED autoq
         \/ ReadPing /\ autoq' = Append(autoq, Pong)
         \/ ReadClose /\ autoq' = Append(autoq, CloseEcho)
         \/ TakeAuto \/ FlushAuto
  <1>1. ReadPing => UNCHANGED autoq \/ autoq' = Append(autoq, Pong)
    BY DEF ReadPing, PushAuto
  <1>2. ReadClose => UNCHANGED autoq \/ autoq' = Append(autoq, CloseEcho)
    BY DEF ReadClose, PushAuto
  <1> QED BY <1>1, <1>2, QuietStep, SendFrame, SocketFrame, ReaderFrame, WriterFrame, NetworkFrame

\* The writer's frame becomes the echo only when it is taken from the queue.
LEMMA WritingStep ==
  ASSUME TypeOK, Lifecycle, [Next]_vars, ~TakeAuto, ~FlushAuto, EchoWriting'
  PROVE  EchoWriting /\ ~Network
  <1>1. CASE Writer
    <2> USE DEF WriterMoves, EchoWriting
    <2>1. CASE WriterTop BY <2>1 DEF WriterTop
    <2>2. CASE PollFlags \/ Park \/ PublishCloseSent \/ AwaitEnds \/ FlushEnds
      BY <2>2 DEF PollFlags, Park, PublishCloseSent, AwaitEnds, FlushEnds
    <2>3. CASE TakeMessage
      <3>1. CASE out' = out /\ wr' = "loop"
        BY <3>1
      <3>2. CASE out' = Message(Head(queue))
        <4>1. Head(queue) \in Int
          <5>1. queue # <<>> /\ queue \in Seq(1..MaxAccepted)
            BY <2>3 DEF TakeMessage, TypeOK
          <5>2. Head(queue) \in 1..MaxAccepted
            BY <5>1, ReceiveType
          <5> QED BY <5>2
        <4> QED BY <3>2, <4>1, NoticeKind
      <3> QED BY <2>3, <3>1, <3>2 DEF TakeMessage
    <2>4. CASE KeepaliveTick
      BY <2>4, NoticeKind DEF KeepaliveTick
    <2> QED BY <1>1, <2>1, <2>2, <2>3, <2>4 DEF Writer
  <1>2. CASE Network
    <2>1. wr' \notin {"writeFrame", "writeFlush"}
      BY <1>2, NetworkFrame
    <2> QED BY <2>1 DEF EchoWriting
  <1>3. CASE SpawnTasks
    BY <1>3 DEF SpawnTasks, EchoWriting
  <1>4. CASE UNCHANGED <<wr, out>> /\ ~Network
    BY <1>4 DEF EchoWriting
  <1> QED BY <1>1, <1>2, <1>3, <1>4, WireStep

\* Once the client's Close was read, no other is.
LEMMA ClientClosedStep ==
  ASSUME TypeOK, Lifecycle, EchoPlace, [Next]_vars
  PROVE  /\ (clientClosed => rd \in {"overflow", "ending", "dropping", "done"})'
         /\ clientClosed => clientClosed'
         /\ ReadClose => ~clientClosed /\ clientClosed'
  <1>1. ReadClose => ~clientClosed /\ clientClosed' /\ rd' \in {"overflow", "ending"}
    BY DEF ReadClose, PushAuto, EchoPlace
  <1>2. EchoReceived => clientClosed' /\ rd' = "ending"
    BY DEF EchoReceived, ReaderMoves
  <1>3. CASE Reader /\ ~ReadClose /\ ~EchoReceived
    <2>1. clientClosed' = clientClosed
      BY <1>3, ReaderFrame
    <2>2. ASSUME clientClosed PROVE rd' \in {"overflow", "ending", "dropping", "done"}
      <3>1. rd \in {"overflow", "ending", "dropping"}
        BY <1>3, <2>2, ReaderFrame DEF EchoPlace
      <3> QED BY <1>3, <2>2, <3>1 DEF Reader, ReaderMoves, ReaderTop, SeeCloseSent, ReadData,
                 HandlerReturns, HandlerPanics, ReadPing, AutoRefused, ReadEnds, EchoIgnored,
                 EchoEnds, AnnounceReaderDone, DropAutoSender
    <2> QED BY <1>3, <2>1, <2>2
  <1>4. CASE Socket
    <2>1. clientClosed' = clientClosed /\ ~ReadClose
      BY <1>4, SocketFrame DEF ReadClose, Lifecycle, Socket, HandshakeEnds, SpawnTasks,
         OnConnectedPanics, Joined, OnDisconnectedEnds, PhaseMoves
    <2>2. CASE UNCHANGED rd
      BY <2>1, <2>2 DEF EchoPlace
    <2>3. CASE phase = "connecting"
      BY <2>1, <2>3 DEF Lifecycle
    <2> QED BY <1>4, <2>1, <2>2, <2>3, SocketFrame
  <1>5. CASE UNCHANGED <<rd, clientClosed>> /\ ~Reader
    BY <1>5 DEF EchoPlace, Reader
  <1>6. \/ UNCHANGED <<rd, clientClosed>> \/ Socket \/ Reader
    BY QuietStep, SendFrame, WriterFrame, NetworkFrame
  <1> QED BY <1>1, <1>2, <1>3, <1>4, <1>5, <1>6 DEF Reader

LEMMA EchoPlaceStep == TypeOK /\ Lifecycle /\ OutInv /\ EchoPlace /\ [Next]_vars => EchoPlace'
  <1> SUFFICES ASSUME TypeOK, Lifecycle, OutInv, EchoPlace, [Next]_vars PROVE EchoPlace'
    OBVIOUS
  <1>1. /\ (clientClosed => rd \in {"overflow", "ending", "dropping", "done"})'
        /\ clientClosed => clientClosed'
    BY ClientClosedStep
  <1>2. ASSUME wire' = wire PROVE EchoWritten' = EchoWritten
    BY <1>2 DEF EchoWritten
  <1>3. CASE autoq' = autoq
    <2>1. EchoQueued' = EchoQueued
      BY <1>3 DEF EchoQueued
    <2>2. ~TakeAuto /\ ~FlushAuto
      <3>1. autoq # <<>> => Tail(autoq) # autoq
        BY ReceiveType DEF TypeOK
      <3> QED BY <1>3, <3>1 DEF TakeAuto, FlushAuto
    <2>3. EchoWriting' => EchoWriting /\ ~Network
      BY <2>2, WritingStep
    <2>4. CASE wire' = wire
      BY <1>1, <1>2, <1>3, <2>1, <2>3, <2>4 DEF EchoPlace
    <2>5. CASE wire' # wire
      <3>1. Network /\ wire' = Append(wire, out)
        BY <2>5, WireStep
      <3>2. EchoWritten' => EchoWritten \/ out = CloseEcho
        BY <3>1, Written DEF EchoWritten
      <3>3. out = CloseEcho => EchoWriting
        BY <3>1, NetworkFrame, NoticeKind DEF EchoWriting, OutInv
      <3>4. ~EchoWriting'
        BY <2>3, <3>1
      <3> QED BY <1>1, <1>3, <2>1, <3>2, <3>3, <3>4 DEF EchoPlace
    <2> QED BY <2>4, <2>5
  <1>4. CASE ReadPing /\ autoq' = Append(autoq, Pong)
    <2>1. UNCHANGED <<wr, out, wire>>
      BY <1>4 DEF ReadPing, writing
    <2>2. /\ Len(autoq) \in Nat /\ Len(autoq') = Len(autoq) + 1
          /\ \A i \in 1..Len(autoq) : autoq'[i] = autoq[i]
          /\ autoq'[Len(autoq) + 1] # CloseEcho
      BY <1>4, QueuedAnswer, NoticeKind
    <2>3. EchoQueued' => EchoQueued
      BY <2>2 DEF EchoQueued
    <2>4. (\A i, j \in 1..Len(autoq) : autoq[i] = CloseEcho /\ autoq[j] = CloseEcho => i = j)'
      BY <2>2 DEF EchoPlace
    <2> QED BY <1>1, <1>2, <2>1, <2>3, <2>4 DEF EchoPlace, EchoWriting
  <1>5. CASE ReadClose /\ autoq' = Append(autoq, CloseEcho)
    <2>1. UNCHANGED <<wr, out, wire>> /\ ~clientClosed /\ clientClosed'
      BY <1>5, ClientClosedStep DEF ReadClose, writing
    <2>2. ~EchoQueued /\ ~EchoWriting /\ ~EchoWritten
      BY <2>1 DEF EchoPlace
    <2>3. /\ Len(autoq) \in Nat /\ Len(autoq') = Len(autoq) + 1
          /\ \A i \in 1..Len(autoq) : autoq'[i] = autoq[i]
      BY <1>5, QueuedAnswer
    <2>4. (\A i, j \in 1..Len(autoq) : autoq[i] = CloseEcho /\ autoq[j] = CloseEcho => i = j)'
      BY <2>2, <2>3 DEF EchoQueued
    <2> QED BY <1>1, <1>2, <2>1, <2>2, <2>4 DEF EchoPlace, EchoWriting
  <1>6. CASE TakeAuto \/ FlushAuto
    <2>1. /\ autoq # <<>> /\ out' = Head(autoq) /\ autoq' = Tail(autoq)
          /\ wr \notin {"writeFrame", "writeFlush"} /\ wire' = wire /\ clientClosed' = clientClosed
      BY <1>6 DEF TakeAuto, FlushAuto, WriterMoves
    <2>2. /\ Head(autoq) = autoq[1] /\ Len(autoq) \in Nat \ {0} /\ Len(autoq') = Len(autoq) - 1
          /\ \A i \in 1..Len(autoq') : autoq'[i] = autoq[i + 1]
      BY <2>1, ReceiveType DEF TypeOK
    <2>3. EchoWriting' => EchoQueued /\ ~EchoQueued'
      BY <2>1, <2>2 DEF EchoWriting, EchoQueued, EchoPlace
    <2>4. EchoQueued' => EchoQueued
      BY <2>2 DEF EchoQueued
    <2>5. (\A i, j \in 1..Len(autoq) : autoq[i] = CloseEcho /\ autoq[j] = CloseEcho => i = j)'
      BY <2>2 DEF EchoPlace
    <2> QED BY <1>1, <1>2, <2>1, <2>3, <2>4, <2>5 DEF EchoPlace
  <1> QED BY <1>3, <1>4, <1>5, <1>6, QueuedStep

\* Outside the closing handshake the writer begins to write nothing of it.
LEMMA WritesNoNotice ==
  ASSUME TypeOK, NoticePlace, [Next]_vars, wr' \in {"writeFrame", "writeFlush"}
  PROVE  out'.kind \notin {"notice", "close"}
  <1> USE DEF WriterMoves
  <1>1. CASE TakeAuto \/ FlushAuto
    <2>1. autoq # <<>> /\ out' = Head(autoq) /\ autoq \in Seq({Pong, CloseEcho})
      BY <1>1 DEF TakeAuto, FlushAuto, TypeOK
    <2>2. out' \in {Pong, CloseEcho}
      BY <2>1, ReceiveType
    <2>3. Pong.kind = "pong" /\ CloseEcho.kind = "echo"
      BY KindFacts
    <2> QED BY <2>2, <2>3
  <1>2. CASE TakeMessage
    <2>1. queue # <<>> /\ queue \in Seq(1..MaxAccepted)
      BY <1>2 DEF TakeMessage, TypeOK
    <2>2. Head(queue) \in 1..MaxAccepted
      BY <2>1, ReceiveType
    <2>3. out' = Message(Head(queue))
      BY <1>2 DEF TakeMessage
    <2>4. Message(Head(queue)).kind = "message"
      BY DEF Message
    <2> QED BY <2>3, <2>4
  <1>3. CASE KeepaliveTick
    BY <1>3, KindFacts DEF KeepaliveTick
  <1>4. ~WriterTop /\ ~PollFlags /\ ~Park /\ ~PublishCloseSent /\ ~AwaitEnds /\ ~FlushEnds
    BY DEF WriterTop, PollFlags, Park, PublishCloseSent, AwaitEnds, FlushEnds
  <1>5. CASE UNCHANGED <<wr, out>>
    BY <1>5 DEF NoticePlace
  <1>6. ~Network /\ ~SpawnTasks
    BY NetworkFrame DEF SpawnTasks
  <1> QED BY <1>1, <1>2, <1>3, <1>4, <1>5, <1>6, WireStep DEF Writer

LEMMA NoticePlaceStep == TypeOK /\ Lifecycle /\ OutInv /\ NoticePlace /\ [Next]_vars => NoticePlace'
  <1> SUFFICES ASSUME TypeOK, Lifecycle, OutInv, NoticePlace, [Next]_vars PROVE NoticePlace'
    OBVIOUS
  <1>1. wr' \in {"writeFrame", "writeFlush"} => out'.kind \notin {"notice", "close"}
    BY WritesNoNotice
  <1>2. ASSUME wire' = wire, NEW kinds PROVE Closed(kinds)' = Closed(kinds)
    BY <1>2 DEF Closed
  <1>3. CASE Writer
    <2>1. wire' = wire /\ wr' # "writeClose"
      BY <1>3, WriterFrame
    <2>2. CASE wr \in {"publish", "awaitReader"}
      <3>1. wr' \in {"awaitReader", "done"}
        BY <1>3, <2>2 DEF Writer, WriterMoves, WriterTop, PollFlags, TakeAuto, TakeMessage,
           KeepaliveTick, Park, PublishCloseSent, AwaitEnds, FlushAuto, FlushEnds
      <3> QED BY <1>1, <2>1, <3>1 DEF NoticePlace
    <2>3. CASE wr \notin {"publish", "awaitReader"}
      <3>1. ~Closed({"notice", "close"})
        BY <1>3, <2>3, WriterFrame DEF NoticePlace
      <3> QED BY <1>1, <1>2, <2>1, <3>1 DEF NoticePlace
    <2> QED BY <2>2, <2>3
  <1>4. CASE Network
    <2>1. wire' = wire \/ wire' = Append(wire, out)
      BY <1>4, NetworkFrame
    <2>2. ASSUME NEW kinds, Closed(kinds)' PROVE Closed(kinds) \/ out.kind \in kinds
      BY <2>1, <2>2, Written DEF Closed
    <2>3. CASE wr \in {"writeFrame", "writeFlush"}
      <3>1. ~Closed({"notice", "close"})' /\ wr' \in {"loop", "flush", "done"}
        BY <1>4, <2>2, <2>3, NetworkFrame DEF NoticePlace
      <3> QED BY <3>1 DEF NoticePlace
    <2>4. CASE wr = "writeNotice"
      <3>1. ~Closed({"notice", "close"}) => ~Closed({"close"})
        BY DEF Closed
      <3>2. ~Closed({"close"})' /\ wr' = "writeClose"
        BY <1>4, <2>2, <2>4, <3>1, NetworkFrame, KindFacts DEF NoticePlace, OutInv
      <3> QED BY <3>2 DEF NoticePlace
    <2>5. CASE wr = "writeClose"
      BY <1>4, <2>5, NetworkFrame DEF NoticePlace
    <2> QED BY <1>4, <2>3, <2>4, <2>5, NetworkFrame
  <1>5. CASE SpawnTasks
    <2>1. wr = "none" /\ wr' = "loop" /\ wire' = wire
      BY <1>5 DEF SpawnTasks, PhaseMoves, Lifecycle
    <2> QED BY <1>2, <2>1 DEF NoticePlace
  <1>6. CASE UNCHANGED <<wr, out, wire>>
    BY <1>2, <1>6 DEF NoticePlace
  <1> QED BY <1>3, <1>4, <1>5, <1>6, WireStep

\* A frame that is appended to the wire is new there if it is a closing frame,
\* and an echo only as long as no other closing frame is there.
LEMMA OnceStep ==
  TypeOK /\ OutInv /\ ClosingInv /\ [Next]_vars => ClosingFramesOnce'
  <1> SUFFICES ASSUME TypeOK, OutInv, ClosingInv, [Next]_vars, wire' # wire
               PROVE  ClosingFramesOnce'
    BY DEF ClosingInv, ClosingFramesOnce
  <1> USE DEF ClosingInv
  <1>1. Network /\ wire' = Append(wire, out)
    BY WireStep
  <1>2. /\ Len(wire) \in Nat /\ DOMAIN wire = 1..Len(wire)
        /\ DOMAIN wire' = 1..(Len(wire) + 1) /\ wire'[Len(wire) + 1] = out
        /\ \A i \in 1..Len(wire) : wire'[i] = wire[i] /\ wire[i] \in Frames
    BY <1>1, Written
  <1>3. ASSUME NEW i \in 1..Len(wire), wire[i].kind \in {"echo", "notice", "close"}
        PROVE  out # wire[i] /\ out.kind # "echo"
    <2>1. CASE wr \in {"writeFrame", "writeFlush"}
      <3>1. wire[i].kind = "echo" /\ wire[i] = CloseEcho
        BY <1>2, <1>3, <2>1, EchoKind DEF NoticePlace, Closed
      <3>2. ~EchoWriting
        BY <3>1 DEF EchoPlace, EchoWritten
      <3>3. out \in Frames
        BY DEF TypeOK
      <3> QED BY <2>1, <3>1, <3>2, <3>3, EchoKind DEF EchoWriting
    <2>2. CASE wr = "writeNotice"
      <3>1. out.kind = "notice"
        BY <2>2, KindFacts DEF OutInv
      <3>2. wire[i].kind = "echo"
        BY <1>3, <2>2 DEF NoticePlace, Closed
      <3> QED BY <3>1, <3>2
    <2>3. CASE wr = "writeClose"
      <3>1. out.kind = "close"
        BY <2>3, KindFacts DEF OutInv
      <3>2. wire[i].kind # "close"
        BY <1>3, <2>3 DEF NoticePlace, Closed
      <3> QED BY <3>1, <3>2
    <2> QED BY <1>1, <2>1, <2>2, <2>3, NetworkFrame
  <1>4. ASSUME NEW i \in DOMAIN wire', NEW j \in DOMAIN wire', i < j,
               wire'[i].kind \in {"echo", "notice", "close"}
        PROVE  wire'[j] # wire'[i] /\ wire'[j].kind # "echo"
    <2>1. i \in 1..Len(wire) /\ wire'[i] = wire[i]
      BY <1>2, <1>4
    <2>2. CASE j = Len(wire) + 1
      BY <1>2, <1>3, <1>4, <2>1, <2>2
    <2>3. CASE j \in 1..Len(wire)
      BY <1>2, <1>4, <2>1, <2>3 DEF ClosingFramesOnce
    <2> QED BY <1>2, <2>2, <2>3
  <1> QED BY <1>4 DEF ClosingFramesOnce

----------------------------------------------------------------------------
\* When the server's notice and the client's Close cross, each closing frame is
\* written once, and the echo only before the notice.
THEOREM ClosesOnce == Spec => []ClosingFramesOnce
  <1>1. Init => ClosingInv
    BY EmptySeq, KindFacts DEF Init, ClosingInv, EchoPlace, NoticePlace, ClosingFramesOnce, EchoQueued,
       EchoWriting, EchoWritten, Closed
  <1>2. IInv /\ ClosingInv /\ [Next]_vars => ClosingInv'
    BY EchoPlaceStep, NoticePlaceStep, OnceStep DEF IInv, ClosingInv
  <1>3. ClosingInv => ClosingFramesOnce
    BY DEF ClosingInv
  <1> QED BY <1>1, <1>2, <1>3, Inductive, PTL DEF Spec

============================================================================
