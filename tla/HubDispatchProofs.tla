------------------------- MODULE HubDispatchProofs -------------------------
(***************************************************************************)
(* Proofs of the safety properties of HubDispatch, for every capacity,     *)
(* every set of batches and every bound: each invocation is answered at    *)
(* most once and nothing follows its completion, answers come in the order *)
(* of the invocations, a frame's messages fare as their frame does, an     *)
(* invocation that was handled has its completion in the queue, and what a *)
(* task forwards is in the order of the channel.                           *)
(***************************************************************************)
EXTENDS HubDispatch, SequenceTheorems, TLAPS

Pending(nr) == parts[nr].fate \in {"waiting", "running"}

\* The reader handles one message at a time, in the order of the messages, and
\* those it has not handled are all of the frame it read last.  Once it has lost
\* one it handles none.
OneAtATime ==
    /\ \A i \in DOMAIN parts : parts[i].fate = "running" => busy
    /\ \A i \in DOMAIN parts : Pending(i) => parts[i].frame = Len(frames)
    /\ \A i, j \in DOMAIN parts :
           i < j /\ Pending(i) => parts[j].fate \in {"waiting", "dropped"}
    /\ \A i \in DOMAIN parts : parts[i].fate = "lost" =>
           /\ ~reading
           /\ \A j \in DOMAIN parts : /\ ~Pending(j)
                                      /\ i < j => parts[j].fate \in {"dropped", "lost"}

\* A task is that of a stream whose callback returned, or of on_connected.
TasksOfStreams ==
    \A t \in DOMAIN tasks : tasks[t].at # "none" =>
        IF t = 0 THEN tasks[t].at # "completing"
                 ELSE HasFate(t, {"done"}) /\ parts[t].kind = "stream"

\* Who is completed: a message that was handled, and none whose task may still
\* send on its behalf.
CompletedAreDone ==
    \A c \in DOMAIN out : out[c].kind = "completion" =>
        /\ HasFate(out[c].nr, {"done"})
        /\ parts[out[c].nr].kind \in {"call", "stream"}
        /\ tasks[out[c].nr].at \in {"none", "ended"}

\* Where a task is, as its items in the queue show it.
ItemsTrackTask ==
    \A i \in DOMAIN out : out[i].kind = "item" =>
        LET task == tasks[out[i].nr] IN
        /\ task.at # "none"
        /\ out[i].item < task.next
        /\ (\A k \in DOMAIN out : k > i => out[k].nr # out[i].nr) =>
               task.lagged \/ out[i].item = task.next - 1

Answers == CompletedAreDone /\ CompletionIsLast /\ AnswersInOrder /\ DoneMeansAnswered
Items == ItemsTrackTask /\ ItemsInOrder

IInv == TypeOK /\ OneAtATime /\ TasksOfStreams /\ BatchOutcome /\ Answers /\ Items

----------------------------------------------------------------------------
\* What TypeOK says of the messages, the queue and the tasks, element by element.
LEMMA Elements ==
  ASSUME TypeOK
  PROVE  /\ Len(frames) \in Nat
         /\ Len(parts) \in 0..MaxMessages /\ DOMAIN parts = 1..Len(parts)
         /\ \A i \in 1..Len(parts) : /\ parts[i].kind \in Kinds
                                     /\ parts[i].frame \in 1..Len(frames)
                                     /\ parts[i].fate \in Fates
         /\ Len(out) \in Nat /\ DOMAIN out = 1..Len(out)
         /\ \A i \in 1..Len(out) : out[i].nr \in 0..MaxMessages /\ out[i].item \in 0..MaxPublished
         /\ DOMAIN tasks = 0..MaxMessages
         /\ \A t \in 0..MaxMessages : /\ tasks[t].at \in TaskStates
                                      /\ tasks[t].next \in 1..(MaxPublished + 1)
                                      /\ tasks[t].lagged \in BOOLEAN
  <1> DEFINE Part == [kind : Kinds, frame : 1..Len(frames), fate : Fates]
             Sent == [kind : {"completion", "item", "welcome"}, nr : 0..MaxMessages,
                      item : 0..MaxPublished]
  <1>1. parts \in Seq(Part) /\ out \in Seq(Sent) /\ Len(frames) \in Nat
    BY LenProperties DEF TypeOK
  <1>2. /\ Len(parts) \in Nat /\ DOMAIN parts = 1..Len(parts)
        /\ \A i \in 1..Len(parts) : parts[i] \in Part
    <2> HIDE DEF Part
    <2> QED BY <1>1, LenProperties, ElementOfSeq
  <1>3. /\ Len(out) \in Nat /\ DOMAIN out = 1..Len(out)
        /\ \A i \in 1..Len(out) : out[i] \in Sent
    <2> HIDE DEF Sent
    <2> QED BY <1>1, LenProperties, ElementOfSeq
  <1>4. /\ DOMAIN tasks = 0..MaxMessages
        /\ \A t \in 0..MaxMessages : /\ tasks[t].at \in TaskStates
                                     /\ tasks[t].next \in 1..(MaxPublished + 1)
                                     /\ tasks[t].lagged \in BOOLEAN
    BY DEF TypeOK
  <1>5. Len(parts) \in 0..MaxMessages
    BY <1>2, BoundsAreNat DEF TypeOK
  <1>6. \A i \in 1..Len(parts) : /\ parts[i].kind \in Kinds
                                 /\ parts[i].frame \in 1..Len(frames)
                                 /\ parts[i].fate \in Fates
    BY <1>2
  <1>7. \A i \in 1..Len(out) : out[i].nr \in 0..MaxMessages /\ out[i].item \in 0..MaxPublished
    BY <1>3
  <1> QED BY <1>1, <1>2, <1>3, <1>4, <1>5, <1>6, <1>7

\* What Settle does to each message, and that nothing else happens to them.
LEMMA Settled ==
  ASSUME TypeOK, NEW nr \in DOMAIN parts, NEW fate \in Fates,
         parts[nr].fate = "running", Settle(nr, fate)
  PROVE  /\ busy' = FALSE
         /\ parts' \in Seq([kind : Kinds, frame : 1..Len(frames), fate : Fates])
         /\ Len(parts') = Len(parts) /\ DOMAIN parts' = DOMAIN parts
         /\ \A i \in DOMAIN parts :
              /\ parts'[i].kind = parts[i].kind /\ parts'[i].frame = parts[i].frame
              /\ parts'[i].fate = IF i = nr THEN fate
                                  ELSE IF parts[i].fate = "waiting" /\ fate = "failed" /\ Strict(nr)
                                  THEN "dropped" ELSE parts[i].fate
  <1> DEFINE Part == [kind : Kinds, frame : 1..Len(frames), fate : Fates]
             New(i) == [parts[i] EXCEPT !.fate =
                          CASE i = nr -> fate
                            [] i \in Waiting /\ fate = "failed" /\ Strict(nr) -> "dropped"
                            [] OTHER -> @]
  <1>1. /\ Len(parts) \in Nat /\ DOMAIN parts = 1..Len(parts)
        /\ \A i \in 1..Len(parts) : parts[i] \in Part
    <2>1. parts \in Seq(Part)
      BY DEF TypeOK
    <2> HIDE DEF Part
    <2> QED BY <2>1, LenProperties, ElementOfSeq
  <1>2. parts' = [i \in 1..Len(parts) |-> New(i)] /\ busy' = FALSE
    BY <1>1 DEF Settle
  <1>3. ASSUME NEW i \in 1..Len(parts)
        PROVE  /\ New(i) \in Part
               /\ New(i).kind = parts[i].kind /\ New(i).frame = parts[i].frame
               /\ New(i).fate = IF i = nr THEN fate
                                ELSE IF parts[i].fate = "waiting" /\ fate = "failed" /\ Strict(nr)
                                THEN "dropped" ELSE parts[i].fate
    <2> DEFINE end == CASE i = nr -> fate
                        [] i \in Waiting /\ fate = "failed" /\ Strict(nr) -> "dropped"
                        [] OTHER -> parts[i].fate
    <2>1. end = IF i = nr THEN fate
                ELSE IF parts[i].fate = "waiting" /\ fate = "failed" /\ Strict(nr)
                THEN "dropped" ELSE parts[i].fate
      BY <1>1 DEF Waiting
    <2>2. end \in Fates
      BY <1>1, <2>1 DEF Fates
    <2>3. New(i) = [parts[i] EXCEPT !.fate = end]
      OBVIOUS
    <2> HIDE DEF end, New
    <2> QED BY <1>1, <2>1, <2>2, <2>3
  <1>4. parts' \in [1..Len(parts) -> Part]
    BY <1>2, <1>3
  <1>5. parts' \in Seq(Part) /\ DOMAIN parts' = 1..Len(parts) /\ Len(parts') = Len(parts)
    <2>1. parts' \in Seq(Part)
      <3> HIDE DEF Part
      <3> QED BY <1>1, <1>4, SeqDef
    <2> HIDE DEF Part
    <2> QED BY <1>1, <1>4, <2>1, LenProperties
  <1> QED BY <1>1, <1>2, <1>3, <1>5

\* What a panic does to the messages.
LEMMA Unwound ==
  ASSUME TypeOK, NEW nr \in DOMAIN parts, CallbackPanics(nr)
  PROVE  /\ busy' = FALSE /\ reading' = FALSE /\ parts[nr].fate = "running"
         /\ parts' \in Seq([kind : Kinds, frame : 1..Len(frames), fate : Fates])
         /\ Len(parts') = Len(parts) /\ DOMAIN parts' = DOMAIN parts
         /\ \A i \in DOMAIN parts :
              /\ parts'[i].kind = parts[i].kind /\ parts'[i].frame = parts[i].frame
              /\ parts'[i].fate = IF i = nr \/ parts[i].fate = "waiting" THEN "lost" ELSE parts[i].fate
         /\ UNCHANGED <<protocol, frames, tasks, published, out, written, open>>
  <1> DEFINE Part == [kind : Kinds, frame : 1..Len(frames), fate : Fates]
             New(i) == [parts[i] EXCEPT !.fate = IF i = nr \/ i \in Waiting THEN "lost" ELSE @]
  <1>1. /\ Len(parts) \in Nat /\ DOMAIN parts = 1..Len(parts)
        /\ \A i \in 1..Len(parts) : parts[i] \in Part
    <2>1. parts \in Seq(Part)
      BY DEF TypeOK
    <2> HIDE DEF Part
    <2> QED BY <2>1, LenProperties, ElementOfSeq
  <1>2. /\ parts' = [i \in 1..Len(parts) |-> New(i)]
        /\ busy' = FALSE /\ reading' = FALSE /\ parts[nr].fate = "running"
        /\ UNCHANGED <<protocol, frames, tasks, published, out, written, open>>
    BY <1>1 DEF CallbackPanics, queue
  <1>3. ASSUME NEW i \in 1..Len(parts)
        PROVE  /\ New(i) \in Part
               /\ New(i).kind = parts[i].kind /\ New(i).frame = parts[i].frame
               /\ New(i).fate = IF i = nr \/ parts[i].fate = "waiting" THEN "lost" ELSE parts[i].fate
    BY <1>1 DEF Waiting, Fates
  <1>4. parts' \in [1..Len(parts) -> Part]
    BY <1>2, <1>3
  <1>5. parts' \in Seq(Part) /\ DOMAIN parts' = 1..Len(parts) /\ Len(parts') = Len(parts)
    <2>1. parts' \in Seq(Part)
      <3> HIDE DEF Part
      <3> QED BY <1>1, <1>4, SeqDef
    <2> HIDE DEF Part
    <2> QED BY <1>1, <1>4, <2>1, LenProperties
  <1> QED BY <1>1, <1>2, <1>3, <1>5

\* What Dispatch does to the messages.
LEMMA Dispatched ==
  ASSUME TypeOK, NEW nr \in DOMAIN parts, Dispatch(nr)
  PROVE  /\ parts' \in Seq([kind : Kinds, frame : 1..Len(frames), fate : Fates])
         /\ Len(parts') = Len(parts) /\ DOMAIN parts' = DOMAIN parts
         /\ \A i \in DOMAIN parts : i # nr => parts'[i] = parts[i]
         /\ parts'[nr].kind = parts[nr].kind /\ parts'[nr].frame = parts[nr].frame
         /\ parts'[nr].fate = IF parts[nr].kind = "ignored" THEN "done" ELSE "running"
         /\ parts[nr].fate = "waiting" /\ \A i \in Waiting : nr <= i
         /\ ~busy /\ busy' \in BOOLEAN /\ (parts[nr].kind # "ignored" => busy')
         /\ UNCHANGED <<protocol, frames, reading, tasks, published, out, written, open>>
  <1> DEFINE Part == [kind : Kinds, frame : 1..Len(frames), fate : Fates]
             new == [parts[nr] EXCEPT !.fate =
                       IF parts[nr].kind = "ignored" THEN "done" ELSE "running"]
  <1>1. parts \in Seq(Part) /\ parts[nr] \in Part /\ nr \in 1..Len(parts)
        /\ DOMAIN parts = 1..Len(parts)
    <2>1. parts \in Seq(Part)
      BY DEF TypeOK
    <2> HIDE DEF Part
    <2> QED BY <2>1, ElementOfSeq, LenProperties
  <1>2. /\ new \in Part /\ new.kind = parts[nr].kind /\ new.frame = parts[nr].frame
        /\ new.fate = IF parts[nr].kind = "ignored" THEN "done" ELSE "running"
    BY <1>1 DEF Fates
  <1>3. parts' = [parts EXCEPT ![nr] = new]
    BY DEF Dispatch
  <1>4. /\ parts' \in Seq(Part) /\ Len(parts') = Len(parts)
        /\ \A j \in 1..Len(parts) : parts'[j] = IF j = nr THEN new ELSE parts[j]
    <2> HIDE DEF Part, new
    <2> QED BY <1>1, <1>2, <1>3, ExceptSeq
  <1>5. DOMAIN parts' = DOMAIN parts
    <2> HIDE DEF Part
    <2> QED BY <1>1, <1>4, LenProperties
  <1>6. busy' \in BOOLEAN /\ (parts[nr].kind # "ignored" => busy')
    BY Zenon DEF Dispatch
  <1>7. /\ parts[nr].fate = "waiting" /\ \A i \in Waiting : nr <= i
        /\ ~busy
        /\ UNCHANGED <<protocol, frames, reading, tasks, published, out, written, open>>
    BY DEF Dispatch, First, Waiting, queue
  <1> QED
    <2> HIDE DEF new
    <2> QED BY <1>1, <1>2, <1>4, <1>5, <1>6, <1>7

\* What a frame adds to the messages.
LEMMA FrameRead ==
  ASSUME TypeOK, NEW opcode \in {"text", "binary"}, NEW kinds \in Batches,
         ReadFrame(opcode, kinds)
  PROVE  /\ frames' = Append(frames, opcode) /\ frames' \in Seq({"text", "binary"})
         /\ Len(frames') = Len(frames) + 1 /\ frames'[Len(frames')] = opcode
         /\ \A i \in 1..Len(frames) : frames'[i] = frames[i]
         /\ kinds \in Seq(Kinds) /\ Len(kinds) \in Nat /\ DOMAIN kinds = 1..Len(kinds)
         /\ parts' \in Seq([kind : Kinds, frame : 1..Len(frames'), fate : Fates])
         /\ Len(parts') = Len(parts) + Len(kinds) /\ DOMAIN parts' = 1..Len(parts')
         /\ \A i \in DOMAIN parts : parts'[i] = parts[i]
         /\ \A i \in 1..Len(kinds) :
              parts'[Len(parts) + i] = [kind |-> kinds[i], frame |-> Len(frames'),
                                       fate |-> Parsed(opcode, kinds, i)]
  <1> DEFINE Part == [kind : Kinds, frame : 1..Len(frames'), fate : Fates]
             new == [i \in DOMAIN kinds |-> [kind |-> kinds[i], frame |-> Len(frames) + 1,
                                             fate |-> Parsed(opcode, kinds, i)]]
  <1>1. /\ frames' = Append(frames, opcode) /\ frames' \in Seq({"text", "binary"})
        /\ Len(frames') = Len(frames) + 1 /\ frames'[Len(frames')] = opcode
        /\ \A i \in 1..Len(frames) : frames'[i] = frames[i]
        /\ Len(frames) \in Nat
    BY AppendProperties, LenProperties DEF TypeOK, ReadFrame
  <1>2. /\ kinds \in Seq(Kinds) /\ Len(kinds) \in Nat /\ DOMAIN kinds = 1..Len(kinds)
        /\ \A i \in 1..Len(kinds) : kinds[i] \in Kinds
    BY BatchesAreKinds, LenProperties, ElementOfSeq
  <1>3. new \in [1..Len(kinds) -> Part]
    BY <1>1, <1>2 DEF Parsed, Fates
  <1>4. new \in Seq(Part) /\ Len(new) = Len(kinds)
    <2>1. new \in Seq(Part)
      <3> HIDE DEF Part, new
      <3> QED BY <1>2, <1>3, SeqDef
    <2> HIDE DEF Part, new
    <2> QED BY <1>2, <1>3, <2>1, LenProperties
  <1>5. parts \in Seq(Part)
    <2>1. [kind : Kinds, frame : 1..Len(frames), fate : Fates] \subseteq Part
      BY <1>1
    <2> DEFINE Old == [kind : Kinds, frame : 1..Len(frames), fate : Fates]
    <2>2. parts \in Seq(Old)
      BY DEF TypeOK
    <2> HIDE DEF Part, Old
    <2> QED BY <2>1, <2>2, SeqMonotonic DEF Old
  <1>6. parts' = parts \o new
    BY DEF ReadFrame
  <1>7. /\ parts' \in Seq(Part) /\ Len(parts') = Len(parts) + Len(kinds)
        /\ DOMAIN parts' = 1..Len(parts') /\ DOMAIN parts = 1..Len(parts)
        /\ Len(parts) \in Nat
        /\ \A i \in 1..Len(parts) : parts'[i] = parts[i]
        /\ \A i \in 1..Len(kinds) : parts'[Len(parts) + i] = new[i]
    <2> HIDE DEF Part, new
    <2> DEFINE both == parts \o new
    <2>0. /\ both \in Seq(Part) /\ Len(both) = Len(parts) + Len(new)
          /\ \A i \in 1..(Len(parts) + Len(new)) :
                both[i] = IF i <= Len(parts) THEN parts[i] ELSE new[i - Len(parts)]
      BY <1>4, <1>5, ConcatProperties
    <2> HIDE DEF both
    <2>1. /\ parts' \in Seq(Part) /\ Len(parts') = Len(parts) + Len(kinds)
          /\ \A i \in 1..(Len(parts) + Len(new)) :
                parts'[i] = IF i <= Len(parts) THEN parts[i] ELSE new[i - Len(parts)]
      BY <1>4, <1>6, <2>0 DEF both
    <2>2. /\ Len(parts) \in Nat /\ DOMAIN parts = 1..Len(parts)
          /\ DOMAIN parts' = 1..Len(parts')
      BY <1>5, <2>1, LenProperties
    <2>3. \A i \in 1..Len(parts) : parts'[i] = parts[i]
      BY <1>2, <1>4, <2>1, <2>2
    <2>4. ASSUME NEW i \in 1..Len(kinds) PROVE parts'[Len(parts) + i] = new[i]
      <3>1. Len(parts) + i \in 1..(Len(parts) + Len(new)) /\ ~(Len(parts) + i <= Len(parts))
            /\ Len(parts) + i - Len(parts) = i
        BY <1>2, <1>4, <2>2
      <3> QED BY <2>1, <3>1
    <2> QED BY <2>1, <2>2, <2>3, <2>4
  <1> QED BY <1>1, <1>2, <1>7

\* The queue after a message was put at its end.
LEMMA Enqueued ==
  ASSUME TypeOK, NEW m, out' = Append(out, m),
         m \in [kind : {"completion", "item", "welcome"}, nr : 0..MaxMessages, item : 0..MaxPublished]
  PROVE  /\ out' \in Seq([kind : {"completion", "item", "welcome"}, nr : 0..MaxMessages,
                          item : 0..MaxPublished])
         /\ Len(out') = Len(out) + 1 /\ Len(out) \in Nat
         /\ DOMAIN out = 1..Len(out) /\ DOMAIN out' = 1..(Len(out) + 1)
         /\ \A i \in 1..Len(out) : out'[i] = out[i]
         /\ out'[Len(out) + 1] = m
  <1> DEFINE Sent == [kind : {"completion", "item", "welcome"}, nr : 0..MaxMessages,
                      item : 0..MaxPublished]
  <1>1. out \in Seq(Sent) /\ m \in Sent
    BY DEF TypeOK
  <1> HIDE DEF Sent
  <1>2. out' \in Seq(Sent) /\ DOMAIN out = 1..Len(out) /\ Len(out) \in Nat
    BY <1>1, AppendProperties, LenProperties
  <1>3. /\ Len(out') = Len(out) + 1
        /\ \A i \in 1..Len(out) : out'[i] = out[i]
        /\ out'[Len(out) + 1] = m
    BY <1>1, AppendProperties
  <1>4. DOMAIN out' = 1..(Len(out) + 1)
    BY <1>2, <1>3, LenProperties
  <1> QED BY <1>2, <1>3, <1>4 DEF Sent

----------------------------------------------------------------------------
\* What a step does to the messages: a frame is read, a message dispatched,
\* settled or lost with those behind it, or they stay as they are.
Settles(nr, fate) ==
    /\ fate \in {"done", "failed"} /\ busy /\ parts[nr].fate = "running" /\ Settle(nr, fate)
    /\ UNCHANGED <<protocol, frames, reading>>

LEMMA PartsStep ==
  ASSUME [Next]_vars
  PROVE  \/ \E opcode \in {"text", "binary"} : \E kinds \in Batches : ReadFrame(opcode, kinds)
         \/ \E nr \in DOMAIN parts : Dispatch(nr)
         \/ \E nr \in DOMAIN parts : \E fate \in {"done", "failed"} : Settles(nr, fate)
         \/ \E nr \in DOMAIN parts : CallbackPanics(nr)
         \/ UNCHANGED <<protocol, frames, parts, busy>> /\ (reading' = reading \/ ~reading')
  <1>1. CASE UNCHANGED vars
    BY <1>1 DEF vars, reader
  <1>2. CASE Client
    BY <1>2 DEF Client
  <1>3. CASE ReaderEnds
    BY <1>3 DEF ReaderEnds
  <1>4. CASE Reader
    BY <1>4 DEF Reader, CallReturns, FireReturns, StreamFails, StreamStarts, Answer, Running, Settles
  <1>5. CASE \E t \in DOMAIN tasks : Forwarder(t) \/ ChannelCloses(t)
    BY <1>5 DEF Forwarder, Lag, Forward, ForwardRefused, ChannelCloses, Complete, reader
  <1>6. CASE Publish \/ WriterTakes \/ WriterEnds
    BY <1>6 DEF Publish, WriterTakes, WriterEnds, reader
  <1> QED BY <1>1, <1>2, <1>3, <1>4, <1>5, <1>6 DEF Next

\* What a callback's end does to the queue.
LEMMA AnswerSends ==
  ASSUME NEW nr, Answer(nr)
  PROVE  \/ CanSend /\ out' = Append(out, Completion(nr)) /\ Settle(nr, "done")
         \/ out' = out /\ Settle(nr, "failed")
  BY DEF Answer

\* The message a handler or a task puts into the queue is one.
LEMMA SentMessages ==
  ASSUME TypeOK
  PROVE  /\ \A nr \in 0..MaxMessages :
              Completion(nr) \in [kind : {"completion", "item", "welcome"}, nr : 0..MaxMessages,
                                 item : 0..MaxPublished]
         /\ \A t \in 0..MaxMessages : Unread(t) =>
              Item(t, tasks[t].next) \in [kind : {"completion", "item", "welcome"},
                                         nr : 0..MaxMessages, item : 0..MaxPublished]
  <1>1. published \in 0..MaxPublished
    BY DEF TypeOK
  <1>2. ASSUME NEW t \in 0..MaxMessages, Unread(t)
        PROVE  tasks[t].next \in 0..MaxPublished
    BY <1>1, <1>2, Elements, BoundsAreNat DEF Unread
  <1> QED BY <1>2, BoundsAreNat DEF Completion, Item

LEMMA TypeStep == TypeOK /\ [Next]_vars => TypeOK'
  <1> DEFINE Sent == [kind : {"completion", "item", "welcome"}, nr : 0..MaxMessages,
                      item : 0..MaxPublished]
             Part == [kind : Kinds, frame : 1..Len(frames), fate : Fates]
             TaskType == [at : TaskStates, next : 1..(MaxPublished + 1), lagged : BOOLEAN]
  <1> SUFFICES ASSUME TypeOK, [Next]_vars PROVE TypeOK'
    OBVIOUS
  <1>T. /\ Len(parts) \in 0..MaxMessages /\ DOMAIN parts = 1..Len(parts)
        /\ \A nr \in DOMAIN parts : nr \in 0..MaxMessages
        /\ Len(out) \in Nat /\ tasks \in [0..MaxMessages -> TaskType]
        /\ DOMAIN tasks = 0..MaxMessages
        /\ published \in 0..MaxPublished
    <2>1. tasks \in [0..MaxMessages -> TaskType] /\ published \in 0..MaxPublished
      BY DEF TypeOK
    <2>2. \A nr \in 1..Len(parts) : nr \in 0..MaxMessages
      BY Elements, BoundsAreNat
    <2> QED BY <2>1, <2>2, Elements
  <1>Q. /\ written \in 0..Len(out) /\ Len(out) - written <= Capacity
        /\ out \in Seq(Sent)
    BY DEF TypeOK
  <1>S. ASSUME NEW m, m \in Sent, CanSend, out' = Append(out, m)
        PROVE  out' \in Seq(Sent) /\ written \in 0..Len(out') /\ Len(out') - written <= Capacity
    <2>1. out' \in Seq(Sent) /\ Len(out') = Len(out) + 1
      BY <1>S, Enqueued
    <2>2. Len(out) - written < Capacity
      BY <1>S DEF CanSend
    <2> QED BY <1>Q, <1>T, <2>1, <2>2, CapacitiesPositive
  <1>E. ASSUME NEW nr \in DOMAIN parts, NEW fate \in {"done", "failed"},
               parts[nr].fate = "running", Settle(nr, fate), out' \in Seq(Sent),
               written \in 0..Len(out'), Len(out') - written <= Capacity,
               tasks' \in [0..MaxMessages -> TaskType],
               UNCHANGED <<protocol, frames, reading, published, written, open>>
        PROVE  TypeOK'
    <2>1. parts' \in Seq(Part) /\ Len(parts') = Len(parts) /\ busy' = FALSE
      BY <1>E, Settled DEF Fates
    <2> QED BY <1>E, <1>T, <2>1, ZenonT(30) DEF TypeOK
  <1>F. ASSUME NEW t \in 0..MaxMessages, NEW at \in TaskStates, NEW next \in 1..(MaxPublished + 1)
        PROVE  /\ [tasks EXCEPT ![t] = Task(at, next)] \in [0..MaxMessages -> TaskType]
               /\ [tasks EXCEPT ![t].at = at] \in [0..MaxMessages -> TaskType]
               /\ [tasks EXCEPT ![t].next = next] \in [0..MaxMessages -> TaskType]
               /\ [tasks EXCEPT ![t].next = next, ![t].lagged = TRUE] \in [0..MaxMessages -> TaskType]
    <2>1. Task(at, next) \in TaskType /\ tasks[t] \in TaskType
      BY <1>T DEF Task
    <2>2. /\ [tasks[t] EXCEPT !.at = at] \in TaskType
          /\ [tasks[t] EXCEPT !.next = next] \in TaskType
          /\ [[tasks[t] EXCEPT !.next = next] EXCEPT !.lagged = TRUE] \in TaskType
      BY <2>1
    <2> HIDE DEF TaskType
    <2>3. /\ [tasks EXCEPT ![t].at = at] = [tasks EXCEPT ![t] = [tasks[t] EXCEPT !.at = at]]
          /\ [tasks EXCEPT ![t].next = next] = [tasks EXCEPT ![t] = [tasks[t] EXCEPT !.next = next]]
          /\ [tasks EXCEPT ![t].next = next, ![t].lagged = TRUE]
               = [tasks EXCEPT ![t] = [[tasks[t] EXCEPT !.next = next] EXCEPT !.lagged = TRUE]]
      BY <1>T
    <2> QED BY <1>T, <2>1, <2>2, <2>3
  <1>A. ASSUME NEW nr \in DOMAIN parts, parts[nr].fate = "running", Answer(nr),
               UNCHANGED <<protocol, frames, reading, tasks, published, written, open>>
        PROVE  TypeOK'
    <2>1. CASE out' = out /\ Settle(nr, "failed")
      BY <1>A, <1>Q, <1>T, <1>E, <2>1
    <2>2. CASE CanSend /\ out' = Append(out, Completion(nr)) /\ Settle(nr, "done")
      <3>1. Completion(nr) \in Sent
        BY <1>T, SentMessages
      <3>2. out' \in Seq(Sent) /\ written \in 0..Len(out') /\ Len(out') - written <= Capacity
        BY <1>S, <2>2, <3>1
      <3> QED BY <1>A, <1>T, <1>E, <2>2, <3>2
    <2> QED BY <1>A, <2>1, <2>2, AnswerSends
  <1>1. CASE UNCHANGED vars
    BY <1>1 DEF vars, TypeOK, reader, queue
  <1>2. ASSUME NEW opcode \in {"text", "binary"}, NEW kinds \in Batches, ReadFrame(opcode, kinds)
        PROVE  TypeOK'
    <2>1. /\ frames' \in Seq({"text", "binary"})
          /\ parts' \in Seq([kind : Kinds, frame : 1..Len(frames'), fate : Fates])
          /\ Len(parts') = Len(parts) + Len(kinds)
      BY <1>2, FrameRead
    <2>2. Len(parts') <= MaxMessages
      BY <1>2, <2>1 DEF ReadFrame
    <2> QED BY <1>2, <2>1, <2>2 DEF ReadFrame, TypeOK, queue
  <1>3. CASE ReaderEnds
    BY <1>3 DEF ReaderEnds, TypeOK, queue
  <1>4. ASSUME NEW nr \in DOMAIN parts, Dispatch(nr)
        PROVE  TypeOK'
    <2>1. parts' \in Seq(Part) /\ Len(parts') = Len(parts) /\ busy' \in BOOLEAN
      BY <1>4, Dispatched
    <2>2. UNCHANGED <<protocol, frames, reading, tasks, published, out, written, open>>
      BY <1>4, Dispatched
    <2> QED BY <2>1, <2>2, <1>T, ZenonT(30) DEF TypeOK
  <1>5. ASSUME NEW nr \in DOMAIN parts, CallReturns(nr) \/ StreamFails(nr)
        PROVE  TypeOK'
    BY <1>5, <1>A DEF CallReturns, StreamFails, Running
  <1>6. ASSUME NEW nr \in DOMAIN parts, FireReturns(nr)
        PROVE  TypeOK'
    BY <1>6, <1>E, <1>Q, <1>T DEF FireReturns, Running, queue
  <1>7. ASSUME NEW nr \in DOMAIN parts, StreamStarts(nr)
        PROVE  TypeOK'
    <2>1. published + 1 \in 1..(MaxPublished + 1) /\ "receiving" \in TaskStates
      BY <1>T, BoundsAreNat DEF TaskStates
    <2>2. tasks' \in [0..MaxMessages -> TaskType]
      <3>1. \/ tasks' = tasks
            \/ tasks' = [tasks EXCEPT ![nr] = Task("receiving", published + 1)]
        BY <1>7 DEF StreamStarts
      <3> HIDE DEF TaskType
      <3>2. nr \in 0..MaxMessages
        BY <1>T
      <3>3. [tasks EXCEPT ![nr] = Task("receiving", published + 1)] \in [0..MaxMessages -> TaskType]
        BY <1>F, <2>1, <3>2
      <3> QED BY <1>T, <3>1, <3>3
    <2> QED BY <1>7, <1>E, <1>Q, <1>T, <2>2 DEF StreamStarts, Running, queue
  <1>8. ASSUME NEW t \in DOMAIN tasks, Forwarder(t) \/ ChannelCloses(t)
        PROVE  TypeOK'
    <2>1. t \in 0..MaxMessages /\ tasks[t] \in TaskType
      BY <1>T
    <2>2. UNCHANGED <<protocol, frames, parts, busy, reading, published, written, open>>
      BY <1>8 DEF Forwarder, Lag, Forward, ForwardRefused, Complete, ChannelCloses, reader, queue
    <2>3. tasks' \in [0..MaxMessages -> TaskType]
      <3>1. CASE Lag(t)
        <4>1. published - ChannelCapacity + 1 \in 1..(MaxPublished + 1)
          BY <3>1, <1>T, <2>1, CapacitiesPositive, BoundsAreNat DEF Lag, Overrun
        <4>2. tasks' = [tasks EXCEPT ![t].next = published - ChannelCapacity + 1, ![t].lagged = TRUE]
          BY <3>1 DEF Lag
        <4>3. "none" \in TaskStates
          BY DEF TaskStates
        <4> HIDE DEF TaskType
        <4> QED BY <4>1, <4>2, <4>3, <2>1, <1>F
      <3>2. CASE Forward(t)
        <4>1. tasks[t].next + 1 \in 1..(MaxPublished + 1)
          BY <3>2, <1>T, <2>1, BoundsAreNat DEF Forward, Unread
        <4>2. tasks' = [tasks EXCEPT ![t].next = tasks[t].next + 1]
          BY <3>2 DEF Forward
        <4>3. "none" \in TaskStates
          BY DEF TaskStates
        <4> HIDE DEF TaskType
        <4> QED BY <4>1, <4>2, <4>3, <2>1, <1>F
      <3>3. CASE ForwardRefused(t) \/ ChannelCloses(t) \/ Complete(t)
        <4>1. PICK at \in TaskStates : tasks' = [tasks EXCEPT ![t].at = at]
          BY <3>3 DEF ForwardRefused, ChannelCloses, Complete, AfterLoop, TaskStates
        <4> QED BY <4>1, <2>1, <1>F
      <3> QED BY <1>8, <3>1, <3>2, <3>3 DEF Forwarder
    <2>4. out' \in Seq(Sent) /\ written \in 0..Len(out') /\ Len(out') - written <= Capacity
      <3>1. CASE Forward(t)
        BY <3>1, <1>S, <2>1, SentMessages DEF Forward
      <3>2. CASE Complete(t)
        <4>1. CASE CanSend
          BY <3>2, <4>1, <1>S, <2>1, SentMessages DEF Complete
        <4>2. CASE ~CanSend
          BY <3>2, <4>2, <1>Q DEF Complete
        <4> QED BY <4>1, <4>2
      <3>3. CASE Lag(t) \/ ForwardRefused(t) \/ ChannelCloses(t)
        BY <3>3, <1>Q DEF Lag, ForwardRefused, ChannelCloses, queue
      <3> QED BY <1>8, <3>1, <3>2, <3>3 DEF Forwarder
    <2> QED BY <2>2, <2>3, <2>4, ZenonT(30) DEF TypeOK
  <1>9. CASE Publish
    <2>1. published' \in 0..MaxPublished
      BY <1>9, <1>T, BoundsAreNat DEF Publish
    <2> QED BY <1>9, <2>1 DEF Publish, TypeOK, reader, queue
  <1>10. CASE WriterTakes \/ WriterEnds
    <2>1. written' \in 0..Len(out) /\ Len(out) - written' <= Capacity
      BY <1>10, <1>Q, <1>T, CapacitiesPositive DEF WriterTakes, WriterEnds
    <2>2. open' \in BOOLEAN
      BY <1>10, Zenon DEF WriterTakes, WriterEnds, TypeOK
    <2> QED BY <1>10, <2>1, <2>2 DEF WriterTakes, WriterEnds, TypeOK, reader
  <1>11. ASSUME NEW nr \in DOMAIN parts, CallbackPanics(nr)
         PROVE  TypeOK'
    <2>1. /\ parts' \in Seq(Part) /\ Len(parts') = Len(parts) /\ busy' = FALSE /\ reading' = FALSE
          /\ UNCHANGED <<protocol, frames, tasks, published, out, written, open>>
      BY <1>11, Unwound
    <2> QED BY <2>1, <1>T, ZenonT(30) DEF TypeOK
  <1> QED
    BY <1>1, <1>2, <1>3, <1>4, <1>5, <1>6, <1>7, <1>8, <1>9, <1>10, <1>11 DEF Next, Client, Reader

----------------------------------------------------------------------------
LEMMA OneAtATimeStep == TypeOK /\ OneAtATime /\ [Next]_vars => OneAtATime'
  <1> SUFFICES ASSUME TypeOK, OneAtATime, [Next]_vars PROVE OneAtATime'
    OBVIOUS
  <1> USE DEF Pending
  <1>1. ASSUME NEW opcode \in {"text", "binary"}, NEW kinds \in Batches, ReadFrame(opcode, kinds)
        PROVE  OneAtATime'
    <2>1. /\ ~busy /\ ~busy' /\ \A i \in DOMAIN parts : ~Pending(i)
          /\ \A i \in DOMAIN parts : parts[i].fate # "lost"
      BY <1>1 DEF ReadFrame, OneAtATime, Waiting
    <2>2. /\ Len(parts) \in Nat /\ DOMAIN parts = 1..Len(parts) /\ Len(kinds) \in Nat
          /\ DOMAIN parts' = 1..(Len(parts) + Len(kinds))
          /\ \A i \in DOMAIN parts : parts'[i] = parts[i]
          /\ \A i \in 1..Len(kinds) :
                /\ parts'[Len(parts) + i].frame = Len(frames')
                /\ parts'[Len(parts) + i].fate \in {"waiting", "dropped"}
      <3>1. /\ DOMAIN parts' = 1..(Len(parts) + Len(kinds)) /\ Len(kinds) \in Nat
            /\ \A i \in DOMAIN parts : parts'[i] = parts[i]
            /\ \A i \in 1..Len(kinds) :
                 parts'[Len(parts) + i] = [kind |-> kinds[i], frame |-> Len(frames'),
                                          fate |-> Parsed(opcode, kinds, i)]
        BY <1>1, FrameRead
      <3>2. \A i \in 1..Len(kinds) : Parsed(opcode, kinds, i) \in {"waiting", "dropped"}
        BY DEF Parsed
      <3>3. ASSUME NEW i \in 1..Len(kinds)
            PROVE  /\ parts'[Len(parts) + i].frame = Len(frames')
                   /\ parts'[Len(parts) + i].fate \in {"waiting", "dropped"}
        <4>1. parts'[Len(parts) + i] = [kind |-> kinds[i], frame |-> Len(frames'),
                                       fate |-> Parsed(opcode, kinds, i)]
          BY <3>1
        <4> QED BY <3>2, <4>1
      <3>4. Len(parts) \in Nat /\ DOMAIN parts = 1..Len(parts)
        BY Elements
      <3> QED BY <3>1, <3>3, <3>4
    <2>3. ASSUME NEW i \in DOMAIN parts', i \notin DOMAIN parts
          PROVE  /\ parts'[i].frame = Len(frames') /\ parts'[i].fate \in {"waiting", "dropped"}
                 /\ \A j \in DOMAIN parts' : i < j => j \notin DOMAIN parts
      <3>1. i - Len(parts) \in 1..Len(kinds) /\ Len(parts) + (i - Len(parts)) = i
        BY <2>2, <2>3
      <3> QED BY <2>2, <2>3, <3>1
    <2> QED BY <2>1, <2>2, <2>3 DEF OneAtATime
  <1>2. ASSUME NEW nr \in DOMAIN parts, Dispatch(nr)
        PROVE  OneAtATime'
    <2>1. /\ \A i \in DOMAIN parts : i < nr => ~Pending(i)
          /\ parts[nr].fate = "waiting" /\ parts[nr].frame = Len(frames)
          /\ nr \in Nat /\ DOMAIN parts \subseteq Nat
      BY <1>2, Elements DEF Dispatch, First, Waiting, OneAtATime
    <2>2. /\ DOMAIN parts' = DOMAIN parts /\ frames' = frames
          /\ \A i \in DOMAIN parts : i # nr => parts'[i] = parts[i]
          /\ parts'[nr].frame = parts[nr].frame
          /\ parts'[nr].fate = IF parts[nr].kind = "ignored" THEN "done" ELSE "running"
      BY <1>2, Dispatched
    <2>7. parts[nr].kind # "ignored" => busy'
      BY <1>2, Dispatched
    <2>3. ~busy /\ \A i \in DOMAIN parts : parts[i].fate # "running"
      BY <1>2 DEF Dispatch, OneAtATime
    <2>4. \A i \in DOMAIN parts' : parts'[i].fate = "running" => busy'
      BY <2>2, <2>3, <2>7
    <2>5. \A i \in DOMAIN parts' : Pending(i)' => parts'[i].frame = Len(frames')
      BY <2>1, <2>2 DEF OneAtATime
    <2>6. ASSUME NEW i \in DOMAIN parts', NEW j \in DOMAIN parts', i < j, Pending(i)'
          PROVE  parts'[j].fate \in {"waiting", "dropped"}
      <3>1. i >= nr
        BY <2>1, <2>2, <2>6
      <3>2. j # nr
        BY <2>1, <2>2, <2>6, <3>1
      <3>3. Pending(i)
        BY <2>1, <2>2, <2>6
      <3> QED BY <2>2, <2>6, <3>2, <3>3 DEF OneAtATime
    <2>8. \A i \in DOMAIN parts' : parts'[i].fate # "lost"
      BY <2>1, <2>2 DEF OneAtATime
    <2> QED BY <2>4, <2>5, <2>6, <2>8 DEF OneAtATime
  <1>3. ASSUME NEW nr \in DOMAIN parts, NEW fate \in {"done", "failed"}, Settles(nr, fate)
        PROVE  OneAtATime'
    <2>1. /\ DOMAIN parts' = DOMAIN parts /\ frames' = frames /\ parts[nr].fate = "running"
          /\ \A i \in DOMAIN parts :
               /\ parts'[i].frame = parts[i].frame
               /\ parts'[i].fate = IF i = nr THEN fate
                                   ELSE IF parts[i].fate = "waiting" /\ fate = "failed" /\ Strict(nr)
                                   THEN "dropped" ELSE parts[i].fate
      <3>1. fate \in Fates /\ parts[nr].fate = "running" /\ Settle(nr, fate) /\ frames' = frames
        BY <1>3 DEF Settles, Fates
      <3> QED BY <3>1, Settled
    <2>2. \A i \in DOMAIN parts : i # nr => parts[i].fate # "running"
      <3>1. DOMAIN parts \subseteq Nat
        BY Elements
      <3> QED BY <2>1, <3>1 DEF OneAtATime
    <2>3. \A i \in DOMAIN parts' : parts'[i].fate # "running"
      BY <2>1, <2>2
    <2>4. \A i \in DOMAIN parts' : Pending(i)' => Pending(i)
      BY <2>1
    <2>5. \A i \in DOMAIN parts' : parts[i].fate \in {"waiting", "dropped"} =>
                                   i = nr \/ parts'[i].fate \in {"waiting", "dropped"}
      BY <2>1
    <2>6. \A i \in DOMAIN parts' : parts'[i].fate # "lost"
      BY <2>1 DEF OneAtATime
    <2> QED BY <2>1, <2>3, <2>4, <2>5, <2>6 DEF OneAtATime
  <1>4. CASE UNCHANGED <<protocol, frames, parts, busy>> /\ (reading' = reading \/ ~reading')
    BY <1>4 DEF OneAtATime
  <1>5. ASSUME NEW nr \in DOMAIN parts, CallbackPanics(nr)
        PROVE  OneAtATime'
    <2>1. /\ DOMAIN parts' = DOMAIN parts /\ ~reading' /\ parts[nr].fate = "running"
          /\ \A i \in DOMAIN parts : parts'[i].fate =
               IF i = nr \/ parts[i].fate = "waiting" THEN "lost" ELSE parts[i].fate
      BY <1>5, Unwound
    <2>2. \A i \in DOMAIN parts : i # nr => parts[i].fate # "running"
      <3>1. DOMAIN parts \subseteq Nat
        BY Elements
      <3> QED BY <2>1, <3>1 DEF OneAtATime
    <2>3. \A i \in DOMAIN parts' : ~Pending(i)'
      BY <2>1, <2>2
    <2>4. \A i \in DOMAIN parts : parts'[i].fate = "lost" => Pending(i)
      BY <2>1 DEF OneAtATime
    <2>5. \A i, j \in DOMAIN parts' :
             parts'[i].fate = "lost" /\ i < j => parts'[j].fate \in {"dropped", "lost"}
      <3>1. \A i, j \in DOMAIN parts :
               parts'[i].fate = "lost" /\ i < j => parts[j].fate \in {"waiting", "dropped"}
        BY <2>4 DEF OneAtATime
      <3> QED BY <2>1, <3>1
    <2> QED BY <2>1, <2>3, <2>5 DEF OneAtATime
  <1> QED BY <1>1, <1>2, <1>3, <1>4, <1>5, PartsStep

----------------------------------------------------------------------------
\* What a strict frame blames a message for: a failure before it, or a message
\* of the frame that did not parse.
Blamed(j) ==
    \E i \in DOMAIN parts : /\ parts[i].frame = parts[j].frame
                            /\ (i < j /\ parts[i].fate = "failed") \/ parts[i].kind = "malformed"

Fair(j) ==
    /\ (protocol = "json" \/ Strict(j)) /\ parts[j].fate = "dropped"
         => parts[j].kind = "malformed" \/ (Strict(j) /\ Blamed(j))
    /\ Strict(j) /\ Blamed(j) => parts[j].fate = "dropped"

\* A message that was lost is the last, but for those lost or dropped with it.
Last(j) == parts[j].fate = "lost" =>
    ~reading /\ \A i \in DOMAIN parts : j < i => parts[i].fate \in {"dropped", "lost"}

LEMMA BatchByMessage == BatchOutcome <=> \A j \in DOMAIN parts : Fair(j) /\ Last(j)
  <1>1. ASSUME NEW j \in DOMAIN parts
        PROVE  LET peers == {i \in DOMAIN parts : parts[i].frame = parts[j].frame} IN
               /\ (\E i \in peers : i < j /\ parts[i].fate = "failed")
                   \/ (\E i \in peers : parts[i].kind = "malformed")
                  <=> Blamed(j)
               /\ (\E i \in peers : (i < j /\ parts[i].fate = "failed") \/ parts[i].kind = "malformed")
                  <=> Blamed(j)
    BY DEF Blamed
  <1> QED BY <1>1, Zenon DEF BatchOutcome, Fair, Last

LEMMA BatchStep == TypeOK /\ OneAtATime /\ BatchOutcome /\ [Next]_vars => BatchOutcome'
  <1> SUFFICES ASSUME TypeOK, OneAtATime, \A j \in DOMAIN parts : Fair(j), [Next]_vars
               PROVE  \A j \in DOMAIN parts' : Fair(j)'
    <2>1. (BatchOutcome <=> \A j \in DOMAIN parts : Fair(j) /\ Last(j))'
      BY BatchByMessage, PTL
    <2>2. TypeOK /\ OneAtATime /\ [Next]_vars => \A j \in DOMAIN parts' : Last(j)'
      BY OneAtATimeStep DEF OneAtATime, Last
    <2> QED BY <2>1, <2>2, BatchByMessage
  <1>1. ASSUME NEW opcode \in {"text", "binary"}, NEW kinds \in Batches, ReadFrame(opcode, kinds),
               NEW j \in DOMAIN parts'
        PROVE  Fair(j)'
    <2> DEFINE n == Len(parts)
    <2>1. /\ n \in Nat /\ DOMAIN parts = 1..n /\ Len(frames) \in Nat
          /\ \A i \in DOMAIN parts : parts[i].frame \in 1..Len(frames)
      BY Elements
    <2>2. /\ DOMAIN parts' = 1..(n + Len(kinds)) /\ Len(kinds) \in Nat
          /\ DOMAIN kinds = 1..Len(kinds)
          /\ \A i \in DOMAIN parts : parts'[i] = parts[i]
          /\ \A i \in 1..Len(kinds) :
               parts'[n + i] = [kind |-> kinds[i], frame |-> Len(frames'),
                               fate |-> Parsed(opcode, kinds, i)]
          /\ Len(frames') = Len(frames) + 1 /\ frames'[Len(frames')] = opcode
          /\ \A i \in 1..Len(frames) : frames'[i] = frames[i]
      BY <1>1, FrameRead
    <2>3. protocol' = protocol
      BY <1>1 DEF ReadFrame
    <2>4. ASSUME NEW i \in DOMAIN parts', i \notin DOMAIN parts
          PROVE  /\ i - n \in 1..Len(kinds) /\ n + (i - n) = i
                 /\ parts'[i].frame = Len(frames') /\ parts'[i].kind = kinds[i - n]
                 /\ parts'[i].fate = Parsed(opcode, kinds, i - n)
      <3>1. i - n \in 1..Len(kinds) /\ n + (i - n) = i
        BY <2>1, <2>2, <2>4
      <3>2. parts'[i] = [kind |-> kinds[i - n], frame |-> Len(frames'),
                        fate |-> Parsed(opcode, kinds, i - n)]
        BY <2>2, <3>1
      <3> QED BY <3>1, <3>2
    <2>7. \A i \in DOMAIN parts' : parts'[i].frame = Len(frames') <=> i \notin DOMAIN parts
      <3>1. \A i \in DOMAIN parts : parts'[i].frame # Len(frames')
        BY <2>1, <2>2
      <3> QED BY <2>4, <3>1
    <2>5. CASE j \in DOMAIN parts
      <3>1. \A i \in DOMAIN parts' : parts'[i].frame = parts'[j].frame => i \in DOMAIN parts
        BY <2>5, <2>7
      <3>2. DOMAIN parts \subseteq DOMAIN parts'
        BY <2>1, <2>2
      <3>3. Blamed(j)' <=> Blamed(j)
        <4>1. \A i \in DOMAIN parts : parts'[i] = parts[i]
          BY <2>2
        <4> QED BY <2>5, <3>1, <3>2, <4>1 DEF Blamed
      <3>4. Strict(j)' <=> Strict(j)
        BY <2>1, <2>2, <2>5 DEF Strict
      <3>5. Fair(j)
        BY <2>5
      <3> QED BY <2>2, <2>3, <2>5, <3>3, <3>4, <3>5 DEF Fair
    <2>6. CASE j \notin DOMAIN parts
      <3>1. Strict(j)' <=> opcode = "binary"
        BY <2>2, <2>4, <2>6 DEF Strict
      <3>2. ASSUME NEW i \in DOMAIN parts', parts'[i].frame = parts'[j].frame
            PROVE  i \notin DOMAIN parts
        BY <2>6, <2>7, <3>2
      <3>3. Blamed(j)' <=> \E m \in DOMAIN kinds : kinds[m] = "malformed"
        <4>1. ASSUME Blamed(j)' PROVE \E m \in DOMAIN kinds : kinds[m] = "malformed"
          <5>1. PICK i \in DOMAIN parts' : /\ parts'[i].frame = parts'[j].frame
                                           /\ parts'[i].fate = "failed" \/ parts'[i].kind = "malformed"
            BY <4>1 DEF Blamed
          <5>2. i \notin DOMAIN parts
            BY <3>2, <5>1
          <5>3. parts'[i].fate # "failed"
            BY <2>4, <5>2 DEF Parsed
          <5> QED BY <2>2, <2>4, <5>1, <5>2, <5>3
        <4>2. ASSUME NEW m \in DOMAIN kinds, kinds[m] = "malformed" PROVE Blamed(j)'
          <5>1. parts'[n + m].kind = "malformed" /\ parts'[n + m].frame = Len(frames')
                /\ n + m \in DOMAIN parts'
            <6>1. parts'[n + m] = [kind |-> kinds[m], frame |-> Len(frames'),
                                  fate |-> Parsed(opcode, kinds, m)]
              BY <2>2
            <6> QED BY <2>1, <2>2, <4>2, <6>1
          <5>2. parts'[j].frame = Len(frames')
            BY <2>4, <2>6
          <5> QED BY <5>1, <5>2 DEF Blamed
        <4> QED BY <4>1, <4>2
      <3>4. /\ j - n \in DOMAIN kinds /\ parts'[j].kind = kinds[j - n]
            /\ parts'[j].fate = Parsed(opcode, kinds, j - n)
        BY <2>2, <2>4, <2>6
      <3> QED BY <2>3, <3>1, <3>3, <3>4 DEF Fair, Parsed
    <2> QED BY <2>5, <2>6
  <1>2. ASSUME NEW nr \in DOMAIN parts, Dispatch(nr), NEW j \in DOMAIN parts'
        PROVE  Fair(j)'
    <2>1. /\ DOMAIN parts' = DOMAIN parts /\ frames' = frames /\ protocol' = protocol
          /\ \A i \in DOMAIN parts : i # nr => parts'[i] = parts[i]
          /\ parts'[nr].kind = parts[nr].kind /\ parts'[nr].frame = parts[nr].frame
          /\ parts'[nr].fate \in {"done", "running"} /\ parts[nr].fate = "waiting"
      BY <1>2, Dispatched
    <2>2. \A i \in DOMAIN parts : /\ parts'[i].frame = parts[i].frame
                                  /\ parts'[i].kind = parts[i].kind
                                  /\ (parts'[i].fate = "failed" <=> parts[i].fate = "failed")
                                  /\ (parts'[i].fate = "dropped" <=> parts[i].fate = "dropped")
      BY <2>1
    <2>3. (Blamed(j)' <=> Blamed(j)) /\ (Strict(j)' <=> Strict(j))
      BY <2>1, <2>2 DEF Blamed, Strict
    <2> QED BY <2>1, <2>2, <2>3 DEF Fair
  <1>3. ASSUME NEW nr \in DOMAIN parts, NEW fate \in {"done", "failed"}, Settles(nr, fate),
               NEW j \in DOMAIN parts'
        PROVE  Fair(j)'
    <2>1. /\ DOMAIN parts' = DOMAIN parts /\ frames' = frames /\ protocol' = protocol
          /\ parts[nr].fate = "running" /\ DOMAIN parts \subseteq Nat
          /\ \A i \in DOMAIN parts :
               /\ parts'[i].frame = parts[i].frame /\ parts'[i].kind = parts[i].kind
               /\ parts'[i].fate = IF i = nr THEN fate
                                   ELSE IF parts[i].fate = "waiting" /\ fate = "failed" /\ Strict(nr)
                                   THEN "dropped" ELSE parts[i].fate
      <3>1. fate \in Fates /\ parts[nr].fate = "running" /\ Settle(nr, fate)
            /\ frames' = frames /\ protocol' = protocol
        BY <1>3 DEF Settles, Fates
      <3>2. DOMAIN parts \subseteq Nat
        BY Elements
      <3> QED BY <3>1, <3>2, Settled
    <2>2. Strict(j)' <=> Strict(j)
      BY <2>1 DEF Strict
    <2>3. Blamed(j)' <=> Blamed(j) \/ (parts[nr].frame = parts[j].frame /\ nr < j /\ fate = "failed")
      BY <2>1 DEF Blamed
    <2>4. Pending(nr) /\ Fair(j)
      BY <2>1 DEF Pending
    <2>5. ASSUME parts[j].fate # "dropped", parts'[j].fate = "dropped"
          PROVE  Strict(j) /\ Blamed(j)'
      <3>1. parts[j].fate = "waiting" /\ fate = "failed" /\ Strict(nr) /\ j # nr
        BY <2>1, <2>5
      <3>2. parts[j].frame = parts[nr].frame
        BY <2>1, <2>4, <3>1 DEF OneAtATime, Pending
      <3>3. ~(j < nr)
        BY <2>1, <3>1 DEF OneAtATime, Pending
      <3> QED BY <2>1, <2>3, <3>1, <3>2, <3>3 DEF Strict
    <2>6. ASSUME Strict(j), Blamed(j)'
          PROVE  parts'[j].fate = "dropped"
      <3>1. CASE Blamed(j)
        BY <2>1, <2>4, <2>6, <3>1 DEF Fair
      <3>2. CASE parts[nr].frame = parts[j].frame /\ nr < j /\ fate = "failed"
        <4>1. parts[j].fate \in {"waiting", "dropped"} /\ Strict(nr)
          BY <2>1, <2>4, <2>6, <3>2 DEF OneAtATime, Strict
        <4> QED BY <2>1, <3>2, <4>1
      <3> QED BY <2>3, <2>6, <3>1, <3>2
    <2> QED BY <2>1, <2>2, <2>3, <2>4, <2>5, <2>6 DEF Fair
  <1>4. ASSUME UNCHANGED <<protocol, frames, parts, busy>>, NEW j \in DOMAIN parts'
        PROVE  Fair(j)'
    BY <1>4 DEF Fair, Blamed, Strict
  <1>5. ASSUME NEW nr \in DOMAIN parts, CallbackPanics(nr), NEW j \in DOMAIN parts'
        PROVE  Fair(j)'
    <2>1. /\ DOMAIN parts' = DOMAIN parts /\ frames' = frames /\ protocol' = protocol
          /\ parts[nr].fate = "running"
          /\ \A i \in DOMAIN parts :
               /\ parts'[i].frame = parts[i].frame /\ parts'[i].kind = parts[i].kind
               /\ parts'[i].fate = IF i = nr \/ parts[i].fate = "waiting" THEN "lost"
                                   ELSE parts[i].fate
      BY <1>5, Unwound
    <2>2. \A i \in DOMAIN parts : /\ (parts'[i].fate = "failed" <=> parts[i].fate = "failed")
                                  /\ (parts'[i].fate = "dropped" <=> parts[i].fate = "dropped")
      BY <2>1
    <2>3. (Blamed(j)' <=> Blamed(j)) /\ (Strict(j)' <=> Strict(j))
      BY <2>1, <2>2 DEF Blamed, Strict
    <2> QED BY <2>1, <2>2, <2>3 DEF Fair
  <1> QED BY <1>1, <1>2, <1>3, <1>4, <1>5, PartsStep

----------------------------------------------------------------------------
\* What was read stays as it is, but for the fate of what is not yet handled.
LEMMA PartsKept ==
  ASSUME TypeOK, [Next]_vars, NEW nr \in DOMAIN parts
  PROVE  /\ nr \in DOMAIN parts' /\ parts'[nr].kind = parts[nr].kind
         /\ parts[nr].fate = "done" => parts'[nr].fate = "done"
  <1>1. ASSUME NEW opcode \in {"text", "binary"}, NEW kinds \in Batches, ReadFrame(opcode, kinds)
        PROVE  nr \in DOMAIN parts' /\ parts'[nr] = parts[nr]
    <2>1. /\ DOMAIN parts' = 1..(Len(parts) + Len(kinds)) /\ Len(kinds) \in Nat
          /\ \A i \in DOMAIN parts : parts'[i] = parts[i]
      BY <1>1, FrameRead
    <2> QED BY <2>1, Elements
  <1>2. ASSUME NEW n \in DOMAIN parts, Dispatch(n)
        PROVE  /\ nr \in DOMAIN parts' /\ parts'[nr].kind = parts[nr].kind
               /\ parts[nr].fate = "done" => parts'[nr].fate = "done"
    BY <1>2, Dispatched
  <1>3. ASSUME NEW n \in DOMAIN parts, NEW fate \in {"done", "failed"}, Settles(n, fate)
        PROVE  /\ nr \in DOMAIN parts' /\ parts'[nr].kind = parts[nr].kind
               /\ parts[nr].fate = "done" => parts'[nr].fate = "done"
    <2>1. fate \in Fates /\ parts[n].fate = "running" /\ Settle(n, fate)
      BY <1>3 DEF Settles, Fates
    <2> QED BY <2>1, Settled
  <1>4. ASSUME NEW n \in DOMAIN parts, CallbackPanics(n)
        PROVE  /\ nr \in DOMAIN parts' /\ parts'[nr].kind = parts[nr].kind
               /\ parts[nr].fate = "done" => parts'[nr].fate = "done"
    BY <1>4, Unwound
  <1> QED BY <1>1, <1>2, <1>3, <1>4, PartsStep

\* What a task's step does to the tasks.
LEMMA TaskMoves ==
  ASSUME TypeOK, NEW t \in DOMAIN tasks, Forwarder(t) \/ ChannelCloses(t)
  PROVE  /\ DOMAIN tasks' = DOMAIN tasks
         /\ \A u \in DOMAIN tasks : u # t => tasks'[u] = tasks[u]
         /\ tasks[t].at \in {"receiving", "completing"}
         /\ tasks'[t].at \in {"receiving", "completing", "ended"}
         /\ t = 0 /\ tasks'[t].at = "completing" => tasks[t].at = "completing"
         /\ UNCHANGED <<protocol, frames, parts, busy, reading, published, written, open>>
  <1>1. tasks \in [0..MaxMessages -> [at : TaskStates, next : 1..(MaxPublished + 1), lagged : BOOLEAN]]
    BY DEF TypeOK
  <1>2. CASE Lag(t)
    BY <1>1, <1>2 DEF Lag, Unread, reader, queue
  <1>3. CASE Forward(t)
    BY <1>1, <1>3 DEF Forward, Unread, reader
  <1>4. CASE ForwardRefused(t)
    BY <1>1, <1>4 DEF ForwardRefused, Unread, AfterLoop, reader, queue
  <1>5. CASE ChannelCloses(t)
    BY <1>1, <1>5 DEF ChannelCloses, AfterLoop, reader, queue
  <1>6. CASE Complete(t)
    BY <1>1, <1>6 DEF Complete, reader
  <1> QED BY <1>2, <1>3, <1>4, <1>5, <1>6 DEF Forwarder

\* A stream's task starts when the callback returns; no other step of the
\* reader, the channel or the writer touches the tasks.
Spawns(nr) == tasks' = [tasks EXCEPT ![nr] = Task("receiving", published + 1)]

LEMMA TasksStep ==
  ASSUME [Next]_vars
  PROVE  \/ \E nr \in DOMAIN parts : StreamStarts(nr) /\ Spawns(nr)
         \/ \E t \in DOMAIN tasks : Forwarder(t) \/ ChannelCloses(t)
         \/ UNCHANGED tasks
  <1>1. CASE UNCHANGED vars
    BY <1>1 DEF vars
  <1>2. CASE Client \/ ReaderEnds
    BY <1>2 DEF Client, ReadFrame, ReaderEnds
  <1>3. CASE Reader
    BY <1>3 DEF Reader, Dispatch, CallReturns, FireReturns, StreamFails, StreamStarts, Spawns
  <1>4. CASE Publish \/ WriterTakes \/ WriterEnds \/ \E nr \in DOMAIN parts : CallbackPanics(nr)
    BY <1>4 DEF Publish, WriterTakes, WriterEnds, CallbackPanics
  <1> QED BY <1>1, <1>2, <1>3, <1>4 DEF Next

LEMMA StreamStarted ==
  ASSUME TypeOK, NEW nr \in DOMAIN parts, StreamStarts(nr)
  PROVE  /\ nr \in DOMAIN tasks /\ nr # 0 /\ out' = out
         /\ parts[nr].kind = "stream" /\ parts[nr].fate = "running"
         /\ nr \in DOMAIN parts' /\ parts'[nr].kind = "stream" /\ parts'[nr].fate = "done"
         /\ Settles(nr, "done")
         /\ Spawns(nr) => /\ DOMAIN tasks' = DOMAIN tasks
                          /\ \A u \in DOMAIN tasks : u # nr => tasks'[u] = tasks[u]
                          /\ tasks'[nr].at = "receiving"
  <1>1. Settles(nr, "done") /\ out' = out /\ parts[nr].kind = "stream"
    BY DEF StreamStarts, Running, Settles, queue
  <1>2. parts[nr].fate = "running" /\ Settle(nr, "done") /\ "done" \in Fates
    BY <1>1 DEF Settles, Fates
  <1>3. nr \in DOMAIN parts' /\ parts'[nr].kind = "stream" /\ parts'[nr].fate = "done"
    BY <1>1, <1>2, Settled
  <1>4. nr \in DOMAIN tasks /\ nr # 0
    BY Elements, BoundsAreNat
  <1>5. Spawns(nr) => /\ DOMAIN tasks' = DOMAIN tasks
                      /\ \A u \in DOMAIN tasks : u # nr => tasks'[u] = tasks[u]
                      /\ tasks'[nr].at = "receiving"
    BY <1>4, Elements DEF Spawns, Task
  <1> QED BY <1>1, <1>2, <1>3, <1>4, <1>5

LEMMA TasksOfStreamsStep == TypeOK /\ TasksOfStreams /\ [Next]_vars => TasksOfStreams'
  <1> SUFFICES ASSUME TypeOK, TasksOfStreams, [Next]_vars PROVE TasksOfStreams'
    OBVIOUS
  <1>1. \A t : HasFate(t, {"done"}) /\ parts[t].kind = "stream" =>
               HasFate(t, {"done"})' /\ parts'[t].kind = "stream"
    BY PartsKept DEF HasFate
  <1>2. ASSUME NEW nr \in DOMAIN parts, StreamStarts(nr), Spawns(nr) PROVE TasksOfStreams'
    <2>1. HasFate(nr, {"done"})' /\ parts'[nr].kind = "stream" /\ nr # 0
      BY <1>2, StreamStarted DEF HasFate
    <2>2. /\ DOMAIN tasks' = DOMAIN tasks
          /\ \A u \in DOMAIN tasks : u # nr => tasks'[u] = tasks[u]
      BY <1>2, StreamStarted
    <2> QED BY <1>1, <2>1, <2>2 DEF TasksOfStreams
  <1>3. ASSUME NEW t \in DOMAIN tasks, Forwarder(t) \/ ChannelCloses(t) PROVE TasksOfStreams'
    <2>1. /\ DOMAIN tasks' = DOMAIN tasks
          /\ \A u \in DOMAIN tasks : u # t => tasks'[u] = tasks[u]
          /\ tasks[t].at # "none"
          /\ t = 0 /\ tasks'[t].at = "completing" => tasks[t].at = "completing"
      BY <1>3, TaskMoves
    <2> QED BY <1>1, <2>1 DEF TasksOfStreams
  <1>4. CASE UNCHANGED tasks
    BY <1>1, <1>4 DEF TasksOfStreams
  <1> QED BY <1>2, <1>3, <1>4, TasksStep

----------------------------------------------------------------------------
\* A call that is done after a step was done before.
NoCallAnswered == \A nr \in DOMAIN parts' :
    parts'[nr].kind = "call" /\ parts'[nr].fate = "done" => nr \in DOMAIN parts /\ parts[nr].fate = "done"

\* A task that will not send any more is left alone.
EndedTasksKept == \A c \in DOMAIN out : out[c].kind = "completion" =>
    tasks'[out[c].nr].at \in {"none", "ended"}

\* A step that puts no completion into the queue, and nothing else on behalf of
\* whoever is completed.
LEMMA AnswersKept ==
  ASSUME TypeOK, Answers, [Next]_vars, NoCallAnswered, EndedTasksKept,
         \/ out' = out
         \/ \E t \in 0..MaxMessages :
               /\ Unread(t) /\ out' = Append(out, Item(t, tasks[t].next))
               /\ \A c \in DOMAIN out : out[c].kind = "completion" => out[c].nr # t
  PROVE  Answers'
  <1>1. /\ DOMAIN out = 1..Len(out) /\ Len(out) \in Nat
        /\ DOMAIN out \subseteq DOMAIN out'
        /\ \A c \in DOMAIN out : out'[c] = out[c]
        /\ \A c \in DOMAIN out' : c \notin DOMAIN out =>
             /\ out'[c].kind = "item" /\ c = Len(out) + 1
             /\ \A i \in DOMAIN out : out[i].kind = "completion" => out[i].nr # out'[c].nr
    <2>1. DOMAIN out = 1..Len(out) /\ Len(out) \in Nat
      BY Elements
    <2>2. CASE out' = out
      BY <2>1, <2>2
    <2>3. ASSUME NEW t \in 0..MaxMessages, Unread(t), out' = Append(out, Item(t, tasks[t].next)),
                 \A c \in DOMAIN out : out[c].kind = "completion" => out[c].nr # t
          PROVE  /\ DOMAIN out \subseteq DOMAIN out'
                 /\ \A c \in DOMAIN out : out'[c] = out[c]
                 /\ \A c \in DOMAIN out' : c \notin DOMAIN out =>
                      /\ out'[c].kind = "item" /\ c = Len(out) + 1
                      /\ \A i \in DOMAIN out : out[i].kind = "completion" => out[i].nr # out'[c].nr
      <3>1. /\ DOMAIN out' = 1..(Len(out) + 1)
            /\ \A i \in 1..Len(out) : out'[i] = out[i]
            /\ out'[Len(out) + 1] = Item(t, tasks[t].next)
        BY <2>3, SentMessages, Enqueued
      <3>2. out'[Len(out) + 1].kind = "item" /\ out'[Len(out) + 1].nr = t
        BY <3>1 DEF Item
      <3>3. \A c \in DOMAIN out' : c \notin DOMAIN out => c = Len(out) + 1
        BY <2>1, <3>1
      <3>4. DOMAIN out \subseteq DOMAIN out' /\ \A c \in DOMAIN out : out'[c] = out[c]
        BY <2>1, <3>1
      <3> QED BY <2>3, <3>2, <3>3, <3>4
    <2> QED BY <2>1, <2>2, <2>3
  <1>2. \A nr \in DOMAIN parts : /\ nr \in DOMAIN parts' /\ parts'[nr].kind = parts[nr].kind
                                 /\ parts[nr].fate = "done" => parts'[nr].fate = "done"
    BY PartsKept
  <1>3. \A c \in DOMAIN out' : out'[c].kind = "completion" => c \in DOMAIN out
    BY <1>1
  <1>4. CompletedAreDone'
    BY <1>1, <1>2, <1>3 DEF Answers, CompletedAreDone, HasFate, EndedTasksKept
  <1>5. CompletionIsLast'
    BY <1>1, <1>3 DEF Answers, CompletionIsLast
  <1>6. AnswersInOrder'
    BY <1>1, <1>2, <1>3 DEF Answers, AnswersInOrder, CompletedAreDone, HasFate
  <1>7. \A nr : Completed(nr)' <=> Completed(nr)
    <2>1. \A nr : Completion(nr).kind = "completion"
      BY DEF Completion
    <2> QED BY <1>1, <1>3, <2>1 DEF Completed
  <1>8. \A nr : Completed(nr) => HasFate(nr, {"done"})
    BY DEF Completed, Completion, Answers, CompletedAreDone
  <1>9. DoneMeansAnswered'
    BY <1>2, <1>7, <1>8 DEF Answers, DoneMeansAnswered, NoCallAnswered, HasFate
  <1> QED BY <1>4, <1>5, <1>6, <1>9 DEF Answers

\* A step that completes somebody who was not completed before.
LEMMA AnswersExtended ==
  ASSUME TypeOK, Answers, [Next]_vars, EndedTasksKept,
         NEW nr \in 1..MaxMessages, out' = Append(out, Completion(nr)),
         \A c \in DOMAIN out : out[c].kind = "completion" => out[c].nr # nr,
         HasFate(nr, {"done"})', parts'[nr].kind \in {"call", "stream"},
         tasks'[nr].at \in {"none", "ended"},
         \A i \in DOMAIN parts' : parts'[i].kind = "call" /\ parts'[i].fate = "done" =>
             i = nr \/ (i \in DOMAIN parts /\ parts[i].fate = "done"),
         parts'[nr].kind = "call" =>
             \A c \in DOMAIN out : out[c].kind = "completion" => out[c].nr < nr
  PROVE  Answers'
  <1> DEFINE new == Len(out) + 1
  <1>1. /\ DOMAIN out = 1..Len(out) /\ Len(out) \in Nat
        /\ DOMAIN out' = 1..new /\ DOMAIN out \subseteq DOMAIN out'
        /\ \A c \in DOMAIN out : out'[c] = out[c]
        /\ out'[new] = Completion(nr) /\ out'[new].kind = "completion" /\ out'[new].nr = nr
        /\ \A c \in DOMAIN out' : c = new \/ c \in DOMAIN out
        /\ new \in DOMAIN out' /\ \A c \in DOMAIN out : c < new
    <2>1. nr \in 0..MaxMessages
      BY BoundsAreNat
    <2>2. /\ Len(out) \in Nat /\ DOMAIN out = 1..Len(out) /\ DOMAIN out' = 1..new
          /\ \A c \in 1..Len(out) : out'[c] = out[c]
          /\ out'[new] = Completion(nr)
      BY <2>1, SentMessages, Enqueued
    <2>3. out'[new].kind = "completion" /\ out'[new].nr = nr
      BY <2>2 DEF Completion
    <2> QED BY <2>2, <2>3
  <1> HIDE DEF new
  <1>2. \A i \in DOMAIN parts : /\ i \in DOMAIN parts' /\ parts'[i].kind = parts[i].kind
                                /\ parts[i].fate = "done" => parts'[i].fate = "done"
    BY PartsKept
  <1>3. CompletedAreDone'
    <2>1. ASSUME NEW c \in DOMAIN out, out[c].kind = "completion"
          PROVE  /\ HasFate(out[c].nr, {"done"})'
                 /\ parts'[out[c].nr].kind \in {"call", "stream"}
                 /\ tasks'[out[c].nr].at \in {"none", "ended"}
      BY <1>2, <2>1 DEF Answers, CompletedAreDone, HasFate, EndedTasksKept
    <2> QED BY <1>1, <2>1 DEF CompletedAreDone, HasFate
  <1>4. CompletionIsLast'
    BY <1>1 DEF Answers, CompletionIsLast
  <1>5. AnswersInOrder'
    <2> SUFFICES ASSUME NEW i \in DOMAIN out', NEW j \in DOMAIN out', i < j,
                        out'[i].kind = "completion", out'[j].kind = "completion",
                        parts'[out'[i].nr].kind = "call", parts'[out'[j].nr].kind = "call"
                 PROVE  out'[i].nr < out'[j].nr
      BY DEF AnswersInOrder
    <2>1. i \in DOMAIN out
      BY <1>1
    <2>2. CASE j \in DOMAIN out
      BY <1>1, <1>2, <2>1, <2>2 DEF Answers, AnswersInOrder, CompletedAreDone, HasFate
    <2>3. CASE j = new
      BY <1>1, <2>1, <2>3
    <2> QED BY <1>1, <2>2, <2>3
  <1>6. \A i : Completed(i)' <=> Completed(i) \/ i = nr
    <2>1. \A i : Completion(i) = Completion(nr) => i = nr
      BY DEF Completion
    <2> QED BY <1>1, <2>1 DEF Completed
  <1>7. \A i : Completed(i) => HasFate(i, {"done"})
    BY DEF Completed, Completion, Answers, CompletedAreDone
  <1>8. DoneMeansAnswered'
    BY <1>2, <1>6, <1>7 DEF Answers, DoneMeansAnswered, HasFate
  <1> QED BY <1>3, <1>4, <1>5, <1>8 DEF Answers

\* Nobody is completed whose callback still runs.
LEMMA RunningIsOpen ==
  ASSUME TypeOK, OneAtATime, TasksOfStreams, Answers,
         NEW nr \in DOMAIN parts, parts[nr].fate = "running"
  PROVE  /\ tasks[nr].at = "none"
         /\ \A c \in DOMAIN out : out[c].kind = "completion" => out[c].nr < nr
  <1>1. nr \in DOMAIN tasks /\ nr # 0 /\ DOMAIN parts \subseteq Nat
    BY Elements, BoundsAreNat
  <1>2. tasks[nr].at = "none"
    BY <1>1 DEF TasksOfStreams, HasFate
  <1>3. ASSUME NEW c \in DOMAIN out, out[c].kind = "completion" PROVE out[c].nr < nr
    <2>1. out[c].nr \in DOMAIN parts /\ parts[out[c].nr].fate = "done"
      BY <1>3 DEF Answers, CompletedAreDone, HasFate
    <2>2. ~(nr < out[c].nr)
      BY <2>1 DEF OneAtATime, Pending
    <2> QED BY <1>1, <2>1, <2>2
  <1> QED BY <1>2, <1>3

LEMMA AnswersStep ==
  TypeOK /\ OneAtATime /\ TasksOfStreams /\ Answers /\ [Next]_vars => Answers'
  <1> SUFFICES ASSUME TypeOK, OneAtATime, TasksOfStreams, Answers, [Next]_vars PROVE Answers'
    OBVIOUS
  <1>T. EndedTasksKept
    <2>1. \A c \in DOMAIN out : out[c].kind = "completion" =>
            /\ HasFate(out[c].nr, {"done"}) /\ out[c].nr \in DOMAIN tasks
            /\ tasks[out[c].nr].at \in {"none", "ended"}
      BY Elements DEF Answers, CompletedAreDone
    <2>2. ASSUME NEW nr \in DOMAIN parts, StreamStarts(nr), Spawns(nr) PROVE EndedTasksKept
      <3>1. /\ parts[nr].fate = "running"
            /\ \A u \in DOMAIN tasks : u # nr => tasks'[u] = tasks[u]
        BY <2>2, StreamStarted
      <3> QED BY <2>1, <3>1 DEF EndedTasksKept, HasFate
    <2>3. ASSUME NEW t \in DOMAIN tasks, Forwarder(t) \/ ChannelCloses(t) PROVE EndedTasksKept
      <3>1. /\ tasks[t].at \in {"receiving", "completing"}
            /\ \A u \in DOMAIN tasks : u # t => tasks'[u] = tasks[u]
        BY <2>3, TaskMoves
      <3> QED BY <2>1, <3>1 DEF EndedTasksKept
    <2>4. CASE UNCHANGED tasks
      BY <2>1, <2>4 DEF EndedTasksKept
    <2> QED BY <2>2, <2>3, <2>4, TasksStep
  \* What the end of a callback means for the answers.
  <1>S. ASSUME NEW nr \in DOMAIN parts, NEW fate \in {"done", "failed"}, parts[nr].fate = "running",
               Settle(nr, fate)
        PROVE  /\ DOMAIN parts' = DOMAIN parts /\ parts'[nr].kind = parts[nr].kind
               /\ parts'[nr].fate = fate
               /\ \A i \in DOMAIN parts' : /\ parts'[i].kind = parts[i].kind
                                           /\ parts'[i].fate = "done" => i = nr \/ parts[i].fate = "done"
    <2>1. fate \in Fates
      BY DEF Fates
    <2> QED BY <1>S, <2>1, Settled
  <1>A. ASSUME NEW nr \in DOMAIN parts, parts[nr].kind \in {"call", "stream"},
               parts[nr].fate = "running", Answer(nr), UNCHANGED tasks
        PROVE  Answers'
    <2>1. CASE out' = out /\ Settle(nr, "failed")
      BY <1>A, <1>T, <2>1, <1>S, AnswersKept DEF NoCallAnswered
    <2>2. CASE out' = Append(out, Completion(nr)) /\ Settle(nr, "done")
      <3>1. nr \in 1..MaxMessages /\ DOMAIN parts \subseteq Nat
        BY Elements, BoundsAreNat
      <3>2. /\ tasks[nr].at = "none"
            /\ \A c \in DOMAIN out : out[c].kind = "completion" => out[c].nr < nr
        BY <1>A, RunningIsOpen
      <3>3. \A c \in DOMAIN out : out[c].kind = "completion" => out[c].nr # nr
        BY <3>1, <3>2
      <3>4. /\ HasFate(nr, {"done"})' /\ parts'[nr].kind \in {"call", "stream"}
            /\ \A i \in DOMAIN parts' : parts'[i].kind = "call" /\ parts'[i].fate = "done" =>
                 i = nr \/ (i \in DOMAIN parts /\ parts[i].fate = "done")
        BY <1>A, <2>2, <1>S DEF HasFate
      <3>5. tasks'[nr].at \in {"none", "ended"}
        BY <1>A, <3>2
      <3> QED BY <1>T, <2>2, <3>1, <3>2, <3>3, <3>4, <3>5, AnswersExtended
    <2> QED BY <1>A, <2>1, <2>2, AnswerSends
  <1>1. ASSUME NEW opcode \in {"text", "binary"}, NEW kinds \in Batches, ReadFrame(opcode, kinds)
        PROVE  Answers'
    <2>1. NoCallAnswered
      <3>1. /\ DOMAIN parts' = 1..(Len(parts) + Len(kinds)) /\ Len(kinds) \in Nat
            /\ \A i \in DOMAIN parts : parts'[i] = parts[i]
            /\ \A i \in 1..Len(kinds) :
                 parts'[Len(parts) + i] = [kind |-> kinds[i], frame |-> Len(frames'),
                                           fate |-> Parsed(opcode, kinds, i)]
            /\ Len(parts) \in Nat /\ DOMAIN parts = 1..Len(parts)
        BY <1>1, FrameRead, Elements
      <3>2. ASSUME NEW i \in DOMAIN parts', i \notin DOMAIN parts
            PROVE  parts'[i].fate # "done"
        <4>1. i - Len(parts) \in 1..Len(kinds) /\ Len(parts) + (i - Len(parts)) = i
          BY <3>1, <3>2
        <4>2. parts'[i] = [kind |-> kinds[i - Len(parts)], frame |-> Len(frames'),
                           fate |-> Parsed(opcode, kinds, i - Len(parts))]
          BY <3>1, <4>1
        <4> QED BY <4>2 DEF Parsed
      <3> QED BY <3>1, <3>2 DEF NoCallAnswered
    <2>2. out' = out
      BY <1>1 DEF ReadFrame, queue
    <2> QED BY <1>T, <2>1, <2>2, AnswersKept
  <1>2. ASSUME NEW nr \in DOMAIN parts, Dispatch(nr) PROVE Answers'
    <2>1. /\ DOMAIN parts' = DOMAIN parts
          /\ \A i \in DOMAIN parts : i # nr => parts'[i] = parts[i]
          /\ parts'[nr].kind = parts[nr].kind
          /\ parts'[nr].fate = IF parts[nr].kind = "ignored" THEN "done" ELSE "running"
          /\ out' = out
      BY <1>2, Dispatched
    <2>2. NoCallAnswered
      BY <2>1 DEF NoCallAnswered
    <2> QED BY <1>T, <2>1, <2>2, AnswersKept
  <1>3. ASSUME NEW nr \in DOMAIN parts, CallReturns(nr) \/ StreamFails(nr) PROVE Answers'
    BY <1>3, <1>A DEF CallReturns, StreamFails, Running
  <1>4. ASSUME NEW nr \in DOMAIN parts, FireReturns(nr) \/ StreamStarts(nr) PROVE Answers'
    <2>1. /\ parts[nr].fate = "running" /\ parts[nr].kind # "call" /\ out' = out
          /\ \E fate \in {"done", "failed"} : Settle(nr, fate)
      BY <1>4 DEF FireReturns, StreamStarts, Running, queue
    <2>2. NoCallAnswered
      BY <2>1, <1>S DEF NoCallAnswered
    <2> QED BY <1>T, <2>1, <2>2, AnswersKept
  <1>5. ASSUME NEW t \in DOMAIN tasks, Forwarder(t) \/ ChannelCloses(t) PROVE Answers'
    <2>1. parts' = parts /\ tasks[t].at \in {"receiving", "completing"} /\ t \in 0..MaxMessages
      BY <1>5, TaskMoves, Elements
    <2>2. NoCallAnswered
      BY <2>1 DEF NoCallAnswered
    <2>3. \A c \in DOMAIN out : out[c].kind = "completion" => out[c].nr # t
      BY <2>1 DEF Answers, CompletedAreDone
    <2>4. CASE out' = out
      BY <1>T, <2>2, <2>4, AnswersKept
    <2>5. CASE Forward(t)
      <3>1. Unread(t) /\ out' = Append(out, Item(t, tasks[t].next))
        BY <2>5 DEF Forward
      <3> QED BY <1>T, <2>1, <2>2, <2>3, <3>1, AnswersKept
    <2>6. CASE Complete(t) /\ CanSend
      <3>1. tasks[t].at = "completing" /\ out' = Append(out, Completion(t)) /\ tasks'[t].at = "ended"
        <4>1. tasks \in [0..MaxMessages -> [at : TaskStates, next : 1..(MaxPublished + 1),
                                            lagged : BOOLEAN]]
          BY DEF TypeOK
        <4> QED BY <2>6, <4>1 DEF Complete
      <3>2. t # 0 /\ HasFate(t, {"done"}) /\ parts[t].kind = "stream"
        BY <3>1 DEF TasksOfStreams
      <3>3. t \in 1..MaxMessages
        BY <2>1, <3>2, BoundsAreNat
      <3>4. HasFate(t, {"done"})' /\ parts'[t].kind = "stream"
        BY <2>1, <3>2 DEF HasFate
      <3>5. \A i \in DOMAIN parts' : parts'[i].kind = "call" /\ parts'[i].fate = "done" =>
              i \in DOMAIN parts /\ parts[i].fate = "done"
        BY <2>1
      <3> QED BY <1>T, <2>3, <3>1, <3>3, <3>4, <3>5, AnswersExtended
    <2> QED
      BY <1>5, <2>4, <2>5, <2>6 DEF Forwarder, Lag, ForwardRefused, ChannelCloses, Complete, queue
  <1>6. CASE ReaderEnds \/ Publish \/ WriterTakes \/ WriterEnds \/ UNCHANGED vars
    <2>1. parts' = parts /\ out' = out
      BY <1>6 DEF ReaderEnds, Publish, WriterTakes, WriterEnds, vars, reader, queue
    <2>2. NoCallAnswered
      BY <2>1 DEF NoCallAnswered
    <2> QED BY <1>T, <2>1, <2>2, AnswersKept
  <1>7. ASSUME NEW nr \in DOMAIN parts, CallbackPanics(nr) PROVE Answers'
    <2>1. NoCallAnswered /\ out' = out
      BY <1>7, Unwound DEF NoCallAnswered
    <2> QED BY <1>T, <2>1, AnswersKept
  <1> QED BY <1>1, <1>2, <1>3, <1>4, <1>5, <1>6, <1>7 DEF Next, Client, Reader

----------------------------------------------------------------------------
\* A task with items in the queue goes forward, and remembers that it lagged.
TasksAdvance == \A t \in DOMAIN tasks : tasks[t].at # "none" =>
    /\ tasks'[t].at # "none" /\ tasks'[t].next >= tasks[t].next
    /\ tasks[t].lagged => tasks'[t].lagged

\* A step that puts no item into the queue: who is ahead of it has lagged.
LEMMA ItemsKept ==
  ASSUME TypeOK, TypeOK', Items, TasksAdvance,
         \A t \in DOMAIN tasks : tasks[t].at # "none" =>
             tasks'[t].lagged \/ tasks'[t].next = tasks[t].next,
         \/ out' = out
         \/ \E nr \in 0..MaxMessages : out' = Append(out, Completion(nr))
  PROVE  Items'
  <1>1. /\ DOMAIN out = 1..Len(out) /\ Len(out) \in Nat
        /\ DOMAIN out \subseteq DOMAIN out'
        /\ \A c \in DOMAIN out : out'[c] = out[c]
        /\ \A c \in DOMAIN out' : out'[c].kind = "item" => c \in DOMAIN out
    <2>1. DOMAIN out = 1..Len(out) /\ Len(out) \in Nat
      BY Elements
    <2>2. CASE out' = out
      BY <2>1, <2>2
    <2>3. ASSUME NEW nr \in 0..MaxMessages, out' = Append(out, Completion(nr))
          PROVE  /\ DOMAIN out \subseteq DOMAIN out'
                 /\ \A c \in DOMAIN out : out'[c] = out[c]
                 /\ \A c \in DOMAIN out' : out'[c].kind = "item" => c \in DOMAIN out
      <3>1. /\ DOMAIN out' = 1..(Len(out) + 1)
            /\ \A c \in 1..Len(out) : out'[c] = out[c]
            /\ out'[Len(out) + 1] = Completion(nr)
        BY <2>3, SentMessages, Enqueued
      <3>2. out'[Len(out) + 1].kind = "completion"
        BY <3>1 DEF Completion
      <3>3. \A c \in DOMAIN out' : c \in DOMAIN out \/ c = Len(out) + 1
        BY <2>1, <3>1
      <3>4. DOMAIN out \subseteq DOMAIN out' /\ \A c \in DOMAIN out : out'[c] = out[c]
        BY <2>1, <3>1
      <3> QED BY <3>2, <3>3, <3>4
    <2> QED BY <2>1, <2>2, <2>3
  <1>2. /\ \A i \in DOMAIN out : out[i].nr \in DOMAIN tasks /\ out[i].item \in Nat
        /\ \A t \in DOMAIN tasks : t \in DOMAIN tasks' /\ tasks[t].next \in Nat /\ tasks'[t].next \in Nat
    <2>1. \A i \in 1..Len(out) : out[i].nr \in 0..MaxMessages /\ out[i].item \in 0..MaxPublished
      BY Elements
    <2>2. \A t \in 0..MaxMessages : tasks[t].next \in 1..(MaxPublished + 1)
      BY Elements
    <2>3. DOMAIN tasks' = 0..MaxMessages /\ \A t \in 0..MaxMessages : tasks'[t].next \in 1..(MaxPublished + 1)
      BY DEF TypeOK
    <2> QED BY <1>1, <2>1, <2>2, <2>3, Elements, BoundsAreNat
  <1>3. ItemsTrackTask'
    <2> SUFFICES ASSUME NEW i \in DOMAIN out', out'[i].kind = "item"
                 PROVE  LET task == tasks'[out'[i].nr] IN
                        /\ task.at # "none"
                        /\ out'[i].item < task.next
                        /\ (\A k \in DOMAIN out' : k > i => out'[k].nr # out'[i].nr) =>
                               task.lagged \/ out'[i].item = task.next - 1
      BY DEF ItemsTrackTask
    <2> DEFINE t == out[i].nr
    <2>1. /\ i \in DOMAIN out /\ out'[i] = out[i] /\ t \in DOMAIN tasks
          /\ tasks[t].at # "none" /\ out[i].item < tasks[t].next
      BY <1>1, <1>2 DEF Items, ItemsTrackTask
    <2>2. tasks'[t].at # "none" /\ out[i].item < tasks'[t].next
      BY <1>2, <2>1 DEF TasksAdvance
    <2>3. ASSUME \A k \in DOMAIN out' : k > i => out'[k].nr # t
          PROVE  tasks'[t].lagged \/ out[i].item = tasks'[t].next - 1
      <3>1. tasks[t].lagged \/ out[i].item = tasks[t].next - 1
        BY <1>1, <2>1, <2>3 DEF Items, ItemsTrackTask
      <3> QED BY <2>1, <3>1 DEF TasksAdvance
    <2> QED BY <2>1, <2>2, <2>3
  <1>4. ItemsInOrder'
    <2> SUFFICES ASSUME NEW i \in DOMAIN out', NEW j \in DOMAIN out', i < j,
                        out'[i].kind = "item", out'[j].kind = "item", out'[i].nr = out'[j].nr,
                        \A k \in (i + 1)..(j - 1) : out'[k].nr # out'[i].nr
                 PROVE  \/ out'[j].item = out'[i].item + 1
                        \/ tasks'[out'[i].nr].lagged /\ out'[j].item > out'[i].item
      BY DEF ItemsInOrder
    <2>1. i \in DOMAIN out /\ j \in DOMAIN out /\ out'[i] = out[i] /\ out'[j] = out[j]
      BY <1>1
    <2>2. \A k \in (i + 1)..(j - 1) : out[k].nr # out[i].nr
      <3>1. \A k \in (i + 1)..(j - 1) : k \in DOMAIN out
        BY <1>1, <2>1
      <3> QED BY <1>1, <2>1, <3>1
    <2>3. \/ out[j].item = out[i].item + 1
          \/ tasks[out[i].nr].lagged /\ out[j].item > out[i].item
      BY <2>1, <2>2 DEF Items, ItemsInOrder
    <2>4. out[i].nr \in DOMAIN tasks /\ tasks[out[i].nr].at # "none"
      BY <1>2, <2>1 DEF Items, ItemsTrackTask
    <2> QED BY <2>1, <2>3, <2>4 DEF TasksAdvance
  <1> QED BY <1>3, <1>4 DEF Items

\* A task puts the item it is at into the queue and goes on to the next.
LEMMA ItemsForwarded ==
  ASSUME TypeOK, TypeOK', Items, NEW t \in DOMAIN tasks, Forward(t)
  PROVE  Items'
  <1> DEFINE new == Len(out) + 1
  <1>1. /\ DOMAIN out = 1..Len(out) /\ Len(out) \in Nat
        /\ DOMAIN out' = 1..new /\ DOMAIN out \subseteq DOMAIN out'
        /\ \A c \in DOMAIN out : out'[c] = out[c]
        /\ \A c \in DOMAIN out' : c = new \/ c \in DOMAIN out
        /\ new \in DOMAIN out' /\ \A c \in DOMAIN out : c < new
        /\ out'[new].kind = "item" /\ out'[new].nr = t /\ out'[new].item = tasks[t].next
    <2>1. t \in 0..MaxMessages /\ Unread(t) /\ out' = Append(out, Item(t, tasks[t].next))
      BY Elements DEF Forward
    <2>2. /\ Len(out) \in Nat /\ DOMAIN out = 1..Len(out) /\ DOMAIN out' = 1..new
          /\ \A c \in 1..Len(out) : out'[c] = out[c]
          /\ out'[new] = Item(t, tasks[t].next)
      BY <2>1, SentMessages, Enqueued
    <2>3. out'[new].kind = "item" /\ out'[new].nr = t /\ out'[new].item = tasks[t].next
      BY <2>2 DEF Item
    <2> QED BY <2>2, <2>3
  <1> HIDE DEF new
  <1>2. /\ \A u \in DOMAIN tasks : u # t => tasks'[u] = tasks[u]
        /\ tasks'[t].at = tasks[t].at /\ tasks'[t].next = tasks[t].next + 1
        /\ tasks'[t].lagged = tasks[t].lagged
        /\ tasks[t].at = "receiving" /\ tasks[t].next \in Nat
    <2>1. tasks \in [0..MaxMessages -> [at : TaskStates, next : 1..(MaxPublished + 1), lagged : BOOLEAN]]
      BY DEF TypeOK
    <2>2. tasks[t].next \in Nat
      BY <2>1, BoundsAreNat
    <2> QED BY <2>1, <2>2 DEF Forward, Unread
  <1>3. \A i \in DOMAIN out : out[i].nr \in DOMAIN tasks /\ out[i].item \in Nat
    <2>1. \A i \in 1..Len(out) : out[i].nr \in 0..MaxMessages /\ out[i].item \in 0..MaxPublished
      BY Elements
    <2> QED BY <1>1, <2>1, Elements, BoundsAreNat
  <1>4. ItemsTrackTask'
    <2> SUFFICES ASSUME NEW i \in DOMAIN out', out'[i].kind = "item"
                 PROVE  LET task == tasks'[out'[i].nr] IN
                        /\ task.at # "none"
                        /\ out'[i].item < task.next
                        /\ (\A k \in DOMAIN out' : k > i => out'[k].nr # out'[i].nr) =>
                               task.lagged \/ out'[i].item = task.next - 1
      BY DEF ItemsTrackTask
    <2>1. CASE i = new
      BY <1>1, <1>2, <2>1
    <2>2. CASE i \in DOMAIN out /\ out[i].nr = t
      <3>1. out[i].item < tasks[t].next
        BY <1>1, <2>2 DEF Items, ItemsTrackTask
      <3>2. ~ \A k \in DOMAIN out' : k > i => out'[k].nr # out'[i].nr
        BY <1>1, <2>2
      <3>3. tasks'[t].at # "none" /\ out[i].item < tasks'[t].next
        BY <1>2, <1>3, <2>2, <3>1
      <3> QED BY <1>1, <2>2, <3>2, <3>3
    <2>3. CASE i \in DOMAIN out /\ out[i].nr # t
      <3>1. tasks'[out[i].nr] = tasks[out[i].nr] /\ out'[i] = out[i]
        BY <1>1, <1>2, <1>3, <2>3
      <3>2. /\ tasks[out[i].nr].at # "none" /\ out[i].item < tasks[out[i].nr].next
            /\ (\A k \in DOMAIN out : k > i => out[k].nr # out[i].nr) =>
                 tasks[out[i].nr].lagged \/ out[i].item = tasks[out[i].nr].next - 1
        BY <2>3, <3>1 DEF Items, ItemsTrackTask
      <3> QED BY <1>1, <2>3, <3>1, <3>2
    <2> QED BY <1>1, <2>1, <2>2, <2>3
  <1>5. ItemsInOrder'
    <2> SUFFICES ASSUME NEW i \in DOMAIN out', NEW j \in DOMAIN out', i < j,
                        out'[i].kind = "item", out'[j].kind = "item", out'[i].nr = out'[j].nr,
                        \A k \in (i + 1)..(j - 1) : out'[k].nr # out'[i].nr
                 PROVE  \/ out'[j].item = out'[i].item + 1
                        \/ tasks'[out'[i].nr].lagged /\ out'[j].item > out'[i].item
      BY DEF ItemsInOrder
    <2>1. i \in DOMAIN out /\ out'[i] = out[i] /\ out[i].kind = "item"
      BY <1>1
    <2>2. \A k \in (i + 1)..(j - 1) : k \in DOMAIN out /\ out[k].nr # out[i].nr
      <3>1. \A k \in (i + 1)..(j - 1) : k \in DOMAIN out
        BY <1>1, <2>1
      <3> QED BY <1>1, <2>1, <3>1
    <2>3. CASE j \in DOMAIN out
      <3>1. \/ out[j].item = out[i].item + 1
            \/ tasks[out[i].nr].lagged /\ out[j].item > out[i].item
        BY <1>1, <2>1, <2>2, <2>3 DEF Items, ItemsInOrder
      <3>2. tasks[out[i].nr].lagged => tasks'[out[i].nr].lagged
        BY <1>2, <1>3, <2>1
      <3> QED BY <1>1, <2>1, <2>3, <3>1, <3>2
    <2>4. CASE j = new
      <3>1. out[i].nr = t /\ out'[j].item = tasks[t].next
        BY <1>1, <2>1, <2>4
      <3>2. \A k \in DOMAIN out : k > i => out[k].nr # out[i].nr
        <4>1. \A k \in DOMAIN out : k > i => k \in (i + 1)..(j - 1)
          BY <1>1, <2>1, <2>4 DEF new
        <4> QED BY <2>2, <4>1
      <3>3. tasks[t].lagged \/ out[i].item = tasks[t].next - 1
        BY <2>1, <3>1, <3>2 DEF Items, ItemsTrackTask
      <3>4. out[i].item < tasks[t].next
        BY <2>1, <3>1 DEF Items, ItemsTrackTask
      <3> QED BY <1>2, <1>3, <2>1, <3>1, <3>3, <3>4
    <2> QED BY <1>1, <2>3, <2>4
  <1> QED BY <1>4, <1>5 DEF Items

\* What a step puts into the queue.
LEMMA QueueStep ==
  ASSUME TypeOK, [Next]_vars
  PROVE  \/ out' = out
         \/ \E nr \in 0..MaxMessages : out' = Append(out, Completion(nr))
         \/ \E t \in DOMAIN tasks : Forward(t)
  <1>1. \A nr \in DOMAIN parts : nr \in 0..MaxMessages
    BY Elements, BoundsAreNat
  <1>2. CASE Reader
    BY <1>1, <1>2 DEF Reader, Dispatch, CallReturns, FireReturns, StreamFails, StreamStarts, Answer, queue
  <1>3. ASSUME NEW t \in DOMAIN tasks, Forwarder(t) \/ ChannelCloses(t)
        PROVE  \/ out' = out
               \/ \E nr \in 0..MaxMessages : out' = Append(out, Completion(nr))
               \/ Forward(t)
    <2>1. t \in 0..MaxMessages
      BY Elements
    <2>2. CASE Complete(t)
      BY <2>1, <2>2 DEF Complete
    <2> QED BY <1>3, <2>2 DEF Forwarder, Lag, ForwardRefused, ChannelCloses, queue
  <1>4. CASE Client \/ ReaderEnds \/ Publish \/ WriterTakes \/ WriterEnds \/ UNCHANGED vars
    BY <1>4 DEF Client, ReadFrame, ReaderEnds, Publish, WriterTakes, WriterEnds, vars, queue
  <1>5. CASE \E nr \in DOMAIN parts : CallbackPanics(nr)
    BY <1>5 DEF CallbackPanics, queue
  <1> QED BY <1>2, <1>3, <1>4, <1>5 DEF Next

LEMMA ItemsStep == TypeOK /\ TasksOfStreams /\ Items /\ [Next]_vars => Items'
  <1> SUFFICES ASSUME TypeOK, TasksOfStreams, Items, [Next]_vars PROVE Items'
    OBVIOUS
  <1>1. TypeOK'
    BY TypeStep
  <1>2. CASE \E t \in DOMAIN tasks : Forward(t)
    BY <1>1, <1>2, ItemsForwarded
  <1>3. CASE ~ \E t \in DOMAIN tasks : Forward(t)
    <2>T. /\ \A t \in DOMAIN tasks : tasks[t].next \in Nat
          /\ tasks \in [0..MaxMessages -> [at : TaskStates, next : 1..(MaxPublished + 1), lagged : BOOLEAN]]
      BY Elements, BoundsAreNat DEF TypeOK
    <2> DEFINE Steady(t) == /\ tasks'[t].at # "none" /\ tasks'[t].next >= tasks[t].next
                            /\ tasks[t].lagged => tasks'[t].lagged
                            /\ tasks'[t].lagged \/ tasks'[t].next = tasks[t].next
    <2>1. ASSUME NEW nr \in DOMAIN parts, StreamStarts(nr), Spawns(nr),
                 NEW t \in DOMAIN tasks, tasks[t].at # "none"
          PROVE  Steady(t)
      <3>1. /\ parts[nr].fate = "running" /\ nr \in DOMAIN tasks /\ nr # 0
            /\ \A u \in DOMAIN tasks : u # nr => tasks'[u] = tasks[u]
        BY <2>1, StreamStarted
      <3>2. tasks[nr].at = "none"
        BY <3>1 DEF TasksOfStreams, HasFate
      <3> QED BY <2>1, <2>T, <3>1, <3>2
    <2>2. ASSUME NEW s \in DOMAIN tasks, Forwarder(s) \/ ChannelCloses(s),
                 NEW t \in DOMAIN tasks, tasks[t].at # "none"
          PROVE  Steady(t)
      <3>1. /\ tasks'[s].at # "none"
            /\ \A u \in DOMAIN tasks : u # s => tasks'[u] = tasks[u]
        BY <2>2, TaskMoves
      <3>2. CASE t # s
        BY <2>2, <2>T, <3>1, <3>2
      <3>3. CASE t = s /\ Lag(s)
        <4>1. /\ tasks'[s].next = published - ChannelCapacity + 1 /\ tasks'[s].lagged
              /\ published - tasks[s].next >= ChannelCapacity
          BY <2>T, <3>3 DEF Lag, Overrun
        <4>2. published \in Nat /\ ChannelCapacity \in Nat
          BY CapacitiesPositive, BoundsAreNat DEF TypeOK
        <4>3. tasks'[s].next >= tasks[s].next
          BY <2>T, <4>1, <4>2
        <4> QED BY <3>1, <3>3, <4>1, <4>3
      <3>4. CASE t = s /\ (ForwardRefused(s) \/ ChannelCloses(s) \/ Complete(s))
        <4>1. tasks'[s].next = tasks[s].next /\ tasks'[s].lagged = tasks[s].lagged
          BY <2>T, <3>4 DEF ForwardRefused, ChannelCloses, Complete
        <4> QED BY <2>T, <3>1, <3>4, <4>1
      <3> QED BY <1>3, <2>2, <3>2, <3>3, <3>4 DEF Forwarder
    <2>3. ASSUME UNCHANGED tasks, NEW t \in DOMAIN tasks, tasks[t].at # "none"
          PROVE  Steady(t)
      BY <2>3, <2>T
    <2>4. \A t \in DOMAIN tasks : tasks[t].at # "none" => Steady(t)
      <3> HIDE DEF Steady
      <3> QED BY <2>1, <2>2, <2>3, TasksStep
    <2>5. /\ TasksAdvance
          /\ \A t \in DOMAIN tasks : tasks[t].at # "none" =>
               tasks'[t].lagged \/ tasks'[t].next = tasks[t].next
      BY <2>4 DEF TasksAdvance
    <2> QED BY <1>1, <1>3, <2>5, QueueStep, ItemsKept
  <1> QED BY <1>2, <1>3

----------------------------------------------------------------------------
LEMMA Initially == Init => IInv
  <1> SUFFICES ASSUME Init PROVE IInv
    OBVIOUS
  <1>1. PICK hub \in {"ChatHub", "MarketHub"} : OnConnected(hub)
    BY DEF Init
  <1> DEFINE feed == IF hub = "MarketHub" THEN "receiving" ELSE "none"
             Sent == [kind : {"completion", "item", "welcome"}, nr : 0..MaxMessages,
                      item : 0..MaxPublished]
  <1>2. /\ tasks = [t \in 0..MaxMessages |-> [at |-> IF t = 0 THEN feed ELSE "none", next |-> 1,
                                              lagged |-> FALSE]]
        /\ out = <<>> \/ out = <<Welcome>>
    BY <1>1 DEF OnConnected, Task
  <1>3. tasks \in [0..MaxMessages -> [at : TaskStates, next : 1..(MaxPublished + 1), lagged : BOOLEAN]]
    BY <1>2, BoundsAreNat DEF TaskStates
  <1>4. Welcome \in Sent /\ Welcome.kind = "welcome"
    BY BoundsAreNat DEF Welcome
  <1>5. out \in Seq(Sent) /\ Len(out) \in Nat /\ \A c \in DOMAIN out : out[c].kind = "welcome"
    <2> HIDE DEF Sent
    <2>1. CASE out = <<>>
      BY <2>1
    <2>2. CASE out = <<Welcome>>
      <3>1. out \in Seq(Sent) /\ Len(out) = 1 /\ DOMAIN out = 1..1 /\ out[1] = Welcome
        BY <1>4, <2>2
      <3> QED BY <1>4, <3>1
    <2> QED BY <1>2, <2>1, <2>2
  <1>6. parts = <<>> /\ DOMAIN parts = {} /\ frames = <<>> /\ Len(parts) = 0 /\ Len(frames) = 0
    BY DEF Init
  <1>7. TypeOK
    <2>1. parts \in Seq([kind : Kinds, frame : 1..Len(frames), fate : Fates])
          /\ frames \in Seq({"text", "binary"})
      BY <1>6
    <2>2. written \in 0..Len(out) /\ Len(out) - written <= Capacity
      <3>1. written = 0
        BY DEF Init
      <3>2. CASE out = <<>>
        <4>1. Len(out) = 0
          BY <3>2
        <4> QED BY <3>1, <4>1, CapacitiesPositive
      <3>3. CASE out = <<Welcome>>
        <4>1. Len(out) = 1
          BY <3>3
        <4> QED BY <3>1, <4>1, CapacitiesPositive
      <3> QED BY <1>2, <3>2, <3>3
    <2>3. /\ protocol \in {"json", "messagepack"} /\ Len(parts) <= MaxMessages
          /\ published \in 0..MaxPublished
          /\ busy \in BOOLEAN /\ reading \in BOOLEAN /\ open \in BOOLEAN
      <3>1. Len(parts) <= MaxMessages
        BY <1>6, BoundsAreNat
      <3>2. /\ protocol \in {"json", "messagepack"} /\ busy = FALSE /\ reading = TRUE /\ open = TRUE
            /\ published = 0
        BY DEF Init
      <3>3. published \in 0..MaxPublished
        BY <3>2, BoundsAreNat
      <3> QED BY <3>1, <3>2, <3>3
    <2> QED BY <1>3, <1>5, <2>1, <2>2, <2>3, ZenonT(30) DEF TypeOK
  <1>8. OneAtATime /\ BatchOutcome
    BY <1>6 DEF OneAtATime, BatchOutcome
  <1>9. TasksOfStreams
    BY <1>2 DEF TasksOfStreams
  <1>10. Answers
    BY <1>5, <1>6 DEF Answers, CompletedAreDone, CompletionIsLast, AnswersInOrder, DoneMeansAnswered
  <1>11. Items
    BY <1>5 DEF Items, ItemsTrackTask, ItemsInOrder
  <1> QED BY <1>7, <1>8, <1>9, <1>10, <1>11 DEF IInv

LEMMA Inductive == IInv /\ [Next]_vars => IInv'
  BY TypeStep, OneAtATimeStep, TasksOfStreamsStep, BatchStep, AnswersStep, ItemsStep DEF IInv

\* The inductive invariant holds of every run of the dispatch, its tasks and the
\* queue.
THEOREM Invariance == Spec => []IInv
  BY Initially, Inductive, PTL DEF Spec

\* Type correctness of the connection's dispatch.
THEOREM TypeCorrect == Spec => []TypeOK
  BY Invariance, PTL DEF IInv

\* A completion is the last the client gets of an invocation id, and the only
\* one (send_completion, and the completion a stream's task sends).
THEOREM OneCompletion == Spec => []CompletionIsLast
  BY Invariance, PTL DEF IInv, Answers

\* Invocations are answered in the order in which they were read, although
\* tasks of streams answer beside the reader.
THEOREM AnswersOrdered == Spec => []AnswersInOrder
  BY Invariance, PTL DEF IInv, Answers

\* A failure or a message that does not parse takes along the messages of a
\* binary frame, and of no other (handle_message and handle_message_binary); a
\* panic ends the reading.
THEOREM BatchesFareAsFrames == Spec => []BatchOutcome
  BY Invariance, PTL DEF IInv

\* An invocation with an id that was handled is answered, and no other is.
THEOREM HandledIsAnswered == Spec => []DoneMeansAnswered
  BY Invariance, PTL DEF IInv, Answers

\* What a task forwards is in the order of the channel (the loops over
\* broadcast receivers in the examples).
THEOREM ForwardedInOrder == Spec => []ItemsInOrder
  BY Invariance, PTL DEF IInv, Items

============================================================================
