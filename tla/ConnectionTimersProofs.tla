---------------------- MODULE ConnectionTimersProofs ----------------------
(***************************************************************************)
(* Proofs of the properties of ConnectionTimers, for all durations, every  *)
(* capacity, and writes that block for any time: a silent client is        *)
(* noticed, a client is never left without a frame for longer than the     *)
(* keepalive's interval by a writer that could write, and a writer leaves  *)
(* before its reader only if the reader was kept.                          *)
(***************************************************************************)
EXTENDS ConnectionTimers, TLAPS

ClockTypes ==
    /\ rd \in {"reading", "callback", "awaiting", "done"}
    /\ wr \in {"select", "writing", "closing", "waiting", "done"}
    /\ patience \in Nat /\ giveUp \in Nat /\ idle \in Nat /\ after \in Nat
    /\ quiet \in Nat
    /\ due \in Int
    /\ closeSent \in BOOLEAN /\ busy \in BOOLEAN /\ gaveUp \in BOOLEAN

\* What the client may still be silent for is what is left of the reader's
\* timeout; a callback runs behind a frame that was just read.  No time passes
\* between the writer's Close or end and the reader's turn to the echo.
IdleInv ==
    /\ rd = "callback" => idle = 0
    /\ rd \in {"callback", "reading"} => after = 0
    /\ rd = "awaiting" => after + patience <= CloseEchoTimeout
    /\ rd = "reading" => idle + patience <= ClientTimeout
    /\ rd = "awaiting" => idle + patience <= ClientTimeout + CloseEchoTimeout

\* The next tick is due before the client was left without a frame for longer
\* than an interval: a missed tick is late and never early.
QuietInv ==
    /\ due <= KeepaliveInterval
    /\ wr = "select" => /\ quiet + due <= KeepaliveInterval
                        /\ quiet = 0 \/ due >= 0

\* A reader that nothing kept since the Close waits for its echo, or turns to
\* it at once, and is left with less time than the writer is.
WaitInv ==
    /\ wr = "waiting" => closeSent
    /\ closeSent => wr \in {"waiting", "done"}
    /\ gaveUp => busy /\ wr = "done"
    /\ rd = "awaiting" => WriterThrough
    /\ (wr = "waiting" /\ ~busy) =>
         /\ rd # "callback"
         /\ rd = "reading" => giveUp = CloseEchoTimeout + Slack
         /\ rd = "awaiting" => patience + Slack <= giveUp

IInv == ClockTypes /\ IdleInv /\ QuietInv /\ WaitInv

----------------------------------------------------------------------------
LEMMA DurationTypes ==
  /\ ClientTimeout \in Nat \ {0} /\ KeepaliveInterval \in Nat \ {0}
  /\ CloseEchoTimeout \in Nat \ {0} /\ Slack \in Nat \ {0}
  BY DurationsArePositive DEF Durations

LEMMA InitInv == Init => IInv
  <1> SUFFICES ASSUME Init PROVE IInv
    OBVIOUS
  <1> USE DurationTypes DEF Init
  <1>1. closeSent \in BOOLEAN /\ busy \in BOOLEAN /\ gaveUp \in BOOLEAN
    BY Zenon
  <1>2. ClockTypes
    BY <1>1 DEF ClockTypes
  <1>3. IdleInv
    BY DEF IdleInv
  <1>4. QuietInv /\ WaitInv
    BY DEF QuietInv, WaitInv
  <1> QED BY <1>2, <1>3, <1>4 DEF IInv

\* Time passes: the clocks of both tasks run down together.
LEMMA PassStep == IInv /\ Pass => IInv'
  <1> SUFFICES ASSUME IInv, Pass PROVE IInv'
    OBVIOUS
  <1> USE DurationTypes DEF IInv, ClockTypes, Pass, Waiting, WriterThrough, Less
  <1>1. ClockTypes'
    OBVIOUS
  <1>2. IdleInv'
    <2>1. rd = "reading" => after' = after
      \* A writer that waits for the reader has sent its Close.
      BY DEF WaitInv
    <2> QED BY <2>1 DEF IdleInv
  <1>3. QuietInv'
    BY DEF QuietInv
  <1>4. WaitInv'
    <2>1. rd = "reading" => ~closeSent /\ wr # "done"
      OBVIOUS
    <2>2. (rd = "awaiting" => patience > 0) /\ (wr = "waiting" => giveUp > 0)
      OBVIOUS
    <2> QED BY <2>1, <2>2 DEF WaitInv
  <1> QED BY <1>1, <1>2, <1>3, <1>4

LEMMA ClientStep == IInv /\ (Client \/ CallbackReturns \/ CallbackPanics) => IInv'
  <1> SUFFICES ASSUME IInv, Client \/ CallbackReturns \/ CallbackPanics PROVE IInv'
    OBVIOUS
  <1> USE DurationTypes DEF IInv, ClockTypes, WriterThrough, Turn, clocks
  <1>1. CASE ReadData
    BY <1>1 DEF ReadData, IdleInv, QuietInv, WaitInv
  <1>2. CASE ReadPing
    BY <1>2 DEF ReadPing, IdleInv, QuietInv, WaitInv
  <1>3. CASE ReadClose
    BY <1>3 DEF ReadClose, IdleInv, QuietInv, WaitInv
  <1>4. CASE ReadIgnored
    BY <1>4 DEF ReadIgnored, IdleInv, QuietInv, WaitInv
  <1>5. CASE CallbackReturns
    BY <1>5 DEF CallbackReturns, IdleInv, QuietInv, WaitInv
  <1>6. CASE CallbackPanics
    BY <1>6 DEF CallbackPanics, IdleInv, QuietInv, WaitInv
  <1> QED BY <1>1, <1>2, <1>3, <1>4, <1>5, <1>6 DEF Client

LEMMA ReaderStep == IInv /\ Reader => IInv'
  <1> SUFFICES ASSUME IInv, Reader PROVE IInv'
    OBVIOUS
  <1> USE DurationTypes DEF IInv, ClockTypes, WriterThrough, Turn, clocks
  <1>1. CASE NoticeCloseSent
    BY <1>1 DEF NoticeCloseSent, IdleInv, QuietInv, WaitInv
  <1>2. CASE ReaderTimesOut
    BY <1>2 DEF ReaderTimesOut, IdleInv, QuietInv, WaitInv
  <1> QED BY <1>1, <1>2 DEF Reader

LEMMA WriterStep == IInv /\ (Writer \/ WriteCompletes \/ WriteFails \/ Closed) => IInv'
  <1> SUFFICES ASSUME IInv, Writer \/ WriteCompletes \/ WriteFails \/ Closed PROVE IInv'
    OBVIOUS
  <1> USE DurationTypes DEF IInv, ClockTypes, WriterThrough, clocks
  <1>1. CASE WriterEnds \/ WriterCloses \/ TakePong
    BY <1>1 DEF WriterEnds, WriterCloses, TakePong, IdleInv, QuietInv, WaitInv
  <1>2. CASE TakeMessage
    BY <1>2 DEF TakeMessage, IdleInv, QuietInv, WaitInv
  <1>3. CASE TakeTick
    BY <1>3 DEF TakeTick, IdleInv, QuietInv, WaitInv
  <1>4. CASE SeeReaderDone
    BY <1>4 DEF SeeReaderDone, IdleInv, QuietInv, WaitInv
  <1>5. CASE WriterTimesOut
    <2>1. busy
      \* Otherwise the reader would have timed out before.
      BY <1>5 DEF WriterTimesOut, WaitInv
    <2>2. ClockTypes' /\ IdleInv' /\ QuietInv'
      BY <1>5 DEF WriterTimesOut, IdleInv, QuietInv
    <2>3. WaitInv'
      BY <1>5, <2>1 DEF WriterTimesOut, WaitInv
    <2> QED BY <2>2, <2>3
  <1>6. CASE WriteCompletes
    BY <1>6 DEF WriteCompletes, IdleInv, QuietInv, WaitInv
  <1>7. CASE WriteFails
    BY <1>7 DEF WriteFails, IdleInv, QuietInv, WaitInv
  <1>8. CASE Closed
    <2>1. busy' \in BOOLEAN /\ (~busy' => rd # "callback") /\ rd # "awaiting" /\ ~gaveUp
      BY <1>8, Zenon DEF Closed, WaitInv
    <2>2. ClockTypes' /\ IdleInv' /\ QuietInv'
      BY <1>8, <2>1 DEF Closed, IdleInv, QuietInv
    <2>3. WaitInv'
      BY <1>8, <2>1 DEF Closed, WaitInv
    <2> QED BY <2>2, <2>3
  <1> QED BY <1>1, <1>2, <1>3, <1>4, <1>5, <1>6, <1>7, <1>8 DEF Writer

LEMMA StepInv == IInv /\ [Next]_vars => IInv'
  <1> SUFFICES ASSUME IInv, [Next]_vars PROVE IInv'
    OBVIOUS
  <1>1. CASE UNCHANGED vars
    BY <1>1 DEF vars, clocks, IInv, ClockTypes, IdleInv, QuietInv, WaitInv, WriterThrough
  <1>2. CASE Disconnect \/ \E sendable \in BOOLEAN : Send(sendable)
    <2>1. UNCHANGED <<rd, wr, closeSent, busy, gaveUp, clocks>>
      BY <1>2 DEF Disconnect, Send
    <2> QED BY <2>1 DEF clocks, IInv, ClockTypes, IdleInv, QuietInv, WaitInv, WriterThrough
  <1> QED BY <1>1, <1>2, PassStep, ClientStep, ReaderStep, WriterStep DEF Next

LEMMA Inductive == Spec => []IInv
  BY InitInv, StepInv, PTL DEF Spec

----------------------------------------------------------------------------
\* A client that falls silent is noticed within its timeout, a Close in between
\* adding no more than the wait for its echo; behind a writer that has sent its
\* Close or has ended, it is noticed within that wait.
THEOREM SilentClientNoticed == Spec => []SilenceNoticed
  <1>1. IInv => SilenceNoticed
    BY DurationTypes DEF IInv, ClockTypes, IdleInv, SilenceNoticed
  <1> QED BY <1>1, Inductive, PTL

\* A writer that is free to write never leaves the client without a frame for
\* longer than the keepalive's interval.
THEOREM IdleClientPinged == Spec => []KeepaliveSent
  <1>1. IInv => KeepaliveSent
    BY DurationTypes DEF IInv, ClockTypes, QuietInv, KeepaliveSent
  <1> QED BY <1>1, Inductive, PTL

\* The writer leaves before the reader only when a callback or the client kept
\* the reader.
THEOREM WriterOutwaitsReader == Spec => []GivesUpOnBusyReaderOnly
  <1>1. IInv => GivesUpOnBusyReaderOnly
    BY DEF IInv, WaitInv, GivesUpOnBusyReaderOnly
  <1> QED BY <1>1, Inductive, PTL

============================================================================
