-------------------------- MODULE ConnectionTimers --------------------------
(***************************************************************************)
(* The clocks of a running connection (src/src/server.rs): how long its    *)
(* reader waits for the client, when its writer sends a keepalive ping,    *)
(* and how long both wait for each other after a Close.  HubConnection has *)
(* the same two tasks step by step and lets any timeout expire at any      *)
(* time; here their steps are coarse and take no time, and time passes     *)
(* only when no step is left to do.  Hub callbacks and writes to the       *)
(* socket take any time.                                                   *)
(***************************************************************************)
EXTENDS Integers, Sequences

CONSTANTS
    ClientTimeout,      \* CLIENT_TIMEOUT
    KeepaliveInterval,  \* KEEPALIVE_INTERVAL
    CloseEchoTimeout,   \* CLOSE_ECHO_TIMEOUT
    Slack,              \* what the writer adds to it
    Capacity,           \* of the queue of hub messages
    MaxBehind           \* bound: how far a blocked write makes the keepalive late

Durations == {ClientTimeout, KeepaliveInterval, CloseEchoTimeout, Slack}
ASSUME DurationsArePositive == Durations \subseteq Nat \ {0}
ASSUME BoundsAreNat == Capacity \in Nat \ {0} /\ MaxBehind \in Nat

VARIABLES
    rd,         \* "reading", "callback", "awaiting" (a close echo) or "done"
    patience,   \* time left to the reader's timeout
    wr,         \* "select", "writing", "closing", "waiting" (for the reader) or "done"
    writing,    \* the kind of frame being written
    due,        \* time to the next tick of keepalive_interval; below 0 it is late
    giveUp,     \* time left to the writer's timeout
    disconnect, \* the shutdown or the disconnect flag
    closeSent,  \* ws_close_sent
    pongs,      \* an automatic frame is queued
    queue,      \* the hub messages queued, TRUE for one that can be serialized
    idle,       \* time the reader has spent since the client's last frame
    after,      \* how much of it since the writer sent its Close or ended
    quiet,      \* time since the last frame to the client was written
    busy,       \* since Close the reader was in a callback or read a frame
    gaveUp      \* the writer did not wait for the reader

clocks == <<patience, due, giveUp, idle, after, quiet>>
vars == <<rd, wr, writing, disconnect, closeSent, pongs, queue, busy, gaveUp, clocks>>

Init ==
    /\ rd = "reading" /\ patience = ClientTimeout /\ idle = 0 /\ after = 0
    /\ wr = "select" /\ writing = "none" /\ due = KeepaliveInterval /\ quiet = 0
    /\ giveUp = 0 /\ gaveUp = FALSE /\ busy = FALSE
    /\ disconnect = FALSE /\ closeSent = FALSE
    /\ pongs = FALSE /\ queue = <<>>

Disconnect ==
    /\ ~disconnect /\ disconnect' = TRUE
    /\ UNCHANGED <<rd, wr, writing, closeSent, pongs, queue, busy, gaveUp, clocks>>

\* HubContext::send; what does not fit sets the flag instead.
Send(sendable) ==
    /\ wr # "done"
    /\ IF Len(queue) < Capacity THEN queue' = Append(queue, sendable) /\ UNCHANGED disconnect
                                ELSE disconnect' = TRUE /\ UNCHANGED queue
    /\ UNCHANGED <<rd, wr, writing, closeSent, pongs, busy, gaveUp, clocks>>

----------------------------------------------------------------------------
\* The reader.  Its timeout starts anew whenever it turns to the socket again.

Turn(state, timeout) == rd' = state /\ patience' = timeout

ReadData ==
    /\ rd = "reading" /\ rd' = "callback"
    /\ idle' = 0 /\ after' = 0 /\ busy' = (busy \/ closeSent)
    /\ UNCHANGED <<patience, wr, writing, due, giveUp, disconnect, closeSent, pongs, queue,
                   quiet, gaveUp>>

\* The head of the loop looks at the flag only: a closed channel is noticed by
\* the select! behind it.
CallbackReturns ==
    /\ rd = "callback"
    /\ IF closeSent THEN Turn("awaiting", CloseEchoTimeout) ELSE Turn("reading", ClientTimeout)
    /\ UNCHANGED <<wr, writing, disconnect, closeSent, pongs, queue, busy, gaveUp,
                   due, giveUp, idle, after, quiet>>

\* The panic unwinds the reader, and drops reader_done_tx with it.
CallbackPanics ==
    /\ rd = "callback" /\ rd' = "done"
    /\ UNCHANGED <<wr, writing, disconnect, closeSent, pongs, queue, busy, gaveUp, clocks>>

ReadPing ==
    /\ rd = "reading" /\ Turn("reading", ClientTimeout)
    /\ pongs' = TRUE
    /\ idle' = 0 /\ after' = 0 /\ busy' = (busy \/ closeSent)
    /\ UNCHANGED <<wr, writing, disconnect, closeSent, queue, gaveUp, due, giveUp, quiet>>

ReadClose ==
    /\ rd \in {"reading", "awaiting"} /\ rd' = "done"
    /\ UNCHANGED <<wr, writing, disconnect, closeSent, pongs, queue, busy, gaveUp, clocks>>

\* (Like each Mutant below, a fault for the properties to notice.)  Only the
\* flag is looked at.
MutantWriterThrough == closeSent

\* What makes the reader await the echo: ws_close_sent, or its channel, closed
\* by a writer that ended without having set it.
WriterThrough == closeSent \/ wr = "done"

NoticeCloseSent ==
    /\ rd = "reading" /\ WriterThrough /\ Turn("awaiting", CloseEchoTimeout)
    /\ UNCHANGED <<wr, writing, disconnect, closeSent, pongs, queue, busy, gaveUp,
                   due, giveUp, idle, after, quiet>>

\* Each frame but the echo starts the wait for it anew.
ReadIgnored ==
    /\ rd = "awaiting" /\ Turn("awaiting", CloseEchoTimeout)
    /\ idle' = 0 /\ after' = 0 /\ busy' = TRUE
    /\ UNCHANGED <<wr, writing, disconnect, closeSent, pongs, queue, gaveUp, due, giveUp, quiet>>

ReaderTimesOut ==
    /\ rd \in {"reading", "awaiting"} /\ patience = 0 /\ rd' = "done"
    /\ UNCHANGED <<wr, writing, disconnect, closeSent, pongs, queue, busy, gaveUp, clocks>>

----------------------------------------------------------------------------
\* The writer

Closing == disconnect \/ rd = "done"

WriterEnds ==
    /\ wr = "select" /\ rd = "done" /\ wr' = "done"
    /\ UNCHANGED <<rd, writing, disconnect, closeSent, pongs, queue, busy, gaveUp, clocks>>

WriterCloses ==
    /\ wr = "select" /\ disconnect /\ wr' = "closing"
    /\ UNCHANGED <<rd, writing, disconnect, closeSent, pongs, queue, busy, gaveUp, clocks>>

TakePong ==
    /\ wr = "select" /\ ~Closing /\ pongs
    /\ pongs' = FALSE /\ wr' = "writing" /\ writing' = "pong"
    /\ UNCHANGED <<rd, disconnect, closeSent, queue, busy, gaveUp, clocks>>

\* The keepalive starts anew with every message, sendable or not.
MutantTakeMessage ==
    /\ wr = "select" /\ ~Closing /\ ~pongs /\ queue # <<>>
    /\ queue' = Tail(queue) /\ due' = KeepaliveInterval
    /\ IF Head(queue) THEN wr' = "writing" /\ writing' = "message" ELSE UNCHANGED <<wr, writing>>
    /\ UNCHANGED <<rd, patience, giveUp, disconnect, closeSent, pongs, idle, after, quiet, busy, gaveUp>>

\* A message that cannot be serialized is passed over.
TakeMessage ==
    /\ wr = "select" /\ ~Closing /\ ~pongs /\ queue # <<>>
    /\ queue' = Tail(queue)
    /\ IF Head(queue) THEN wr' = "writing" /\ writing' = "message" ELSE UNCHANGED <<wr, writing>>
    /\ UNCHANGED <<rd, disconnect, closeSent, pongs, busy, gaveUp, clocks>>

\* MissedTickBehavior::Burst: the next tick is an interval after this one was due.
TakeTick ==
    /\ wr = "select" /\ ~Closing /\ ~pongs /\ queue = <<>> /\ due <= 0
    /\ due' = due + KeepaliveInterval
    /\ wr' = "writing" /\ writing' = "ping"
    /\ UNCHANGED <<rd, patience, giveUp, disconnect, closeSent, pongs, queue, idle, after, quiet, busy, gaveUp>>

\* Only a hub message resets keepalive_interval.
WriteCompletes ==
    /\ wr = "writing" /\ wr' = "select" /\ writing' = "none"
    /\ quiet' = 0
    /\ due' = IF writing = "message" THEN KeepaliveInterval ELSE due
    /\ UNCHANGED <<rd, patience, giveUp, disconnect, closeSent, pongs, queue, idle, after, busy, gaveUp>>

WriteFails ==
    /\ wr = "writing" /\ wr' = "done" /\ writing' = "none"
    /\ UNCHANGED <<rd, disconnect, closeSent, pongs, queue, busy, gaveUp, clocks>>

\* Both tasks wait as long.
MutantClosed ==
    /\ wr = "closing" /\ wr' = "waiting"
    /\ closeSent' = TRUE /\ giveUp' = CloseEchoTimeout
    /\ quiet' = 0 /\ busy' = (rd = "callback")
    /\ UNCHANGED <<rd, patience, due, writing, disconnect, pongs, queue, idle, after, gaveUp>>

\* The notice and the Close frame are written, or failed to be, and announced.
Closed ==
    /\ wr = "closing" /\ wr' = "waiting"
    /\ closeSent' = TRUE /\ giveUp' = CloseEchoTimeout + Slack
    /\ quiet' = 0 /\ busy' = (rd = "callback")
    /\ UNCHANGED <<rd, patience, due, writing, disconnect, pongs, queue, idle, after, gaveUp>>

SeeReaderDone ==
    /\ wr = "waiting" /\ rd = "done" /\ wr' = "done"
    /\ UNCHANGED <<rd, writing, disconnect, closeSent, pongs, queue, busy, gaveUp, clocks>>

WriterTimesOut ==
    /\ wr = "waiting" /\ giveUp = 0 /\ rd # "done"
    /\ wr' = "done" /\ gaveUp' = TRUE
    /\ UNCHANGED <<rd, writing, disconnect, closeSent, pongs, queue, busy, clocks>>

----------------------------------------------------------------------------
Reader == NoticeCloseSent \/ ReaderTimesOut

Writer ==
    WriterEnds \/ WriterCloses \/ TakePong \/ TakeMessage \/ TakeTick \/ SeeReaderDone \/ WriterTimesOut

\* Neither task has a step left to do.
Waiting ==
    /\ rd = "reading" => ~WriterThrough
    /\ rd \in {"reading", "awaiting"} => patience > 0
    /\ wr = "select" => ~Closing /\ ~pongs /\ queue = <<>> /\ due > 0
    /\ wr = "waiting" => rd # "done" /\ giveUp > 0

Less(clock) == IF clock > 0 THEN clock - 1 ELSE 0

Pass ==
    /\ Waiting /\ ~(rd = "done" /\ wr = "done")
    /\ patience' = Less(patience) /\ giveUp' = Less(giveUp)
    /\ due > -MaxBehind \/ wr # "writing"
    /\ due' = IF wr \in {"select", "writing"} THEN due - 1 ELSE due
    /\ idle' = IF rd \in {"reading", "awaiting"} THEN idle + 1 ELSE idle
    /\ after' = IF rd \in {"reading", "awaiting"} /\ wr \in {"waiting", "done"}
                THEN after + 1 ELSE after
    /\ quiet' = IF wr = "select" THEN quiet + 1 ELSE quiet
    /\ UNCHANGED <<rd, wr, writing, disconnect, closeSent, pongs, queue, busy, gaveUp>>

Client == ReadData \/ ReadPing \/ ReadClose \/ ReadIgnored

Next ==
    \/ Client \/ CallbackReturns \/ CallbackPanics
    \/ Disconnect \/ \E sendable \in BOOLEAN : Send(sendable)
    \/ WriteCompletes \/ WriteFails \/ Closed
    \/ Reader \/ Writer \/ Pass

Spec == Init /\ [][Next]_vars

----------------------------------------------------------------------------
\* A client that falls silent is noticed within CLIENT_TIMEOUT, not counting the
\* time a hub callback takes, and a Close in between adds the wait for its echo
\* and no more.  Once the writer has sent that Close, or has ended without one
\* because a write failed, the reader waits no longer than for the echo.
SilenceNoticed ==
    /\ rd = "reading" => idle <= ClientTimeout
    /\ rd = "awaiting" => idle <= ClientTimeout + CloseEchoTimeout
    /\ rd # "done" => after <= CloseEchoTimeout

\* Whatever the queue holds, and however late a write that was blocked has made
\* the keepalive, the client is never left without a frame for longer than
\* KEEPALIVE_INTERVAL by a writer that could write one.
KeepaliveSent == wr = "select" => quiet <= KeepaliveInterval

\* The writer leaves before the reader only if the reader was kept, by a callback
\* or by a client that goes on sending: not if the client just stays silent.
GivesUpOnBusyReaderOnly == gaveUp => busy

=============================================================================
