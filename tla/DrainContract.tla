--------------------------- MODULE DrainContract ---------------------------
(***************************************************************************)
(* What the shutdown handle promises of the connections of one server,     *)
(* without counters, atomics or wake-ups.  A gate closes once.  A request  *)
(* that was inside the gate when it closed may still be admitted; no other *)
(* request ever is.  A waiter is released only at an instant at which no   *)
(* connection is tracked.                                                  *)
(***************************************************************************)

CONSTANTS
    Clients,   \* those who ask to be connected
    Waiters    \* those who wait for the drain

VARIABLES
    closed,    \* the gate is closed
    inside,    \* clients that passed the gate and are not yet admitted
    tracked,   \* clients with a tracked connection
    waiting,   \* waiters that wait
    released   \* waiters whose wait is over

contractVars == <<closed, inside, tracked, waiting, released>>

Init ==
    /\ closed = FALSE
    /\ inside = {} /\ tracked = {}
    /\ waiting = {} /\ released = {}

Enter(c) ==
    /\ ~closed
    /\ c \notin inside \cup tracked
    /\ inside' = inside \cup {c}
    /\ UNCHANGED <<closed, tracked, waiting, released>>

\* A client sent back to the gate has to pass it again.
SendBack(c) ==
    /\ c \in inside
    /\ inside' = inside \ {c}
    /\ UNCHANGED <<closed, tracked, waiting, released>>

Admit(c) ==
    /\ c \in inside
    /\ inside' = inside \ {c}
    /\ tracked' = tracked \cup {c}
    /\ UNCHANGED <<closed, waiting, released>>

Finish(c) ==
    /\ c \in tracked
    /\ tracked' = tracked \ {c}
    /\ UNCHANGED <<closed, inside, waiting, released>>

Close ==
    /\ closed' = TRUE
    /\ UNCHANGED <<inside, tracked, waiting, released>>

Wait(w) ==
    /\ w \notin waiting \cup released
    /\ waiting' = waiting \cup {w}
    /\ UNCHANGED <<closed, inside, tracked, released>>

Release(w) ==
    /\ w \in waiting
    /\ tracked = {}
    /\ waiting' = waiting \ {w}
    /\ released' = released \cup {w}
    /\ UNCHANGED <<closed, inside, tracked>>

Next ==
    \/ Close
    \/ \E c \in Clients : Enter(c) \/ SendBack(c) \/ Admit(c) \/ Finish(c)
    \/ \E w \in Waiters : Wait(w) \/ Release(w)

Spec == Init /\ [][Next]_contractVars

============================================================================
