--------------------------- MODULE ShutdownState ---------------------------
(***************************************************************************)
(* SignalRServerShutdownState, the state every connection of one server    *)
(* shares with the shutdown handles, at the grain of its atomic operations *)
(* (src/src/server.rs).                                                    *)
(*                                                                         *)
(* Upgrade requests run websocket_handler concurrently: they take an       *)
(* ActiveConnectionGuard in the compare-exchange loop of                   *)
(* try_register_connection, keep it for as long as the connection lives,   *)
(* and drop it at the end.  Handles call begin_shutdown,                   *)
(* wait_for_shutdown or shutdown.  What happens inside handle_socket is    *)
(* the subject of HubConnection; here a socket is served until it is done. *)
(*                                                                         *)
(* Every load, store and read-modify-write is one step, interleaved.       *)
(* tokio's Notify is external: a Notified future receives the wake-up of   *)
(* every notify_waiters call made after the future was created.            *)
(***************************************************************************)
EXTENDS Integers, FiniteSets

CONSTANTS
    Upgrades,   \* the upgrade requests that may ever reach the server
    Handles     \* the calls made through clones of the shutdown handle

ASSUME UpgradesFinite == IsFiniteSet(Upgrades)

VARIABLES
    draining,            \* AtomicBool
    active_connections,  \* AtomicUsize
    shutdown_tx,         \* value of the watch channel connections subscribe to
    notified,            \* handles whose Notified future has been woken
    up,                  \* where each upgrade request is
    loaded,              \* the count each request read before its exchange
    call,                \* where each handle is
    api                  \* which of the three calls the handle makes

upgradeVars == <<active_connections, up, loaded>>
vars == <<draining, active_connections, shutdown_tx, notified, up, loaded, call, api>>

UpStates == {"absent", "check", "load", "exchange",
             "registered", "upgrading", "serving", "dropping",
             "notifying", "gone", "refused"}

CallStates == {"idle", "store", "publish", "probe", "notify",
               "arm", "inspect", "park", "await", "returned"}

Apis == {"none", "begin", "wait", "shutdown"}

\* The requests that own an ActiveConnectionGuard.
Guarded == {u \in Upgrades : up[u] \in {"registered", "upgrading", "serving", "dropping"}}

\* The requests that have passed the drain check of this turn of the loop.
Racing == {u \in Upgrades : up[u] \in {"load", "exchange"}}

Init ==
    /\ draining = FALSE
    /\ active_connections = 0
    /\ shutdown_tx = FALSE
    /\ notified = {}
    /\ up = [u \in Upgrades |-> "absent"]
    /\ loaded = [u \in Upgrades |-> 0]
    /\ call = [h \in Handles |-> "idle"]
    /\ api = [h \in Handles |-> "none"]

----------------------------------------------------------------------------
\* Plausible faults of the code, each put in the place of the definition it
\* is named after to see which property notices.

\* A load and a store in place of the compare-exchange.
MutantExchangeBlind(u) ==
    /\ up[u] = "exchange" /\ up' = [up EXCEPT ![u] = "registered"]
    /\ active_connections' = loaded[u] + 1
    /\ UNCHANGED <<draining, shutdown_tx, notified, loaded, call, api>>

\* The Notified future is created only after the count was read.
MutantArmedLate == {h \in Handles : call[h] = "await"}

\* The server-wide check is made once, by the router, and not in the loop.
MutantCheckDraining(u) ==
    /\ up[u] = "check" /\ up' = [up EXCEPT ![u] = "load"]
    /\ UNCHANGED <<draining, active_connections, shutdown_tx, notified, loaded, call, api>>

\* The drop compares the new count, not the old one, with one.
MutantDropGuard(u) ==
    /\ up[u] = "dropping"
    /\ up' = [up EXCEPT ![u] = IF active_connections = 2 THEN "notifying" ELSE "gone"]
    /\ active_connections' = active_connections - 1
    /\ UNCHANGED <<draining, shutdown_tx, notified, loaded, call, api>>

\* A woken waiter returns without reading the count again.
MutantWakeReturns(h) ==
    /\ h \in notified /\ call[h] = "await"
    /\ call' = [call EXCEPT ![h] = "returned"]
    /\ notified' = notified \ {h}
    /\ UNCHANGED <<draining, shutdown_tx, api, active_connections, up, loaded>>

\* The error path counts the connection out by hand; the guard does so again.
MutantUpgradeErrors(u) ==
    /\ up[u] = "upgrading" /\ up' = [up EXCEPT ![u] = "dropping"]
    /\ active_connections' = active_connections - 1
    /\ UNCHANGED <<draining, shutdown_tx, notified, loaded, call, api>>

----------------------------------------------------------------------------
\* Steps of an upgrade request

\* The handles that own a live Notified future.
Armed == {h \in Handles : call[h] \in {"inspect", "park", "await"}}

UpMoves(u, from, to) == up[u] = from /\ up' = [up EXCEPT ![u] = to]

\* Notify::notify_waiters reaches every future that exists at that moment.
NotifyWaiters == notified' = notified \cup Armed

Arrive(u) ==
    /\ UpMoves(u, "absent", "check")
    /\ UNCHANGED <<draining, active_connections, shutdown_tx, notified, loaded, call, api>>

\* is_draining() at the head of the loop
CheckDraining(u) ==
    /\ UpMoves(u, "check", IF draining THEN "refused" ELSE "load")
    /\ UNCHANGED <<draining, active_connections, shutdown_tx, notified, loaded, call, api>>

LoadActive(u) ==
    /\ UpMoves(u, "load", "exchange")
    /\ loaded' = [loaded EXCEPT ![u] = active_connections]
    /\ UNCHANGED <<draining, active_connections, shutdown_tx, notified, call, api>>

\* compare_exchange_weak succeeds only on the loaded value ...
ExchangeSucceeds(u) ==
    /\ UpMoves(u, "exchange", "registered")
    /\ active_connections = loaded[u]
    /\ active_connections' = loaded[u] + 1
    /\ UNCHANGED <<draining, shutdown_tx, notified, loaded, call, api>>

\* ... and may fail on any value, the loaded one included.
ExchangeFails(u) ==
    /\ UpMoves(u, "exchange", "check")
    /\ UNCHANGED <<draining, active_connections, shutdown_tx, notified, loaded, call, api>>

\* ws.upgrade() returns Err: the guard is dropped when the handler returns.
UpgradeRejected(u) ==
    /\ UpMoves(u, "registered", "dropping")
    /\ UNCHANGED <<draining, active_connections, shutdown_tx, notified, loaded, call, api>>

\* The guard moves into the spawned task, which awaits the upgraded stream.
SpawnTask(u) ==
    /\ UpMoves(u, "registered", "upgrading")
    /\ UNCHANGED <<draining, active_connections, shutdown_tx, notified, loaded, call, api>>

UpgradeErrors(u) ==
    /\ UpMoves(u, "upgrading", "dropping")
    /\ UNCHANGED <<draining, active_connections, shutdown_tx, notified, loaded, call, api>>

ServeSocket(u) ==
    /\ UpMoves(u, "upgrading", "serving")
    /\ UNCHANGED <<draining, active_connections, shutdown_tx, notified, loaded, call, api>>

\* handle_socket returns, or unwinds out of a panicking hub callback.
SocketDone(u) ==
    /\ UpMoves(u, "serving", "dropping")
    /\ UNCHANGED <<draining, active_connections, shutdown_tx, notified, loaded, call, api>>

\* Drop for ActiveConnectionGuard: fetch_sub, whose old value decides ...
DropGuard(u) ==
    /\ UpMoves(u, "dropping", IF active_connections = 1 THEN "notifying" ELSE "gone")
    /\ active_connections' = active_connections - 1
    /\ UNCHANGED <<draining, shutdown_tx, notified, loaded, call, api>>

\* ... whether the waiters are notified.
NotifyDrained(u) ==
    /\ UpMoves(u, "notifying", "gone")
    /\ NotifyWaiters
    /\ UNCHANGED <<draining, active_connections, shutdown_tx, loaded, call, api>>

----------------------------------------------------------------------------
\* Steps of a shutdown handle

CallMoves(h, from, to) == call[h] = from /\ call' = [call EXCEPT ![h] = to]

CallBegin(h) ==
    /\ CallMoves(h, "idle", "store")
    /\ api' = [api EXCEPT ![h] = "begin"]
    /\ UNCHANGED <<draining, shutdown_tx, notified, upgradeVars>>

CallShutdown(h) ==
    /\ CallMoves(h, "idle", "store")
    /\ api' = [api EXCEPT ![h] = "shutdown"]
    /\ UNCHANGED <<draining, shutdown_tx, notified, upgradeVars>>

CallWait(h) ==
    /\ CallMoves(h, "idle", "arm")
    /\ api' = [api EXCEPT ![h] = "wait"]
    /\ UNCHANGED <<draining, shutdown_tx, notified, upgradeVars>>

StoreDraining(h) ==
    /\ CallMoves(h, "store", "publish")
    /\ draining' = TRUE
    /\ UNCHANGED <<shutdown_tx, notified, api, upgradeVars>>

PublishShutdown(h) ==
    /\ CallMoves(h, "publish", "probe")
    /\ shutdown_tx' = TRUE
    /\ UNCHANGED <<draining, notified, api, upgradeVars>>

\* Where begin_shutdown leaves its caller: shutdown() goes on to wait.
AfterBegin(h) == IF api[h] = "shutdown" THEN "arm" ELSE "returned"

ProbeActive(h) ==
    /\ CallMoves(h, "probe", IF active_connections = 0 THEN "notify" ELSE AfterBegin(h))
    /\ UNCHANGED <<draining, shutdown_tx, notified, api, upgradeVars>>

NotifyEmpty(h) ==
    /\ CallMoves(h, "notify", AfterBegin(h))
    /\ NotifyWaiters
    /\ UNCHANGED <<draining, shutdown_tx, api, upgradeVars>>

\* let notified = self.drained.notified(), before the count is read
Arm(h) ==
    /\ CallMoves(h, "arm", "inspect")
    /\ UNCHANGED <<draining, shutdown_tx, notified, api, upgradeVars>>

InspectEmpty(h) ==
    /\ active_connections = 0
    /\ CallMoves(h, "inspect", "returned")
    /\ notified' = notified \ {h}
    /\ UNCHANGED <<draining, shutdown_tx, api, upgradeVars>>

InspectBusy(h) ==
    /\ active_connections # 0
    /\ CallMoves(h, "inspect", "park")
    /\ UNCHANGED <<draining, shutdown_tx, notified, api, upgradeVars>>

\* Only now is the future polled; the count may have become zero meanwhile.
Park(h) ==
    /\ CallMoves(h, "park", "await")
    /\ UNCHANGED <<draining, shutdown_tx, notified, api, upgradeVars>>

\* notified.await completes and the loop turns.
Wake(h) ==
    /\ h \in notified
    /\ CallMoves(h, "await", "arm")
    /\ notified' = notified \ {h}
    /\ UNCHANGED <<draining, shutdown_tx, api, upgradeVars>>

----------------------------------------------------------------------------
UpgradeStep(u) ==
    \/ Arrive(u)          \/ CheckDraining(u)    \/ LoadActive(u)
    \/ ExchangeSucceeds(u) \/ ExchangeFails(u)
    \/ UpgradeRejected(u) \/ SpawnTask(u)        \/ UpgradeErrors(u)
    \/ ServeSocket(u)     \/ SocketDone(u)
    \/ DropGuard(u)       \/ NotifyDrained(u)

HandleStep(h) ==
    \/ CallBegin(h)       \/ CallShutdown(h)     \/ CallWait(h)
    \/ StoreDraining(h)   \/ PublishShutdown(h)
    \/ ProbeActive(h)     \/ NotifyEmpty(h)
    \/ Arm(h)             \/ InspectEmpty(h)     \/ InspectBusy(h)
    \/ Park(h)            \/ Wake(h)

Next ==
    \/ \E u \in Upgrades : UpgradeStep(u)
    \/ \E h \in Handles : HandleStep(h)

Spec == Init /\ [][Next]_vars

(***************************************************************************)
(* The runtime polls every ready task, so a started call goes on taking    *)
(* steps; whether a request arrives or a handle is used is up to the       *)
(* environment.  A served socket is only sure to end once it can see the   *)
(* shutdown signal: HubConnection says under which assumptions it does.    *)
(***************************************************************************)
Progress(u) ==
    \/ CheckDraining(u) \/ LoadActive(u) \/ ExchangeSucceeds(u) \/ ExchangeFails(u)
    \/ SpawnTask(u) \/ UpgradeErrors(u) \/ ServeSocket(u)
    \/ (shutdown_tx /\ SocketDone(u))
    \/ DropGuard(u) \/ NotifyDrained(u)

HandleProgress(h) ==
    \/ StoreDraining(h) \/ PublishShutdown(h) \/ ProbeActive(h) \/ NotifyEmpty(h)
    \/ Arm(h) \/ InspectEmpty(h) \/ InspectBusy(h) \/ Park(h) \/ Wake(h)

FairSpec ==
    /\ Spec
    /\ \A u \in Upgrades : WF_vars(Progress(u))
    /\ \A h \in Handles : WF_vars(HandleProgress(h))

----------------------------------------------------------------------------
\* Properties

TypeOK ==
    /\ draining \in BOOLEAN /\ shutdown_tx \in BOOLEAN
    /\ active_connections \in Nat
    /\ notified \in SUBSET Handles
    /\ up \in [Upgrades -> UpStates]
    /\ loaded \in [Upgrades -> Nat]
    /\ call \in [Handles -> CallStates]
    /\ api \in [Handles -> Apis]

\* The counter that racing compare-exchanges and drops maintain is at every
\* instant the number of guards alive: none is lost, counted twice or, the
\* counter being unsigned, dropped below zero.
CountIsGuards == active_connections = Cardinality(Guarded)

\* No lost wake-up: a handle that saw connections and is about to sleep, or
\* sleeps, while nothing is active any more has been woken, or the drop that emptied the server is still to
\* call notify_waiters.
NoLostWakeup ==
    \A h \in Handles :
        (call[h] \in {"park", "await"} /\ active_connections = 0 /\ h \notin notified)
            => \E u \in Upgrades : up[u] = "notifying"

\* Once the server drains, no request joins those that own a guard or are
\* between the drain check and the exchange of the same turn of the loop.
AdmissibleShrinks ==
    [][draining => (Racing \cup Guarded)' \subseteq Racing \cup Guarded]_vars

\* A handle that waits on a draining server returns, whatever turns of the
\* registration loop, drops and wake-ups interleave with it; so does every
\* call of shutdown().
DrainCompletes ==
    \A h \in Handles :
        ((draining /\ call[h] \in {"arm", "inspect", "park", "await"}) \/ api[h] = "shutdown")
            ~> call[h] = "returned"

\* The counter, the Notify and the two flags together keep the promise of
\* DrainContract: in particular wait_for_shutdown returns only at an instant
\* at which no guard is alive.
Contract == INSTANCE DrainContract WITH
    Clients  <- Upgrades,
    Waiters  <- Handles,
    closed   <- draining,
    inside   <- Racing,
    tracked  <- Guarded,
    waiting  <- {h \in Handles : call[h] \in {"arm", "inspect", "park", "await"}},
    released <- {h \in Handles : call[h] = "returned" /\ api[h] # "begin"}

ImplementsContract == Contract!Spec

\* What the documentation says: shutdown() begins the shutdown, which "stops
\* accepting new WebSocket upgrades", and waits for the drain; so no request
\* obtains a guard once a call of shutdown() has returned.  (It may: a request
\* that read draining before the store finishes its exchange at any time.)
ShutdownIsFinal ==
    [][(\E h \in Handles : api[h] = "shutdown" /\ call[h] = "returned")
        => Guarded' \subseteq Guarded]_vars

============================================================================
