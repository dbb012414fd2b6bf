------------------------- MODULE ShutdownStateProofs -------------------------
(***************************************************************************)
(* Proofs, for every finite set of upgrade requests and every set of       *)
(* handles, of the safety properties of ShutdownState: its type, that the  *)
(* counter counts the guards, that no wake-up is lost, that the draining   *)
(* server admits nobody new, and that it implements DrainContract.         *)
(*                                                                         *)
(* The inductive invariant joins the type, CountIsGuards and NoLostWakeup. *)
(* The type needs the count: a drop does not take the counter below zero   *)
(* because the guard it drops is counted.                                  *)
(***************************************************************************)
EXTENDS ShutdownState, FiniteSetTheorems, TLAPS

\* Which of the three calls a handle that is under way makes.
ApiMatchesCall ==
    \A h \in Handles :
        /\ call[h] \in {"store", "publish", "probe", "notify"} => api[h] \in {"begin", "shutdown"}
        /\ call[h] \in {"arm", "inspect", "park", "await"} => api[h] \in {"wait", "shutdown"}

IInv == TypeOK /\ ApiMatchesCall /\ CountIsGuards /\ NoLostWakeup

----------------------------------------------------------------------------
\* The guards are finitely many: they belong to distinct upgrade requests.
LEMMA GuardedFinite == IsFiniteSet(Guarded)
  <1>1. Guarded \subseteq Upgrades
    BY DEF Guarded
  <1> QED BY <1>1, UpgradesFinite, FS_Subset

\* A request that owns a guard makes the counter positive, so that no drop
\* wraps it around.
LEMMA GuardIsCounted ==
  ASSUME TypeOK, CountIsGuards, NEW u \in Guarded
  PROVE  active_connections >= 1
  <1>1. Guarded # {}
    OBVIOUS
  <1>2. Cardinality(Guarded) # 0
    BY <1>1, GuardedFinite, FS_EmptySet
  <1> QED BY <1>2 DEF TypeOK, CountIsGuards

\* At count zero nobody owns a guard.
LEMMA ZeroMeansEmpty ==
  ASSUME CountIsGuards, active_connections = 0
  PROVE  Guarded = {}
  BY GuardedFinite, FS_EmptySet DEF CountIsGuards

----------------------------------------------------------------------------
\* Each variable keeps its type: the flags stay Booleans, the counter a
\* natural number (the fetch_sub of a drop never wraps), every request and
\* every handle one of its states.
LEMMA TypeStep == IInv /\ [Next]_vars => TypeOK'
  <1> SUFFICES ASSUME IInv, [Next]_vars PROVE TypeOK'
    OBVIOUS
  <1> USE DEF TypeOK, UpStates, CallStates, Apis, UpMoves, CallMoves, upgradeVars
  <1>1. CASE UNCHANGED vars
    BY <1>1 DEF IInv, vars
  <1>2. ASSUME NEW u \in Upgrades, UpgradeStep(u) PROVE TypeOK'
    <2>1. CASE Arrive(u) BY <2>1 DEF IInv, Arrive
    <2>2. CASE CheckDraining(u) BY <2>2 DEF IInv, CheckDraining
    <2>3. CASE LoadActive(u) BY <2>3 DEF IInv, LoadActive
    <2>4. CASE ExchangeSucceeds(u) BY <2>4 DEF IInv, ExchangeSucceeds
    <2>5. CASE ExchangeFails(u) BY <2>5 DEF IInv, ExchangeFails
    <2>6. CASE UpgradeRejected(u) BY <2>6 DEF IInv, UpgradeRejected
    <2>7. CASE SpawnTask(u) BY <2>7 DEF IInv, SpawnTask
    <2>8. CASE UpgradeErrors(u) BY <2>8 DEF IInv, UpgradeErrors
    <2>9. CASE ServeSocket(u) BY <2>9 DEF IInv, ServeSocket
    <2>10. CASE SocketDone(u) BY <2>10 DEF IInv, SocketDone
    <2>11. CASE DropGuard(u)
      <3>1. u \in Guarded
        BY <2>11 DEF DropGuard, Guarded
      <3>2. active_connections >= 1
        BY <3>1, GuardIsCounted DEF IInv
      <3> QED BY <2>11, <3>2 DEF IInv, DropGuard
    <2>12. CASE NotifyDrained(u) BY <2>12 DEF IInv, NotifyDrained, NotifyWaiters, Armed
    <2> QED BY <1>2, <2>1, <2>2, <2>3, <2>4, <2>5, <2>6, <2>7, <2>8, <2>9,
               <2>10, <2>11, <2>12 DEF UpgradeStep
  <1>3. ASSUME NEW h \in Handles, HandleStep(h) PROVE TypeOK'
    <2>1. CASE CallBegin(h) BY <2>1 DEF IInv, CallBegin
    <2>2. CASE CallShutdown(h) BY <2>2 DEF IInv, CallShutdown
    <2>3. CASE CallWait(h) BY <2>3 DEF IInv, CallWait
    <2>4. CASE StoreDraining(h) BY <2>4 DEF IInv, StoreDraining
    <2>5. CASE PublishShutdown(h) BY <2>5 DEF IInv, PublishShutdown
    <2>6. CASE ProbeActive(h) BY <2>6 DEF IInv, ProbeActive, AfterBegin
    <2>7. CASE NotifyEmpty(h) BY <2>7 DEF IInv, NotifyEmpty, AfterBegin, NotifyWaiters, Armed
    <2>8. CASE Arm(h) BY <2>8 DEF IInv, Arm
    <2>9. CASE InspectEmpty(h) BY <2>9 DEF IInv, InspectEmpty
    <2>10. CASE InspectBusy(h) BY <2>10 DEF IInv, InspectBusy
    <2>11. CASE Wake(h) BY <2>11 DEF IInv, Wake
    <2>12. CASE Park(h) BY <2>12 DEF IInv, Park
    <2> QED BY <1>3, <2>1, <2>2, <2>3, <2>4, <2>5, <2>6, <2>7, <2>8, <2>9,
               <2>10, <2>11, <2>12 DEF HandleStep
  <1> QED BY <1>1, <1>2, <1>3 DEF Next

\* A handle stays with the call it began.
LEMMA ApiStep == IInv /\ [Next]_vars => ApiMatchesCall'
  <1> SUFFICES ASSUME IInv, [Next]_vars PROVE ApiMatchesCall'
    OBVIOUS
  <1> USE DEF ApiMatchesCall
  <1>1. CASE UNCHANGED <<call, api>>
    BY <1>1 DEF IInv
  <1>2. ASSUME NEW u \in Upgrades, UpgradeStep(u) PROVE UNCHANGED <<call, api>>
    BY <1>2 DEF UpgradeStep, Arrive, CheckDraining, LoadActive, ExchangeSucceeds,
       ExchangeFails, UpgradeRejected, SpawnTask, UpgradeErrors, ServeSocket,
       SocketDone, DropGuard, NotifyDrained
  <1>3. ASSUME NEW h \in Handles, HandleStep(h) PROVE ApiMatchesCall'
    <2> USE DEF CallMoves, TypeOK, AfterBegin
    <2>1. CASE CallBegin(h) BY <2>1 DEF IInv, CallBegin
    <2>2. CASE CallShutdown(h) BY <2>2 DEF IInv, CallShutdown
    <2>3. CASE CallWait(h) BY <2>3 DEF IInv, CallWait
    <2>4. CASE StoreDraining(h) BY <2>4 DEF IInv, StoreDraining
    <2>5. CASE PublishShutdown(h) BY <2>5 DEF IInv, PublishShutdown
    <2>6. CASE ProbeActive(h) BY <2>6 DEF IInv, ProbeActive
    <2>7. CASE NotifyEmpty(h) BY <2>7 DEF IInv, NotifyEmpty
    <2>8. CASE Arm(h) BY <2>8 DEF IInv, Arm
    <2>9. CASE InspectEmpty(h) BY <2>9 DEF IInv, InspectEmpty
    <2>10. CASE InspectBusy(h) BY <2>10 DEF IInv, InspectBusy
    <2>11. CASE Wake(h) BY <2>11 DEF IInv, Wake
    <2>12. CASE Park(h) BY <2>12 DEF IInv, Park
    <2> QED BY <1>3, <2>1, <2>2, <2>3, <2>4, <2>5, <2>6, <2>7, <2>8, <2>9,
               <2>10, <2>11, <2>12 DEF HandleStep
  <1> QED BY <1>1, <1>2, <1>3 DEF Next, vars

\* The set of guards changes with the counter: one more by a successful
\* exchange, one less by a drop, and not at all otherwise.
LEMMA GuardSteps ==
  ASSUME TypeOK, [Next]_vars
  PROVE  \/ UNCHANGED <<active_connections, Guarded>>
         \/ \E u \in Upgrades \ Guarded :
              /\ ExchangeSucceeds(u)
              /\ Guarded' = Guarded \cup {u}
         \/ \E u \in Guarded :
              /\ DropGuard(u)
              /\ Guarded' = Guarded \ {u}
  <1>1. CASE UNCHANGED <<active_connections, up>>
    BY <1>1 DEF Guarded
  <1>2. ASSUME NEW h \in Handles, HandleStep(h) PROVE UNCHANGED <<active_connections, up>>
    BY <1>2 DEF HandleStep, CallBegin, CallShutdown, CallWait, StoreDraining,
       PublishShutdown, ProbeActive, NotifyEmpty, Arm, InspectEmpty, InspectBusy, Park,
       Wake, upgradeVars
  <1>3. ASSUME NEW u \in Upgrades, ExchangeSucceeds(u)
        PROVE  u \notin Guarded /\ Guarded' = Guarded \cup {u}
    BY <1>3 DEF ExchangeSucceeds, UpMoves, Guarded, TypeOK
  <1>4. ASSUME NEW u \in Upgrades, DropGuard(u)
        PROVE  u \in Guarded /\ Guarded' = Guarded \ {u}
    BY <1>4 DEF DropGuard, UpMoves, Guarded, TypeOK
  <1>5. ASSUME NEW u \in Upgrades, UpgradeStep(u), ~ExchangeSucceeds(u), ~DropGuard(u)
        PROVE  UNCHANGED <<active_connections, Guarded>>
    <2> USE DEF UpMoves, Guarded, TypeOK
    <2>1. CASE Arrive(u) BY <2>1 DEF Arrive
    <2>2. CASE CheckDraining(u) BY <2>2 DEF CheckDraining
    <2>3. CASE LoadActive(u) BY <2>3 DEF LoadActive
    <2>4. CASE ExchangeFails(u) BY <2>4 DEF ExchangeFails
    <2>5. CASE UpgradeRejected(u) BY <2>5 DEF UpgradeRejected
    <2>6. CASE SpawnTask(u) BY <2>6 DEF SpawnTask
    <2>7. CASE UpgradeErrors(u) BY <2>7 DEF UpgradeErrors
    <2>8. CASE ServeSocket(u) BY <2>8 DEF ServeSocket
    <2>9. CASE SocketDone(u) BY <2>9 DEF SocketDone
    <2>10. CASE NotifyDrained(u) BY <2>10 DEF NotifyDrained
    <2> QED BY <1>5, <2>1, <2>2, <2>3, <2>4, <2>5, <2>6, <2>7, <2>8, <2>9,
               <2>10 DEF UpgradeStep
  <1> QED BY <1>1, <1>2, <1>3, <1>4, <1>5 DEF Next, vars

LEMMA CountStep == IInv /\ [Next]_vars => CountIsGuards'
  <1> SUFFICES ASSUME IInv, [Next]_vars PROVE CountIsGuards'
    OBVIOUS
  <1> USE DEF IInv, CountIsGuards
  <1>1. CASE UNCHANGED <<active_connections, Guarded>>
    BY <1>1
  <1>2. ASSUME NEW u \in Upgrades \ Guarded, ExchangeSucceeds(u), Guarded' = Guarded \cup {u}
        PROVE  CountIsGuards'
    <2>1. Cardinality(Guarded') = Cardinality(Guarded) + 1
      BY <1>2, GuardedFinite, FS_AddElement
    <2>2. active_connections' = active_connections + 1
      BY <1>2 DEF ExchangeSucceeds
    <2> QED BY <2>1, <2>2
  <1>3. ASSUME NEW u \in Guarded, DropGuard(u), Guarded' = Guarded \ {u}
        PROVE  CountIsGuards'
    <2>1. Cardinality(Guarded') = Cardinality(Guarded) - 1
      BY <1>3, GuardedFinite, FS_RemoveElement
    <2>2. active_connections' = active_connections - 1
      BY <1>3 DEF DropGuard
    <2> QED BY <2>1, <2>2
  <1> QED BY <1>1, <1>2, <1>3, GuardSteps

\* A drop that leaves the count at zero leaves its request about to notify;
\* until it has, the parked handles need nothing else.
LEMMA WakeupStep == IInv /\ [Next]_vars => NoLostWakeup'
  <1> SUFFICES ASSUME IInv, [Next]_vars PROVE NoLostWakeup'
    OBVIOUS
  <1> USE DEF IInv, NoLostWakeup
  <1>1. CASE UNCHANGED vars
    BY <1>1 DEF vars
  <1>2. ASSUME NEW u \in Upgrades, UpgradeStep(u) PROVE NoLostWakeup'
    <2> USE DEF UpMoves, TypeOK
    <2>1. CASE Arrive(u) BY <2>1 DEF Arrive
    <2>2. CASE CheckDraining(u) BY <2>2 DEF CheckDraining
    <2>3. CASE LoadActive(u) BY <2>3 DEF LoadActive
    <2>4. CASE ExchangeSucceeds(u) BY <2>4 DEF ExchangeSucceeds
    <2>5. CASE ExchangeFails(u) BY <2>5 DEF ExchangeFails
    <2>6. CASE UpgradeRejected(u) BY <2>6 DEF UpgradeRejected
    <2>7. CASE SpawnTask(u) BY <2>7 DEF SpawnTask
    <2>8. CASE UpgradeErrors(u) BY <2>8 DEF UpgradeErrors
    <2>9. CASE ServeSocket(u) BY <2>9 DEF ServeSocket
    <2>10. CASE SocketDone(u) BY <2>10 DEF SocketDone
    <2>11. CASE DropGuard(u)
      <3>1. CASE active_connections = 1
        <4>1. up'[u] = "notifying"
          BY <2>11, <3>1 DEF DropGuard
        <4> QED BY <4>1
      <3>2. CASE active_connections # 1
        <4>1. active_connections' # 0
          BY <2>11, <3>2 DEF DropGuard
        <4> QED BY <4>1
      <3> QED BY <3>1, <3>2
    <2>12. CASE NotifyDrained(u)
      <3>1. \A h \in Handles : call'[h] \in {"park", "await"} => h \in notified'
        BY <2>12 DEF NotifyDrained, NotifyWaiters, Armed
      <3> QED BY <3>1
    <2> QED BY <1>2, <2>1, <2>2, <2>3, <2>4, <2>5, <2>6, <2>7, <2>8, <2>9,
               <2>10, <2>11, <2>12 DEF UpgradeStep
  <1>3. ASSUME NEW h \in Handles, HandleStep(h) PROVE NoLostWakeup'
    <2> USE DEF CallMoves, TypeOK, upgradeVars, AfterBegin
    <2>1. CASE CallBegin(h) BY <2>1 DEF CallBegin
    <2>2. CASE CallShutdown(h) BY <2>2 DEF CallShutdown
    <2>3. CASE CallWait(h) BY <2>3 DEF CallWait
    <2>4. CASE StoreDraining(h) BY <2>4 DEF StoreDraining
    <2>5. CASE PublishShutdown(h) BY <2>5 DEF PublishShutdown
    <2>6. CASE ProbeActive(h) BY <2>6 DEF ProbeActive
    <2>7. CASE NotifyEmpty(h) BY <2>7 DEF NotifyEmpty, NotifyWaiters
    <2>8. CASE Arm(h) BY <2>8 DEF Arm
    <2>9. CASE InspectEmpty(h) BY <2>9 DEF InspectEmpty
    <2>10. CASE InspectBusy(h) BY <2>10 DEF InspectBusy
    <2>11. CASE Wake(h) BY <2>11 DEF Wake
    <2>12. CASE Park(h) BY <2>12 DEF Park
    <2> QED BY <1>3, <2>1, <2>2, <2>3, <2>4, <2>5, <2>6, <2>7, <2>8, <2>9,
               <2>10, <2>11, <2>12 DEF HandleStep
  <1> QED BY <1>1, <1>2, <1>3 DEF Next

----------------------------------------------------------------------------
LEMMA InitIInv == Init => IInv
  <1> SUFFICES ASSUME Init PROVE IInv
    OBVIOUS
  <1> USE DEF Init
  <1>1. TypeOK
    BY DEF TypeOK, UpStates, CallStates, Apis
  <1>2. ApiMatchesCall
    BY DEF ApiMatchesCall
  <1>3. CountIsGuards
    <2>1. Guarded = {}
      BY DEF Guarded
    <2> QED BY <2>1, FS_EmptySet DEF CountIsGuards
  <1>4. NoLostWakeup
    BY DEF NoLostWakeup
  <1> QED BY <1>1, <1>2, <1>3, <1>4 DEF IInv

\* The four invariants together are inductive, so they hold after every step of
\* the handles, guards and tasks, whatever their number.
THEOREM Inductive == Spec => []IInv
  <1>1. IInv /\ [Next]_vars => IInv'
    BY TypeStep, ApiStep, CountStep, WakeupStep DEF IInv
  <1> QED BY InitIInv, <1>1, PTL DEF Spec

\* The state keeps its type whatever number of requests race: in particular
\* no drop takes the unsigned active_connections below zero.
THEOREM TypeCorrect == Spec => []TypeOK
  <1>1. IInv => TypeOK
    BY DEF IInv
  <1> QED BY Inductive, <1>1, PTL

\* The counter kept by try_register_connection and by the drop of the guard
\* is always the number of guards alive.
THEOREM CounterExact == Spec => []CountIsGuards
  <1>1. IInv => CountIsGuards
    BY DEF IInv
  <1> QED BY Inductive, <1>1, PTL

\* wait_for_shutdown, which makes its future before it reads the count,
\* never sleeps through the drop that empties the server.
THEOREM WakeupNotLost == Spec => []NoLostWakeup
  <1>1. IInv => NoLostWakeup
    BY DEF IInv
  <1> QED BY Inductive, <1>1, PTL

----------------------------------------------------------------------------
\* How a step changes the set of requests between the check and the exchange:
\* only a check that finds the server open adds one, and only an exchange,
\* successful or not, takes one out.
LEMMA RacingSteps ==
  ASSUME TypeOK, [Next]_vars
  PROVE  \/ Racing' = Racing
         \/ \E u \in Upgrades \ (Racing \cup Guarded) :
              CheckDraining(u) /\ ~draining /\ Racing' = Racing \cup {u}
         \/ \E u \in Racing :
              /\ ExchangeSucceeds(u) \/ ExchangeFails(u)
              /\ Racing' = Racing \ {u}
  <1>1. CASE UNCHANGED up
    BY <1>1 DEF Racing
  <1>2. ASSUME NEW h \in Handles, HandleStep(h) PROVE UNCHANGED up
    BY <1>2 DEF HandleStep, CallBegin, CallShutdown, CallWait, StoreDraining,
       PublishShutdown, ProbeActive, NotifyEmpty, Arm, InspectEmpty, InspectBusy, Park,
       Wake, upgradeVars
  <1>3. ASSUME NEW u \in Upgrades, CheckDraining(u), ~draining
        PROVE  u \notin Racing \cup Guarded /\ Racing' = Racing \cup {u}
    BY <1>3 DEF CheckDraining, UpMoves, Racing, Guarded, TypeOK
  <1>4. ASSUME NEW u \in Upgrades, ExchangeSucceeds(u) \/ ExchangeFails(u)
        PROVE  u \in Racing /\ Racing' = Racing \ {u}
    BY <1>4 DEF ExchangeSucceeds, ExchangeFails, UpMoves, Racing, TypeOK
  <1>5. ASSUME NEW u \in Upgrades, UpgradeStep(u),
               ~(CheckDraining(u) /\ ~draining), ~ExchangeSucceeds(u), ~ExchangeFails(u)
        PROVE  Racing' = Racing
    <2> USE DEF UpMoves, Racing, TypeOK
    <2>1. CASE Arrive(u) BY <2>1 DEF Arrive
    <2>2. CASE CheckDraining(u) BY <1>5, <2>2 DEF CheckDraining
    <2>3. CASE LoadActive(u) BY <2>3 DEF LoadActive
    <2>4. CASE UpgradeRejected(u) BY <2>4 DEF UpgradeRejected
    <2>5. CASE SpawnTask(u) BY <2>5 DEF SpawnTask
    <2>6. CASE UpgradeErrors(u) BY <2>6 DEF UpgradeErrors
    <2>7. CASE ServeSocket(u) BY <2>7 DEF ServeSocket
    <2>8. CASE SocketDone(u) BY <2>8 DEF SocketDone
    <2>9. CASE DropGuard(u) BY <2>9 DEF DropGuard
    <2>10. CASE NotifyDrained(u) BY <2>10 DEF NotifyDrained
    <2> QED BY <1>5, <2>1, <2>2, <2>3, <2>4, <2>5, <2>6, <2>7, <2>8, <2>9,
               <2>10 DEF UpgradeStep
  <1> QED BY <1>1, <1>2, <1>3, <1>4, <1>5 DEF Next, vars

LEMMA AdmissibleStep ==
  ASSUME TypeOK, [Next]_vars, draining
  PROVE  (Racing \cup Guarded)' \subseteq Racing \cup Guarded
  <1>1. Racing' \subseteq Racing
    BY RacingSteps
  <1>2. Guarded' \subseteq Racing \cup Guarded
    <2>1. ASSUME NEW u \in Upgrades, ExchangeSucceeds(u) PROVE u \in Racing
      BY <2>1 DEF ExchangeSucceeds, UpMoves, Racing
    <2> QED BY <2>1, GuardSteps
  <1> QED BY <1>1, <1>2

\* No request that has not passed the drain check before draining was stored
\* ever comes to own a guard.
THEOREM DrainAdmitsNobodyNew == Spec => AdmissibleShrinks
  <1>1. TypeOK /\ [Next]_vars
          => [draining => (Racing \cup Guarded)' \subseteq Racing \cup Guarded]_vars
    BY AdmissibleStep
  <1> QED BY <1>1, TypeCorrect, PTL DEF Spec, AdmissibleShrinks

----------------------------------------------------------------------------
\* The step of the contract that a step of a request stands for.
LEMMA UpgradeImplements ==
  ASSUME IInv, NEW u \in Upgrades, UpgradeStep(u)
  PROVE  [Contract!Next]_(Contract!contractVars)
  <1> USE DEF Contract!contractVars
  <1>1. UpgradeStep(u) => UNCHANGED <<draining, call, api>>
    BY DEF UpgradeStep, Arrive, CheckDraining, LoadActive, ExchangeSucceeds,
       ExchangeFails, UpgradeRejected, SpawnTask, UpgradeErrors, ServeSocket,
       SocketDone, DropGuard, NotifyDrained
  <1>2. TypeOK /\ [Next]_vars
    BY DEF IInv, Next
  <1>3. CASE UNCHANGED Racing /\ UNCHANGED Guarded
    BY <1>1, <1>3
  <1>4. ASSUME CheckDraining(u), ~draining PROVE Contract!Enter(u)
    <2>1. u \notin Racing \cup Guarded /\ Racing' = Racing \cup {u} /\ Guarded' = Guarded
      BY <1>2, <1>4 DEF CheckDraining, UpMoves, Racing, Guarded, TypeOK
    <2> QED BY <1>1, <1>4, <2>1 DEF Contract!Enter
  <1>5. ASSUME ExchangeFails(u) PROVE Contract!SendBack(u)
    <2>1. u \in Racing /\ Racing' = Racing \ {u} /\ Guarded' = Guarded
      BY <1>2, <1>5 DEF ExchangeFails, UpMoves, Racing, Guarded, TypeOK
    <2> QED BY <1>1, <2>1 DEF Contract!SendBack
  <1>6. ASSUME ExchangeSucceeds(u) PROVE Contract!Admit(u)
    <2>1. u \in Racing /\ Racing' = Racing \ {u} /\ Guarded' = Guarded \cup {u}
      BY <1>2, <1>6 DEF ExchangeSucceeds, UpMoves, Racing, Guarded, TypeOK
    <2> QED BY <1>1, <2>1 DEF Contract!Admit
  <1>7. ASSUME DropGuard(u) PROVE Contract!Finish(u)
    <2>1. u \in Guarded /\ Guarded' = Guarded \ {u} /\ Racing' = Racing
      BY <1>2, <1>7 DEF DropGuard, UpMoves, Racing, Guarded, TypeOK
    <2> QED BY <1>1, <2>1 DEF Contract!Finish
  <1>8. ASSUME ~(CheckDraining(u) /\ ~draining), ~ExchangeFails(u),
               ~ExchangeSucceeds(u), ~DropGuard(u)
        PROVE  UNCHANGED Racing /\ UNCHANGED Guarded
    <2> USE DEF UpMoves, Racing, Guarded, TypeOK
    <2>1. CASE Arrive(u) BY <1>2, <2>1 DEF Arrive
    <2>2. CASE CheckDraining(u) BY <1>2, <1>8, <2>2 DEF CheckDraining
    <2>3. CASE LoadActive(u) BY <1>2, <2>3 DEF LoadActive
    <2>4. CASE UpgradeRejected(u) BY <1>2, <2>4 DEF UpgradeRejected
    <2>5. CASE SpawnTask(u) BY <1>2, <2>5 DEF SpawnTask
    <2>6. CASE UpgradeErrors(u) BY <1>2, <2>6 DEF UpgradeErrors
    <2>7. CASE ServeSocket(u) BY <1>2, <2>7 DEF ServeSocket
    <2>8. CASE SocketDone(u) BY <1>2, <2>8 DEF SocketDone
    <2>9. CASE NotifyDrained(u) BY <1>2, <2>9 DEF NotifyDrained
    <2> QED BY <1>8, <2>1, <2>2, <2>3, <2>4, <2>5, <2>6, <2>7, <2>8, <2>9 DEF UpgradeStep
  <1> QED BY <1>3, <1>4, <1>5, <1>6, <1>7, <1>8 DEF Contract!Next

\* ... and that a step of a handle stands for: a waiter waits from the moment
\* it enters wait_for_shutdown, and is released by reading a count of zero.
LEMMA HandleImplements ==
  ASSUME IInv, NEW h \in Handles, HandleStep(h)
  PROVE  [Contract!Next]_(Contract!contractVars)
  <1> DEFINE waiting  == {k \in Handles : call[k] \in {"arm", "inspect", "park", "await"}}
             released == {k \in Handles : call[k] = "returned" /\ api[k] # "begin"}
  <1>1. UNCHANGED <<Racing, Guarded>>
    BY DEF HandleStep, CallBegin, CallShutdown, CallWait, StoreDraining,
       PublishShutdown, ProbeActive, NotifyEmpty, Arm, InspectEmpty, InspectBusy, Park,
       Wake, upgradeVars, Racing, Guarded
  <1> USE DEF CallMoves, TypeOK, IInv
  <1>2. CASE StoreDraining(h)
    <2>1. UNCHANGED <<waiting, released>> /\ draining' = TRUE
      BY <1>2 DEF StoreDraining
    <2> QED BY <1>1, <2>1 DEF Contract!Next, Contract!Close
  <1>3. ASSUME h \notin waiting \cup released, waiting' = waiting \cup {h},
               UNCHANGED <<released, draining>>
        PROVE  Contract!Next
    BY <1>1, <1>3 DEF Contract!Next, Contract!Wait
  <1>4. CASE CallWait(h)
    <2>1. h \notin waiting \cup released /\ waiting' = waiting \cup {h}
      BY <1>4 DEF CallWait
    <2>2. UNCHANGED <<released, draining>>
      BY <1>4 DEF CallWait
    <2> QED BY <1>3, <2>1, <2>2
  <1>5. ASSUME call[h] \in {"probe", "notify"}, call' = [call EXCEPT ![h] = AfterBegin(h)],
               UNCHANGED <<api, draining>>
        PROVE  Contract!Next \/ UNCHANGED <<waiting, released, draining>>
    <2>1. CASE api[h] = "shutdown"
      <3>1. h \notin waiting \cup released /\ waiting' = waiting \cup {h}
        BY <1>5, <2>1 DEF AfterBegin
      <3>2. UNCHANGED released
        BY <1>5, <2>1 DEF AfterBegin
      <3> QED BY <1>3, <1>5, <3>1, <3>2
    <2>2. CASE api[h] = "begin"
      <3>1. UNCHANGED <<waiting, released, draining>>
        BY <1>5, <2>2 DEF AfterBegin
      <3> QED BY <3>1
    <2> QED BY <1>5, <2>1, <2>2 DEF ApiMatchesCall
  <1>6. CASE ProbeActive(h)
    <2>1. CASE active_connections = 0
      BY <1>1, <1>6, <2>1 DEF ProbeActive, Contract!contractVars
    <2>2. CASE active_connections # 0
      BY <1>1, <1>5, <1>6, <2>2 DEF ProbeActive, Contract!contractVars
    <2> QED BY <2>1, <2>2
  <1>7. CASE NotifyEmpty(h)
    BY <1>1, <1>5, <1>7 DEF NotifyEmpty, Contract!contractVars
  <1>8. CASE InspectEmpty(h)
    <2>1. Guarded = {}
      BY <1>8, ZeroMeansEmpty DEF InspectEmpty
    <2>2. h \in waiting /\ waiting' = waiting \ {h}
      BY <1>8 DEF InspectEmpty
    <2>3. released' = released \cup {h}
      BY <1>8 DEF InspectEmpty, ApiMatchesCall
    <2>4. UNCHANGED draining
      BY <1>8 DEF InspectEmpty
    <2> QED BY <1>1, <2>1, <2>2, <2>3, <2>4 DEF Contract!Next, Contract!Release
  <1>9. ASSUME ~StoreDraining(h), ~CallWait(h), ~ProbeActive(h), ~NotifyEmpty(h), ~InspectEmpty(h)
        PROVE  UNCHANGED <<waiting, released, draining>>
    <2>1. CASE CallBegin(h) BY <2>1 DEF CallBegin
    <2>2. CASE CallShutdown(h) BY <2>2 DEF CallShutdown
    <2>3. CASE PublishShutdown(h) BY <2>3 DEF PublishShutdown
    <2>4. CASE Arm(h) BY <2>4 DEF Arm
    <2>5. CASE InspectBusy(h) BY <2>5 DEF InspectBusy
    <2>6. CASE Wake(h) BY <2>6 DEF Wake
    <2>7. CASE Park(h) BY <2>7 DEF Park
    <2> QED BY <1>9, <2>1, <2>2, <2>3, <2>4, <2>5, <2>6, <2>7 DEF HandleStep
  <1> QED BY <1>1, <1>2, <1>4, <1>6, <1>7, <1>8, <1>9 DEF Contract!contractVars

\* The registration loop, the counter, the Notify and the flags keep the
\* promise of DrainContract, so that wait_for_shutdown and shutdown() return
\* only at an instant at which no guard is alive.
THEOREM Implementation == Spec => ImplementsContract
  <1>1. Init => Contract!Init
    BY DEF Init, Contract!Init, Racing, Guarded
  <1>2. IInv /\ [Next]_vars => [Contract!Next]_(Contract!contractVars)
    <2> SUFFICES ASSUME IInv, [Next]_vars PROVE [Contract!Next]_(Contract!contractVars)
      OBVIOUS
    <2>1. CASE UNCHANGED vars
      BY <2>1 DEF vars, Racing, Guarded, Contract!contractVars
    <2> QED BY <2>1, UpgradeImplements, HandleImplements DEF Next
  <1> QED BY <1>1, <1>2, Inductive, PTL DEF Spec, ImplementsContract, Contract!Spec

============================================================================
