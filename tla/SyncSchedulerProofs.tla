-------------------------- MODULE SyncSchedulerProofs --------------------------
(***************************************************************************)
(* What holds of the sync scheduler for any number of profiles, configs,   *)
(* callers, calls, work items and panics: its type invariant, and the two  *)
(* promises its queues make.                                               *)
(***************************************************************************)
EXTENDS SyncScheduler, TLAPS

USE DEF vars, queues, profileQueues, configQueues, locks, tick, tickData, tombstoneVars,
        syncVars, drainVars, others, bounds, history

\* Every state of the scheduler has the types its declarations give it.
THEOREM TypeCorrect == Spec => []TypeOK
<1>1. Init => TypeOK
  BY DEF Init, TypeOK, LoopStates, NumKinds
<1>2. TypeOK /\ [Next]_vars => TypeOK'
  <2> SUFFICES ASSUME TypeOK, [Next]_vars PROVE TypeOK'
    OBVIOUS
  <2> USE DEF TypeOK, LoopStates
  <2>1. ASSUME NEW t \in Callers, CallStep(t) PROVE TypeOK'
    <3> USE DEF Calls, Ops, NoCall, Return
    <3>2. CASE MarkProfileRunning(t)
      BY <3>2 DEF MarkProfileRunning
    <3>3. CASE MarkProfileStopped(t)
      BY <3>3 DEF MarkProfileStopped
    <3>4. CASE MarkProfileStoppedPending(t)
      BY <3>4 DEF MarkProfileStoppedPending
    <3>5. CASE QueueAskRunning(t)
      BY <3>5 DEF QueueAskRunning
    <3>6. CASE QueueProfileSync(t)
      BY <3>6 DEF QueueProfileSync
    <3>7. CASE CheckInFlight(t)
      BY <3>7 DEF CheckInFlight
    <3>8. CASE CheckPending(t)
      BY <3>8 DEF CheckPending
    <3> QED
      BY <2>1, <3>2, <3>3, <3>4, <3>5, <3>6, <3>7, <3>8 DEF CallStep
  <2>2. ASSUME NEW t \in Callers, NEW op \in Ops, NEW p \in Profiles, StartCall(t, op, p)
        PROVE  TypeOK'
    <3>1. MidSyncOrQueued(p) \in BOOLEAN
      BY DEF MidSyncOrQueued
    <3> QED
      BY <2>2, <3>1 DEF StartCall, Calls, NoCall
  <2>3. ASSUME NEW c \in Configs, QueueConfigSync(c) PROVE TypeOK'
    BY <2>3 DEF QueueConfigSync
  <2>4. ASSUME NEW e \in Entities, NEW s \in LocalStates, UserChanges(e, s) PROVE TypeOK'
    BY <2>4 DEF UserChanges
  <2>5. ASSUME NEW p \in Profiles, LookUpProfile(p) \/ FinishSync(p) PROVE TypeOK'
    <3>1. NoLongerBusy(p) => call' \in [Callers -> Calls \cup {NoCall}]
      <4>1. ASSUME NEW c \in Calls \cup {NoCall} PROVE NotBusy(c) \in Calls \cup {NoCall}
        <5>1. CASE c \in Calls
          BY <5>1 DEF NotBusy, Calls
        <5>2. CASE c = NoCall
          BY <5>2 DEF NotBusy, NoCall
        <5> QED
          BY <5>1, <5>2
      <4> QED
        BY <4>1 DEF NoLongerBusy
    <3>2. CASE LookUpProfile(p)
      BY <3>1, <3>2 DEF LookUpProfile
    <3>3. CASE FinishSync(p)
      BY <3>1, <3>3 DEF FinishSync
    <3> QED
      BY <2>5, <3>2, <3>3
  <2>6. ASSUME NEW p \in Profiles, PanicSync(p) PROVE TypeOK'
    BY <2>6 DEF PanicSync
  <2>7. ASSUME NEW p \in Profiles, ReceiveProfile(p) PROVE TypeOK'
    BY <2>7 DEF ReceiveProfile
  <2>8. ASSUME NEW c \in Configs, ReceiveConfig(c) PROVE TypeOK'
    BY <2>8 DEF ReceiveConfig
  <2>9. ASSUME NEW e \in Entities, QueueTombstone(e) PROVE TypeOK'
    BY <2>9 DEF QueueTombstone
  <2>10. CASE ReceiveAskRunning \/ ReceiveQueue
    BY <2>10 DEF ReceiveAskRunning, ReceiveQueue
  <2>11. CASE TakeTombstones
    BY <2>11 DEF TakeTombstones, AfterTombstones
  <2>12. ASSUME NEW e \in Entities, DropPendingConfigSync(e) PROVE TypeOK'
    BY <2>12 DEF DropPendingConfigSync
  <2>13. ASSUME NEW e \in Entities, ApplyTombstone(e) PROVE TypeOK'
    BY <2>13 DEF ApplyTombstone, AfterTombstones, LocalStates
  <2>14. CASE TakePendingLock \/ AllMarked \/ EngineCreated \/ EngineUnavailable \/ EndTick
    BY <2>14 DEF TakePendingLock, AllMarked, EngineCreated, EngineUnavailable, EndTick
  <2>15. CASE SelectReady
    BY <2>15 DEF SelectReady, Ready
  <2>16. CASE JoinAll
    BY <2>16 DEF JoinAll, NumKinds
  <2>17. ASSUME NEW p \in Profiles, MarkInFlight(p) PROVE TypeOK'
    BY <2>17 DEF MarkInFlight
  <2>18. CASE DrainConfigs
    BY <2>18 DEF DrainConfigs, NumKinds
  <2>19. ASSUME NEW c \in Configs, SyncConfig(c) PROVE TypeOK'
    BY <2>19 DEF SyncConfig, Entities, LocalStates
  <2>20. CASE UNCHANGED vars
    BY <2>20 DEF Calls, NoCall
  <2> QED
    BY <2>1, <2>2, <2>3, <2>4, <2>5, <2>6, <2>7, <2>8, <2>9, <2>10, <2>11, <2>12, <2>13,
       <2>14, <2>15, <2>16, <2>17, <2>18, <2>19, <2>20 DEF Next, TaskStep, Receive, TickStep
<1> QED
  BY <1>1, <1>2, PTL DEF Spec
--------------------------------------------------------------------------------
(***************************************************************************)
(* A request is not forgotten.  The set a tick takes out of pending lives  *)
(* in ready until it is marked, and nothing in ready is in flight, so the  *)
(* duplicate filter of the marking step never drops an id.                 *)
(***************************************************************************)
RequestInv ==
  /\ RequestsHeld
  /\ loopPc # "mark" => ready = {}
  /\ ready \cap inFlight = {}

\* A profile whose queue_profile_sync returned stays queued or in the loop's
\* hands until a sync task has looked it up, whatever panics (RequestsHeld).
THEOREM RequestsAreHeld == Spec => []RequestsHeld
<1>1. Init => RequestInv
  BY DEF Init, RequestInv, RequestsHeld
<1>2. RequestInv /\ [Next]_vars => RequestInv'
  <2> SUFFICES ASSUME RequestInv, [Next]_vars PROVE RequestInv'
    OBVIOUS
  <2> USE DEF RequestInv, RequestsHeld
  <2>1. ASSUME NEW t \in Callers, CallStep(t) PROVE RequestInv'
    BY <2>1 DEF CallStep, Return, MarkProfileRunning, MarkProfileStopped, MarkProfileStoppedPending, QueueAskRunning,
       QueueProfileSync, CheckInFlight, CheckPending
  <2>2. ASSUME NEW t \in Callers, NEW op \in Ops, NEW p \in Profiles, StartCall(t, op, p)
        PROVE  RequestInv'
    BY <2>2 DEF StartCall
  <2>3. ASSUME NEW c \in Configs, QueueConfigSync(c) \/ ReceiveConfig(c) PROVE RequestInv'
    BY <2>3 DEF QueueConfigSync, ReceiveConfig
  <2>4. ASSUME NEW e \in Entities, NEW s \in LocalStates, UserChanges(e, s) PROVE RequestInv'
    BY <2>4 DEF UserChanges
  <2>5. ASSUME NEW p \in Profiles, TaskStep(p) \/ PanicSync(p) PROVE RequestInv'
    BY <2>5 DEF TaskStep, LookUpProfile, FinishSync, PanicSync
  <2>6. ASSUME NEW p \in Profiles, ReceiveProfile(p) PROVE RequestInv'
    BY <2>6 DEF ReceiveProfile
  <2>7. ASSUME NEW e \in Entities, QueueTombstone(e) PROVE RequestInv'
    BY <2>7 DEF QueueTombstone
  <2>8. CASE ReceiveAskRunning \/ ReceiveQueue
    BY <2>8 DEF ReceiveAskRunning, ReceiveQueue
  <2>9. CASE TakeTombstones
    BY <2>9 DEF TakeTombstones, AfterTombstones
  <2>10. ASSUME NEW e \in Entities, DropPendingConfigSync(e) PROVE RequestInv'
    BY <2>10 DEF DropPendingConfigSync
  <2>11. ASSUME NEW e \in Entities, ApplyTombstone(e) PROVE RequestInv'
    BY <2>11 DEF ApplyTombstone, AfterTombstones
  <2>12. CASE TakePendingLock \/ AllMarked \/ JoinAll
    BY <2>12 DEF TakePendingLock, AllMarked, JoinAll
  <2>13. CASE SelectReady
    BY <2>13 DEF SelectReady, Ready
  <2>14. ASSUME NEW p \in Profiles, MarkInFlight(p) PROVE RequestInv'
    BY <2>14 DEF MarkInFlight
  <2>15. CASE DrainConfigs
    BY <2>15 DEF DrainConfigs
  <2>16. CASE EngineCreated \/ EngineUnavailable \/ EndTick
    BY <2>16 DEF EngineCreated, EngineUnavailable, EndTick
  <2>17. ASSUME NEW c \in Configs, SyncConfig(c) PROVE RequestInv'
    BY <2>17 DEF SyncConfig
  <2>18. CASE UNCHANGED vars
    BY <2>18 DEF vars
  <2> QED
    BY <2>1, <2>2, <2>3, <2>4, <2>5, <2>6, <2>7, <2>8, <2>9, <2>10, <2>11, <2>12, <2>13,
       <2>14, <2>15, <2>16, <2>17, <2>18 DEF Next, Receive, TickStep
<1>3. RequestInv => RequestsHeld
  BY DEF RequestInv
<1> QED
  BY <1>1, <1>2, <1>3, PTL DEF Spec

--------------------------------------------------------------------------------
(***************************************************************************)
(* Deletions first.  While the tombstones of the tick are being dropped,   *)
(* only those not dropped yet can still be queued; afterwards a config of  *)
(* the batch is queued only if it was queued again, and then it is not     *)
(* doomed any more.                                                        *)
(***************************************************************************)
DrainInv ==
  /\ DoomedNotDrained
  /\ loopPc \notin {"engine", "drain"} => drained = {}
  /\ loopPc = "drop" => doomed \cap pendingConfigs \subseteq batch \ dropped
  /\ loopPc # "drop" => doomed \cap pendingConfigs = {}

\* A tick never syncs a config whose tombstone it took, unless that config was
\* queued again in the meantime (DoomedNotDrained, process_pending).
THEOREM DeletionsFirst == Spec => []DoomedNotDrained
<1>1. Init => DrainInv
  BY DEF Init, DrainInv, DoomedNotDrained
<1>2. DrainInv /\ [Next]_vars => DrainInv'
  <2> SUFFICES ASSUME DrainInv, [Next]_vars PROVE DrainInv'
    OBVIOUS
  <2> USE DEF DrainInv, DoomedNotDrained
  <2>1. ASSUME NEW t \in Callers, CallStep(t) PROVE DrainInv'
    BY <2>1 DEF CallStep, Return, MarkProfileRunning, MarkProfileStopped, MarkProfileStoppedPending, QueueAskRunning,
       QueueProfileSync, CheckInFlight, CheckPending
  <2>2. ASSUME NEW t \in Callers, NEW op \in Ops, NEW p \in Profiles, StartCall(t, op, p)
        PROVE  DrainInv'
    BY <2>2 DEF StartCall
  <2>3. ASSUME NEW c \in Configs, QueueConfigSync(c) \/ ReceiveConfig(c) PROVE DrainInv'
    BY <2>3 DEF QueueConfigSync, ReceiveConfig
  <2>4. ASSUME NEW e \in Entities, NEW s \in LocalStates, UserChanges(e, s) PROVE DrainInv'
    BY <2>4 DEF UserChanges
  <2>5. ASSUME NEW p \in Profiles, TaskStep(p) \/ PanicSync(p) PROVE DrainInv'
    BY <2>5 DEF TaskStep, LookUpProfile, FinishSync, PanicSync
  <2>6. ASSUME NEW p \in Profiles, ReceiveProfile(p) PROVE DrainInv'
    BY <2>6 DEF ReceiveProfile
  <2>7. ASSUME NEW e \in Entities, QueueTombstone(e) PROVE DrainInv'
    BY <2>7 DEF QueueTombstone
  <2>8. CASE ReceiveAskRunning \/ ReceiveQueue
    BY <2>8 DEF ReceiveAskRunning, ReceiveQueue
  <2>9. CASE TakeTombstones
    BY <2>9 DEF TakeTombstones, AfterTombstones
  <2>10. ASSUME NEW e \in Entities, DropPendingConfigSync(e) PROVE DrainInv'
    BY <2>10 DEF DropPendingConfigSync
  <2>11. ASSUME NEW e \in Entities, ApplyTombstone(e) PROVE DrainInv'
    BY <2>11 DEF ApplyTombstone, AfterTombstones
  <2>12. CASE TakePendingLock \/ AllMarked \/ JoinAll
    BY <2>12 DEF TakePendingLock, AllMarked, JoinAll
  <2>13. CASE SelectReady
    BY <2>13 DEF SelectReady, Ready
  <2>14. ASSUME NEW p \in Profiles, MarkInFlight(p) PROVE DrainInv'
    BY <2>14 DEF MarkInFlight
  <2>15. CASE DrainConfigs
    BY <2>15 DEF DrainConfigs
  <2>16. CASE EngineCreated \/ EngineUnavailable \/ EndTick
    BY <2>16 DEF EngineCreated, EngineUnavailable, EndTick
  <2>17. ASSUME NEW c \in Configs, SyncConfig(c) PROVE DrainInv'
    BY <2>17 DEF SyncConfig
  <2>18. CASE UNCHANGED vars
    BY <2>18 DEF vars
  <2> QED
    BY <2>1, <2>2, <2>3, <2>4, <2>5, <2>6, <2>7, <2>8, <2>9, <2>10, <2>11, <2>12, <2>13,
       <2>14, <2>15, <2>16, <2>17, <2>18 DEF Next, Receive, TickStep
<1>3. DrainInv => DoomedNotDrained
  BY DEF DrainInv
<1> QED
  BY <1>1, <1>2, <1>3, PTL DEF Spec
================================================================================
