----------------------------- MODULE SyncScheduler -----------------------------
(***************************************************************************)
(* The sync scheduler of one bwbrowser process (sync/scheduler.rs): the    *)
(* queues that requests land in, the set of profiles with an open browser, *)
(* the set of profiles being synced, and the task ("the loop") that every  *)
(* two seconds applies remote deletions, starts the ready profile syncs,   *)
(* waits for them, and then drains the config queues one kind at a time.   *)
(*                                                                         *)
(* Every queue sits behind a tokio mutex of its own.  A step between two   *)
(* lock acquisitions is an action.  pending_profiles and running_profiles  *)
(* are the only mutexes held while another one is awaited, so they are the *)
(* only ones with a holder here; the others are never held across an await *)
(* and their critical sections are single actions.                         *)
(*                                                                         *)
(* The stopped_at time of a queue entry is written and never read and its  *)
(* queued flag is always true, so pending_profiles is a set.               *)
(***************************************************************************)
EXTENDS Naturals, FiniteSets

CONSTANTS
  Profiles,   \* profile ids
  Configs,    \* ids of proxies, groups, VPNs, extensions, extension groups
  KindOf,     \* the kind of each config: its place in the order of the drain
  Callers,    \* the other async tasks that call into the scheduler
  Loop,       \* the scheduler's own task, as a lock holder
  NoOne,      \* holder of a free mutex
  MaxCalls,   \* bound: calls the other tasks make
  MaxItems,   \* bound: work items received from the subscription
  MaxPanics   \* bound: sync tasks that panic

NumKinds == 5
Entities == Profiles \cup Configs
LocalStates == {"absent", "synced", "unsynced"}
Ops == {"running", "stopped", "queue", "check"}
LoopStates == {"idle", "recvRunning", "recvPending", "drop", "apply", "profiles",
               "wantRunning", "mark", "join", "configs", "engine", "drain"}

ASSUME KindAssumption == KindOf \in [Configs -> 1 .. NumKinds]
ASSUME TaskAssumption == Loop \notin Callers /\ NoOne \notin Callers /\ Loop # NoOne
ASSUME EntityAssumption == Profiles \cap Configs = {}
ASSUME BoundAssumption == MaxCalls \in Nat /\ MaxItems \in Nat /\ MaxPanics \in Nat

VARIABLES
  pending,            \* pending_profiles
  running,            \* running_profiles
  inFlight,           \* in_flight_profiles
  pendingConfigs,     \* the five pending_<kind> sets together
  pendingTombstones,  \* pending_tombstones
  pHolder,            \* task that holds the mutex of pending_profiles
  rHolder,            \* task that holds the mutex of running_profiles
  local,              \* each entity in the local store: absent, or its sync switch
  loopPc,             \* where the loop is
  item,               \* profile of the work item being queued by the loop
  batch,              \* tombstones of this tick still to be dropped or applied
  dropped,            \* those whose queued config sync was already dropped
  ready,              \* profiles taken from pending, not yet marked in flight
  spawned,            \* sync tasks that have not looked their profile up
  executing,          \* sync tasks inside sync_profile
  nextKind,           \* config kind the drain is at
  drained,            \* configs taken from their queue, not yet synced
  call,               \* the call each of the other tasks is in
  calls, items, panics,  \* counters of the bounds
  owed,               \* history: profiles requested and not looked up since
  doomed              \* history: tombstones of this tick, not queued again since

profileQueues == <<pending, running, inFlight>>
configQueues == <<pendingConfigs, pendingTombstones>>
queues == <<profileQueues, configQueues>>
locks == <<pHolder, rHolder>>
tombstoneVars == <<batch, dropped>>
syncVars == <<ready, spawned, executing>>
drainVars == <<nextKind, drained>>
tickData == <<item, tombstoneVars, syncVars, drainVars>>
tick == <<loopPc, tickData>>
bounds == <<calls, items, panics>>
history == <<owed, doomed>>
others == <<local, call, bounds>>
vars == <<queues, locks, tick, others, history>>

NoCall == [op |-> "none", id |-> NoOne, step |-> 1, busy |-> FALSE]
Calls == [op : Ops, id : Profiles, step : 1 .. 2, busy : BOOLEAN]

TypeOK ==
  /\ pending \subseteq Profiles
  /\ running \subseteq Profiles
  /\ inFlight \subseteq Profiles
  /\ pendingConfigs \subseteq Configs
  /\ pendingTombstones \subseteq Entities
  /\ pHolder \in {Loop, NoOne}
  /\ rHolder \in Callers \cup {NoOne}
  /\ local \in [Entities -> LocalStates]
  /\ loopPc \in LoopStates
  /\ item \in Profiles \cup {NoOne}
  /\ loopPc \in {"recvRunning", "recvPending"} => item \in Profiles
  /\ batch \subseteq Entities /\ dropped \subseteq Entities
  /\ ready \subseteq Profiles /\ spawned \subseteq Profiles /\ executing \subseteq Profiles
  /\ nextKind \in 1 .. NumKinds + 1
  /\ drained \subseteq Configs
  /\ call \in [Callers -> Calls \cup {NoCall}]
  /\ calls \in Nat /\ items \in Nat /\ panics \in Nat
  /\ owed \subseteq Profiles
  /\ doomed \subseteq Entities

Init ==
  /\ pending = {} /\ running = {} /\ inFlight = {}
  /\ pendingConfigs = {} /\ pendingTombstones = {}
  /\ pHolder = NoOne /\ rHolder = NoOne
  /\ local \in [Entities -> LocalStates]
  /\ loopPc = "idle" /\ item = NoOne
  /\ batch = {} /\ dropped = {}
  /\ ready = {} /\ spawned = {} /\ executing = {}
  /\ nextKind = 1 /\ drained = {}
  /\ call = [t \in Callers |-> NoCall]
  /\ calls = 0 /\ items = 0 /\ panics = 0
  /\ owed = {} /\ doomed = {}

\* Profile p is queued, in the loop's hands, or being synced.
MidSyncOrQueued(p) == p \in pending \cup ready \cup inFlight

(***************************************************************************)
(* Calls made by the other tasks.                                          *)
(***************************************************************************)
StartCall(t, op, p) ==
  /\ call[t].op = "none"
  /\ calls < MaxCalls
  /\ call' = [call EXCEPT ![t] = [op |-> op, id |-> p, step |-> 1,
                                  busy |-> MidSyncOrQueued(p)]]
  /\ calls' = calls + 1
  /\ UNCHANGED <<queues, locks, tick, local, items, panics, history>>

Return(t) == call' = [call EXCEPT ![t] = NoCall]

\* mark_profile_running: one insert under the mutex of running_profiles.
MarkProfileRunning(t) ==
  /\ call[t].op = "running"
  /\ rHolder = NoOne
  /\ running' = running \cup {call[t].id}
  /\ Return(t)
  /\ UNCHANGED <<pending, inFlight, configQueues, locks, tick, local, bounds,
                 history>>

\* mark_profile_stopped, up to its second await: running_profiles stays locked.
MarkProfileStopped(t) ==
  /\ call[t].op = "stopped" /\ call[t].step = 1
  /\ rHolder = NoOne
  /\ running' = running \ {call[t].id}
  /\ rHolder' = t
  /\ call' = [call EXCEPT ![t].step = 2]
  /\ UNCHANGED <<pending, inFlight, configQueues, pHolder, tick, local, bounds,
                 history>>

\* The rest of it: re-inserting an entry that is there changes nothing.
MarkProfileStoppedPending(t) ==
  /\ call[t].op = "stopped" /\ call[t].step = 2
  /\ pHolder = NoOne
  /\ rHolder' = NoOne
  /\ Return(t)
  /\ UNCHANGED <<queues, pHolder, tick, local, bounds, history>>

\* queue_profile_sync asks is_profile_running first; both answers queue alike.
QueueAskRunning(t) ==
  /\ call[t].op = "queue" /\ call[t].step = 1
  /\ rHolder = NoOne
  /\ call' = [call EXCEPT ![t].step = 2]
  /\ UNCHANGED <<queues, locks, tick, local, bounds, history>>

QueueProfileSync(t) ==
  /\ call[t].op = "queue" /\ call[t].step = 2
  /\ pHolder = NoOne
  /\ pending' = pending \cup {call[t].id}
  /\ owed' = owed \cup {call[t].id}
  /\ Return(t)
  /\ UNCHANGED <<running, inFlight, configQueues, locks, tick, local, bounds,
                 doomed>>

\* is_profile_sync_in_progress reads in_flight first and answers if it is there.
CheckInFlight(t) ==
  /\ call[t].op = "check" /\ call[t].step = 1
  /\ IF call[t].id \in inFlight THEN Return(t)
     ELSE call' = [call EXCEPT ![t].step = 2]
  /\ UNCHANGED <<queues, locks, tick, local, bounds, history>>

\* Then pending_profiles, under its own mutex, and answers what it finds there.
CheckPending(t) ==
  /\ call[t].op = "check" /\ call[t].step = 2
  /\ pHolder = NoOne
  /\ Return(t)
  /\ UNCHANGED <<queues, locks, tick, local, bounds, history>>

\* queue_proxy_sync and its four siblings.
QueueConfigSync(c) ==
  /\ calls < MaxCalls
  /\ calls' = calls + 1
  /\ pendingConfigs' = pendingConfigs \cup {c}
  /\ doomed' = doomed \ {c}
  /\ UNCHANGED <<profileQueues, pendingTombstones, locks, tick, local, call, items,
                 panics, owed>>

\* The user deletes an entity, creates it, or turns its sync switch.
UserChanges(e, s) ==
  /\ local[e] # s
  /\ calls < MaxCalls
  /\ calls' = calls + 1
  /\ local' = [local EXCEPT ![e] = s]
  /\ UNCHANGED <<queues, locks, tick, call, items, panics, history>>

(***************************************************************************)
(* The loop: work items, received only between two ticks.                  *)
(***************************************************************************)
ReceiveProfile(p) ==
  /\ loopPc = "idle"
  /\ items < MaxItems
  /\ items' = items + 1
  /\ item' = p
  /\ loopPc' = "recvRunning"
  /\ UNCHANGED <<queues, locks, tombstoneVars, syncVars, drainVars, local, call,
                 calls, panics, history>>

ReceiveAskRunning ==
  /\ loopPc = "recvRunning"
  /\ rHolder = NoOne
  /\ loopPc' = "recvPending"
  /\ UNCHANGED <<queues, locks, tickData, others, history>>

ReceiveQueue ==
  /\ loopPc = "recvPending"
  /\ pHolder = NoOne
  /\ pending' = pending \cup {item}
  /\ owed' = owed \cup {item}
  /\ item' = NoOne
  /\ loopPc' = "idle"
  /\ UNCHANGED <<running, inFlight, configQueues, locks, tombstoneVars, syncVars,
                 drainVars, others, doomed>>

ReceiveConfig(c) ==
  /\ loopPc = "idle"
  /\ items < MaxItems
  /\ items' = items + 1
  /\ pendingConfigs' = pendingConfigs \cup {c}
  /\ doomed' = doomed \ {c}
  /\ UNCHANGED <<profileQueues, pendingTombstones, locks, tick, local, call, calls,
                 panics, owed>>

QueueTombstone(e) ==
  /\ loopPc = "idle"
  /\ items < MaxItems
  /\ items' = items + 1
  /\ pendingTombstones' = pendingTombstones \cup {e}
  /\ UNCHANGED <<profileQueues, pendingConfigs, locks, tick, local, call, calls,
                 panics, history>>

(***************************************************************************)
(* A tick (process_pending).  First the deletions made on other devices.   *)
(***************************************************************************)
\* What the tick turns to once the tombstones are dealt with.
AfterTombstones == "profiles"

TakeTombstones ==
  /\ loopPc = "idle"
  /\ batch' = pendingTombstones
  /\ doomed' = pendingTombstones
  /\ pendingTombstones' = {}
  /\ dropped' = {}
  /\ loopPc' = IF pendingTombstones = {} THEN AfterTombstones ELSE "drop"
  /\ UNCHANGED <<profileQueues, pendingConfigs, locks, item, syncVars, drainVars,
                 others, owed>>

\* Mutant: drop_pending_config_sync matches no kind.
KeepPendingConfigSync(e) ==
  /\ loopPc = "drop" /\ e \in batch \ dropped
  /\ doomed' = doomed \cup {e}
  /\ dropped' = dropped \cup {e}
  /\ loopPc' = IF dropped' = batch THEN "apply" ELSE "drop"
  /\ UNCHANGED <<queues, locks, item, batch, syncVars, drainVars, others, owed>>

\* drop_pending_config_sync, one tombstone after the other; profiles have no
\* queue it touches.
DropPendingConfigSync(e) ==
  /\ loopPc = "drop" /\ e \in batch \ dropped
  /\ pendingConfigs' = pendingConfigs \ {e}
  /\ doomed' = doomed \cup {e}
  /\ dropped' = dropped \cup {e}
  /\ loopPc' = IF dropped' = batch THEN "apply" ELSE "drop"
  /\ UNCHANGED <<profileQueues, pendingTombstones, locks, item, batch, syncVars,
                 drainVars, others, owed>>

\* The local copy goes only if its sync switch is on.
ApplyTombstone(e) ==
  /\ loopPc = "apply" /\ e \in batch
  /\ local' = IF local[e] = "synced" THEN [local EXCEPT ![e] = "absent"] ELSE local
  /\ batch' = batch \ {e}
  /\ loopPc' = IF batch' = {} THEN AfterTombstones ELSE "apply"
  /\ UNCHANGED <<queues, locks, item, dropped, syncVars, drainVars, call, bounds,
                 history>>

(***************************************************************************)
(* Then the profiles: select under both mutexes, mark, run, join.          *)
(***************************************************************************)
TakePendingLock ==
  /\ loopPc = "profiles"
  /\ pHolder = NoOne
  /\ pHolder' = Loop
  /\ loopPc' = "wantRunning"
  /\ UNCHANGED <<queues, rHolder, tickData, others, history>>

\* Mutant: ids in flight are left to the duplicate filter of the next step.
ReadyIgnoringInFlight == {p \in pending : p \notin running}

Ready == {p \in pending : p \notin running /\ p \notin inFlight}

\* Mutant: the mutex of pending_profiles is never given back.
SelectReadyKeepsLock ==
  /\ loopPc = "wantRunning"
  /\ rHolder = NoOne
  /\ ready' = Ready
  /\ pending' = pending \ Ready
  /\ loopPc' = "mark"
  /\ UNCHANGED <<running, inFlight, configQueues, locks, item, tombstoneVars,
                 spawned, executing, drainVars, others, history>>

SelectReady ==
  /\ loopPc = "wantRunning"
  /\ rHolder = NoOne
  /\ ready' = Ready
  /\ pending' = pending \ Ready
  /\ pHolder' = NoOne
  /\ loopPc' = "mark"
  /\ UNCHANGED <<running, inFlight, configQueues, rHolder, item, tombstoneVars,
                 spawned, executing, drainVars, others, history>>

\* An id that is in flight already is dropped; the others get a task.
MarkInFlight(p) ==
  /\ loopPc = "mark" /\ p \in ready
  /\ ready' = ready \ {p}
  /\ spawned' = IF p \in inFlight THEN spawned ELSE spawned \cup {p}
  /\ inFlight' = inFlight \cup {p}
  /\ UNCHANGED <<pending, running, configQueues, locks, loopPc, item, tombstoneVars,
                 executing, drainVars, others, history>>

AllMarked ==
  /\ loopPc = "mark" /\ ready = {}
  /\ loopPc' = "join"
  /\ UNCHANGED <<queues, locks, tickData, others, history>>

\* The syncs that a call began under are over for this profile.
NotBusy(c) == [op |-> c.op, id |-> c.id, step |-> c.step, busy |-> FALSE]
NoLongerBusy(p) ==
  call' = [t \in Callers |-> IF call[t].id = p /\ p \notin pending
                             THEN NotBusy(call[t]) ELSE call[t]]

\* A task looks its profile up and syncs it only if it is there and enabled.
LookUpProfile(p) ==
  /\ loopPc = "join" /\ p \in spawned
  /\ spawned' = spawned \ {p}
  /\ owed' = owed \ {p}
  /\ IF local[p] = "synced"
     THEN executing' = executing \cup {p} /\ UNCHANGED <<inFlight, call>>
     ELSE inFlight' = inFlight \ {p} /\ NoLongerBusy(p) /\ UNCHANGED executing
  /\ UNCHANGED <<pending, running, configQueues, locks, loopPc, item, tombstoneVars,
                 ready, drainVars, local, bounds, doomed>>

\* Success, failure and a missing engine all end the task the same way.
FinishSync(p) ==
  /\ p \in executing
  /\ executing' = executing \ {p}
  /\ inFlight' = inFlight \ {p}
  /\ NoLongerBusy(p)
  /\ UNCHANGED <<pending, running, configQueues, locks, loopPc, item, tombstoneVars,
                 ready, spawned, drainVars, local, bounds, history>>

\* A panic ends the task before it takes its id out of in_flight.
PanicSync(p) ==
  /\ p \in executing
  /\ panics < MaxPanics
  /\ panics' = panics + 1
  /\ executing' = executing \ {p}
  /\ UNCHANGED <<queues, locks, loopPc, item, tombstoneVars, ready, spawned,
                 drainVars, local, call, calls, items, history>>

JoinAll ==
  /\ loopPc = "join" /\ spawned = {} /\ executing = {}
  /\ loopPc' = "configs"
  /\ nextKind' = 1
  /\ UNCHANGED <<queues, locks, item, tombstoneVars, syncVars, drained, others,
                 history>>

(***************************************************************************)
(* Last, the config queues, kind after kind.                               *)
(***************************************************************************)
\* Mutant: one kind too many.
DrainConfigsPastLast ==
  /\ loopPc = "configs" /\ nextKind <= NumKinds + 1
  /\ drained' = {c \in pendingConfigs : KindOf[c] = nextKind}
  /\ pendingConfigs' = pendingConfigs \ drained'
  /\ nextKind' = nextKind + 1
  /\ loopPc' = IF drained' = {} THEN "configs" ELSE "engine"
  /\ UNCHANGED <<profileQueues, pendingTombstones, locks, item, tombstoneVars,
                 syncVars, others, history>>

DrainConfigs ==
  /\ loopPc = "configs" /\ nextKind <= NumKinds
  /\ drained' = {c \in pendingConfigs : KindOf[c] = nextKind}
  /\ pendingConfigs' = pendingConfigs \ drained'
  /\ nextKind' = nextKind + 1
  /\ loopPc' = IF drained' = {} THEN "configs" ELSE "engine"
  /\ UNCHANGED <<profileQueues, pendingTombstones, locks, item, tombstoneVars,
                 syncVars, others, history>>

\* sync_<kind>: a local copy may be uploaded, a missing one may come down.
SyncConfig(c) ==
  /\ loopPc = "drain" /\ c \in drained
  /\ drained' = drained \ {c}
  /\ loopPc' = IF drained' = {} THEN "configs" ELSE "drain"
  /\ \/ UNCHANGED local
     \/ local[c] = "absent" /\ local' = [local EXCEPT ![c] = "synced"]
  /\ UNCHANGED <<queues, locks, item, tombstoneVars, syncVars, nextKind, call,
                 bounds, history>>

\* create_from_settings: one engine for everything drained of a kind.
EngineCreated ==
  /\ loopPc = "engine"
  /\ loopPc' = "drain"
  /\ UNCHANGED <<queues, locks, tickData, others, history>>

\* It fails: what was drained is not put back.
EngineUnavailable ==
  /\ loopPc = "engine"
  /\ drained' = {}
  /\ loopPc' = "configs"
  /\ UNCHANGED <<queues, locks, item, tombstoneVars, syncVars, nextKind, others,
                 history>>

EndTick ==
  /\ loopPc = "configs" /\ nextKind > NumKinds
  /\ loopPc' = "idle"
  /\ UNCHANGED <<queues, locks, tickData, others, history>>

CallStep(t) ==
  \/ MarkProfileRunning(t) \/ MarkProfileStopped(t) \/ MarkProfileStoppedPending(t)
  \/ QueueAskRunning(t) \/ QueueProfileSync(t)
  \/ CheckInFlight(t) \/ CheckPending(t)

TaskStep(p) == LookUpProfile(p) \/ FinishSync(p)

\* The loop's own steps, those a tick needs (receiving more work is not one).
TickStep ==
  \/ ReceiveAskRunning \/ ReceiveQueue
  \/ TakeTombstones
  \/ \E e \in Entities : DropPendingConfigSync(e) \/ ApplyTombstone(e)
  \/ TakePendingLock \/ SelectReady \/ AllMarked \/ JoinAll
  \/ \E p \in Profiles : MarkInFlight(p)
  \/ DrainConfigs \/ EngineCreated \/ EngineUnavailable \/ EndTick
  \/ \E c \in Configs : SyncConfig(c)

Receive ==
  \/ \E p \in Profiles : ReceiveProfile(p)
  \/ \E c \in Configs : ReceiveConfig(c)
  \/ \E e \in Entities : QueueTombstone(e)

Next ==
  \/ \E t \in Callers : CallStep(t)
  \/ \E t \in Callers, op \in Ops, p \in Profiles : StartCall(t, op, p)
  \/ \E c \in Configs : QueueConfigSync(c)
  \/ \E e \in Entities, s \in LocalStates : UserChanges(e, s)
  \/ \E p \in Profiles : TaskStep(p) \/ PanicSync(p)
  \/ Receive
  \/ TickStep

Spec == Init /\ [][Next]_vars

(***************************************************************************)
(* Fairness: tokio runs every ready task, its mutexes are granted in the   *)
(* order they were asked for (so a task that keeps asking gets them), the  *)
(* interval keeps its own schedule next to the work channel, and every     *)
(* network call of a sync has a timeout.  Callers need not call.           *)
(***************************************************************************)
Fairness ==
  /\ WF_vars(TickStep)
  /\ SF_vars(TakePendingLock) /\ SF_vars(SelectReady)
  /\ \A p \in Profiles : WF_vars(TaskStep(p))
  /\ \A t \in Callers : SF_vars(CallStep(t))

FairSpec == Spec /\ Fairness
(***************************************************************************)
(* Properties.                                                             *)
(***************************************************************************)
\* The loop holds pending_profiles and waits for running_profiles, while a
\* mark_profile_stopped holds running_profiles and waits for pending_profiles.
LockCycle ==
  /\ loopPc = "wantRunning"
  /\ \E t \in Callers : call[t].op = "stopped" /\ call[t].step = 2

\* A request whose queue_profile_sync returned is not forgotten before a sync
\* task has looked the profile up: it is queued, or in the loop's hands.  It
\* would be if process_pending_profiles took an id that is in flight (a panicked
\* task leaves one), because the duplicate filter after it drops the id.
RequestsHeld == owed \subseteq pending \cup ready \cup spawned

\* "Deletions first": a config whose tombstone this tick took is not among those
\* it syncs afterwards, unless it was queued again after the drop.  Otherwise the
\* drain re-uploads what another device deleted (process_pending).
DoomedNotDrained == doomed \cap drained = {}

\* A panicked task left the id behind: nothing will ever take it out again.
Leaked(p) == p \in inFlight \ (spawned \cup executing)

\* A queued profile that is not running is taken by a later tick of the loop
\* (process_pending_profiles), also when it was queued during its own sync,
\* unless a browser starts for it, a sync of it panicked, or the two mutexes
\* are deadlocked.
ReadyIsTaken ==
  \A p \in Profiles :
    (p \in pending /\ p \notin running)
      ~> (p \notin pending \/ p \in running \/ Leaked(p) \/ LockCycle)

\* What mark_profile_stopped says of a profile with a queued sync ("will execute
\* immediately"): the sync is taken, unless a browser starts again.
StoppedProfileSyncs ==
  \A t \in Callers, p \in Profiles :
    (call[t].op = "stopped" /\ call[t].id = p /\ p \in pending)
      ~> (p \notin pending \/ p \in running)
================================================================================
