------------------------------ MODULE VpnTunnel ------------------------------
(***************************************************************************)
(* The worker processes that carry one VPN (vpn_worker_runner.rs), the     *)
(* launches that share them (VpnLaunchGuard of browser_runner.rs), and     *)
(* those who stop them: a launch that failed, a validity check, the user,  *)
(* and the sweep at the start of the application (lib.rs).                 *)
(*                                                                         *)
(* A worker is detached: it outlives the application, as the browsers do,  *)
(* and is known by its record on disk alone.  The record is written by the *)
(* application (pid, pid_start_time) and by the worker itself (local_url). *)
(* Assumed of the system: a signal that is sent ends the worker; no other  *)
(* process gets the pid of a worker while its record is there; the start   *)
(* time of a process reads the same whenever it is asked for; a record is  *)
(* not read half written (a worker that did would serve without a URL, and *)
(* the wait for it would time out).                                        *)
(***************************************************************************)
EXTENDS Naturals, FiniteSets

CONSTANTS
  Launchers,   \* launches, each of a profile of its own that has the VPN
  Checkers,    \* validity checks of the VPN
  Nobody,      \* nobody holds VPN_START_LOCK
  MaxWorkers,  \* bound: workers spawned
  MaxFaults    \* bound: crashes, time-outs, failed saves and reads of a start time, restarts

ASSUME TunnelAssumption ==
  /\ Nobody \notin Launchers \cup Checkers /\ Launchers \cap Checkers = {}
  /\ MaxWorkers \in Nat /\ MaxFaults \in Nat

Starters == Launchers \cup Checkers
Workers == 1 .. MaxWorkers
NoWorker == 0

VARIABLES
  proc,       \* each worker process
  record,     \* its vpn_worker_*.json: what of pid and local_url it holds, or "none"
  read,       \* the record as the worker read it, before it writes it back
  unpinned,   \* the workers whose record has no pid_start_time although it has a pid
  startLock,  \* VPN_START_LOCK
  claims,     \* VPN_LAUNCH_CLAIMS: the starters that hold one
  task,       \* where each launch or check is
  via,        \* the worker it uses
  created,    \* it spawned that worker
  had,        \* a check that leaves the worker up: had_existing_worker, or connect_vpn
  pidSaved,   \* the profiles whose browser is recorded
  sweep,      \* the sweep of the start
  sweepKeeps, \* running_vpn_ids, as the sweep read it, holds the VPN
  stopping,   \* the workers somebody has read the record of and will delete it
  blind,      \* of these, those whose record had no pid to signal
  faultsLeft, \* what is left of the bound
  severed,    \* history: a failed launch stopped the worker of another launch or browser
  lapses      \* history: what properties leave out

tunnelFiles == <<proc, record, read, unpinned>>
tunnelTasks == <<startLock, claims, task, via, created, had, pidSaved>>
tunnelSweep == <<sweep, sweepKeeps, stopping, blind>>
tunnelVars == <<tunnelFiles, tunnelTasks, tunnelSweep, faultsLeft, severed, lapses>>

Records == {"none", "new", "pid", "url", "both"}
Steps == {"idle", "wanted", "find", "spawn", "savePid", "wait", "launching", "running",
          "probing", "unwind", "inUse", "stop"}

TunnelTypeOK ==
  /\ proc \in [Workers -> {"none", "starting", "writing", "serving", "dead"}]
  /\ record \in [Workers -> Records] /\ read \in [Workers -> Records]
  /\ unpinned \subseteq Workers
  /\ startLock \in Starters \cup {Nobody} /\ claims \subseteq Starters
  /\ task \in [Starters -> Steps]
  /\ \A t \in Checkers : task[t] \in {"idle", "wanted", "find", "spawn", "savePid", "wait", "probing"}
  /\ via \in [Starters -> Workers \cup {NoWorker}]
  /\ \A t \in Starters : task[t] \notin {"idle", "wanted", "find"} => via[t] # NoWorker
  /\ created \in [Starters -> BOOLEAN] /\ had \in [Starters -> BOOLEAN]
  /\ pidSaved \subseteq {t \in Launchers : task[t] = "running"}
  /\ sweep \in {"look", "kill", "done"} /\ sweepKeeps \in BOOLEAN
  /\ stopping \subseteq Workers /\ blind \subseteq stopping
  /\ faultsLeft \in 0 .. MaxFaults
  /\ severed \in BOOLEAN
  /\ lapses \subseteq {"unsaved", "timedOut", "overwritten", "unwritten", "restarted",
                        "forgotten", "unpinned"}

\* A worker may serve from before the update that brought pid_start_time.
TunnelInit ==
  /\ unpinned \in {{}, Workers \cap {1}}
  /\ proc = [w \in Workers |-> IF w \in unpinned THEN "serving" ELSE "none"]
  /\ record = [w \in Workers |-> IF w \in unpinned THEN "both" ELSE "none"]
  /\ read = [w \in Workers |-> "none"]
  /\ startLock = Nobody /\ claims = {}
  /\ task = [t \in Starters |-> "idle"]
  /\ via = [t \in Starters |-> NoWorker]
  /\ created = [t \in Starters |-> FALSE] /\ had = created
  /\ pidSaved = {}
  /\ sweep = "look" /\ sweepKeeps = FALSE /\ stopping = {} /\ blind = {}
  /\ faultsLeft = MaxFaults /\ severed = FALSE /\ lapses = {}

On(t, step) == task[t] = step
GoesTo(t, step) == task' = [task EXCEPT ![t] = step]
\* It is over, and what it knew is gone.
Leaves(t) ==
  /\ GoesTo(t, "idle")
  /\ via' = [via EXCEPT ![t] = NoWorker]
  /\ created' = [created EXCEPT ![t] = FALSE]
  /\ had' = [had EXCEPT ![t] = FALSE]
Fault == faultsLeft > 0 /\ faultsLeft' = faultsLeft - 1
Lapse(name) == lapses' = lapses \cup {name}

Running(w) == proc[w] \in {"starting", "writing", "serving"}
HasPid(w) == record[w] \in {"pid", "both"}
\* vpn_worker_alive: a record without a pid passes for dead, one without a start time not.
Alive(w) == HasPid(w) /\ Running(w)
\* process_identity_matches: only such a process is signalled.
Pinned(w) == Alive(w) /\ w \notin unpinned
\* vpn_worker_accepting_connections: the worker writes its port along with its URL.
Accepting(w) == record[w] \in {"url", "both"} /\ proc[w] = "serving"
Recorded == {w \in Workers : record[w] # "none"}
\* What is left of the records when those of dead workers are deleted.
Kept == [w \in Workers |-> IF Alive(w) THEN record[w] ELSE "none"]
\* The launches and browsers that go through a worker.
UsersOf(w) == {t \in Launchers : via[t] = w /\ task[t] \in {"launching", "running"}}

(***************************************************************************)
(* The worker process.                                                     *)
(***************************************************************************)
\* The handshake is done; it reads its record ...
WorkerReads(w) ==
  /\ proc[w] = "starting"
  /\ proc' = [proc EXCEPT ![w] = "writing"]
  /\ read' = [read EXCEPT ![w] = record[w]]
  /\ UNCHANGED <<record, unpinned, tunnelTasks, tunnelSweep, faultsLeft, severed, lapses>>

\* ... and writes it back with its URL, over what was written in between.
WithUrl(kept) == IF kept \in {"pid", "both"} THEN "both" ELSE "url"
WorkerServes(w) ==
  /\ proc[w] = "writing"
  /\ proc' = [proc EXCEPT ![w] = "serving"]
  /\ record' = IF read[w] = "none" THEN record
               ELSE [record EXCEPT ![w] = WithUrl(read[w])]
  /\ read' = [read EXCEPT ![w] = "none"]
  /\ IF read[w] \notin {"none", record[w]} THEN Lapse("overwritten") ELSE UNCHANGED lapses
  /\ UNCHANGED <<unpinned, tunnelTasks, tunnelSweep, faultsLeft, severed>>

\* A write that fails leaves the record as it was, or cut short: nobody can read it then.
WriteFails(w) ==
  /\ Fault
  /\ \E left \in {record[w], "none"} : record' = [record EXCEPT ![w] = left]
\* It serves all the same.
WorkerUnwritten(w) ==
  /\ proc[w] = "writing" /\ read[w] # "none"
  /\ WriteFails(w)
  /\ proc' = [proc EXCEPT ![w] = "serving"]
  /\ read' = [read EXCEPT ![w] = "none"]
  /\ IF record' # record THEN Lapse("unwritten") ELSE UNCHANGED lapses
  /\ UNCHANGED <<unpinned, tunnelTasks, tunnelSweep, severed>>

WorkerDies(w) ==
  /\ Running(w)
  /\ Fault
  /\ proc' = [proc EXCEPT ![w] = "dead"]
  /\ read' = [read EXCEPT ![w] = "none"]
  /\ UNCHANGED <<record, unpinned, tunnelTasks, tunnelSweep, severed, lapses>>

(***************************************************************************)
(* start_vpn_worker_tracked, under VPN_START_LOCK.                         *)
(***************************************************************************)
\* A launch asks for the VPN, or a check, which first looks whether there is a worker, or
\* the user (connect_vpn), who is a check that stops nothing.
WantTunnel(t) ==
  /\ On(t, "idle")
  /\ GoesTo(t, "wanted")
  /\ \E connect \in BOOLEAN :
       had' = [had EXCEPT ![t] = t \in Checkers /\ (connect \/ Recorded # {})]
  /\ UNCHANGED <<tunnelFiles, startLock, claims, via, created, pidSaved, tunnelSweep,
                 faultsLeft, severed, lapses>>

\* Mutant: starts are not serialised.
LockStartsAnyway(t) ==
  /\ On(t, "wanted")
  /\ startLock' = t
  /\ GoesTo(t, "find")
  /\ UNCHANGED <<tunnelFiles, claims, via, created, had, pidSaved, tunnelSweep, faultsLeft,
                 severed, lapses>>

LockStarts(t) ==
  /\ On(t, "wanted") /\ startLock = Nobody
  /\ startLock' = t
  /\ GoesTo(t, "find")
  /\ UNCHANGED <<tunnelFiles, claims, via, created, had, pidSaved, tunnelSweep, faultsLeft,
                 severed, lapses>>

\* Mutant: a check goes on like a launch.
ObtainAsLaunch(t, w, spawned) ==
  /\ via' = [via EXCEPT ![t] = w]
  /\ created' = [created EXCEPT ![t] = spawned]
  /\ claims' = claims \cup {t}
  /\ GoesTo(t, "launching")
  /\ startLock' = Nobody

\* The worker is there: a launch takes its claim and goes on, a check drops it at once.
Obtain(t, w, spawned) ==
  /\ via' = [via EXCEPT ![t] = w]
  /\ created' = [created EXCEPT ![t] = spawned]
  /\ claims' = IF t \in Launchers THEN claims \cup {t} ELSE claims
  /\ GoesTo(t, IF t \in Launchers THEN "launching" ELSE "probing")
  /\ startLock' = Nobody

\* Records of dead workers are deleted; a live worker is adopted, or waited for if its port
\* does not answer (yet); with none a new record is written.
FindWorker(t) ==
  /\ On(t, "find")
  /\ \/ \E w \in Workers :
          /\ Alive(w)
          /\ record' = Kept
          /\ \/ Accepting(w) /\ Obtain(t, w, FALSE)
             \/ /\ via' = [via EXCEPT ![t] = w] /\ created' = [created EXCEPT ![t] = FALSE]
                /\ GoesTo(t, "wait")
                /\ UNCHANGED <<claims, startLock>>
     \/ /\ \A w \in Workers : ~Alive(w)
        /\ \E w \in Workers :
             /\ proc[w] = "none" /\ \A x \in 1 .. w - 1 : proc[x] # "none"
             /\ record' = [Kept EXCEPT ![w] = "new"]
             /\ via' = [via EXCEPT ![t] = w] /\ created' = [created EXCEPT ![t] = TRUE]
        /\ GoesTo(t, "spawn")
        /\ UNCHANGED <<claims, startLock>>
  /\ UNCHANGED <<proc, read, unpinned, had, pidSaved, tunnelSweep, faultsLeft, severed, lapses>>

\* A start that fails gives the lock back, whatever it has done by then.
StartFails(t) == Leaves(t) /\ startLock' = Nobody /\ UNCHANGED <<claims, pidSaved>>

\* The sidecar is of another version, or, with no worker to adopt, the configuration of the
\* VPN cannot be loaded, or one of the two files cannot be written.
FindFails(t) ==
  /\ On(t, "find")
  /\ record' = record \/ (record' = Kept /\ \A w \in Workers : ~Alive(w))
  /\ StartFails(t)
  /\ UNCHANGED <<proc, read, unpinned, tunnelSweep, faultsLeft, severed, lapses>>

SpawnWorker(t) ==
  /\ On(t, "spawn")
  /\ proc' = [proc EXCEPT ![via[t]] = "starting"]
  /\ GoesTo(t, "savePid")
  /\ UNCHANGED <<record, read, unpinned, startLock, claims, via, created, had, pidSaved,
                 tunnelSweep, faultsLeft, severed, lapses>>

\* Its record stays, and its process never comes to be.
SpawnFails(t) ==
  /\ On(t, "spawn")
  /\ proc' = [proc EXCEPT ![via[t]] = "dead"]
  /\ StartFails(t)
  /\ UNCHANGED <<record, read, unpinned, tunnelSweep, faultsLeft, severed, lapses>>

\* The record is written anew, with the pid, with the start time of the process if it could
\* be read (resolve_process_start_time), and without a URL.
SavePid(t) ==
  /\ On(t, "savePid")
  /\ record' = [record EXCEPT ![via[t]] = "pid"]
  /\ \/ UNCHANGED <<unpinned, faultsLeft>>
     \/ Fault /\ unpinned' = unpinned \cup {via[t]}
  /\ IF record[via[t]] = "url" THEN Lapse("overwritten") ELSE UNCHANGED lapses
  /\ GoesTo(t, "wait")
  /\ UNCHANGED <<proc, read, startLock, claims, via, created, had, pidSaved, tunnelSweep,
                 severed>>

\* The worker is left to itself, with a record that has no pid.
SavePidFails(t) ==
  /\ On(t, "savePid")
  /\ WriteFails(via[t])
  /\ StartFails(t)
  /\ IF Running(via[t]) THEN Lapse("unwritten") ELSE UNCHANGED lapses
  /\ UNCHANGED <<proc, read, unpinned, tunnelSweep, severed>>

WaitReady(t) ==
  /\ On(t, "wait") /\ Accepting(via[t])
  /\ Obtain(t, via[t], created[t])
  /\ UNCHANGED <<tunnelFiles, had, pidSaved, tunnelSweep, faultsLeft, severed, lapses>>

\* The record is deleted, and its process left to itself.
GiveUp(t) ==
  /\ record' = [record EXCEPT ![via[t]] = "none"]
  /\ StartFails(t)
  /\ UNCHANGED <<proc, read, unpinned, tunnelSweep, severed>>

\* The record is there and its process is not, or does not look so.
WaitCrashed(t) ==
  /\ On(t, "wait") /\ record[via[t]] # "none" /\ ~Alive(via[t])
  /\ GiveUp(t)
  /\ UNCHANGED <<faultsLeft, lapses>>

\* Its port did not answer in time, and perhaps never would.
WaitTimesOut(t) ==
  /\ On(t, "wait")
  /\ \/ Fault
     \/ /\ ~Accepting(via[t]) /\ proc[via[t]] \notin {"starting", "writing"}
        /\ UNCHANGED faultsLeft
  /\ GiveUp(t)
  /\ IF Running(via[t]) THEN Lapse("timedOut") ELSE UNCHANGED lapses

(***************************************************************************)
(* The launch, and its guard.                                              *)
(***************************************************************************)
\* The browser is up and recorded; the guard is disarmed, and its claim dropped.
LaunchSucceeds(t) ==
  /\ On(t, "launching") /\ t \in Launchers
  /\ claims' = claims \ {t}
  /\ pidSaved' = pidSaved \cup {t}
  /\ created' = [created EXCEPT ![t] = FALSE]
  /\ GoesTo(t, "running")
  /\ UNCHANGED <<tunnelFiles, startLock, via, had, tunnelSweep, faultsLeft, severed, lapses>>

\* The browser is up and its record could not be saved.
LaunchUnsaved(t) ==
  /\ On(t, "launching") /\ t \in Launchers
  /\ Fault
  /\ claims' = claims \ {t}
  /\ created' = [created EXCEPT ![t] = FALSE]
  /\ GoesTo(t, "running")
  /\ Lapse("unsaved")
  /\ UNCHANGED <<tunnelFiles, startLock, via, had, pidSaved, tunnelSweep, severed>>

\* The launch fails or is cancelled: the claim is dropped, and a worker of its own is to
\* be stopped by a task spawned for it.
LaunchFailed(t) ==
  /\ On(t, "launching") /\ t \in Launchers
  /\ claims' = claims \ {t}
  /\ IF created[t] THEN GoesTo(t, "unwind") /\ UNCHANGED <<via, created, had>> ELSE Leaves(t)
  /\ UNCHANGED <<tunnelFiles, startLock, pidSaved, tunnelSweep, faultsLeft, severed, lapses>>

UnwindLocks(t) ==
  /\ On(t, "unwind") /\ startLock = Nobody
  /\ startLock' = t
  /\ GoesTo(t, "inUse")
  /\ UNCHANGED <<tunnelFiles, claims, via, created, had, pidSaved, tunnelSweep, faultsLeft,
                 severed, lapses>>

\* Mutant: launches under way are not asked for.
InUseWithoutClaims == pidSaved # {}

\* vpn_id_in_use_by_running_browser.
InUse == claims # {} \/ pidSaved # {}
UnwindLooks(t) ==
  /\ On(t, "inUse")
  /\ IF InUse THEN Leaves(t) /\ startLock' = Nobody
              ELSE GoesTo(t, "stop") /\ UNCHANGED <<startLock, via, created, had>>
  /\ UNCHANGED <<tunnelFiles, claims, pidSaved, tunnelSweep, faultsLeft, severed, lapses>>

BrowserQuits(t) ==
  /\ On(t, "running")
  /\ pidSaved' = pidSaved \ {t}
  /\ Leaves(t)
  /\ UNCHANGED <<tunnelFiles, startLock, claims, tunnelSweep, faultsLeft, severed, lapses>>

(***************************************************************************)
(* stop_vpn_worker: the process is signalled if its pid can be pinned, the *)
(* record is deleted after it in any case.  Only the guard of a launch     *)
(* holds VPN_START_LOCK for it.                                            *)
(***************************************************************************)
\* Mutant: the process is not signalled.
SignalNobody(ws) == UNCHANGED <<proc, read>>

Signal(ws) ==
  /\ proc' = [w \in Workers |-> IF w \in ws /\ Pinned(w) THEN "dead" ELSE proc[w]]
  /\ read' = [w \in Workers |-> IF w \in ws /\ Pinned(w) THEN "none" ELSE read[w]]

\* The records that are there are read, and what they name is signalled.
BeginStop(ws) ==
  /\ Signal(ws)
  /\ stopping' = stopping \cup (ws \cap Recorded)
  /\ blind' = blind \cup {w \in ws \cap Recorded : ~HasPid(w)}

\* A worker whose pid cannot be pinned lingers.
UnwindStops(t) ==
  /\ On(t, "stop") /\ t \in Launchers
  /\ Signal({via[t]})
  /\ severed' = (severed \/ (Pinned(via[t]) /\ UsersOf(via[t]) # {}))
  /\ record' = [record EXCEPT ![via[t]] = "none"]
  /\ IF Alive(via[t]) /\ via[t] \in unpinned THEN Lapse("unpinned") ELSE UNCHANGED lapses
  /\ StartFails(t)
  /\ UNCHANGED <<unpinned, tunnelSweep, faultsLeft>>

\* The check is over: it stops the worker unless one was there before it began.
CheckEnds(t) ==
  /\ On(t, "probing")
  /\ BeginStop(IF had[t] THEN {} ELSE {via[t]})
  /\ Leaves(t)
  /\ UNCHANGED <<record, unpinned, startLock, claims, pidSaved, sweep, sweepKeeps, faultsLeft,
                 severed, lapses>>

\* disconnect_vpn, delete_vpn_config, or an update of the application.
UserStops(w) ==
  /\ record[w] # "none" /\ w \notin stopping
  /\ BeginStop({w})
  /\ UNCHANGED <<record, unpinned, tunnelTasks, sweep, sweepKeeps, faultsLeft, severed, lapses>>

DeleteRecord(w) ==
  /\ w \in stopping
  /\ stopping' = stopping \ {w} /\ blind' = blind \ {w}
  /\ record' = [record EXCEPT ![w] = "none"]
  /\ IF Alive(w) /\ w \in unpinned THEN Lapse("unpinned")
     ELSE IF Alive(w) /\ w \in blind THEN Lapse("forgotten") ELSE UNCHANGED lapses
  /\ UNCHANGED <<proc, read, unpinned, tunnelTasks, sweep, sweepKeeps, faultsLeft, severed>>

\* The cleanup of dead proxies (proxy_manager.rs) deletes the record of a dead worker too.
ReapRecord(w) ==
  /\ HasPid(w) /\ ~Running(w)
  /\ record' = [record EXCEPT ![w] = "none"]
  /\ UNCHANGED <<proc, read, unpinned, tunnelTasks, tunnelSweep, faultsLeft, severed, lapses>>

(***************************************************************************)
(* The application starts again.                                           *)
(***************************************************************************)
Restart ==
  /\ Fault
  /\ startLock' = Nobody /\ claims' = {} /\ stopping' = {} /\ blind' = {}
  /\ task' = [t \in Starters |-> IF t \in pidSaved THEN "running" ELSE "idle"]
  /\ via' = [t \in Starters |-> IF t \in pidSaved THEN via[t] ELSE NoWorker]
  /\ created' = [t \in Starters |-> FALSE] /\ had' = created'
  /\ sweep' = "look" /\ sweepKeeps' = FALSE
  /\ Lapse("restarted")
  /\ UNCHANGED <<tunnelFiles, pidSaved, severed>>

\* The sweep reads which browsers run ...
SweepLooks ==
  /\ sweep = "look"
  /\ sweep' = "kill"
  /\ sweepKeeps' = (pidSaved # {})
  /\ UNCHANGED <<tunnelFiles, tunnelTasks, stopping, blind, faultsLeft, severed, lapses>>

\* ... and, after the proxy workers, lists the records and stops every worker of a VPN not
\* among them; the record of one that passes for dead is only deleted.
SweepKills ==
  /\ sweep = "kill"
  /\ sweep' = "done"
  /\ BeginStop(IF sweepKeeps THEN {} ELSE Workers)
  /\ UNCHANGED <<record, unpinned, tunnelTasks, sweepKeeps, faultsLeft, severed, lapses>>

TunnelNext ==
  \/ \E w \in Workers :
       \/ WorkerReads(w) \/ WorkerServes(w) \/ WorkerUnwritten(w) \/ WorkerDies(w)
       \/ UserStops(w) \/ DeleteRecord(w) \/ ReapRecord(w)
  \/ \E t \in Starters :
       \/ WantTunnel(t) \/ LockStarts(t) \/ FindWorker(t) \/ FindFails(t)
       \/ SpawnWorker(t) \/ SpawnFails(t) \/ SavePid(t) \/ SavePidFails(t)
       \/ WaitReady(t) \/ WaitCrashed(t) \/ WaitTimesOut(t)
       \/ LaunchSucceeds(t) \/ LaunchUnsaved(t) \/ LaunchFailed(t)
       \/ UnwindLocks(t) \/ UnwindLooks(t) \/ UnwindStops(t)
       \/ BrowserQuits(t) \/ CheckEnds(t)
  \/ Restart \/ SweepLooks \/ SweepKills

TunnelSpec == TunnelInit /\ [][TunnelNext]_tunnelVars

(***************************************************************************)
(* Properties.                                                             *)
(***************************************************************************)
\* A launch that fails never stops the worker of another launch or of a running browser
\* (VPN_START_LOCK, VPN_LAUNCH_CLAIMS), unless the record of that browser was not saved.
FailedLaunchSparesOthers == severed => "unsaved" \in lapses

\* The ways in which the application loses track of a worker that runs: it gave up waiting
\* for it; the two wrote the record over each other; one of them failed to write it; it
\* restarted meanwhile; a stop that takes no VPN_START_LOCK saw no pid in the record and
\* deleted the one with it; a stop could not pin the pid, and deleted the record all the same.
LosesTrack == {"timedOut", "overwritten", "unwritten", "restarted", "forgotten", "unpinned"}

\* In no other way: a worker process that runs is recorded with its pid, or about to be.
WorkersAreKnown ==
  lapses \cap LosesTrack = {} =>
    \A w \in Workers : Running(w) =>
      Alive(w) \/ \E t \in Starters : via[t] = w /\ On(t, "savePid")

\* At most one worker carries the VPN: starts are serialised, and a live worker is adopted
\* rather than another one spawned beside it.
OneTunnel ==
  lapses \cap LosesTrack = {} =>
    Cardinality({w \in Workers : Running(w)}) <= 1

===============================================================================
