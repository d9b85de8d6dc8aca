---------------------------- MODULE VpnTunnelProofs ----------------------------
(***************************************************************************)
(* What holds of the workers of a VPN for any number of launches, checks,  *)
(* workers and faults.                                                     *)
(***************************************************************************)
EXTENDS VpnTunnel, FiniteSetTheorems, TLAPS

USE TunnelAssumption

USE DEF tunnelFiles, tunnelTasks, tunnelSweep

(***************************************************************************)
(* Types.                                                                  *)
(***************************************************************************)
FilesOK ==
  /\ proc \in [Workers -> {"none", "starting", "writing", "serving", "dead"}]
  /\ record \in [Workers -> Records] /\ read \in [Workers -> Records]
  /\ unpinned \subseteq Workers
  /\ stopping \subseteq Workers /\ blind \subseteq stopping
CheckSteps == {"idle", "wanted", "find", "spawn", "savePid", "wait", "probing"}
TasksOK ==
  /\ startLock \in Starters \cup {Nobody} /\ claims \subseteq Starters
  /\ task \in [Starters -> Steps]
  /\ \A t \in Checkers : task[t] \in CheckSteps
  /\ via \in [Starters -> Workers \cup {NoWorker}]
  /\ \A t \in Starters : task[t] \notin {"idle", "wanted", "find"} => via[t] # NoWorker
  /\ created \in [Starters -> BOOLEAN] /\ had \in [Starters -> BOOLEAN]
  /\ pidSaved \subseteq {t \in Launchers : task[t] = "running"}
OthersOK ==
  /\ sweep \in {"look", "kill", "done"} /\ sweepKeeps \in BOOLEAN
  /\ faultsLeft \in 0 .. MaxFaults
  /\ severed \in BOOLEAN
  /\ lapses \subseteq {"unsaved", "timedOut", "overwritten", "unwritten", "restarted",
                        "forgotten", "unpinned"}

LEMMA TypeParts == TunnelTypeOK <=> FilesOK /\ TasksOK /\ OthersOK
BY DEF TunnelTypeOK, FilesOK, TasksOK, CheckSteps, OthersOK

\* A write that fails leaves a record as it was or no record.
LEMMA FailedWrite ==
  ASSUME FilesOK, NEW w \in Workers, WriteFails(w)
  PROVE  /\ record' \in [Workers -> Records]
         /\ \A v \in Workers : v # w => record'[v] = record[v]
BY DEF FilesOK, Records, WriteFails

\* A stop kills pinned workers, and lists what has a record.
LEMMA StopEffect ==
  ASSUME FilesOK, NEW ws \in SUBSET Workers, BeginStop(ws)
  PROVE  /\ proc' \in [Workers -> {"none", "starting", "writing", "serving", "dead"}]
         /\ read' \in [Workers -> Records]
         /\ stopping' \subseteq Workers /\ blind' \subseteq stopping'
         /\ \A w \in Workers : proc'[w] = "dead" \/ proc'[w] = proc[w]
         /\ \A w \in Workers : w \in ws /\ Pinned(w) => proc'[w] = "dead"
         /\ stopping' = stopping \cup (ws \cap Recorded)
         /\ blind' = blind \cup {w \in ws \cap Recorded : ~HasPid(w)}
<1>1. Recorded \subseteq Workers BY DEF Recorded
<1> QED BY <1>1 DEF FilesOK, BeginStop, Signal, Records

LEMMA FilesStep ==
  ASSUME FilesOK, TasksOK, [TunnelNext]_tunnelVars
  PROVE  FilesOK'
<1>1. /\ proc \in [Workers -> {"none", "starting", "writing", "serving", "dead"}]
      /\ record \in [Workers -> Records] /\ read \in [Workers -> Records]
      /\ unpinned \subseteq Workers /\ stopping \subseteq Workers /\ blind \subseteq stopping
      /\ {"none", "new", "pid", "url", "both"} = Records
  BY DEF FilesOK, Records
<1>a. \A t \in Starters : task[t] \notin {"idle", "wanted", "find"} => via[t] \in Workers
  BY DEF TasksOK
<1>2. ASSUME NEW w \in Workers, WorkerReads(w) \/ WorkerDies(w) \/ WorkerServes(w) PROVE FilesOK'
  BY <1>1, <1>2 DEF WorkerReads, WorkerDies, WorkerServes, WithUrl, FilesOK
<1>3. ASSUME NEW w \in Workers, WorkerUnwritten(w) PROVE FilesOK'
  <2>1. record' \in [Workers -> Records] BY <1>3, FailedWrite DEF WorkerUnwritten
  <2> QED BY <1>1, <1>3, <2>1 DEF WorkerUnwritten, FilesOK
<1>4. ASSUME NEW w \in Workers, UserStops(w) PROVE FilesOK'
  <2>1. {w} \in SUBSET Workers OBVIOUS
  <2> QED BY <1>1, <1>4, <2>1, StopEffect DEF UserStops, FilesOK
<1>5. ASSUME NEW w \in Workers, DeleteRecord(w) \/ ReapRecord(w) PROVE FilesOK'
  BY <1>1, <1>5 DEF DeleteRecord, ReapRecord, FilesOK
<1>6. ASSUME NEW t \in Starters, FindWorker(t) \/ FindFails(t) PROVE FilesOK'
  <2>1. UNCHANGED <<proc, read, unpinned, stopping, blind>>
    BY <1>6 DEF FindWorker, FindFails
  <2>2. Kept \in [Workers -> Records] BY <1>1 DEF Kept
  <2>3. \/ record' = record \/ record' = Kept
        \/ \E w \in Workers : record' = [Kept EXCEPT ![w] = "new"]
    BY <1>6 DEF FindWorker, FindFails
  <2>4. record' \in [Workers -> Records] BY <1>1, <2>2, <2>3
  <2> QED BY <1>1, <2>1, <2>4 DEF FilesOK
<1>7. ASSUME NEW t \in Starters, SpawnWorker(t) \/ SpawnFails(t) \/ SavePid(t) PROVE FilesOK'
  <2>1. via[t] \in Workers BY <1>a, <1>7 DEF SpawnWorker, SpawnFails, SavePid, On
  <2> QED BY <1>1, <1>7, <2>1 DEF SpawnWorker, SpawnFails, SavePid, FilesOK
<1>8. ASSUME NEW t \in Starters, SavePidFails(t) PROVE FilesOK'
  <2>1. via[t] \in Workers BY <1>a, <1>8 DEF SavePidFails, On
  <2>2. record' \in [Workers -> Records] BY <1>8, <2>1, FailedWrite DEF SavePidFails
  <2> QED BY <1>1, <1>8, <2>2 DEF SavePidFails, FilesOK
<1>9. ASSUME NEW t \in Starters, WaitCrashed(t) \/ WaitTimesOut(t) PROVE FilesOK'
  BY <1>1, <1>9 DEF WaitCrashed, WaitTimesOut, GiveUp, FilesOK
<1>10. ASSUME NEW t \in Starters, UnwindStops(t) PROVE FilesOK'
  BY <1>1, <1>10 DEF UnwindStops, Signal, FilesOK
<1>11. ASSUME NEW t \in Starters, CheckEnds(t) PROVE FilesOK'
  <2>1. via[t] \in Workers BY <1>a, <1>11 DEF CheckEnds, On
  <2>2. PICK ws \in SUBSET Workers : BeginStop(ws) BY <1>11, <2>1 DEF CheckEnds
  <2> QED BY <1>1, <1>11, <2>2, StopEffect DEF CheckEnds, FilesOK
<1>12. CASE SweepKills
  <2>1. PICK ws \in SUBSET Workers : BeginStop(ws) BY <1>12 DEF SweepKills
  <2> QED BY <1>1, <1>12, <2>1, StopEffect DEF SweepKills, FilesOK
<1>13. CASE Restart BY <1>1, <1>13 DEF Restart, FilesOK
<1>14. CASE UNCHANGED <<tunnelFiles, stopping, blind>> BY <1>14 DEF FilesOK
<1> QED
  BY <1>2, <1>3, <1>4, <1>5, <1>6, <1>7, <1>8, <1>9, <1>10, <1>11, <1>12, <1>13, <1>14
     DEF TunnelNext, tunnelVars, WantTunnel, LockStarts, WaitReady, LaunchSucceeds,
     LaunchUnsaved, LaunchFailed, UnwindLocks, UnwindLooks, BrowserQuits, SweepLooks

\* One starter goes to a step it may be at.
LEMMA OneGoes ==
  ASSUME TasksOK, NEW t \in Starters, NEW step \in Steps, GoesTo(t, step),
         t \in Checkers => step \in CheckSteps,
         via' \in [Starters -> Workers \cup {NoWorker}],
         \A u \in Starters \ {t} : via'[u] = via[u],
         step \notin {"idle", "wanted", "find"} => via'[t] # NoWorker,
         startLock' \in Starters \cup {Nobody}, claims' \subseteq Starters,
         created' \in [Starters -> BOOLEAN], had' \in [Starters -> BOOLEAN],
         pidSaved' \subseteq pidSaved \cup {t},
         t \in pidSaved' => t \in Launchers /\ step = "running"
  PROVE  TasksOK'
<1>1. task' \in [Starters -> Steps] /\ task'[t] = step /\ \A u \in Starters \ {t} : task'[u] = task[u]
  BY DEF TasksOK, GoesTo
<1>2. \A u \in Checkers : task'[u] \in CheckSteps
  BY <1>1 DEF TasksOK, Starters
<1>3. \A u \in Starters : task'[u] \notin {"idle", "wanted", "find"} => via'[u] # NoWorker
  BY <1>1 DEF TasksOK
<1>4. pidSaved' \subseteq {u \in Launchers : task'[u] = "running"}
  BY <1>1 DEF TasksOK, Starters
<1> QED BY <1>1, <1>2, <1>3, <1>4 DEF TasksOK

LEMMA TasksStep ==
  ASSUME TasksOK, [TunnelNext]_tunnelVars
  PROVE  TasksOK'
<1> USE DEF On
<1>0. /\ startLock \in Starters \cup {Nobody} /\ claims \subseteq Starters
      /\ task \in [Starters -> Steps]
      /\ via \in [Starters -> Workers \cup {NoWorker}]
      /\ created \in [Starters -> BOOLEAN] /\ had \in [Starters -> BOOLEAN]
      /\ pidSaved \subseteq Launchers /\ \A t \in pidSaved : task[t] = "running"
      /\ NoWorker \notin Workers
      /\ CheckSteps \subseteq Steps
      /\ {"launching", "running", "unwind", "inUse", "stop"} \subseteq Steps
      /\ {"idle", "wanted", "find", "spawn", "savePid", "wait", "probing"} = CheckSteps
  BY DEF TasksOK, Workers, NoWorker, CheckSteps, Steps
<1>1. \A t \in Starters : /\ t \in Launchers \/ t \in Checkers
                          /\ t \in Checkers => t \notin Launchers /\ task[t] \in CheckSteps
                          /\ task[t] \notin {"idle", "wanted", "find"} => via[t] \in Workers
  BY DEF Starters, TasksOK
<1>2. ASSUME NEW t \in Starters, NEW step \in Steps, GoesTo(t, step), UNCHANGED <<via, created, had>>,
             t \in Checkers => step \in CheckSteps,
             step \notin {"idle", "wanted", "find"} => task[t] \notin {"idle", "wanted", "find"},
             startLock' \in Starters \cup {Nobody}, claims' \subseteq Starters,
             UNCHANGED pidSaved, task[t] # "running"
      PROVE  TasksOK'
  <2>1. t \notin pidSaved BY <1>0, <1>2
  <2>2. pidSaved' \subseteq pidSaved \cup {t} /\ t \notin pidSaved' BY <1>2, <2>1
  <2>3. step \notin {"idle", "wanted", "find"} => via'[t] # NoWorker BY <1>0, <1>1, <1>2
  <2> QED BY <1>0, <1>2, <2>2, <2>3, OneGoes
<1>3. ASSUME NEW t \in Starters, WantTunnel(t) PROVE TasksOK'
  <2>1. t \notin pidSaved BY <1>0, <1>3 DEF WantTunnel
  <2>2. /\ GoesTo(t, "wanted") /\ "wanted" \in CheckSteps
        /\ UNCHANGED <<startLock, claims, via, created, pidSaved>>
        /\ had' \in [Starters -> BOOLEAN]
    BY <1>0, <1>3 DEF WantTunnel, CheckSteps
  <2>3. pidSaved' \subseteq pidSaved \cup {t} /\ t \notin pidSaved' BY <2>1, <2>2
  <2> QED BY <1>0, <2>2, <2>3, OneGoes
<1>4. ASSUME NEW t \in Starters, Leaves(t), pidSaved' \subseteq pidSaved \ {t}, claims' \subseteq claims,
             startLock' \in {startLock, Nobody}
      PROVE  TasksOK'
  <2>1. "idle" \in CheckSteps BY DEF CheckSteps
  <2>2. GoesTo(t, "idle") BY <1>4 DEF Leaves
  <2>3. /\ via' \in [Starters -> Workers \cup {NoWorker}]
        /\ \A u \in Starters \ {t} : via'[u] = via[u]
        /\ created' \in [Starters -> BOOLEAN] /\ had' \in [Starters -> BOOLEAN]
    BY <1>0, <1>4 DEF Leaves
  <2>4. pidSaved' \subseteq pidSaved \cup {t} /\ t \notin pidSaved' BY <1>4
  <2>5. startLock' \in Starters \cup {Nobody} /\ claims' \subseteq Starters BY <1>0, <1>4
  <2> QED BY <1>0, <2>1, <2>2, <2>3, <2>4, <2>5, OneGoes
<1>5. ASSUME NEW t \in Starters, NEW w \in Workers, NEW spawned \in BOOLEAN,
             Obtain(t, w, spawned), UNCHANGED <<had, pidSaved>>, task[t] # "running"
      PROVE  TasksOK'
  <2> DEFINE step == IF t \in Launchers THEN "launching" ELSE "probing"
  <2>1. step \in Steps /\ (t \in Checkers => step \in CheckSteps)
    BY <1>0, <1>1
  <2>2. GoesTo(t, step) /\ claims' \subseteq Starters /\ startLock' = Nobody
    BY <1>0, <1>5 DEF Obtain
  <2>3. via' = [via EXCEPT ![t] = w] /\ created' = [created EXCEPT ![t] = spawned]
    BY <1>5 DEF Obtain
  <2> HIDE DEF step
  <2>4. pidSaved' \subseteq pidSaved \cup {t} /\ t \notin pidSaved' BY <1>0, <1>5
  <2>5. w # NoWorker BY <1>0
  <2> QED BY <1>0, <1>5, <2>1, <2>2, <2>3, <2>4, <2>5, OneGoes
<1>6. ASSUME NEW t \in Starters, FindWorker(t) PROVE TasksOK'
  <2>1. UNCHANGED <<had, pidSaved>> /\ task[t] # "running" BY <1>6 DEF FindWorker
  <2>2. CASE \E w \in Workers : Obtain(t, w, FALSE)
    BY <1>5, <2>1, <2>2
  <2>3. CASE \E w \in Workers, spawned \in BOOLEAN, step \in {"wait", "spawn"} :
               /\ via' = [via EXCEPT ![t] = w] /\ created' = [created EXCEPT ![t] = spawned]
               /\ GoesTo(t, step) /\ UNCHANGED <<claims, startLock>>
    <3>1. PICK w \in Workers, spawned \in BOOLEAN, step \in {"wait", "spawn"} :
               /\ via' = [via EXCEPT ![t] = w] /\ created' = [created EXCEPT ![t] = spawned]
               /\ GoesTo(t, step) /\ UNCHANGED <<claims, startLock>>
      BY <2>3
    <3>2. step \in CheckSteps BY <1>0
    <3>3. pidSaved' \subseteq pidSaved \cup {t} /\ t \notin pidSaved' BY <1>0, <2>1
    <3>4. w # NoWorker BY <1>0
    <3> QED BY <1>0, <2>1, <3>1, <3>2, <3>3, <3>4, OneGoes
  <2>4. \/ \E w \in Workers : Obtain(t, w, FALSE)
        \/ \E w \in Workers, spawned \in BOOLEAN, step \in {"wait", "spawn"} :
               /\ via' = [via EXCEPT ![t] = w] /\ created' = [created EXCEPT ![t] = spawned]
               /\ GoesTo(t, step) /\ UNCHANGED <<claims, startLock>>
    <3>1. CASE \E w \in Workers :
                 \/ Obtain(t, w, FALSE)
                 \/ /\ via' = [via EXCEPT ![t] = w] /\ created' = [created EXCEPT ![t] = FALSE]
                    /\ GoesTo(t, "wait")
                    /\ UNCHANGED <<claims, startLock>>
      BY <3>1
    <3>2. CASE /\ \E w \in Workers :
                    via' = [via EXCEPT ![t] = w] /\ created' = [created EXCEPT ![t] = TRUE]
               /\ GoesTo(t, "spawn")
               /\ UNCHANGED <<claims, startLock>>
      BY <3>2
    <3> QED BY <1>6, <3>1, <3>2 DEF FindWorker
  <2> QED BY <2>2, <2>3, <2>4
<1>7. ASSUME NEW t \in Starters,
             LockStarts(t) \/ UnwindLocks(t) \/ SpawnWorker(t) \/ SavePid(t)
      PROVE  TasksOK'
  <2>1. CASE LockStarts(t) BY <1>0, <1>2, <2>1 DEF LockStarts
  <2>2. CASE UnwindLocks(t)
    <3>1. t \notin Checkers BY <1>1, <2>2 DEF UnwindLocks, CheckSteps
    <3> QED BY <1>0, <1>2, <2>2, <3>1 DEF UnwindLocks
  <2>3. CASE SpawnWorker(t) BY <1>0, <1>2, <2>3 DEF SpawnWorker
  <2>4. CASE SavePid(t) BY <1>0, <1>2, <2>4 DEF SavePid
  <2> QED BY <1>7, <2>1, <2>2, <2>3, <2>4
<1>8. ASSUME NEW t \in Starters, WaitReady(t) PROVE TasksOK'
  <2>1. via[t] \in Workers /\ created[t] \in BOOLEAN BY <1>0, <1>1, <1>8 DEF WaitReady
  <2> QED BY <1>5, <1>8, <2>1 DEF WaitReady
<1>9. ASSUME NEW t \in Starters, LaunchSucceeds(t) \/ LaunchUnsaved(t) PROVE TasksOK'
  <2>1. /\ GoesTo(t, "running") /\ t \notin Checkers /\ task[t] = "launching"
        /\ UNCHANGED <<via, had, startLock>> /\ created' = [created EXCEPT ![t] = FALSE]
        /\ claims' \subseteq claims /\ pidSaved' \subseteq pidSaved \cup {t} /\ t \notin pidSaved
    BY <1>0, <1>1, <1>9 DEF LaunchSucceeds, LaunchUnsaved
  <2>2. created' \in [Starters -> BOOLEAN] /\ claims' \subseteq Starters
    BY <1>0, <2>1
  <2>3. via[t] # NoWorker BY <1>0, <1>1, <2>1
  <2>4. pidSaved' \subseteq pidSaved \cup {t} /\ t \in Launchers
    BY <1>1, <2>1
  <2> QED BY <1>0, <2>1, <2>2, <2>3, <2>4, OneGoes
<1>10. ASSUME NEW t \in Starters, LaunchFailed(t) PROVE TasksOK'
  <2>1. CASE Leaves(t) BY <1>0, <1>4, <1>10, <2>1 DEF LaunchFailed
  <2>2. CASE GoesTo(t, "unwind") /\ UNCHANGED <<via, created, had>>
    <3>1. /\ t \notin Checkers /\ task[t] = "launching" /\ claims' \subseteq claims
          /\ UNCHANGED <<startLock, pidSaved>>
      BY <1>1, <1>10 DEF LaunchFailed
    <3>2. claims' \subseteq Starters BY <1>0, <3>1
    <3> QED BY <1>0, <1>2, <2>2, <3>1, <3>2
  <2> QED BY <1>10, <2>1, <2>2 DEF LaunchFailed
<1>11. ASSUME NEW t \in Starters, UnwindLooks(t) PROVE TasksOK'
  <2>1. CASE Leaves(t) BY <1>0, <1>4, <1>11, <2>1 DEF UnwindLooks
  <2>2. CASE GoesTo(t, "stop") /\ UNCHANGED <<startLock, via, created, had>>
    <3>1. t \notin Checkers BY <1>1, <1>11 DEF UnwindLooks, CheckSteps
    <3> QED BY <1>0, <1>2, <1>11, <2>2, <3>1 DEF UnwindLooks
  <2> QED BY <1>11, <2>1, <2>2 DEF UnwindLooks
<1>12. ASSUME NEW t \in Starters, BrowserQuits(t) PROVE TasksOK'
  BY <1>4, <1>12 DEF BrowserQuits
<1>13. CASE Restart
  <2>1. task' = [t \in Starters |-> IF t \in pidSaved THEN "running" ELSE "idle"]
    BY <1>13 DEF Restart
  <2>2. \A t \in Checkers : task'[t] \in CheckSteps
    BY <1>0, <2>1 DEF Starters, CheckSteps
  <2>3. \A t \in Starters : t \in pidSaved => via'[t] = via[t]
    BY <1>13 DEF Restart
  <2>4. /\ startLock' = Nobody /\ claims' = {} /\ pidSaved' = pidSaved
        /\ via' = [t \in Starters |-> IF t \in pidSaved THEN via[t] ELSE NoWorker]
        /\ created' = [t \in Starters |-> FALSE] /\ had' = created'
    BY <1>13 DEF Restart
  <2>5. pidSaved \subseteq Starters BY <1>0 DEF Starters
  <2>6. task' \in [Starters -> Steps] BY <1>0, <2>1
  <2>7. via' \in [Starters -> Workers \cup {NoWorker}] BY <1>0, <2>4
  <2>8. \A t \in Starters : task'[t] \notin {"idle", "wanted", "find"} => via'[t] # NoWorker
    BY <1>0, <1>1, <2>1, <2>3
  <2>9. pidSaved' \subseteq {t \in Launchers : task'[t] = "running"}
    BY <1>0, <2>1, <2>4, <2>5
  <2>10. created' \in [Starters -> BOOLEAN] /\ had' \in [Starters -> BOOLEAN]
    BY <2>4
  <2>11. startLock' \in Starters \cup {Nobody} /\ claims' \subseteq Starters BY <2>4
  <2> QED BY <2>2, <2>6, <2>7, <2>8, <2>9, <2>10, <2>11 DEF TasksOK
<1>14. CASE UNCHANGED tunnelTasks BY <1>14 DEF TasksOK
<1> QED
  <2>1. ASSUME NEW t \in Starters, StartFails(t), task[t] # "running" PROVE TasksOK'
    <3>1. pidSaved' \subseteq pidSaved \ {t} BY <1>0, <2>1 DEF StartFails
    <3> QED BY <1>0, <1>4, <2>1, <3>1 DEF StartFails
  <2>2. ASSUME NEW t \in Starters,
               \/ FindFails(t) \/ SpawnFails(t) \/ SavePidFails(t)
               \/ WaitCrashed(t) \/ WaitTimesOut(t) \/ UnwindStops(t)
        PROVE  TasksOK'
    BY <2>1, <2>2 DEF FindFails, SpawnFails, SavePidFails, WaitCrashed, WaitTimesOut, GiveUp,
       UnwindStops
  <2>3. ASSUME NEW t \in Starters, CheckEnds(t) PROVE TasksOK'
    BY <1>0, <1>4, <2>3 DEF CheckEnds
  <2> QED
    BY <1>3, <1>6, <1>7, <1>8, <1>9, <1>10, <1>11, <1>12, <1>13, <1>14, <2>2, <2>3
       DEF TunnelNext, tunnelVars, WorkerReads, WorkerServes, WorkerUnwritten, WorkerDies,
       UserStops, DeleteRecord, ReapRecord, SweepLooks, SweepKills

LEMMA OthersStep ==
  ASSUME OthersOK, [TunnelNext]_tunnelVars
  PROVE  OthersOK'
<1> DEFINE Names == {"unsaved", "timedOut", "overwritten", "unwritten", "restarted",
                     "forgotten", "unpinned"}
<1>1. ASSUME UNCHANGED lapses \/ \E name \in Names : Lapse(name) PROVE lapses' \subseteq Names
  BY <1>1 DEF OthersOK, Lapse
<1>2. ASSUME UNCHANGED faultsLeft \/ Fault PROVE faultsLeft' \in 0 .. MaxFaults
  BY <1>2 DEF OthersOK, Fault
<1>3. UNCHANGED lapses \/ \E name \in Names : Lapse(name)
  <2>1. ASSUME NEW w \in Workers,
               WorkerServes(w) \/ WorkerUnwritten(w) \/ DeleteRecord(w)
        PROVE  UNCHANGED lapses \/ \E name \in Names : Lapse(name)
    BY <2>1 DEF WorkerServes, WorkerUnwritten, DeleteRecord
  <2>2. ASSUME NEW t \in Starters,
               SavePid(t) \/ SavePidFails(t) \/ WaitTimesOut(t) \/ LaunchUnsaved(t) \/ UnwindStops(t)
        PROVE  UNCHANGED lapses \/ \E name \in Names : Lapse(name)
    BY <2>2 DEF SavePid, SavePidFails, WaitTimesOut, LaunchUnsaved, UnwindStops
  <2>3. CASE Restart BY <2>3 DEF Restart
  <2>4. CASE UNCHANGED lapses BY <2>4
  <2> QED
    BY <2>1, <2>2, <2>3, <2>4
       DEF TunnelNext, tunnelVars, WorkerReads, WorkerDies, UserStops, ReapRecord, WantTunnel,
       LockStarts, FindWorker, FindFails, SpawnWorker, SpawnFails, WaitReady, WaitCrashed,
       LaunchSucceeds, LaunchFailed, UnwindLocks, UnwindLooks, BrowserQuits, CheckEnds,
       SweepLooks, SweepKills
<1>4. UNCHANGED faultsLeft \/ Fault
  <2>1. ASSUME NEW w \in Workers, WorkerUnwritten(w) \/ WorkerDies(w) PROVE Fault
    BY <2>1 DEF WorkerUnwritten, WriteFails, WorkerDies
  <2>2. ASSUME NEW t \in Starters,
               SavePid(t) \/ SavePidFails(t) \/ WaitTimesOut(t) \/ LaunchUnsaved(t)
        PROVE  UNCHANGED faultsLeft \/ Fault
    BY <2>2 DEF SavePid, SavePidFails, WriteFails, WaitTimesOut, LaunchUnsaved
  <2>3. CASE Restart BY <2>3 DEF Restart
  <2>4. CASE UNCHANGED faultsLeft BY <2>4
  <2> QED
    BY <2>1, <2>2, <2>3, <2>4
       DEF TunnelNext, tunnelVars, WorkerReads, WorkerServes, UserStops, DeleteRecord, ReapRecord,
       WantTunnel, LockStarts, FindWorker, FindFails, SpawnWorker, SpawnFails, WaitReady,
       WaitCrashed, LaunchSucceeds, LaunchFailed, UnwindLocks, UnwindLooks, UnwindStops,
       BrowserQuits, CheckEnds, SweepLooks, SweepKills
<1>5. sweep' \in {"look", "kill", "done"} /\ sweepKeeps' \in BOOLEAN
  <2>1. CASE SweepLooks BY <2>1 DEF SweepLooks
  <2>2. CASE SweepKills BY <2>2 DEF SweepKills, OthersOK
  <2>3. CASE Restart BY <2>3 DEF Restart
  <2>4. CASE UNCHANGED <<sweep, sweepKeeps>> BY <2>4 DEF OthersOK
  <2> QED
    BY <2>1, <2>2, <2>3, <2>4
       DEF TunnelNext, tunnelVars, WorkerReads, WorkerServes, WorkerUnwritten, WorkerDies,
       UserStops, DeleteRecord, ReapRecord, WantTunnel, LockStarts, FindWorker, FindFails,
       SpawnWorker, SpawnFails, SavePid, SavePidFails, WaitReady, WaitCrashed, WaitTimesOut,
       GiveUp, LaunchSucceeds, LaunchUnsaved, LaunchFailed, UnwindLocks, UnwindLooks,
       UnwindStops, BrowserQuits, CheckEnds
<1>6. severed' \in BOOLEAN
  <2>1. ASSUME NEW t \in Starters, UnwindStops(t) PROVE severed' \in BOOLEAN
    <3>1. severed' = (severed \/ (Pinned(via[t]) /\ UsersOf(via[t]) # {}))
      BY <2>1 DEF UnwindStops
    <3> QED BY <3>1
  <2>2. CASE UNCHANGED severed BY <2>2 DEF OthersOK
  <2> QED
    BY <2>1, <2>2, Zenon
       DEF TunnelNext, tunnelVars, WorkerReads, WorkerServes, WorkerUnwritten, WorkerDies,
       UserStops, DeleteRecord, ReapRecord, WantTunnel, LockStarts, FindWorker, FindFails,
       SpawnWorker, SpawnFails, SavePid, SavePidFails, WaitReady, WaitCrashed, WaitTimesOut,
       GiveUp, LaunchSucceeds, LaunchUnsaved, LaunchFailed, UnwindLocks, UnwindLooks,
       BrowserQuits, CheckEnds, Restart, SweepLooks, SweepKills
<1> QED BY <1>1, <1>2, <1>3, <1>4, <1>5, <1>6 DEF OthersOK

\* Every variable of VpnTunnel keeps to its type.
THEOREM TunnelTypes == TunnelSpec => []TunnelTypeOK
<1>1. ASSUME TunnelInit PROVE FilesOK /\ TasksOK /\ OthersOK
  <2>1. FilesOK BY <1>1 DEF TunnelInit, FilesOK, Records
  <2>2. TasksOK
    <3>1. /\ startLock = Nobody /\ claims = {} /\ pidSaved = {}
          /\ task = [t \in Starters |-> "idle"] /\ via = [t \in Starters |-> NoWorker]
          /\ created = [t \in Starters |-> FALSE] /\ had = [t \in Starters |-> FALSE]
      BY <1>1 DEF TunnelInit
    <3>2. \A t \in Checkers : task[t] \in CheckSteps BY <3>1 DEF Starters, CheckSteps
    <3>3. task \in [Starters -> Steps] BY <3>1 DEF Steps
    <3> QED BY <3>1, <3>2, <3>3 DEF TasksOK
  <2>3. OthersOK
    <3>1. sweep = "look" /\ sweepKeeps = FALSE /\ severed = FALSE BY <1>1 DEF TunnelInit
    <3>2. faultsLeft = MaxFaults /\ lapses = {} BY <1>1 DEF TunnelInit
    <3>3. faultsLeft \in 0 .. MaxFaults BY <3>2
    <3> QED BY <3>1, <3>2, <3>3 DEF OthersOK
  <2> QED BY <2>1, <2>2, <2>3
<1>2. TunnelTypeOK /\ [TunnelNext]_tunnelVars => TunnelTypeOK'
  BY TypeParts, FilesStep, TasksStep, OthersStep
     DEF TunnelTypeOK, FilesOK, TasksOK, CheckSteps, OthersOK
<1> QED
  BY <1>1, <1>2, TypeParts, PTL DEF TunnelSpec

(***************************************************************************)
(* VPN_START_LOCK has one holder, who is between finding a worker and      *)
(* having it, or about to stop one.                                        *)
(***************************************************************************)
Held == {"find", "spawn", "savePid", "wait", "inUse", "stop"}
LockInv == \A t \in Starters : task[t] \in Held => startLock = t

LEMMA LockMoves ==
  ASSUME TasksOK, LockInv, NEW t \in Starters, NEW step, GoesTo(t, step),
         \/ UNCHANGED startLock /\ (step \in Held => task[t] \in Held)
         \/ startLock = Nobody /\ startLock' = t
         \/ task[t] \in Held /\ step \notin Held /\ startLock' = Nobody
  PROVE  LockInv'
<1>1. task'[t] = step /\ \A u \in Starters \ {t} : task'[u] = task[u]
  BY DEF TasksOK, GoesTo
<1>2. t # Nobody /\ \A u \in Starters : u # Nobody BY DEF Starters
<1> QED BY <1>1, <1>2 DEF LockInv

LEMMA LockStep ==
  ASSUME TasksOK, LockInv, [TunnelNext]_tunnelVars
  PROVE  LockInv'
<1> USE DEF Held, On
<1>1. ASSUME NEW t \in Starters, WantTunnel(t) PROVE LockInv'
  BY <1>1, LockMoves DEF WantTunnel
<1>2. ASSUME NEW t \in Starters, LockStarts(t) PROVE LockInv'
  BY <1>2, LockMoves DEF LockStarts
<1>3. ASSUME NEW t \in Starters, FindWorker(t) PROVE LockInv'
  <2>1. CASE GoesTo(t, "launching") /\ startLock' = Nobody
    BY <1>3, <2>1, LockMoves DEF FindWorker
  <2>2. CASE GoesTo(t, "probing") /\ startLock' = Nobody
    BY <1>3, <2>2, LockMoves DEF FindWorker
  <2>3. CASE GoesTo(t, "wait") /\ UNCHANGED startLock
    BY <1>3, <2>3, LockMoves DEF FindWorker
  <2>4. CASE GoesTo(t, "spawn") /\ UNCHANGED startLock
    BY <1>3, <2>4, LockMoves DEF FindWorker
  <2> QED BY <1>3, <2>1, <2>2, <2>3, <2>4 DEF FindWorker, Obtain
<1>4. ASSUME NEW t \in Starters, SpawnWorker(t) PROVE LockInv'
  BY <1>4, LockMoves DEF SpawnWorker
<1>5. ASSUME NEW t \in Starters, SavePid(t) PROVE LockInv'
  BY <1>5, LockMoves DEF SavePid
<1>6. ASSUME NEW t \in Starters, WaitReady(t) PROVE LockInv'
  <2>1. CASE GoesTo(t, "launching") /\ startLock' = Nobody
    BY <1>6, <2>1, LockMoves DEF WaitReady
  <2>2. CASE GoesTo(t, "probing") /\ startLock' = Nobody
    BY <1>6, <2>2, LockMoves DEF WaitReady
  <2> QED BY <1>6, <2>1, <2>2 DEF WaitReady, Obtain
<1>7. ASSUME NEW t \in Starters,
             \/ FindFails(t) \/ SpawnFails(t) \/ SavePidFails(t) \/ WaitCrashed(t)
             \/ WaitTimesOut(t) \/ UnwindStops(t)
      PROVE  LockInv'
  <2>1. task[t] \in Held /\ StartFails(t)
    BY <1>7 DEF FindFails, SpawnFails, SavePidFails, WaitCrashed, WaitTimesOut, GiveUp, UnwindStops
  <2> QED BY <2>1, LockMoves DEF StartFails, Leaves
<1>8. ASSUME NEW t \in Starters, LaunchSucceeds(t) \/ LaunchUnsaved(t) PROVE LockInv'
  BY <1>8, LockMoves DEF LaunchSucceeds, LaunchUnsaved
<1>9. ASSUME NEW t \in Starters, LaunchFailed(t) PROVE LockInv'
  <2>1. CASE GoesTo(t, "unwind") BY <1>9, <2>1, LockMoves DEF LaunchFailed
  <2>2. CASE GoesTo(t, "idle") BY <1>9, <2>2, LockMoves DEF LaunchFailed
  <2> QED BY <1>9, <2>1, <2>2 DEF LaunchFailed, Leaves
<1>10. ASSUME NEW t \in Starters, UnwindLocks(t) PROVE LockInv'
  BY <1>10, LockMoves DEF UnwindLocks
<1>11. ASSUME NEW t \in Starters, UnwindLooks(t) PROVE LockInv'
  <2>1. CASE GoesTo(t, "stop") /\ UNCHANGED startLock
    BY <1>11, <2>1, LockMoves DEF UnwindLooks
  <2>2. CASE GoesTo(t, "idle") /\ startLock' = Nobody
    BY <1>11, <2>2, LockMoves DEF UnwindLooks
  <2> QED BY <1>11, <2>1, <2>2 DEF UnwindLooks, Leaves
<1>13. ASSUME NEW t \in Starters, BrowserQuits(t) \/ CheckEnds(t) PROVE LockInv'
  BY <1>13, LockMoves DEF BrowserQuits, CheckEnds, Leaves
<1>14. CASE Restart BY <1>14 DEF Restart, LockInv
<1>15. CASE UNCHANGED <<task, startLock>> BY <1>15 DEF LockInv
<1> QED
  BY <1>1, <1>2, <1>3, <1>4, <1>5, <1>6, <1>7, <1>8, <1>9, <1>10, <1>11, <1>13, <1>14, <1>15
     DEF TunnelNext, tunnelVars, WorkerReads, WorkerServes, WorkerUnwritten, WorkerDies, UserStops,
     DeleteRecord, ReapRecord, SweepLooks, SweepKills

LEMMA LapsesGrow == ASSUME [TunnelNext]_tunnelVars PROVE lapses \subseteq lapses'
<1>1. ASSUME NEW w \in Workers, WorkerServes(w) \/ WorkerUnwritten(w) \/ DeleteRecord(w)
      PROVE  lapses \subseteq lapses'
  BY <1>1 DEF WorkerServes, WorkerUnwritten, DeleteRecord, Lapse
<1>2. ASSUME NEW t \in Starters,
             SavePid(t) \/ SavePidFails(t) \/ WaitTimesOut(t) \/ LaunchUnsaved(t) \/ UnwindStops(t)
      PROVE  lapses \subseteq lapses'
  BY <1>2 DEF SavePid, SavePidFails, WaitTimesOut, LaunchUnsaved, UnwindStops, Lapse
<1>3. CASE Restart BY <1>3 DEF Restart, Lapse
<1>4. CASE UNCHANGED lapses BY <1>4
<1> QED
  BY <1>1, <1>2, <1>3, <1>4
     DEF TunnelNext, tunnelVars, WorkerReads, WorkerDies, UserStops, ReapRecord, WantTunnel,
     LockStarts, FindWorker, FindFails, SpawnWorker, SpawnFails, WaitReady, WaitCrashed,
     LaunchSucceeds, LaunchFailed, UnwindLocks, UnwindLooks, BrowserQuits, CheckEnds, SweepLooks,
     SweepKills

(***************************************************************************)
(* The guard of a launch: what tells it that others use the VPN.           *)
(***************************************************************************)
GuardInv ==
  /\ \A t \in Launchers : task[t] = "launching" => t \in claims
  /\ \A t \in Launchers : task[t] = "running" => t \in pidSaved \/ "unsaved" \in lapses
  /\ \A t \in Starters : task[t] = "stop" => claims = {} /\ pidSaved = {}
  /\ severed => "unsaved" \in lapses

\* A starter moves, and the claims and the saved browsers change with it alone.
LEMMA GuardMoves ==
  ASSUME TasksOK, GuardInv, lapses \subseteq lapses', NEW t \in Starters, NEW step, GoesTo(t, step),
         claims' \subseteq claims \cup {t}, pidSaved' \subseteq pidSaved \cup {t},
         claims \ {t} \subseteq claims', pidSaved \ {t} \subseteq pidSaved',
         t \in Launchers /\ step = "launching" => t \in claims',
         t \in Launchers /\ step = "running" => t \in pidSaved' \/ "unsaved" \in lapses',
         \A u \in Starters : u # t /\ task[u] = "stop" => claims' = {} /\ pidSaved' = {},
         step = "stop" => claims' = {} /\ pidSaved' = {},
         severed' => severed \/ "unsaved" \in lapses'
  PROVE  GuardInv'
<1>1. task'[t] = step /\ \A u \in Starters \ {t} : task'[u] = task[u]
  BY DEF TasksOK, GoesTo
<1>2. \A u \in Launchers : u \in Starters BY DEF Starters
<1>3. \A u \in Launchers : task'[u] = "launching" => u \in claims'
  BY <1>1, <1>2 DEF GuardInv
<1>4. \A u \in Launchers : task'[u] = "running" => u \in pidSaved' \/ "unsaved" \in lapses'
  BY <1>1, <1>2 DEF GuardInv
<1>5. \A u \in Starters : task'[u] = "stop" => claims' = {} /\ pidSaved' = {}
  BY <1>1
<1>6. severed' => "unsaved" \in lapses'
  BY DEF GuardInv
<1> QED BY <1>3, <1>4, <1>5, <1>6 DEF GuardInv

LEMMA GuardStep ==
  ASSUME TasksOK, LockInv, GuardInv, [TunnelNext]_tunnelVars
  PROVE  GuardInv'
<1> USE DEF On
<1>0. lapses \subseteq lapses' BY LapsesGrow
\* Without a new claim or a new saved browser, whoever is about to stop may.
<1>1. ASSUME NEW t \in Starters, NEW step, GoesTo(t, step), step \notin {"launching", "running", "stop"},
             claims' \subseteq claims, pidSaved' \subseteq pidSaved,
             claims \ {t} \subseteq claims', pidSaved \ {t} \subseteq pidSaved', UNCHANGED severed
      PROVE  GuardInv'
  <2>1. \A u \in Starters : u # t /\ task[u] = "stop" => claims' = {} /\ pidSaved' = {}
    BY <1>1 DEF GuardInv
  <2>2. claims' \subseteq claims \cup {t} /\ pidSaved' \subseteq pidSaved \cup {t} BY <1>1
  <2> QED BY <1>0, <1>1, <2>1, <2>2, GuardMoves
\* A claim is taken under the lock.
<1>2. ASSUME NEW t \in Starters, NEW w \in Workers, NEW spawned, Obtain(t, w, spawned),
             task[t] \in Held, UNCHANGED <<pidSaved, severed>>
      PROVE  GuardInv'
  <2>1. \A u \in Starters : u # t => task[u] # "stop"
    BY <1>2 DEF LockInv, Held
  <2>2. CASE t \in Launchers
    <3>1. GoesTo(t, "launching") /\ claims' = claims \cup {t} BY <1>2, <2>2 DEF Obtain
    <3> QED BY <1>0, <1>2, <2>1, <3>1, GuardMoves
  <2>3. CASE t \notin Launchers
    <3>1. GoesTo(t, "probing") /\ claims' = claims BY <1>2, <2>3 DEF Obtain
    <3> QED BY <1>1, <1>2, <3>1
  <2> QED BY <2>2, <2>3
<1>3. ASSUME NEW t \in Starters,
             WantTunnel(t) \/ LockStarts(t) \/ SpawnWorker(t) \/ SavePid(t) \/ UnwindLocks(t)
      PROVE  GuardInv'
  <2>1. PICK step \in {"wanted", "find", "savePid", "wait", "inUse"} : GoesTo(t, step)
    BY <1>3 DEF WantTunnel, LockStarts, SpawnWorker, SavePid, UnwindLocks
  <2>2. UNCHANGED <<claims, pidSaved, severed>>
    BY <1>3 DEF WantTunnel, LockStarts, SpawnWorker, SavePid, UnwindLocks
  <2> QED BY <1>1, <2>1, <2>2
<1>4. ASSUME NEW t \in Starters, FindWorker(t) PROVE GuardInv'
  <2>1. UNCHANGED <<pidSaved, severed>> /\ task[t] \in Held BY <1>4 DEF FindWorker, Held
  <2>2. CASE \E w \in Workers : Obtain(t, w, FALSE) BY <1>2, <2>1, <2>2
  <2>3. CASE GoesTo(t, "wait") /\ UNCHANGED claims BY <1>1, <2>1, <2>3
  <2>4. CASE GoesTo(t, "spawn") /\ UNCHANGED claims BY <1>1, <2>1, <2>4
  <2> QED BY <1>4, <2>2, <2>3, <2>4 DEF FindWorker
<1>5. ASSUME NEW t \in Starters, WaitReady(t) PROVE GuardInv'
  <2>1. Obtain(t, via[t], created[t]) /\ UNCHANGED <<pidSaved, severed>> /\ task[t] = "wait"
    BY <1>5 DEF WaitReady
  <2>2. via[t] \in Workers BY <2>1 DEF TasksOK
  <2>3. task[t] \in Held BY <2>1 DEF Held
  <2> QED BY <1>2, <2>1, <2>2, <2>3
<1>6. ASSUME NEW t \in Starters,
             \/ FindFails(t) \/ SpawnFails(t) \/ SavePidFails(t) \/ WaitCrashed(t)
             \/ WaitTimesOut(t) \/ BrowserQuits(t) \/ CheckEnds(t)
      PROVE  GuardInv'
  <2>1. /\ GoesTo(t, "idle") /\ UNCHANGED <<claims, severed>>
        /\ pidSaved' \subseteq pidSaved /\ pidSaved \ {t} \subseteq pidSaved'
    BY <1>6 DEF FindFails, SpawnFails, SavePidFails, WaitCrashed, WaitTimesOut, GiveUp, StartFails,
       BrowserQuits, CheckEnds, Leaves
  <2> QED BY <1>1, <2>1
\* A browser is recorded under the claim of its launch: nobody is about to stop then.
<1>7. ASSUME NEW t \in Starters, LaunchSucceeds(t) \/ LaunchUnsaved(t) PROVE GuardInv'
  <2>1. t \in Launchers /\ task[t] = "launching" BY <1>7 DEF LaunchSucceeds, LaunchUnsaved
  <2>2. t \in claims BY <2>1 DEF GuardInv
  <2>3. \A u \in Starters : task[u] # "stop" BY <2>2 DEF GuardInv
  <2>4. /\ GoesTo(t, "running") /\ claims' = claims \ {t} /\ UNCHANGED severed
        /\ pidSaved' \subseteq pidSaved \cup {t} /\ pidSaved \subseteq pidSaved'
        /\ t \in pidSaved' \/ "unsaved" \in lapses'
    BY <1>7 DEF LaunchSucceeds, LaunchUnsaved, Lapse
  <2> QED BY <1>0, <2>3, <2>4, GuardMoves
<1>8. ASSUME NEW t \in Starters, LaunchFailed(t) PROVE GuardInv'
  <2>1. PICK step \in {"unwind", "idle"} : GoesTo(t, step)
    BY <1>8 DEF LaunchFailed, Leaves
  <2>2. claims' = claims \ {t} /\ UNCHANGED <<pidSaved, severed>> BY <1>8 DEF LaunchFailed
  <2> QED BY <1>1, <2>1, <2>2
<1>9. ASSUME NEW t \in Starters, UnwindLooks(t) PROVE GuardInv'
  <2>1. UNCHANGED <<claims, pidSaved, severed>> BY <1>9 DEF UnwindLooks
  <2>2. CASE InUse
    <3>1. GoesTo(t, "idle") BY <1>9, <2>2 DEF UnwindLooks, Leaves
    <3> QED BY <1>1, <2>1, <3>1
  <2>3. CASE ~InUse
    <3>1. GoesTo(t, "stop") BY <1>9, <2>3 DEF UnwindLooks
    <3>2. claims' = {} /\ pidSaved' = {} BY <2>1, <2>3 DEF InUse
    <3> QED BY <1>0, <2>1, <3>1, <3>2, GuardMoves
  <2> QED BY <2>2, <2>3
\* The heart of it: whoever stops has seen no claim and no saved browser, and none came since.
<1>10. ASSUME NEW t \in Starters, UnwindStops(t) PROVE GuardInv'
  <2>1. task[t] = "stop" BY <1>10 DEF UnwindStops
  <2>2. claims = {} /\ pidSaved = {} BY <2>1 DEF GuardInv
  <2>3. UsersOf(via[t]) # {} => "unsaved" \in lapses BY <2>2 DEF UsersOf, GuardInv
  <2>4. severed' => severed \/ UsersOf(via[t]) # {} BY <1>10 DEF UnwindStops
  <2>5. severed' => severed \/ "unsaved" \in lapses' BY <1>0, <2>3, <2>4
  <2>6. GoesTo(t, "idle") /\ claims' = {} /\ pidSaved' = {}
    BY <1>10, <2>2 DEF UnwindStops, StartFails, Leaves
  <2> QED BY <1>0, <2>2, <2>5, <2>6, GuardMoves
<1>11. CASE Restart
  <2>1. /\ task' = [t \in Starters |-> IF t \in pidSaved THEN "running" ELSE "idle"]
        /\ UNCHANGED <<pidSaved, severed>>
    BY <1>11 DEF Restart
  <2>2. \A t \in Starters : task'[t] # "launching" /\ task'[t] # "stop"
    BY <2>1
  <2>3. \A t \in Starters : task'[t] = "running" => t \in pidSaved' BY <2>1
  <2> QED BY <1>0, <2>1, <2>2, <2>3 DEF GuardInv, Starters
<1>12. CASE UNCHANGED <<task, claims, pidSaved, severed>> BY <1>0, <1>12 DEF GuardInv
<1> QED
  BY <1>3, <1>4, <1>5, <1>6, <1>7, <1>8, <1>9, <1>10, <1>11, <1>12
     DEF TunnelNext, tunnelVars, WorkerReads, WorkerServes, WorkerUnwritten, WorkerDies, UserStops,
     DeleteRecord, ReapRecord, SweepLooks, SweepKills

\* No launch that fails stops the worker of another launch or of a running browser, as long
\* as the browsers that run were saved (VpnLaunchGuard, vpn_id_in_use_by_running_browser).
THEOREM FailuresStayAlone == TunnelSpec => []FailedLaunchSparesOthers
<1>1. ASSUME TunnelInit PROVE LockInv /\ GuardInv
  <2>1. /\ task = [t \in Starters |-> "idle"] /\ severed = FALSE
    BY <1>1 DEF TunnelInit
  <2>2. \A t \in Starters : task[t] = "idle" BY <2>1
  <2> QED BY <2>1, <2>2 DEF LockInv, GuardInv, Held, Starters
<1>2. TunnelTypeOK /\ LockInv /\ GuardInv /\ [TunnelNext]_tunnelVars => LockInv' /\ GuardInv'
  BY TypeParts, LockStep, GuardStep
<1>3. GuardInv => FailedLaunchSparesOthers BY DEF GuardInv, FailedLaunchSparesOthers
<1> QED
  BY <1>1, <1>2, <1>3, TunnelTypes, PTL DEF TunnelSpec

(***************************************************************************)
(* The workers that run are known, and there is one at most.               *)
(***************************************************************************)
Tracked == lapses \cap LosesTrack = {}
Saving(w) == \E t \in Starters : via[t] = w /\ task[t] = "savePid"

\* Under the lock, where no pid is being saved, every worker that runs is alive by its record.
LEMMA AllAlive ==
  ASSUME TasksOK, LockInv, WorkersAreKnown, Tracked,
         NEW t \in Starters, task[t] \in Held, task[t] # "savePid",
         NEW w \in Workers, Running(w)
  PROVE  Alive(w)
BY DEF WorkersAreKnown, Tracked, LockInv, Held, On

\* A step that starts nothing keeps what is known when it keeps the workers alive, or their
\* start under way.
LEMMA KnownMoves ==
  ASSUME WorkersAreKnown, lapses \subseteq lapses',
         Tracked' => \A w \in Workers : Running(w)' =>
           \/ Running(w) /\ (Alive(w) => Alive(w)') /\ (Saving(w) => Alive(w)' \/ Saving(w)')
           \/ Alive(w)' \/ Saving(w)'
  PROVE  WorkersAreKnown'
<1>1. Tracked' => Tracked BY DEF Tracked
<1> QED BY <1>1 DEF WorkersAreKnown, Tracked, Saving, On

\* One starter moves that was not saving a pid.
LEMMA SavingStays ==
  ASSUME TasksOK, NEW t \in Starters, task[t] # "savePid",
         NEW step, GoesTo(t, step), \A u \in Starters \ {t} : via'[u] = via[u],
         NEW w, Saving(w)
  PROVE  Saving(w)'
<1>1. \A u \in Starters \ {t} : task'[u] = task[u] BY DEF TasksOK, GoesTo
<1> QED BY <1>1 DEF Saving

\* Where a start stands says what its process is, a pid is recorded of a process that was
\* spawned, and a stop that saw a pid it could pin has ended the process.
TraceInv ==
  /\ \A t \in Starters : task[t] = "spawn" => proc[via[t]] = "none"
  /\ \A t \in Starters : task[t] = "savePid" => proc[via[t]] # "none"
  /\ \A w \in Workers : HasPid(w) => proc[w] # "none"
  /\ \A w \in stopping : w \in blind \cup unpinned \/ proc[w] = "dead"

\* Nothing is spawned, no pid is written, and nobody begins to stop.
LEMMA TraceMoves ==
  ASSUME FilesOK, TasksOK, TraceInv,
         \A w \in Workers : proc[w] = "none" => proc'[w] = "none",
         \A w \in Workers : proc'[w] = "none" => proc[w] = "none",
         \A w \in Workers : proc[w] = "dead" => proc'[w] = "dead",
         \A w \in Workers : HasPid(w)' => HasPid(w),
         \A t \in Starters : task'[t] \in {"spawn", "savePid"} =>
           task'[t] = task[t] /\ via'[t] = via[t],
         stopping' \subseteq stopping, stopping' \cap blind \subseteq blind', UNCHANGED unpinned
  PROVE  TraceInv'
<1>1. \A t \in Starters : task[t] \in {"spawn", "savePid"} => via[t] \in Workers
  BY DEF TasksOK
<1>2. stopping \subseteq Workers BY DEF FilesOK
<1> QED BY <1>1, <1>2 DEF TraceInv

\* One starter moves, and goes neither to "spawn" nor to "savePid".
LEMMA StarterMoves ==
  ASSUME TasksOK, NEW t \in Starters, NEW step, GoesTo(t, step), step \notin {"spawn", "savePid"},
         \A u \in Starters \ {t} : via'[u] = via[u]
  PROVE  \A u \in Starters : task'[u] \in {"spawn", "savePid"} =>
           task'[u] = task[u] /\ via'[u] = via[u]
BY DEF TasksOK, GoesTo

LEMMA OthersStay ==
  ASSUME TasksOK, NEW t \in Starters, StartFails(t) \/ Leaves(t)
  PROVE  GoesTo(t, "idle") /\ \A u \in Starters \ {t} : via'[u] = via[u]
BY DEF StartFails, Leaves, TasksOK

LEMMA TraceStep ==
  ASSUME FilesOK, TasksOK, LockInv, TraceInv, [TunnelNext]_tunnelVars
  PROVE  TraceInv'
<1> USE DEF On
<1>c. /\ proc \in [Workers -> {"none", "starting", "writing", "serving", "dead"}]
      /\ record \in [Workers -> Records] /\ read \in [Workers -> Records]
      /\ stopping \subseteq Workers /\ blind \subseteq stopping
  BY DEF FilesOK
<1>d. \A t \in Starters : task[t] \notin {"idle", "wanted", "find"} => via[t] \in Workers
  BY DEF TasksOK
\* Only the files change.
<1>1. ASSUME NEW w \in Workers, WorkerReads(w) \/ WorkerDies(w) PROVE TraceInv'
  BY <1>c, <1>1, TraceMoves DEF WorkerReads, WorkerDies, Running, HasPid
<1>2. ASSUME NEW w \in Workers, WorkerServes(w) PROVE TraceInv'
  <2>1. /\ proc[w] = "writing" /\ proc' = [proc EXCEPT ![w] = "serving"]
        /\ UNCHANGED <<task, via, unpinned, stopping, blind>>
        /\ \A v \in Workers : v # w => record'[v] = record[v]
    BY <1>c, <1>2 DEF WorkerServes
  <2>2. \A v \in Workers : HasPid(v)' => proc'[v] # "none"
    BY <1>c, <2>1 DEF TraceInv, HasPid
  <2> QED BY <1>c, <1>d, <2>1, <2>2 DEF TraceInv
<1>3. ASSUME NEW w \in Workers, WorkerUnwritten(w) PROVE TraceInv'
  BY <1>c, <1>3, TraceMoves DEF WorkerUnwritten, WriteFails, HasPid
<1>4. ASSUME NEW w \in Workers, DeleteRecord(w) \/ ReapRecord(w) PROVE TraceInv'
  BY <1>c, <1>4, TraceMoves DEF DeleteRecord, ReapRecord, HasPid
\* A stop begins: what it does not kill has no pid, no start time, or is dead already.
<1>5. ASSUME NEW ws \in SUBSET Workers, BeginStop(ws), UNCHANGED <<record, unpinned>>,
             \A t \in Starters : task'[t] \in {"spawn", "savePid"} =>
               task'[t] = task[t] /\ via'[t] = via[t]
      PROVE  TraceInv'
  <2>1. \A w \in Workers : proc'[w] # proc[w] => Pinned(w)
    BY <1>c, <1>5 DEF BeginStop, Signal
  <2>2. \A w \in Workers : proc'[w] = "none" <=> proc[w] = "none"
    BY <1>5, <2>1, StopEffect DEF Pinned, Alive, Running
  <2>3. ASSUME NEW w \in stopping' PROVE w \in blind' \cup unpinned' \/ proc'[w] = "dead"
    <3>1. w \in Workers BY <1>5, <2>3, StopEffect
    <3>2. CASE w \in stopping BY <1>5, <3>1, <3>2, StopEffect DEF TraceInv
    <3>3. CASE w \in ws \cap Recorded /\ HasPid(w) /\ w \notin unpinned
      <4>1. proc[w] # "none" BY <3>1, <3>3 DEF TraceInv
      <4>2. CASE Running(w) BY <1>5, <3>1, <3>3, <4>2, StopEffect DEF Pinned, Alive
      <4>3. CASE proc[w] = "dead" BY <1>5, <3>1, <4>3, StopEffect
      <4> QED BY <1>c, <3>1, <4>1, <4>2, <4>3 DEF Running
    <3>4. CASE w \in ws \cap Recorded /\ ~HasPid(w) BY <1>5, <3>4, StopEffect
    <3>5. CASE w \in unpinned BY <1>5, <3>5
    <3> QED BY <1>5, <2>3, <3>2, <3>3, <3>4, <3>5, StopEffect
  <2>4. \A w \in Workers : HasPid(w)' => HasPid(w) BY <1>5 DEF HasPid
  <2> QED BY <1>5, <1>d, <2>2, <2>3, <2>4 DEF TraceInv
<1>6. ASSUME NEW w \in Workers, UserStops(w) PROVE TraceInv'
  <2>1. {w} \in SUBSET Workers OBVIOUS
  <2> QED BY <1>5, <1>6, <2>1 DEF UserStops
<1>7. ASSUME NEW t \in Starters, CheckEnds(t) PROVE TraceInv'
  <2>1. via[t] \in Workers BY <1>d, <1>7 DEF CheckEnds
  <2>2. PICK ws \in SUBSET Workers : BeginStop(ws) BY <1>7, <2>1 DEF CheckEnds
  <2>3. Leaves(t) /\ UNCHANGED <<record, unpinned>> BY <1>7 DEF CheckEnds
  <2> QED BY <1>5, <2>2, <2>3, OthersStay, StarterMoves
<1>8. CASE SweepKills
  <2>1. PICK ws \in SUBSET Workers : BeginStop(ws) BY <1>8 DEF SweepKills
  <2> QED BY <1>5, <1>8, <2>1 DEF SweepKills
\* A new worker has no process and no pid.
<1>9. ASSUME NEW t \in Starters, FindWorker(t) PROVE TraceInv'
  <2>1. UNCHANGED <<proc, unpinned, stopping, blind>> /\ task[t] = "find" BY <1>9 DEF FindWorker
  <2>2. \A u \in Starters \ {t} : task'[u] = task[u] /\ via'[u] = via[u]
    BY <1>9 DEF FindWorker, Obtain, GoesTo, TasksOK
  <2>3. task'[t] # "savePid" /\ (task'[t] = "spawn" => proc[via'[t]] = "none")
    BY <1>9 DEF FindWorker, Obtain, GoesTo, TasksOK
  <2>4. \A w \in Workers : HasPid(w)' => HasPid(w)
    <3>1. \/ record' = Kept
          \/ \E w \in Workers : record' = [Kept EXCEPT ![w] = "new"]
      BY <1>9 DEF FindWorker
    <3>2. \A w \in Workers : Kept[w] \in {record[w], "none"} BY DEF Kept
    <3>3. Kept \in [Workers -> Records] BY <1>c DEF Kept, Records
    <3>4. \A w \in Workers : record'[w] \in {record[w], "none", "new"} BY <3>1, <3>2, <3>3
    <3> QED BY <3>4 DEF HasPid
  <2> QED BY <1>d, <2>1, <2>2, <2>3, <2>4 DEF TraceInv
<1>10. ASSUME NEW t \in Starters, SpawnWorker(t) PROVE TraceInv'
  <2>1. /\ task[t] = "spawn" /\ GoesTo(t, "savePid") /\ via[t] \in Workers
        /\ proc' = [proc EXCEPT ![via[t]] = "starting"]
        /\ UNCHANGED <<record, via, unpinned, stopping, blind>>
    BY <1>d, <1>10 DEF SpawnWorker
  <2>2. proc[via[t]] = "none" BY <2>1 DEF TraceInv
  <2>3. \A u \in Starters : task'[u] # "spawn" /\ (u # t => task'[u] = task[u])
    BY <2>1 DEF LockInv, Held, GoesTo, TasksOK
  <2>4. \A w \in Workers : w # via[t] => proc'[w] = proc[w] BY <1>c, <2>1
  <2>5. proc'[via[t]] = "starting" BY <1>c, <2>1
  <2>6. \A u \in Starters : task'[u] = "savePid" => proc'[via'[u]] # "none"
    <3>1. \A u \in Starters : u # t => task'[u] # "savePid"
      BY <2>1, <2>3 DEF LockInv, Held
    <3> QED BY <2>1, <2>5, <3>1
  <2>7. \A w \in stopping : w \in blind \cup unpinned \/ proc'[w] = "dead"
    BY <1>c, <2>2, <2>4 DEF TraceInv
  <2>8. \A w \in Workers : HasPid(w)' => proc'[w] # "none"
    BY <2>1, <2>4, <2>5 DEF TraceInv, HasPid
  <2> QED BY <2>1, <2>3, <2>6, <2>7, <2>8 DEF TraceInv
<1>11. ASSUME NEW t \in Starters, SpawnFails(t) PROVE TraceInv'
  <2>1. /\ task[t] = "spawn" /\ StartFails(t) /\ via[t] \in Workers
        /\ proc' = [proc EXCEPT ![via[t]] = "dead"]
        /\ UNCHANGED <<record, unpinned, stopping, blind>>
    BY <1>d, <1>11 DEF SpawnFails
  <2>2. \A u \in Starters : task'[u] \in {"spawn", "savePid"} =>
          task'[u] = task[u] /\ via'[u] = via[u]
    BY <2>1, OthersStay, StarterMoves
  <2>3. \A u \in Starters : task'[u] \notin {"spawn", "savePid"}
    BY <2>1, <2>2, OthersStay DEF LockInv, Held, GoesTo, TasksOK
  <2>4. \A w \in Workers : proc'[w] = "none" => proc[w] = "none" BY <1>c, <2>1
  <2>5. \A w \in Workers : proc[w] = "dead" => proc'[w] = "dead" BY <1>c, <2>1
  <2> QED BY <1>c, <2>1, <2>3, <2>4, <2>5 DEF TraceInv, HasPid
<1>12. ASSUME NEW t \in Starters, SavePid(t) PROVE TraceInv'
  <2>1. /\ task[t] = "savePid" /\ GoesTo(t, "wait") /\ via[t] \in Workers
        /\ record' = [record EXCEPT ![via[t]] = "pid"]
        /\ unpinned \subseteq unpinned' /\ UNCHANGED <<proc, via, stopping, blind>>
    BY <1>d, <1>12 DEF SavePid
  <2>2. \A u \in Starters : task'[u] \in {"spawn", "savePid"} => task'[u] = task[u]
    BY <2>1, StarterMoves
  <2>3. \A w \in Workers : w # via[t] => record'[w] = record[w] BY <1>c, <2>1
  <2> QED BY <2>1, <2>2, <2>3 DEF TraceInv, HasPid
<1>13. ASSUME NEW t \in Starters,
              FindFails(t) \/ SavePidFails(t) \/ WaitCrashed(t) \/ WaitTimesOut(t)
       PROVE  TraceInv'
  <2>1. StartFails(t) /\ UNCHANGED <<proc, unpinned, stopping, blind>>
    BY <1>13 DEF FindFails, SavePidFails, WaitCrashed, WaitTimesOut, GiveUp
  <2>2. \A w \in Workers : record'[w] \in {record[w], "none"}
    <3>1. CASE FindFails(t) BY <3>1 DEF FindFails, Kept
    <3>2. CASE SavePidFails(t)
      BY <1>c, <3>2 DEF SavePidFails, WriteFails
    <3>3. CASE WaitCrashed(t) \/ WaitTimesOut(t)
      BY <1>c, <3>3 DEF WaitCrashed, WaitTimesOut, GiveUp
    <3> QED BY <1>13, <3>1, <3>2, <3>3
  <2>3. \A u \in Starters : task'[u] \in {"spawn", "savePid"} =>
          task'[u] = task[u] /\ via'[u] = via[u]
    BY <2>1, OthersStay, StarterMoves
  <2>4. \A w \in Workers : HasPid(w)' => HasPid(w) BY <2>2 DEF HasPid
  <2> QED BY <1>d, <2>1, <2>3, <2>4 DEF TraceInv
<1>14. ASSUME NEW t \in Starters, UnwindStops(t) PROVE TraceInv'
  <2>1. /\ StartFails(t) /\ UNCHANGED <<unpinned, stopping, blind>>
        /\ record' = [record EXCEPT ![via[t]] = "none"]
        /\ \A w \in Workers : proc'[w] = proc[w] \/ (Pinned(w) /\ proc'[w] = "dead")
    BY <1>c, <1>14 DEF UnwindStops, Signal
  <2>2. \A u \in Starters : task'[u] \in {"spawn", "savePid"} =>
          task'[u] = task[u] /\ via'[u] = via[u]
    BY <2>1, OthersStay, StarterMoves
  <2>3. \A w \in Workers : proc'[w] = "none" <=> proc[w] = "none"
    BY <2>1 DEF Pinned, Alive, Running
  <2>4. \A w \in Workers : proc[w] = "dead" => proc'[w] = "dead" BY <2>1
  <2>5. \A w \in Workers : HasPid(w)' => HasPid(w) BY <1>c, <2>1 DEF HasPid
  <2> QED BY <2>1, <2>2, <2>3, <2>4, <2>5, TraceMoves
<1>15. CASE Restart
  <2>1. /\ \A t \in Starters : task'[t] \in {"running", "idle"}
        /\ UNCHANGED <<proc, record, unpinned>> /\ stopping' = {}
    BY <1>15 DEF Restart
  <2> QED BY <2>1 DEF TraceInv, HasPid
<1>16. ASSUME NEW t \in Starters,
              \/ WantTunnel(t) \/ LockStarts(t) \/ WaitReady(t) \/ LaunchSucceeds(t)
              \/ LaunchUnsaved(t) \/ LaunchFailed(t) \/ UnwindLocks(t) \/ UnwindLooks(t)
              \/ BrowserQuits(t)
       PROVE  TraceInv'
  <2>1. UNCHANGED <<proc, record, unpinned, stopping, blind>>
    BY <1>16 DEF WantTunnel, LockStarts, WaitReady, LaunchSucceeds, LaunchUnsaved,
       LaunchFailed, UnwindLocks, UnwindLooks, BrowserQuits
  <2>2. \E step : GoesTo(t, step) /\ step \notin {"spawn", "savePid"}
    BY <1>16 DEF WantTunnel, LockStarts, WaitReady, Obtain, LaunchSucceeds, LaunchUnsaved,
       LaunchFailed, UnwindLocks, UnwindLooks, BrowserQuits, Leaves
  <2>3. \A u \in Starters \ {t} : via'[u] = via[u]
    BY <1>16 DEF WantTunnel, LockStarts, WaitReady, Obtain, LaunchSucceeds, LaunchUnsaved,
       LaunchFailed, UnwindLocks, UnwindLooks, BrowserQuits, Leaves, TasksOK
  <2>4. \A u \in Starters : task'[u] \in {"spawn", "savePid"} =>
          task'[u] = task[u] /\ via'[u] = via[u]
    BY <2>2, <2>3, StarterMoves
  <2> QED BY <1>d, <2>1, <2>4 DEF TraceInv, HasPid
<1>17. CASE UNCHANGED <<tunnelFiles, task, via, stopping, blind>> BY <1>17 DEF TraceInv, HasPid
<1> QED
  BY <1>1, <1>2, <1>3, <1>4, <1>6, <1>7, <1>8, <1>9, <1>10, <1>11, <1>12, <1>13, <1>14, <1>15,
     <1>16, <1>17 DEF TunnelNext, tunnelVars, SweepLooks

LEMMA KnownStep ==
  ASSUME TunnelTypeOK, LockInv, TraceInv, WorkersAreKnown, [TunnelNext]_tunnelVars
  PROVE  WorkersAreKnown'
<1> USE DEF On
<1>a. FilesOK /\ TasksOK BY TypeParts
<1>b. lapses \subseteq lapses' BY LapsesGrow
<1>c. proc \in [Workers -> {"none", "starting", "writing", "serving", "dead"}]
      /\ record \in [Workers -> Records] /\ read \in [Workers -> Records]
  BY <1>a DEF FilesOK
<1>d. \A t \in Starters : task[t] \notin {"idle", "wanted", "find"} => via[t] \in Workers
  BY <1>a DEF TasksOK
\* Nothing changes but the step of a starter.
<1>1. ASSUME NEW t \in Starters, NEW step, GoesTo(t, step), task[t] # "savePid",
             \A u \in Starters \ {t} : via'[u] = via[u], UNCHANGED <<proc, record>>
      PROVE  WorkersAreKnown'
  <2>1. \A w \in Workers : Saving(w) => Saving(w)' BY <1>a, <1>1, SavingStays
  <2> QED BY <1>b, <1>1, <2>1, KnownMoves DEF Running, Alive, HasPid
\* A starter under the lock that is not saving writes the records of live workers only.
<1>2. ASSUME NEW t \in Starters, NEW step, GoesTo(t, step), task[t] \in Held, task[t] # "savePid",
             \A u \in Starters \ {t} : via'[u] = via[u],
             \A w \in Workers : Running(w)' /\ Alive(w) => Alive(w)',
             \A w \in Workers : Running(w)' => Running(w)
      PROVE  WorkersAreKnown'
  <2>1. Tracked' => Tracked BY <1>b DEF Tracked
  <2>2. ASSUME Tracked', NEW w \in Workers, Running(w)' PROVE Alive(w)'
    <3>1. Running(w) BY <1>2, <2>2
    <3>2. Alive(w) BY <1>a, <1>2, <2>1, <2>2, <3>1, AllAlive
    <3> QED BY <1>2, <2>2, <3>2
  <2> QED BY <1>b, <2>2, KnownMoves
\* Nothing changes but the files.
<1>3. ASSUME UNCHANGED <<task, via>>,
             Tracked' => \A w \in Workers : Running(w)' =>
               Running(w) /\ (Alive(w) => Alive(w)' \/ Saving(w))
      PROVE  WorkersAreKnown'
  <2>1. \A w \in Workers : Saving(w) => Saving(w)' BY <1>3 DEF Saving
  <2> QED BY <1>b, <1>3, <2>1, KnownMoves
<1>4. ASSUME NEW w \in Workers,
             WorkerReads(w) \/ WorkerUnwritten(w) \/ WorkerDies(w) \/ UserStops(w) \/ ReapRecord(w)
      PROVE  WorkersAreKnown'
  <2>1. UNCHANGED <<task, via>>
    BY <1>4 DEF WorkerReads, WorkerUnwritten, WorkerDies, UserStops, ReapRecord
  <2>2. \A v \in Workers : Running(v)' => Running(v)
    BY <1>c, <1>4 DEF WorkerReads, WorkerUnwritten, WorkerDies, UserStops, ReapRecord, BeginStop,
       Signal, Running
  <2>3. Tracked' => UNCHANGED record \/ (~Running(w) /\ record' = [record EXCEPT ![w] = "none"])
    BY <1>4 DEF WorkerReads, WorkerUnwritten, WorkerDies, UserStops, ReapRecord, Tracked,
       LosesTrack, Lapse
  <2>4. ASSUME Tracked', NEW v \in Workers, Running(v)', Alive(v) PROVE Alive(v)'
    BY <1>c, <2>2, <2>3, <2>4 DEF Alive, HasPid, Running
  <2> QED BY <1>3, <2>1, <2>2, <2>4
<1>5. ASSUME NEW w \in Workers, WorkerServes(w) PROVE WorkersAreKnown'
  <2>1. /\ UNCHANGED <<task, via>> /\ proc[w] = "writing"
        /\ proc' = [proc EXCEPT ![w] = "serving"]
    BY <1>5 DEF WorkerServes
  <2>2. \A v \in Workers : Running(v)' => Running(v)
    BY <1>c, <2>1 DEF Running
  <2>3. ASSUME Tracked', NEW v \in Workers, Running(v)', Alive(v) PROVE Alive(v)'
    <3>1. CASE record' = record BY <2>3, <3>1 DEF Alive, HasPid, Running
    <3>2. CASE read[w] # "none" /\ record' = [record EXCEPT ![w] = WithUrl(read[w])]
      <4>1. read[w] = record[w]
        BY <1>5, <2>3, <3>2 DEF WorkerServes, Tracked, LosesTrack, Lapse
      <4> QED BY <1>c, <2>3, <3>2, <4>1 DEF Alive, HasPid, Running, WithUrl
    <3> QED BY <1>5, <3>1, <3>2 DEF WorkerServes
  <2> QED BY <1>3, <2>1, <2>2, <2>3
<1>6. ASSUME NEW w \in Workers, DeleteRecord(w) PROVE WorkersAreKnown'
  <2>1. UNCHANGED <<task, via, proc>> /\ record' = [record EXCEPT ![w] = "none"]
    BY <1>6 DEF DeleteRecord
  <2>2. Tracked' => ~Alive(w)
    <3>1. Tracked' /\ Alive(w) => w \notin blind \cup unpinned
      BY <1>6 DEF DeleteRecord, Tracked, LosesTrack, Lapse
    <3>2. w \in blind \cup unpinned \/ proc[w] = "dead" BY <1>6 DEF DeleteRecord, TraceInv
    <3> QED BY <3>1, <3>2 DEF Alive, Running
  <2>3. \A v \in Workers : Running(v)' <=> Running(v) BY <2>1 DEF Running
  <2>4. \A v \in Workers \ {w} : Alive(v) => Alive(v)' BY <1>c, <2>1 DEF Alive, HasPid, Running
  <2> QED BY <1>3, <2>1, <2>2, <2>3, <2>4
<1>7. ASSUME NEW t \in Starters, FindWorker(t) PROVE WorkersAreKnown'
  <2>1. task[t] = "find" /\ UNCHANGED proc BY <1>7 DEF FindWorker
  <2>2. task[t] \in Held /\ task[t] # "savePid" BY <2>1 DEF Held
  <2>3. \A w \in Workers : Running(w)' <=> Running(w) BY <2>1 DEF Running
  <2>4. \E step : GoesTo(t, step) BY <1>7 DEF FindWorker, Obtain
  <2>5. \A u \in Starters \ {t} : via'[u] = via[u]
    BY <1>a, <1>7 DEF FindWorker, Obtain, TasksOK
  <2>6. \A w \in Workers : Alive(w) => record'[w] = record[w]
    <3>1. record' = Kept \/ \A w \in Workers : ~Alive(w) BY <1>7 DEF FindWorker
    <3> QED BY <3>1 DEF Kept
  <2>7. \A w \in Workers : Running(w)' /\ Alive(w) => Alive(w)'
    BY <2>6 DEF Alive, HasPid, Running
  <2> QED BY <1>2, <2>2, <2>3, <2>4, <2>5, <2>7
<1>8. ASSUME NEW t \in Starters, SpawnWorker(t) PROVE WorkersAreKnown'
  <2>1. /\ task[t] = "spawn" /\ GoesTo(t, "savePid") /\ UNCHANGED <<record, via>>
        /\ proc' = [proc EXCEPT ![via[t]] = "starting"]
    BY <1>8 DEF SpawnWorker
  <2>2. Saving(via[t])' BY <1>a, <2>1 DEF Saving, GoesTo, TasksOK
  <2>3. \A w \in Workers : w # via[t] => proc'[w] = proc[w] BY <1>c, <2>1
  <2>4. \A w \in Workers : Saving(w) => Saving(w)' BY <1>a, <2>1, SavingStays
  <2> QED BY <1>b, <2>1, <2>2, <2>3, <2>4, KnownMoves DEF Running, Alive, HasPid
<1>9. ASSUME NEW t \in Starters, SavePid(t) PROVE WorkersAreKnown'
  <2>1. /\ task[t] = "savePid" /\ GoesTo(t, "wait") /\ UNCHANGED <<proc, via>>
        /\ record' = [record EXCEPT ![via[t]] = "pid"]
    BY <1>9 DEF SavePid
  <2>2. PICK v \in Workers : v = via[t] BY <1>d, <2>1
  <2>3. Running(v)' => Alive(v)' BY <1>c, <2>1, <2>2 DEF Alive, HasPid, Running
  <2>4. \A w \in Workers : Running(w)' <=> Running(w) BY <2>1 DEF Running
  <2>5. \A w \in Workers : w # v => record'[w] = record[w] BY <1>c, <2>1, <2>2
  <2>6. \A w \in Workers : w # v /\ Saving(w) => Saving(w)'
    BY <1>a, <2>1, <2>2 DEF Saving, GoesTo, TasksOK
  <2>7. \A w \in Workers : w # v /\ Alive(w) => Alive(w)' BY <2>1, <2>5 DEF Alive, HasPid, Running
  <2>8. \A w \in Workers : Running(w)' =>
          \/ Running(w) /\ (Alive(w) => Alive(w)') /\ (Saving(w) => Alive(w)' \/ Saving(w)')
          \/ Alive(w)' \/ Saving(w)'
    BY <2>3, <2>4, <2>6, <2>7
  <2> QED BY <1>b, <2>8, KnownMoves
<1>10. ASSUME NEW t \in Starters, WaitCrashed(t) PROVE WorkersAreKnown'
  <2>1. /\ task[t] = "wait" /\ ~Alive(via[t]) /\ UNCHANGED proc
        /\ record' = [record EXCEPT ![via[t]] = "none"] /\ Leaves(t)
    BY <1>10 DEF WaitCrashed, GiveUp, StartFails
  <2>2. GoesTo(t, "idle") /\ \A u \in Starters \ {t} : via'[u] = via[u]
    BY <1>a, <2>1 DEF Leaves, TasksOK
  <2>3. \A w \in Workers : Running(w)' /\ Alive(w) => Alive(w)'
    BY <1>c, <2>1 DEF Alive, HasPid, Running
  <2>4. \A w \in Workers : Running(w)' => Running(w) BY <2>1 DEF Running
  <2>5. task[t] \in Held BY <2>1 DEF Held
  <2> QED BY <1>2, <2>1, <2>2, <2>3, <2>4, <2>5
<1>11. ASSUME NEW t \in Starters, WaitTimesOut(t) PROVE WorkersAreKnown'
  <2>1. CASE Running(via[t])
    <3>1. "timedOut" \in lapses' BY <1>11, <2>1 DEF WaitTimesOut, Lapse
    <3> QED BY <3>1 DEF WorkersAreKnown, LosesTrack
  <2>2. CASE ~Running(via[t])
    <3>1. /\ task[t] = "wait" /\ UNCHANGED proc
          /\ record' = [record EXCEPT ![via[t]] = "none"] /\ Leaves(t)
      BY <1>11 DEF WaitTimesOut, GiveUp, StartFails
    <3>2. GoesTo(t, "idle") /\ \A u \in Starters \ {t} : via'[u] = via[u]
      BY <1>a, <3>1 DEF Leaves, TasksOK
    <3>3. \A w \in Workers : Running(w)' /\ Alive(w) => Alive(w)'
      BY <1>c, <2>2, <3>1 DEF Alive, HasPid, Running
    <3>4. \A w \in Workers : Running(w)' => Running(w) BY <3>1 DEF Running
    <3>5. task[t] \in Held BY <3>1 DEF Held
    <3> QED BY <1>2, <3>1, <3>2, <3>3, <3>4, <3>5
  <2> QED BY <2>1, <2>2
<1>12. ASSUME NEW t \in Starters, UnwindStops(t) PROVE WorkersAreKnown'
  <2>1. /\ task[t] = "stop" /\ Signal({via[t]}) /\ StartFails(t)
        /\ record' = [record EXCEPT ![via[t]] = "none"]
    BY <1>12 DEF UnwindStops
  <2>2. CASE Alive(via[t]) /\ via[t] \in unpinned
    <3>1. "unpinned" \in lapses' BY <1>12, <2>2 DEF UnwindStops, Lapse
    <3> QED BY <3>1 DEF WorkersAreKnown, LosesTrack
  <2>3. CASE ~(Alive(via[t]) /\ via[t] \in unpinned)
    <3>1. GoesTo(t, "idle") /\ \A u \in Starters \ {t} : via'[u] = via[u]
      BY <1>a, <2>1, OthersStay
    <3>2. \A w \in Workers : Running(w)' => Running(w)
      BY <1>c, <2>1 DEF Signal, Running
    <3>3. \A w \in Workers : Running(w)' /\ Alive(w) => w # via[t]
      BY <2>1, <2>3 DEF Signal, Pinned, Running
    <3>4. \A w \in Workers : Running(w)' /\ Alive(w) => Alive(w)'
      BY <1>c, <2>1, <3>3 DEF Alive, HasPid, Running
    <3>5. task[t] \in Held BY <2>1 DEF Held
    <3> QED BY <1>2, <2>1, <3>1, <3>2, <3>4, <3>5
  <2> QED BY <2>2, <2>3
<1>13. ASSUME NEW t \in Starters, CheckEnds(t) PROVE WorkersAreKnown'
  <2>1. task[t] = "probing" /\ UNCHANGED record /\ Leaves(t) BY <1>13 DEF CheckEnds
  <2>2. GoesTo(t, "idle") /\ \A u \in Starters \ {t} : via'[u] = via[u]
    BY <1>a, <2>1, OthersStay
  <2>3. \A w \in Workers : Running(w)' => Running(w)
    BY <1>c, <1>13 DEF CheckEnds, BeginStop, Signal, Running
  <2>4. \A w \in Workers : Running(w)' /\ Alive(w) => Alive(w)'
    BY <2>1 DEF Alive, HasPid, Running
  <2>5. \A w \in Workers : Saving(w) => Saving(w)' BY <1>a, <2>1, <2>2, SavingStays
  <2> QED BY <1>b, <2>3, <2>4, <2>5, KnownMoves
<1>14. CASE Restart
  <2>1. "restarted" \in lapses' BY <1>14 DEF Restart, Lapse
  <2> QED BY <2>1 DEF WorkersAreKnown, LosesTrack
<1>15. CASE SweepKills
  <2>1. UNCHANGED <<task, via, record>> BY <1>15 DEF SweepKills
  <2>2. \A w \in Workers : Running(w)' => Running(w)
    BY <1>c, <1>15 DEF SweepKills, BeginStop, Signal, Running
  <2> QED BY <1>3, <2>1, <2>2 DEF Alive, HasPid, Running
<1>16. ASSUME NEW t \in Starters,
              \/ WantTunnel(t) \/ LockStarts(t) \/ WaitReady(t) \/ LaunchSucceeds(t)
              \/ LaunchUnsaved(t) \/ LaunchFailed(t) \/ UnwindLocks(t) \/ UnwindLooks(t)
              \/ BrowserQuits(t)
       PROVE  WorkersAreKnown'
  <2>1. task[t] # "savePid" /\ UNCHANGED <<proc, record>>
    BY <1>16 DEF WantTunnel, LockStarts, WaitReady, LaunchSucceeds, LaunchUnsaved,
       LaunchFailed, UnwindLocks, UnwindLooks, BrowserQuits
  <2>2. \E step : GoesTo(t, step)
    BY <1>16 DEF WantTunnel, LockStarts, WaitReady, Obtain, LaunchSucceeds, LaunchUnsaved,
       LaunchFailed, UnwindLocks, UnwindLooks, BrowserQuits, Leaves
  <2>3. \A u \in Starters \ {t} : via'[u] = via[u]
    BY <1>a, <1>16 DEF WantTunnel, LockStarts, WaitReady, Obtain, LaunchSucceeds, LaunchUnsaved,
       LaunchFailed, UnwindLocks, UnwindLooks, BrowserQuits, Leaves, TasksOK
  <2> QED BY <1>1, <2>1, <2>2, <2>3
<1>17. CASE UNCHANGED <<task, via, proc, record>> BY <1>3, <1>17 DEF Running, Alive, HasPid
\* A start that fails before its worker is known leaves none running, or is one of the ways.
<1>18. ASSUME NEW t \in Starters, FindFails(t) \/ SpawnFails(t) PROVE WorkersAreKnown'
  <2>1. task[t] \in Held /\ task[t] # "savePid" /\ StartFails(t)
    BY <1>18 DEF FindFails, SpawnFails, Held
  <2>2. GoesTo(t, "idle") /\ \A u \in Starters \ {t} : via'[u] = via[u]
    BY <1>a, <2>1, OthersStay
  <2>3. \A w \in Workers : Running(w)' => Running(w)
    BY <1>c, <1>18 DEF FindFails, SpawnFails, Running
  <2>4. \A w \in Workers : Alive(w) => record'[w] = record[w]
    BY <1>18 DEF FindFails, SpawnFails, Kept
  <2>5. \A w \in Workers : Running(w)' /\ Alive(w) => Alive(w)'
    BY <2>4 DEF Alive, HasPid, Running
  <2> QED BY <1>2, <2>1, <2>2, <2>3, <2>5
<1>19. ASSUME NEW t \in Starters, SavePidFails(t) PROVE WorkersAreKnown'
  <2>1. CASE Running(via[t])
    <3>1. "unwritten" \in lapses' BY <1>19, <2>1 DEF SavePidFails, Lapse
    <3> QED BY <3>1 DEF WorkersAreKnown, LosesTrack
  <2>2. CASE ~Running(via[t])
    <3>1. /\ task[t] = "savePid" /\ StartFails(t) /\ UNCHANGED proc
          /\ \A w \in Workers : w # via[t] => record'[w] = record[w]
      BY <1>c, <1>19 DEF SavePidFails, WriteFails
    <3>2. GoesTo(t, "idle") /\ \A u \in Starters \ {t} : via'[u] = via[u]
      BY <1>a, <3>1, OthersStay
    <3>3. \A w \in Workers : Running(w)' => Running(w) /\ w # via[t]
      BY <2>2, <3>1 DEF Running
    <3>4. \A w \in Workers : w # via[t] /\ Alive(w) => Alive(w)'
      BY <3>1 DEF Alive, HasPid, Running
    <3>5. \A w \in Workers : w # via[t] /\ Saving(w) => Saving(w)'
      BY <1>a, <3>2 DEF Saving, GoesTo, TasksOK
    <3> QED BY <1>b, <3>3, <3>4, <3>5, KnownMoves
  <2> QED BY <2>1, <2>2
<1> QED
  BY <1>4, <1>5, <1>6, <1>7, <1>8, <1>9, <1>10, <1>11, <1>12, <1>13, <1>14, <1>15, <1>16, <1>17,
     <1>18, <1>19 DEF TunnelNext, tunnelVars, SweepLooks

(***************************************************************************)
(* One tunnel.                                                             *)
(***************************************************************************)
OneInv ==
  Tracked =>
    /\ \A v, w \in Workers : Running(v) /\ Running(w) => v = w
    /\ \A t \in Starters : task[t] = "spawn" => \A w \in Workers : ~Running(w)

LEMMA OneStep ==
  ASSUME TunnelTypeOK, LockInv, WorkersAreKnown, OneInv, [TunnelNext]_tunnelVars
  PROVE  OneInv'
<1> USE DEF On
<1>a. FilesOK /\ TasksOK BY TypeParts
<1>b. Tracked' => Tracked BY LapsesGrow DEF Tracked
<1>c. proc \in [Workers -> {"none", "starting", "writing", "serving", "dead"}]
  BY <1>a DEF FilesOK
<1>1. ASSUME \A w \in Workers : Running(w)' => Running(w),
             \A t \in Starters : task'[t] = "spawn" => task[t] = "spawn"
      PROVE  OneInv'
  BY <1>b, <1>1 DEF OneInv
<1>2. ASSUME NEW t \in Starters, NEW step, GoesTo(t, step), step # "spawn"
      PROVE  \A u \in Starters : task'[u] = "spawn" => task[u] = "spawn"
  BY <1>a, <1>2 DEF GoesTo, TasksOK
\* No worker runs when one is about to be spawned.
<1>3. ASSUME NEW t \in Starters, FindWorker(t) PROVE OneInv'
  <2>1. task[t] = "find" /\ UNCHANGED proc BY <1>3 DEF FindWorker
  <2>2. \A w \in Workers : Running(w)' <=> Running(w) BY <2>1 DEF Running
  <2>3. CASE \E step : GoesTo(t, step) /\ step # "spawn" BY <1>1, <1>2, <2>2, <2>3
  <2>4. CASE (\A w \in Workers : ~Alive(w)) /\ GoesTo(t, "spawn")
    <3>2. task[t] \in Held /\ task[t] # "savePid" BY <2>1 DEF Held
    <3>3. Tracked => \A w \in Workers : ~Running(w) BY <1>a, <2>4, <3>2, AllAlive
    <3> QED BY <1>b, <2>2, <3>3 DEF OneInv
  <2>5. CASE GoesTo(t, "wait") BY <2>3, <2>5
  <2>6. CASE \E w \in Workers : Obtain(t, w, FALSE)
    BY <2>3, <2>6 DEF Obtain
  <2> QED BY <1>3, <2>4, <2>5, <2>6 DEF FindWorker
\* The one spawned is the only one, and nobody else is about to spawn.
<1>4. ASSUME NEW t \in Starters, SpawnWorker(t) PROVE OneInv'
  <2>1. /\ task[t] = "spawn" /\ GoesTo(t, "savePid")
        /\ proc' = [proc EXCEPT ![via[t]] = "starting"]
    BY <1>4 DEF SpawnWorker
  <2>2. \A u \in Starters : task'[u] # "spawn"
    BY <1>a, <2>1 DEF LockInv, Held, GoesTo, TasksOK
  <2>3. Tracked => \A w \in Workers : ~Running(w) BY <2>1 DEF OneInv
  <2>4. \A w \in Workers : w # via[t] => proc'[w] = proc[w] BY <1>c, <2>1
  <2>5. Tracked' => \A w \in Workers : Running(w)' => w = via[t]
    BY <1>b, <2>3, <2>4 DEF Running
  <2> QED BY <2>2, <2>5 DEF OneInv
<1>5. ASSUME NEW w \in Workers,
             \/ WorkerReads(w) \/ WorkerServes(w) \/ WorkerUnwritten(w) \/ WorkerDies(w)
             \/ UserStops(w) \/ DeleteRecord(w) \/ ReapRecord(w)
      PROVE  OneInv'
  <2>1. \A v \in Workers : Running(v)' => Running(v)
    BY <1>c, <1>5 DEF WorkerReads, WorkerServes, WorkerUnwritten, WorkerDies, UserStops,
       DeleteRecord, ReapRecord, BeginStop, Signal, Running
  <2>2. UNCHANGED task
    BY <1>5 DEF WorkerReads, WorkerServes, WorkerUnwritten, WorkerDies, UserStops,
       DeleteRecord, ReapRecord
  <2> QED BY <1>1, <2>1, <2>2
<1>6. ASSUME NEW t \in Starters,
             \/ FindFails(t) \/ SpawnFails(t) \/ SavePidFails(t) \/ WaitCrashed(t)
             \/ WaitTimesOut(t) \/ UnwindStops(t) \/ CheckEnds(t)
      PROVE  OneInv'
  <2>1. \A v \in Workers : Running(v)' => Running(v)
    BY <1>c, <1>6 DEF FindFails, SpawnFails, SavePidFails, WaitCrashed, WaitTimesOut, GiveUp,
       UnwindStops, CheckEnds, BeginStop, Signal, Running
  <2>2. StartFails(t) \/ Leaves(t)
    BY <1>6 DEF FindFails, SpawnFails, SavePidFails, WaitCrashed, WaitTimesOut, GiveUp,
       UnwindStops, CheckEnds
  <2>3. GoesTo(t, "idle") BY <1>a, <2>2, OthersStay
  <2> QED BY <1>1, <1>2, <2>1, <2>3
<1>7. CASE Restart \/ SweepKills
  <2>1. \A v \in Workers : Running(v)' => Running(v)
    BY <1>c, <1>7 DEF Restart, SweepKills, BeginStop, Signal, Running
  <2>2. \A t \in Starters : task'[t] = "spawn" => task[t] = "spawn"
    BY <1>7 DEF Restart, SweepKills
  <2> QED BY <1>1, <2>1, <2>2
<1>8. ASSUME NEW t \in Starters,
              \/ WantTunnel(t) \/ LockStarts(t) \/ SavePid(t) \/ WaitReady(t)
              \/ LaunchSucceeds(t) \/ LaunchUnsaved(t) \/ LaunchFailed(t)
              \/ UnwindLocks(t) \/ UnwindLooks(t) \/ BrowserQuits(t)
      PROVE  OneInv'
  <2>1. UNCHANGED proc
    BY <1>8 DEF WantTunnel, LockStarts, SavePid, WaitReady, LaunchSucceeds, LaunchUnsaved,
       LaunchFailed, UnwindLocks, UnwindLooks, BrowserQuits
  <2>2. \E step : GoesTo(t, step) /\ step # "spawn"
    BY <1>8 DEF WantTunnel, LockStarts, SavePid, WaitReady, Obtain, LaunchSucceeds,
       LaunchUnsaved, LaunchFailed, UnwindLocks, UnwindLooks, BrowserQuits, Leaves
  <2> QED BY <1>1, <1>2, <2>1, <2>2 DEF Running
<1>9. CASE UNCHANGED <<task, proc>> BY <1>1, <1>9 DEF Running
<1> QED
  BY <1>3, <1>4, <1>5, <1>6, <1>7, <1>8, <1>9 DEF TunnelNext, tunnelVars, SweepLooks

LEMMA StartWorkers ==
  ASSUME TunnelInit PROVE LockInv /\ TraceInv /\ WorkersAreKnown /\ OneInv
<1>1. /\ task = [t \in Starters |-> "idle"] /\ stopping = {} /\ unpinned \in {{}, Workers \cap {1}}
      /\ proc = [w \in Workers |-> IF w \in unpinned THEN "serving" ELSE "none"]
      /\ record = [w \in Workers |-> IF w \in unpinned THEN "both" ELSE "none"]
  BY DEF TunnelInit
<1>2. \A t \in Starters : task[t] = "idle" BY <1>1
<1>3. \A w \in Workers : Running(w) => Alive(w) /\ w = 1 BY <1>1 DEF Running, Alive, HasPid
<1>4. \A w \in Workers : HasPid(w) => proc[w] # "none" BY <1>1 DEF HasPid
<1>5. LockInv /\ TraceInv BY <1>1, <1>2, <1>4 DEF LockInv, Held, TraceInv
<1>6. WorkersAreKnown BY <1>3 DEF WorkersAreKnown
<1>7. OneInv BY <1>2, <1>3 DEF OneInv
<1> QED BY <1>5, <1>6, <1>7

\* A worker process that runs is recorded with its pid, or its pid is about to be recorded
\* under VPN_START_LOCK, unless the application lost it in one of the ways named: those of
\* start_vpn_worker_tracked, its `?` after the spawn among them, of stop_vpn_worker, which
\* forgets what it cannot pin, of the worker's own write, and a restart.
THEOREM WorkersStayKnown == TunnelSpec => []WorkersAreKnown
<1>1. TunnelInit => LockInv /\ TraceInv /\ WorkersAreKnown BY StartWorkers
<1>2. /\ TunnelTypeOK /\ LockInv /\ TraceInv /\ WorkersAreKnown /\ [TunnelNext]_tunnelVars
      => LockInv' /\ TraceInv' /\ WorkersAreKnown'
  BY TypeParts, LockStep, TraceStep, KnownStep
<1> QED
  BY <1>1, <1>2, TunnelTypes, PTL DEF TunnelSpec

LEMMA OneIsEnough == ASSUME OneInv PROVE OneTunnel
<1> DEFINE S == {w \in Workers : Running(w)}
<1>1. SUFFICES ASSUME Tracked PROVE Cardinality(S) <= 1
  BY DEF OneTunnel, Tracked
<1>2. \A v, w \in S : v = w BY <1>1 DEF OneInv
<1>3. CASE S = {} BY <1>3, FS_EmptySet
<1>4. CASE S # {}
  <2>1. PICK w : w \in S BY <1>4
  <2>2. S = {w} BY <1>2, <2>1
  <2> HIDE DEF S
  <2>3. Cardinality(S) = 1 BY <2>2, FS_Singleton
  <2> QED BY <2>3
<1> QED BY <1>3, <1>4

\* At most one worker process carries the VPN, however many launches and checks ask for it at
\* once, unless the application lost one in the ways named.
THEOREM TunnelIsShared == TunnelSpec => []OneTunnel
<1>1. TunnelInit => LockInv /\ TraceInv /\ WorkersAreKnown /\ OneInv BY StartWorkers
<1>2. /\ TunnelTypeOK /\ LockInv /\ TraceInv /\ WorkersAreKnown /\ OneInv
      /\ [TunnelNext]_tunnelVars
      => LockInv' /\ TraceInv' /\ WorkersAreKnown' /\ OneInv'
  BY TypeParts, LockStep, TraceStep, KnownStep, OneStep
<1> QED
  BY <1>1, <1>2, OneIsEnough, TunnelTypes, PTL DEF TunnelSpec
================================================================================
