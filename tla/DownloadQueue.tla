---------------------------- MODULE DownloadQueue ----------------------------
(***************************************************************************)
(* The queue of video downloads (video_downloader.rs): calls of the user   *)
(* change the status of a task under one mutex, try_start_next spawns a    *)
(* run for a waiting task, and a run tries the download several times, each *)
(* time with a child process that a pause kills by the pid in running_pids. *)
(* Between two acquisitions of the mutex a run knows only what it read.    *)
(*                                                                         *)
(* Restarts of the application and the bounded number of tries per site    *)
(* are left out; the name of a task stands for its URL as well.            *)
(***************************************************************************)
EXTENDS Naturals, FiniteSets

CONSTANTS
  Downloads,     \* the tasks
  MaxConcurrent, \* the setting max_concurrent, 0 for no limit
  Attempts,      \* tries of a run
  MaxRuns,       \* bound: runs spawned
  MaxCalls       \* bound: calls of the user

ASSUME QueueAssumption ==
  /\ IsFiniteSet(Downloads) /\ 0 \notin Downloads
  /\ MaxConcurrent \in Nat /\ Attempts \in Nat \ {0} /\ MaxRuns \in Nat /\ MaxCalls \in Nat

Runs == 1 .. MaxRuns
NoRun == 0

VARIABLES
  status,  \* each task's status; "new" before it is added, "gone" after it is deleted
  pids,    \* running_pids: the run whose child is registered for the task
  runs,    \* the spawned tasks
  starts,  \* calls of try_start_next that are due
  calls,   \* counter of the bound
  fetched, \* history: tasks whose file a child has downloaded
  untimely \* history: what the properties leave out

queueVars == <<status, pids, runs, starts, calls, fetched, untimely>>

Statuses == {"new", "waiting", "downloading", "paused", "completed", "error", "cancelled",
             "gone"}
NoSuchRun == [step |-> "none", task |-> NoRun, tries |-> 0, killed |-> FALSE, quiet |-> FALSE]

RunSteps == {"none", "prepare", "register", "work", "mark", "failed", "unregister", "settle",
             "complete", "fail", "over"}

QueueTypeOK ==
  /\ status \in [Downloads -> Statuses]
  /\ pids \in [Downloads -> Runs \cup {NoRun}]
  /\ runs \in [Runs -> [step : RunSteps, task : Downloads \cup {NoRun}, tries : 0 .. Attempts,
                       killed : BOOLEAN, quiet : BOOLEAN]]
  /\ \A r \in Runs : runs[r].step # "none" => runs[r].task # NoRun /\ runs[r].tries > 0
  /\ starts \in Nat /\ calls \in 0 .. MaxCalls
  /\ fetched \subseteq Downloads /\ untimely \subseteq {"early", "late"}

QueueInit ==
  /\ status = [d \in Downloads |-> "new"]
  /\ pids = [d \in Downloads |-> NoRun]
  /\ runs = [r \in Runs |-> NoSuchRun]
  /\ starts = 0 /\ calls = 0 /\ fetched = {} /\ untimely = {}

At(r, step) == runs[r].step = step
Active(r) == ~At(r, "none") /\ ~At(r, "over")
Busy(d) == \E r \in Runs : Active(r) /\ runs[r].task = d
Doomed(d) == \E r \in Runs : runs[r].task = d /\ ~runs[r].quiet
                             /\ (At(r, "unregister") \/ At(r, "fail"))
Goes(r, step) == runs' = [runs EXCEPT ![r].step = step]
GoesQuietly(r) == runs' = [runs EXCEPT ![r].step = "unregister", ![r].quiet = TRUE]
\* A status is written only for a task that is still in the table.
Sets(d, value) == status' = [status EXCEPT ![d] = IF @ = "gone" THEN @ ELSE value]

(***************************************************************************)
(* Calls.                                                                  *)
(***************************************************************************)
Call == calls < MaxCalls /\ calls' = calls + 1
Kill(killed) == [r \in Runs |-> IF r \in killed THEN [runs[r] EXCEPT !.killed = TRUE] ELSE runs[r]]
Registered(tasks) == {pids[d] : d \in tasks} \ {NoRun}
Unregister(tasks) == [d \in Downloads |-> IF d \in tasks THEN NoRun ELSE pids[d]]
Becomes(tasks, value) == [d \in Downloads |-> IF d \in tasks THEN value ELSE status[d]]
Early(tasks) == IF \E d \in tasks : Busy(d) THEN {"early"} ELSE {}

AddTask(d) ==
  /\ Call /\ status[d] = "new"
  /\ status' = [status EXCEPT ![d] = "waiting"]
  /\ starts' = starts + 1
  /\ UNCHANGED <<pids, runs, fetched, untimely>>

\* The status of a task that downloads is left alone: its child is killed.
CancelTask(d) ==
  /\ Call /\ status[d] \notin {"new", "gone"}
  /\ LET stopped == {d} \cap {e \in Downloads : status[e] \in {"waiting", "paused", "error"}} IN
       /\ status' = Becomes(stopped, "cancelled")
       /\ untimely' = untimely \cup Early(stopped)
  /\ runs' = Kill(Registered({d}))
  /\ UNCHANGED <<pids, starts, fetched>>

\* pause_task of one, pause_all of all of them.
PauseTasks(tasks) ==
  /\ Call
  /\ LET paused == {d \in tasks : status[d] \in {"downloading", "waiting"}}
         stopped == IF tasks = Downloads THEN paused ELSE tasks
     IN /\ status' = Becomes(paused, "paused")
        /\ runs' = Kill(Registered(stopped))
        /\ pids' = Unregister(stopped)
        /\ untimely' = untimely \cup (IF \E d \in paused : Doomed(d) THEN {"late"} ELSE {})
  /\ UNCHANGED <<starts, fetched>>

\* retry_task, which resumes as well, and retry_all; one start is due for all of them.
RetryTasks(tasks) ==
  /\ Call
  /\ LET again == {d \in tasks : status[d] \in {"error", "cancelled", "paused"}} IN
       /\ again # {}
       /\ status' = Becomes(again, "waiting")
       /\ untimely' = untimely \cup Early(again)
  /\ starts' = starts + 1
  /\ UNCHANGED <<pids, runs, fetched>>

\* delete_task and delete_all.
DeleteTasks(tasks) ==
  /\ Call
  /\ LET known == {d \in tasks : status[d] # "new"} IN
       /\ known # {}
       /\ status' = Becomes(known, "gone")
       /\ runs' = Kill(Registered(tasks))
       /\ pids' = Unregister(tasks)
  /\ UNCHANGED <<starts, fetched, untimely>>

ClearFinished ==
  /\ Call
  /\ status' = Becomes({d \in Downloads : status[d] \in {"completed", "error", "cancelled"}},
                       "gone")
  /\ UNCHANGED <<pids, runs, starts, fetched, untimely>>

(***************************************************************************)
(* try_start_next.                                                         *)
(***************************************************************************)
Downloading == {d \in Downloads : status[d] = "downloading"}
Full == MaxConcurrent > 0 /\ Cardinality(Downloading) >= MaxConcurrent
Waiting == {d \in Downloads : status[d] = "waiting"}

StartNext ==
  /\ starts > 0
  /\ starts' = starts - 1
  /\ \/ /\ Full \/ Waiting = {}
        /\ UNCHANGED <<status, runs>>
     \/ /\ ~Full
        /\ \E d \in Waiting, r \in Runs :
             /\ At(r, "none") /\ \A s \in 1 .. r - 1 : ~At(s, "none")
             /\ status' = [status EXCEPT ![d] = "downloading"]
             /\ runs' = [runs EXCEPT ![r] = [step |-> "prepare", task |-> d, tries |-> Attempts,
                                             killed |-> FALSE, quiet |-> FALSE]]
  /\ UNCHANGED <<pids, calls, fetched, untimely>>

(***************************************************************************)
(* A run.                                                                  *)
(***************************************************************************)
\* The link is resolved and the cookies fetched, which may fail; the child is spawned.
PrepareDownload(r) ==
  /\ At(r, "prepare")
  /\ \E step \in {"register", "failed"} :
       runs' = [runs EXCEPT ![r].step = step, ![r].killed = FALSE]
  /\ UNCHANGED <<status, pids, starts, calls, fetched, untimely>>

RegisterPid(r) ==
  /\ At(r, "register")
  /\ pids' = [pids EXCEPT ![runs[r].task] = r]
  /\ Goes(r, "work")
  /\ UNCHANGED <<status, starts, calls, fetched, untimely>>

\* The child ends: killed or by itself, with the file or without.  A file that had been
\* downloaded before is not marked here.
ChildEnds(r) ==
  /\ At(r, "work")
  /\ \/ /\ ~runs[r].killed
        /\ fetched' = fetched \cup {runs[r].task}
        /\ Goes(r, "mark") \/ GoesQuietly(r)
     \/ Goes(r, "failed") /\ UNCHANGED fetched
  /\ UNCHANGED <<status, pids, starts, calls, untimely>>

MarkDownloaded(r) ==
  /\ At(r, "mark")
  /\ Sets(runs[r].task, "completed")
  /\ GoesQuietly(r)
  /\ UNCHANGED <<pids, starts, calls, fetched, untimely>>

\* Mutant: one try too many.
AskPausedOnceMore(r) ==
  /\ At(r, "failed")
  /\ LET paused == status[runs[r].task] = "paused" IN
     \/ paused /\ GoesQuietly(r)
     \/ ~paused /\ runs[r].tries >= 1
        /\ runs' = [runs EXCEPT ![r].step = "prepare", ![r].tries = @ - 1]
     \/ ~paused /\ runs[r].tries < 1 /\ Goes(r, "unregister")
  /\ UNCHANGED <<status, pids, starts, calls, fetched, untimely>>

\* Mutant: a failure is not asked whether it was a pause.
AskPausedNever(r) ==
  /\ At(r, "failed")
  /\ \/ runs[r].tries > 1 /\ runs' = [runs EXCEPT ![r].step = "prepare", ![r].tries = @ - 1]
     \/ runs[r].tries = 1 /\ Goes(r, "unregister")
  /\ UNCHANGED <<status, pids, starts, calls, fetched, untimely>>

\* A failure of a paused task is no error; any other one is tried again.
AskPaused(r) ==
  /\ At(r, "failed")
  /\ LET paused == status[runs[r].task] = "paused" IN
     \/ paused /\ GoesQuietly(r)
     \/ ~paused /\ runs[r].tries > 1
        /\ runs' = [runs EXCEPT ![r].step = "prepare", ![r].tries = @ - 1]
     \/ ~paused /\ runs[r].tries = 1 /\ Goes(r, "unregister")
  /\ UNCHANGED <<status, pids, starts, calls, fetched, untimely>>

\* Mutant: the result of the run is dropped.
UnregisterPidOnly(r) ==
  /\ At(r, "unregister")
  /\ pids' = [pids EXCEPT ![runs[r].task] = NoRun]
  /\ Goes(r, "settle")
  /\ UNCHANGED <<status, starts, calls, fetched, untimely>>

UnregisterPid(r) ==
  /\ At(r, "unregister")
  /\ pids' = [pids EXCEPT ![runs[r].task] = NoRun]
  /\ Goes(r, IF runs[r].quiet THEN "settle" ELSE "fail")
  /\ UNCHANGED <<status, starts, calls, fetched, untimely>>

Ends(r) == Goes(r, "over") /\ starts' = starts + 1

\* The second look at the status, after a success or a pause ...
SettleRun(r) ==
  /\ At(r, "settle")
  /\ IF status[runs[r].task] = "paused" THEN Ends(r)
     ELSE Goes(r, "complete") /\ UNCHANGED starts
  /\ UNCHANGED <<status, pids, calls, fetched, untimely>>

\* ... takes a task that is not paused for one that is downloaded.
SetTaskCompleted(r) ==
  /\ At(r, "complete")
  /\ Sets(runs[r].task, "completed")
  /\ Ends(r)
  /\ UNCHANGED <<pids, calls, fetched, untimely>>

\* Mutant: after an error the next task is not started.
SetTaskErrorOnly(r) ==
  /\ At(r, "fail")
  /\ Sets(runs[r].task, "error")
  /\ Goes(r, "over")
  /\ UNCHANGED <<starts, pids, calls, fetched, untimely>>

SetTaskError(r) ==
  /\ At(r, "fail")
  /\ Sets(runs[r].task, "error")
  /\ Ends(r)
  /\ UNCHANGED <<pids, calls, fetched, untimely>>

QueueNext ==
  \/ \E d \in Downloads : AddTask(d) \/ CancelTask(d)
  \/ \E tasks \in {{d} : d \in Downloads} \cup {Downloads} :
       PauseTasks(tasks) \/ RetryTasks(tasks) \/ DeleteTasks(tasks)
  \/ ClearFinished \/ StartNext
  \/ \E r \in Runs :
       \/ PrepareDownload(r) \/ RegisterPid(r) \/ ChildEnds(r) \/ MarkDownloaded(r)
       \/ AskPaused(r) \/ UnregisterPid(r) \/ SettleRun(r)
       \/ SetTaskCompleted(r) \/ SetTaskError(r)

QueueSpec == QueueInit /\ [][QueueNext]_queueVars

(***************************************************************************)
(* Properties.                                                             *)
(***************************************************************************)
\* A task shown as completed has its file, unless it was resumed or cancelled before the
\* run it had been paused under was over: the second look of that run then finds the task
\* not paused and completes it without a file.
CompletedIsDownloaded ==
  "early" \notin untimely =>
    \A d \in Downloads : status[d] = "completed" => d \in fetched

\* Nothing is stranded: for a waiting task a start is due or a run will end and ask for
\* one, and a task shown as downloading, which counts against the limit, has a run that
\* will settle it.
NobodyStranded ==
  /\ Waiting # {} => starts > 0 \/ \E r \in Runs : Active(r)
  /\ \A d \in Downloading : Busy(d)

\* What the user sees of a task.
Shown(d) ==
  CASE status[d] \in {"new", "gone"} -> "absent"
    [] status[d] = "downloading" -> "active"
    [] status[d] = "completed" -> "done"
    [] status[d] = "error" -> "failed"
    [] OTHER -> status[d]

Promise == INSTANCE DownloadTasks WITH
  Tasks <- Downloads, Room <- MaxConcurrent,
  state <- [d \in Downloads |-> Shown(d)], files <- fetched, astray <- untimely # {}

\* The queue keeps what DownloadTasks promises, until a task is resumed or cancelled before
\* the run it had been paused under is over, or paused after its last try was found to
\* fail: a pause holds, no task is done without its file, the limit is kept, whatever
\* the runs and their children do between two acquisitions of the mutex.
QueueKeepsPromise == Promise!TasksSpec

===============================================================================
