-------------------------- MODULE DownloadQueueProofs --------------------------
(***************************************************************************)
(* What holds of the queue of downloads for any number of tasks, runs,     *)
(* tries and calls, and that it implements DownloadTasks.                  *)
(***************************************************************************)
EXTENDS DownloadQueue, FiniteSetTheorems, TLAPS

USE QueueAssumption

(***************************************************************************)
(* How the runs move.                                                      *)
(***************************************************************************)
RunRecords == [step : RunSteps, task : Downloads \cup {NoRun}, tries : 0 .. Attempts,
               killed : BOOLEAN, quiet : BOOLEAN]
RunsOK ==
  /\ runs \in [Runs -> RunRecords]
  /\ \A r \in Runs : runs[r].step # "none" => runs[r].task # NoRun /\ runs[r].tries > 0

\* A call changes no more of a run than that its child was killed.
RunsStay ==
  \A r \in Runs : runs'[r].step = runs[r].step /\ runs'[r].task = runs[r].task
                  /\ runs'[r].quiet = runs[r].quiet
\* A step of a run moves no other one.
OnlyRun(r) ==
  /\ runs'[r].task = runs[r].task
  /\ \A s \in Runs \ {r} : runs'[s] = runs[s]

LEMMA KillRuns ==
  ASSUME RunsOK, NEW killed, runs' = Kill(killed)
  PROVE  RunsOK' /\ RunsStay
<1>1. \A r \in Runs : /\ runs'[r] \in RunRecords
                      /\ runs'[r].step = runs[r].step /\ runs'[r].task = runs[r].task
                      /\ runs'[r].quiet = runs[r].quiet /\ runs'[r].tries = runs[r].tries
  BY DEF RunsOK, Kill, RunRecords
<1>2. runs' = [r \in Runs |-> runs'[r]]
  BY DEF Kill
<1> QED
  BY <1>1, <1>2 DEF RunsOK, RunsStay

Calls ==
  \/ \E d \in Downloads : AddTask(d) \/ CancelTask(d)
  \/ \E tasks \in {{d} : d \in Downloads} \cup {Downloads} :
       PauseTasks(tasks) \/ RetryTasks(tasks) \/ DeleteTasks(tasks)
  \/ ClearFinished

RunStep(r) ==
  \/ PrepareDownload(r) \/ RegisterPid(r) \/ ChildEnds(r) \/ MarkDownloaded(r)
  \/ AskPaused(r) \/ UnregisterPid(r) \/ SettleRun(r)
  \/ SetTaskCompleted(r) \/ SetTaskError(r)

LEMMA QueueSteps == QueueNext <=> Calls \/ StartNext \/ \E r \in Runs : RunStep(r)
BY DEF QueueNext, Calls, RunStep

LEMMA CallRuns ==
  ASSUME RunsOK, Calls
  PROVE  RunsOK' /\ RunsStay
<1> USE KillRuns
<1>1. ASSUME UNCHANGED runs PROVE RunsOK' /\ RunsStay
  BY <1>1 DEF RunsOK, RunsStay
<1> QED
  BY <1>1 DEF Calls, AddTask, CancelTask, PauseTasks, RetryTasks, DeleteTasks, ClearFinished

LEMMA MoveRun ==
  ASSUME RunsOK, NEW r \in Runs, Active(r),
         runs' \in [Runs -> RunRecords], runs'[r].task = runs[r].task, runs'[r].tries > 0,
         \A s \in Runs \ {r} : runs'[s] = runs[s]
  PROVE  RunsOK' /\ OnlyRun(r) /\ runs[r].task \in Downloads
BY DEF RunsOK, RunRecords, OnlyRun, Active, At

LEMMA StepRuns ==
  ASSUME RunsOK, NEW r \in Runs, RunStep(r)
  PROVE  RunsOK' /\ OnlyRun(r) /\ runs[r].task \in Downloads /\ Active(r)
<1>1. Active(r) /\ runs \in [Runs -> RunRecords] /\ runs[r].tries \in 1 .. Attempts
  BY DEF RunStep, PrepareDownload, RegisterPid, ChildEnds, MarkDownloaded, AskPaused,
         UnregisterPid, SettleRun, SetTaskCompleted, SetTaskError, Active, At, RunsOK, RunRecords
<1> DEFINE Moved == /\ runs' \in [Runs -> RunRecords] /\ runs'[r].task = runs[r].task
                    /\ runs'[r].tries > 0 /\ \A s \in Runs \ {r} : runs'[s] = runs[s]
<1>2. ASSUME NEW step \in RunSteps, Goes(r, step) PROVE Moved
  BY <1>1, <1>2 DEF Goes, RunRecords
<1>3. ASSUME GoesQuietly(r) PROVE Moved
  <2>1. runs' \in [Runs -> RunRecords]
    BY <1>1, <1>3 DEF GoesQuietly, RunRecords, RunSteps
  <2>2. runs'[r].task = runs[r].task /\ runs'[r].tries = runs[r].tries
    BY <1>1, <1>3 DEF GoesQuietly, RunRecords
  <2> QED BY <1>1, <1>3, <2>1, <2>2 DEF GoesQuietly
<1>4. ASSUME NEW step \in RunSteps, runs' = [runs EXCEPT ![r].step = step, ![r].killed = FALSE]
      PROVE  Moved
  <2>1. runs' \in [Runs -> RunRecords]
    BY <1>1, <1>4 DEF RunRecords
  <2>2. runs'[r].task = runs[r].task /\ runs'[r].tries = runs[r].tries
    BY <1>1, <1>4 DEF RunRecords
  <2> QED BY <1>1, <1>4, <2>1, <2>2
<1>5. ASSUME runs[r].tries > 1, runs' = [runs EXCEPT ![r].step = "prepare", ![r].tries = @ - 1]
      PROVE  Moved
  <2>1. runs' \in [Runs -> RunRecords]
    BY <1>1, <1>5 DEF RunRecords, RunSteps
  <2>2. runs'[r].task = runs[r].task /\ runs'[r].tries = runs[r].tries - 1
    BY <1>1, <1>5 DEF RunRecords
  <2> QED BY <1>1, <1>5, <2>1, <2>2
<1>6. Moved
  BY <1>2, <1>3, <1>4, <1>5 DEF RunStep, PrepareDownload, RegisterPid, ChildEnds, MarkDownloaded,
     AskPaused, UnregisterPid, SettleRun, SetTaskCompleted, SetTaskError, Ends, RunSteps
<1> QED
  BY <1>1, <1>6, MoveRun

\* A start with room takes a waiting task and a run that was none.
Started(d, r) ==
  /\ d \in Waiting /\ At(r, "none") /\ ~Full
  /\ status' = [status EXCEPT ![d] = "downloading"]
  /\ runs' = [runs EXCEPT ![r] = [step |-> "prepare", task |-> d, tries |-> Attempts,
                                  killed |-> FALSE, quiet |-> FALSE]]

LEMMA StartRuns ==
  ASSUME RunsOK, StartNext
  PROVE  /\ RunsOK'
         /\ \/ UNCHANGED <<status, runs>> /\ (Full \/ Waiting = {})
            \/ \E d \in Downloads, r \in Runs : Started(d, r)
<1>1. CASE UNCHANGED <<status, runs>> /\ (Full \/ Waiting = {})
  BY <1>1 DEF RunsOK
<1>2. ASSUME NEW d \in Waiting, NEW r \in Runs, Started(d, r)
      PROVE  RunsOK' /\ d \in Downloads
  <2>1. d \in Downloads BY DEF Waiting
  <2>2. [step |-> "prepare", task |-> d, tries |-> Attempts, killed |-> FALSE,
         quiet |-> FALSE] \in RunRecords
    BY <2>1 DEF RunRecords, RunSteps
  <2>3. d # NoRun BY <2>1 DEF NoRun
  <2> QED BY <1>2, <2>1, <2>2, <2>3 DEF Started, RunsOK
<1>3. CASE ~Full /\ Waiting # {}
  <2>1. PICK d \in Waiting, r \in Runs :
          /\ At(r, "none")
          /\ status' = [status EXCEPT ![d] = "downloading"]
          /\ runs' = [runs EXCEPT ![r] = [step |-> "prepare", task |-> d, tries |-> Attempts,
                                          killed |-> FALSE, quiet |-> FALSE]]
    BY <1>3 DEF StartNext
  <2>2. Started(d, r) BY <1>3, <2>1 DEF Started
  <2> QED BY <1>2, <2>2
<1>4. CASE Waiting = {}
  BY <1>1, <1>4 DEF StartNext
<1> QED
  BY <1>1, <1>3, <1>4 DEF StartNext

(***************************************************************************)
(* Types.                                                                  *)
(***************************************************************************)
LEMMA QueueTypeStep ==
  ASSUME QueueTypeOK, [QueueNext]_queueVars
  PROVE  QueueTypeOK'
<1> DEFINE Rest == /\ status \in [Downloads -> Statuses]
                   /\ pids \in [Downloads -> Runs \cup {NoRun}]
                   /\ starts \in Nat /\ calls \in 0 .. MaxCalls
                   /\ fetched \subseteq Downloads /\ untimely \subseteq {"early", "late"}
<1>1. RunsOK /\ Rest
  BY DEF QueueTypeOK, RunsOK, RunRecords
<1>2. RunsOK'
  BY <1>1, QueueSteps, CallRuns, StartRuns, StepRuns DEF RunsOK, queueVars
<1>3. Rest'
  <2> USE DEF Call
  <2>1. ASSUME NEW tasks, NEW value \in Statuses
        PROVE  /\ Becomes(tasks, value) \in [Downloads -> Statuses]
               /\ Unregister(tasks) \in [Downloads -> Runs \cup {NoRun}]
               /\ untimely \cup Early(tasks) \subseteq {"early", "late"}
    BY <1>1, <2>1 DEF Becomes, Unregister, Early
  <2>2. {"waiting", "cancelled", "paused", "gone"} \subseteq Statuses
    BY DEF Statuses
  <2>3. calls < MaxCalls => calls + 1 \in 0 .. MaxCalls
    BY <1>1
  <2>4. ASSUME NEW d \in Downloads, AddTask(d) PROVE Rest'
    BY <1>1, <2>3, <2>4 DEF AddTask, Statuses
  <2>5. ASSUME NEW d \in Downloads, CancelTask(d) PROVE Rest'
    BY <1>1, <2>1, <2>2, <2>3, <2>5 DEF CancelTask
  <2>6. ASSUME NEW tasks, PauseTasks(tasks) PROVE Rest'
    BY <1>1, <2>1, <2>2, <2>3, <2>6 DEF PauseTasks
  <2>7. ASSUME NEW tasks, RetryTasks(tasks) PROVE Rest'
    BY <1>1, <2>1, <2>2, <2>3, <2>7 DEF RetryTasks
  <2>8. ASSUME NEW tasks, DeleteTasks(tasks) PROVE Rest'
    BY <1>1, <2>1, <2>2, <2>3, <2>8 DEF DeleteTasks
  <2>9. CASE ClearFinished
    BY <1>1, <2>1, <2>2, <2>3, <2>9 DEF ClearFinished
  <2>10. CASE StartNext
    BY <1>1, <2>10 DEF StartNext, Statuses
  <2>11. ASSUME NEW r \in Runs, RunStep(r) PROVE Rest'
    <3>1. runs[r].task \in Downloads
      BY <1>1, <2>11, StepRuns
    <3> QED
      BY <1>1, <2>11, <3>1 DEF RunStep, PrepareDownload, RegisterPid, ChildEnds, MarkDownloaded,
         AskPaused, UnregisterPid, SettleRun, SetTaskCompleted, SetTaskError, Sets, Ends, Goes,
         GoesQuietly, Statuses
  <2>12. CASE UNCHANGED queueVars
    BY <1>1, <2>12 DEF queueVars
  <2> QED
    BY <2>4, <2>5, <2>6, <2>7, <2>8, <2>9, <2>10, <2>11, <2>12, QueueSteps DEF Calls
<1> QED
  BY <1>2, <1>3 DEF QueueTypeOK, RunsOK, RunRecords

\* Every variable of DownloadQueue keeps to its type.
THEOREM QueueTypes == QueueSpec => []QueueTypeOK
<1>1. QueueInit => QueueTypeOK
  BY DEF QueueInit, QueueTypeOK, Statuses, RunSteps, NoSuchRun, NoRun
<1> QED
  BY <1>1, QueueTypeStep, PTL DEF QueueSpec
LEMMA TypedRuns == QueueTypeOK => RunsOK
BY DEF QueueTypeOK, RunsOK, RunRecords

\* What a step of a run does to it.
LEMMA StepTo ==
  ASSUME RunsOK, NEW r \in Runs
  PROVE  /\ \A step : Goes(r, step) => runs'[r].step = step /\ runs'[r].quiet = runs[r].quiet
         /\ GoesQuietly(r) => runs'[r].step = "unregister" /\ runs'[r].quiet
         /\ PrepareDownload(r) => runs'[r].step \in {"register", "failed"}
         /\ AskPaused(r) =>
              \/ status[runs[r].task] = "paused" /\ runs'[r].step = "unregister" /\ runs'[r].quiet
              \/ status[runs[r].task] # "paused" /\ runs'[r].step = "prepare"
              \/ status[runs[r].task] # "paused" /\ runs'[r].step = "unregister"
                 /\ runs'[r].quiet = runs[r].quiet
<1>1. \A step : Goes(r, step) => runs'[r].step = step /\ runs'[r].quiet = runs[r].quiet
  BY DEF Goes, RunsOK, RunRecords
<1>2. GoesQuietly(r) => runs'[r].step = "unregister" /\ runs'[r].quiet
  BY DEF GoesQuietly, RunsOK, RunRecords
<1>3. PrepareDownload(r) => runs'[r].step \in {"register", "failed"}
  BY DEF PrepareDownload, RunsOK, RunRecords
<1>4. runs' = [runs EXCEPT ![r].step = "prepare", ![r].tries = @ - 1] => runs'[r].step = "prepare"
  BY DEF RunsOK, RunRecords
<1> QED
  BY <1>1, <1>2, <1>3, <1>4 DEF AskPaused

(***************************************************************************)
(* Nothing is stranded.                                                    *)
(***************************************************************************)
LEMMA StrandedStep ==
  ASSUME QueueTypeOK, NobodyStranded, [QueueNext]_queueVars
  PROVE  NobodyStranded'
<1> USE TypedRuns
<1>1. status \in [Downloads -> Statuses] /\ starts \in Nat
  BY DEF QueueTypeOK
<1>2. ASSUME RunsStay
      PROVE  \A r \in Runs : (Active(r)' <=> Active(r)) /\ runs'[r].task = runs[r].task
  BY <1>2 DEF RunsStay, Active, At
<1>3. CASE Calls
  <2>1. RunsStay BY <1>3, CallRuns
  <2>2. Downloading' \subseteq Downloading
    BY <1>1, <1>3 DEF Calls, AddTask, CancelTask, PauseTasks, RetryTasks, DeleteTasks,
       ClearFinished, Downloading, Becomes
  <2>3. starts' > 0 \/ (Waiting' \subseteq Waiting /\ starts' = starts)
    <3>1. ASSUME NEW tasks, NEW value \in {"cancelled", "paused", "gone"},
                 status' = Becomes(tasks, value), starts' = starts
          PROVE  Waiting' \subseteq Waiting /\ starts' = starts
      BY <3>1 DEF Waiting, Becomes
    <3>2. ASSUME NEW d \in Downloads, AddTask(d) PROVE starts' > 0
      BY <1>1, <3>2 DEF AddTask
    <3>3. ASSUME NEW d \in Downloads, CancelTask(d)
          PROVE  Waiting' \subseteq Waiting /\ starts' = starts
      BY <3>1, <3>3 DEF CancelTask
    <3>4. ASSUME NEW tasks, PauseTasks(tasks) \/ DeleteTasks(tasks)
          PROVE  Waiting' \subseteq Waiting /\ starts' = starts
      BY <3>1, <3>4 DEF PauseTasks, DeleteTasks
    <3>5. ASSUME NEW tasks, RetryTasks(tasks) PROVE starts' > 0
      BY <1>1, <3>5 DEF RetryTasks
    <3>6. CASE ClearFinished
      BY <3>1, <3>6 DEF ClearFinished
    <3> QED BY <1>3, <3>2, <3>3, <3>4, <3>5, <3>6 DEF Calls
  <2>4. \A d \in Downloading' : Busy(d)'
    BY <1>2, <2>1, <2>2 DEF NobodyStranded, Busy
  <2>5. Waiting' # {} => starts' > 0 \/ \E r \in Runs : Active(r)'
    BY <1>2, <2>1, <2>3 DEF NobodyStranded
  <2> QED BY <2>4, <2>5 DEF NobodyStranded
<1>4. CASE StartNext
  <2>1. ASSUME NEW d \in Downloads, NEW r \in Runs, Started(d, r) PROVE NobodyStranded'
    <3>1. Active(r)' /\ runs'[r].task = d
      BY <2>1 DEF Started, Active, At, RunsOK
    <3>2. \A s \in Runs : Active(s) => Active(s)' /\ runs'[s].task = runs[s].task
      BY <2>1 DEF Started, Active, At, RunsOK
    <3>3. Downloading' \subseteq Downloading \cup {d}
      BY <1>1, <2>1 DEF Started, Downloading
    <3> QED BY <3>1, <3>2, <3>3 DEF NobodyStranded, Busy
  <2>2. CASE UNCHANGED <<status, runs>> /\ (Full \/ Waiting = {})
    <3>1. Full => Downloading # {}
      BY FS_EmptySet DEF Full
    <3>2. Waiting # {} => \E r \in Runs : Active(r)
      BY <2>2, <3>1 DEF NobodyStranded, Busy
    <3> QED BY <2>2, <3>2 DEF NobodyStranded, Waiting, Downloading, Busy, Active, At
  <2> QED BY <1>4, <2>1, <2>2, StartRuns
<1>5. ASSUME NEW r \in Runs, RunStep(r) PROVE NobodyStranded'
  <2> DEFINE t == runs[r].task
  <2>1. OnlyRun(r) /\ t \in Downloads /\ Active(r)
    BY <1>5, StepRuns
  <2>2. Waiting' \subseteq Waiting /\ Downloading' \subseteq Downloading
    BY <1>1, <1>5, <2>1 DEF RunStep, PrepareDownload, RegisterPid, ChildEnds, MarkDownloaded,
       AskPaused, UnregisterPid, SettleRun, SetTaskCompleted, SetTaskError, Sets, Waiting,
       Downloading
  <2>3. \A s \in Runs \ {r} : (Active(s)' <=> Active(s)) /\ runs'[s].task = runs[s].task
    BY <2>1 DEF OnlyRun, Active, At
  <2>4. CASE Active(r)'
    BY <2>1, <2>2, <2>3, <2>4 DEF NobodyStranded, Busy, OnlyRun
  <2>5. CASE ~Active(r)'
    <3>0. runs'[r].step \in {"none", "over"}
      BY <2>5 DEF Active, At
    <3>1. Goes(r, "over") /\ starts' = starts + 1 /\ (SettleRun(r) \/ SetTaskCompleted(r)
                                                     \/ SetTaskError(r))
      <4>1. ~PrepareDownload(r) /\ ~RegisterPid(r) /\ ~AskPaused(r)
        BY <3>0, StepTo DEF RegisterPid
      <4>2. ~ChildEnds(r) /\ ~MarkDownloaded(r) /\ ~UnregisterPid(r)
        BY <3>0, StepTo DEF ChildEnds, MarkDownloaded, UnregisterPid
      <4> QED
        BY <1>5, <3>0, <4>1, <4>2, StepTo DEF RunStep, SettleRun, SetTaskCompleted,
           SetTaskError, Ends
    <3>2. status'[t] # "downloading"
      BY <1>1, <2>1, <3>1, StepTo DEF SettleRun, SetTaskCompleted, SetTaskError, Sets, At
    <3>3. \A d \in Downloading' : d # t
      BY <3>2 DEF Downloading
    <3> QED BY <1>1, <2>2, <2>3, <3>1, <3>3 DEF NobodyStranded, Busy
  <2> QED BY <2>4, <2>5
<1>6. CASE UNCHANGED queueVars
  BY <1>6 DEF queueVars, NobodyStranded, Waiting, Downloading, Busy, Active, At
<1> QED
  BY <1>3, <1>4, <1>5, <1>6, QueueSteps

\* No waiting task is forgotten, and no task is left as downloading without a run.
THEOREM QueueMovesOn == QueueSpec => []NobodyStranded
<1>1. QueueInit => NobodyStranded
  BY DEF QueueInit, NobodyStranded, Waiting, Downloading
<1> QED
  BY <1>1, QueueTypes, StrandedStep, PTL DEF QueueSpec
(***************************************************************************)
(* What a run knows of its task.                                           *)
(***************************************************************************)
TaskOf(r) == runs[r].task
OneRun == \A r, s \in Runs : Active(r) /\ Active(s) /\ TaskOf(r) = TaskOf(s) => r = s
\* A run that has its file in hand or was paused, and what that is worth later.
Trying == {"prepare", "register", "work", "mark", "failed"}
Sound(r) ==
  /\ runs[r].quiet => runs[r].step \notin Trying \cup {"fail"}
  /\ Active(r) => status[TaskOf(r)] \notin {"new", "waiting"}
  /\ At(r, "mark") => TaskOf(r) \in fetched
  /\ At(r, "settle") \/ (At(r, "unregister") /\ runs[r].quiet) =>
       TaskOf(r) \in fetched \/ status[TaskOf(r)] \in {"paused", "gone"}
  /\ At(r, "complete") => TaskOf(r) \in fetched \/ status[TaskOf(r)] = "gone"
Had == \A d \in Downloads : status[d] = "completed" => d \in fetched

\* The strengthening of CompletedIsDownloaded.
SoundInv == "early" \notin untimely => OneRun /\ Had /\ \A r \in Runs : Sound(r)

\* In which states a task may be while a run of it is where it is.
Strict(r) ==
  /\ Active(r) => status[TaskOf(r)] \in {"downloading", "paused", "completed", "gone"}
  /\ runs[r].step \in Trying =>
       status[TaskOf(r)] \in {"downloading", "paused", "gone"}
  /\ At(r, "fail") \/ (At(r, "unregister") /\ ~runs[r].quiet) =>
       status[TaskOf(r)] \in {"downloading", "gone"}
StrictInv == untimely = {} => \A r \in Runs : Strict(r)

LEMMA UntimelyGrows ==
  ASSUME [QueueNext]_queueVars
  PROVE  untimely \subseteq untimely'
BY DEF QueueNext, AddTask, CancelTask, PauseTasks, RetryTasks, DeleteTasks, ClearFinished,
   StartNext, PrepareDownload, RegisterPid, ChildEnds, MarkDownloaded, AskPaused, UnregisterPid,
   SettleRun, SetTaskCompleted, SetTaskError, queueVars

LEMMA CallSound ==
  ASSUME QueueTypeOK, OneRun, Had, \A r \in Runs : Sound(r), Calls, "early" \notin untimely'
  PROVE  OneRun' /\ Had' /\ \A r \in Runs : Sound(r)'
<1>1. status \in [Downloads -> Statuses] /\ RunsOK
  BY TypedRuns DEF QueueTypeOK
<1>2. RunsStay BY <1>1, CallRuns
<1>3. \A r \in Runs : /\ TaskOf(r)' = TaskOf(r) /\ (Active(r)' <=> Active(r))
                      /\ \A step : At(r, step)' <=> At(r, step)
  BY <1>2 DEF RunsStay, TaskOf, Active, At
<1>4. \A r \in Runs : Active(r) => TaskOf(r) \in Downloads
  BY <1>1 DEF RunsOK, RunRecords, Active, At, TaskOf
<1>5. \A d \in Downloads :
        \/ status'[d] = status[d]
        \/ status'[d] \in {"paused", "gone"} /\ (status[d] # "gone" \/ status'[d] = "gone")
        \/ status'[d] \in {"waiting", "cancelled"} /\ ~Busy(d)
  <2>1. ASSUME NEW tasks, "early" \notin untimely \cup Early(tasks)
        PROVE  \A d \in tasks : ~Busy(d)
    BY <2>1 DEF Early
  <2>2. ASSUME NEW d \in Downloads, AddTask(d)
        PROVE  ~Busy(d) /\ status' = [status EXCEPT ![d] = "waiting"]
    BY <2>2 DEF AddTask, Busy, Sound, TaskOf
  <2>3. ASSUME NEW d \in Downloads, CancelTask(d) PROVE <1>5!:
    BY <1>1, <2>1, <2>3 DEF CancelTask, Becomes
  <2>4. ASSUME NEW tasks, PauseTasks(tasks) PROVE <1>5!:
    BY <1>1, <2>4 DEF PauseTasks, Becomes
  <2>5. ASSUME NEW tasks, RetryTasks(tasks) PROVE <1>5!:
    BY <1>1, <2>1, <2>5 DEF RetryTasks, Becomes
  <2>6. ASSUME NEW tasks, DeleteTasks(tasks) PROVE <1>5!:
    BY <1>1, <2>6 DEF DeleteTasks, Becomes
  <2>7. CASE ClearFinished
    BY <1>1, <2>7 DEF ClearFinished, Becomes
  <2> QED BY <1>1, <2>2, <2>3, <2>4, <2>5, <2>6, <2>7 DEF Calls
<1>6. fetched' = fetched
  BY DEF Calls, AddTask, CancelTask, PauseTasks, RetryTasks, DeleteTasks, ClearFinished
<1>7. ASSUME NEW r \in Runs PROVE Sound(r)'
  <2>1. runs'[r].quiet = runs[r].quiet /\ runs'[r].step = runs[r].step
    BY <1>2 DEF RunsStay
  <2>2. CASE ~Active(r)
    BY <1>3, <2>1, <2>2 DEF Sound, Active, At
  <2>3. CASE Active(r)
    <3>1. TaskOf(r) \in Downloads /\ Busy(TaskOf(r)) BY <1>4, <2>3 DEF Busy, TaskOf
    <3>2. \/ status'[TaskOf(r)] = status[TaskOf(r)]
          \/ /\ status'[TaskOf(r)] \in {"paused", "gone"}
             /\ status[TaskOf(r)] = "gone" => status'[TaskOf(r)] = "gone"
      BY <1>5, <3>1
    <3> QED BY <1>3, <1>6, <2>1, <2>3, <3>2 DEF Sound
  <2> QED BY <2>2, <2>3
<1> QED
  BY <1>3, <1>5, <1>6, <1>7 DEF OneRun, Had

LEMMA StepSound ==
  ASSUME QueueTypeOK, OneRun, Had, \A r \in Runs : Sound(r), NEW r \in Runs, RunStep(r)
  PROVE  OneRun' /\ Had' /\ \A s \in Runs : Sound(s)'
<1> DEFINE t == TaskOf(r)
<1>1. status \in [Downloads -> Statuses] /\ RunsOK /\ fetched \subseteq Downloads
  BY TypedRuns DEF QueueTypeOK
<1>2. OnlyRun(r) /\ t \in Downloads /\ Active(r) /\ t' = t
  BY <1>1, StepRuns DEF TaskOf, OnlyRun
<1>3. \A d \in Downloads \ {t} : status'[d] = status[d]
  BY <1>1, <1>2 DEF RunStep, PrepareDownload, RegisterPid, ChildEnds, MarkDownloaded, AskPaused,
     UnregisterPid, SettleRun, SetTaskCompleted, SetTaskError, Sets, TaskOf
<1>4. fetched \subseteq fetched'
  BY DEF RunStep, PrepareDownload, RegisterPid, ChildEnds, MarkDownloaded, AskPaused,
     UnregisterPid, SettleRun, SetTaskCompleted, SetTaskError
<1>5. \A s \in Runs \ {r} : /\ TaskOf(s)' = TaskOf(s) /\ (Active(s)' <=> Active(s))
                            /\ \A step : At(s, step)' <=> At(s, step)
                            /\ runs'[s].quiet = runs[s].quiet /\ runs'[s].step = runs[s].step
  BY <1>2 DEF OnlyRun, TaskOf, Active, At
<1>6. ASSUME NEW s \in Runs \ {r} PROVE Sound(s)'
  <2>1. CASE ~Active(s)
    BY <1>5, <2>1 DEF Sound, Active, At
  <2>2. CASE Active(s)
    <3>1. TaskOf(s) \in Downloads \ {t}
      BY <1>1, <1>2, <2>2 DEF OneRun, RunsOK, RunRecords, Active, At, TaskOf
    <3> QED BY <1>3, <1>4, <1>5, <2>2, <3>1 DEF Sound
  <2> QED BY <2>1, <2>2
<1>7. OneRun'
  BY <1>2, <1>5 DEF OneRun
<1> DEFINE Goal == Sound(r)' /\ (status'[t] = "completed" => t \in fetched')
<1>8. Goal
  <2>1. Sound(r) BY DEF Sound
  <2>2. status[t] = "completed" => t \in fetched BY <1>2 DEF Had
  <2> USE <1>1, <1>2, <2>1, <2>2, StepTo DEF Trying
  <2>3. CASE PrepareDownload(r)
    <3>1. runs[r].step = "prepare" /\ ~runs[r].quiet /\ UNCHANGED <<status, fetched>>
      BY <2>3 DEF PrepareDownload, Sound, At
    <3>2. runs'[r].step \in {"register", "failed"} /\ ~runs'[r].quiet
      <4>1. PICK step \in {"register", "failed"} :
              runs' = [runs EXCEPT ![r].step = step, ![r].killed = FALSE]
        BY <2>3 DEF PrepareDownload
      <4>2. runs'[r].step = step /\ runs'[r].quiet = runs[r].quiet
        BY <4>1 DEF RunsOK, RunRecords
      <4> QED BY <3>1, <4>1, <4>2
    <3> QED BY <3>1, <3>2 DEF Sound, At, Active, TaskOf
  <2>4. CASE RegisterPid(r) BY <2>4 DEF RegisterPid, Sound, At, Active, TaskOf
  <2>5. CASE ChildEnds(r)
    <3>1. CASE t \in fetched' /\ (Goes(r, "mark") \/ GoesQuietly(r))
      BY <2>5, <3>1 DEF ChildEnds, Sound, At, Active, TaskOf
    <3>2. CASE Goes(r, "failed") /\ UNCHANGED fetched
      BY <2>5, <3>2 DEF ChildEnds, Sound, At, Active, TaskOf
    <3> QED BY <2>5, <3>1, <3>2 DEF ChildEnds, TaskOf
  <2>6. CASE MarkDownloaded(r) BY <2>6 DEF MarkDownloaded, Sets, Sound, At, Active, TaskOf
  <2>7. CASE AskPaused(r)
    <3>1. UNCHANGED <<status, fetched>> /\ At(r, "failed") BY <2>7 DEF AskPaused
    <3>2. CASE runs' = [runs EXCEPT ![r].step = "prepare", ![r].tries = @ - 1]
      <4>1. runs'[r].step = "prepare" /\ ~runs'[r].quiet
        BY <3>1, <3>2 DEF RunsOK, RunRecords, Sound, At
      <4> QED BY <3>1, <4>1 DEF Sound, At, Active, TaskOf
    <3>3. CASE GoesQuietly(r) /\ status[t] = "paused"
      <4>1. runs'[r].step = "unregister" /\ runs'[r].quiet
        BY <3>3
      <4> QED BY <3>1, <3>3, <4>1 DEF Sound, At, Active, TaskOf
    <3>4. CASE Goes(r, "unregister")
      <4>1. runs'[r].step = "unregister" /\ ~runs'[r].quiet
        BY <3>1, <3>4 DEF Sound, At
      <4> QED BY <3>1, <4>1 DEF Sound, At, Active, TaskOf
    <3> QED BY <2>7, <3>2, <3>3, <3>4 DEF AskPaused, TaskOf
  <2>8. CASE UnregisterPid(r) BY <2>8 DEF UnregisterPid, Sound, At, Active, TaskOf
  <2>9. CASE SettleRun(r) BY <2>9 DEF SettleRun, Ends, Sound, At, Active, TaskOf
  <2>10. CASE SetTaskCompleted(r)
    BY <2>10 DEF SetTaskCompleted, Sets, Ends, Sound, At, Active, TaskOf
  <2>11. CASE SetTaskError(r) BY <2>11 DEF SetTaskError, Sets, Ends, Sound, At, Active, TaskOf
  <2> QED BY <2>3, <2>4, <2>5, <2>6, <2>7, <2>8, <2>9, <2>10, <2>11 DEF RunStep
<1>9. Had'
  BY <1>3, <1>4, <1>8 DEF Had
<1> QED BY <1>6, <1>7, <1>8, <1>9

LEMMA StartSound ==
  ASSUME QueueTypeOK, OneRun, Had, \A r \in Runs : Sound(r), StartNext
  PROVE  OneRun' /\ Had' /\ \A s \in Runs : Sound(s)'
<1>1. status \in [Downloads -> Statuses] /\ RunsOK /\ fetched' = fetched
  BY TypedRuns DEF QueueTypeOK, StartNext
<1>2. CASE UNCHANGED <<status, runs>>
  BY <1>1, <1>2 DEF OneRun, Had, Sound, Active, At, TaskOf
<1>3. ASSUME NEW d \in Downloads, NEW r \in Runs, Started(d, r)
      PROVE  OneRun' /\ Had' /\ \A s \in Runs : Sound(s)'
  <2>1. status[d] = "waiting" /\ status' = [status EXCEPT ![d] = "downloading"]
    BY <1>3 DEF Started, Waiting
  <2>2. At(r, "prepare")' /\ TaskOf(r)' = d
    BY <1>1, <1>3 DEF Started, At, RunsOK, TaskOf
  <2>3. \A s \in Runs \ {r} : runs'[s] = runs[s]
    BY <1>1, <1>3 DEF Started, RunsOK
  <2>4. \A s \in Runs : Active(s) => TaskOf(s) \in Downloads \ {d}
    BY <1>1, <2>1 DEF Sound, RunsOK, RunRecords, Active, At, TaskOf
  <2>5. Sound(r)'
    <3>1. ~runs'[r].quiet BY <1>1, <1>3 DEF Started, RunsOK
    <3> QED BY <1>1, <2>1, <2>2, <3>1 DEF Sound, At, Active
  <2>6. ASSUME NEW s \in Runs \ {r} PROVE Sound(s)'
    <3>1. CASE ~Active(s)
      BY <2>3, <3>1 DEF Sound, Active, At
    <3>2. CASE Active(s)
      <4>1. status'[TaskOf(s)] = status[TaskOf(s)]
        BY <1>1, <2>1, <2>4, <3>2
      <4>2. TaskOf(s)' = TaskOf(s) /\ runs'[s] = runs[s] /\ Sound(s)
        BY <2>3 DEF TaskOf
      <4> QED BY <1>1, <4>1, <4>2 DEF Sound, Active, At
    <3> QED BY <3>1, <3>2
  <2>7. OneRun'
    BY <2>2, <2>3, <2>4 DEF OneRun, Active, At, TaskOf
  <2>8. Had'
    BY <1>1, <2>1 DEF Had
  <2> QED BY <2>5, <2>6, <2>7, <2>8
<1> QED BY <1>1, <1>2, <1>3, StartRuns

LEMMA SoundStep ==
  ASSUME QueueTypeOK, SoundInv, [QueueNext]_queueVars
  PROVE  SoundInv'
<1> SUFFICES ASSUME "early" \notin untimely'
             PROVE  OneRun' /\ Had' /\ \A r \in Runs : Sound(r)'
  BY DEF SoundInv
<1>1. OneRun /\ Had /\ \A r \in Runs : Sound(r)
  BY UntimelyGrows DEF SoundInv
<1>2. CASE UNCHANGED queueVars
  BY <1>1, <1>2 DEF queueVars, OneRun, Had, Sound, Active, At, TaskOf
<1> QED
  BY <1>1, <1>2, CallSound, StepSound, StartSound, QueueSteps

\* The invariant behind it: of two runs of a task at most one is active, and whatever a run
\* is about to write agrees with what it found (try_start_next, run_single_download).
THEOREM RunsAreSound == QueueSpec => []SoundInv
<1>1. QueueInit => SoundInv
  BY DEF QueueInit, SoundInv, OneRun, Had, Sound, Active, At, NoSuchRun
<1> QED
  BY <1>1, QueueTypes, SoundStep, PTL DEF QueueSpec

\* A task shown as completed has its file, unless it was resumed or cancelled before the
\* run it had been paused under was over.
THEOREM CompletedHasFile == QueueSpec => []CompletedIsDownloaded
<1>1. SoundInv => CompletedIsDownloaded
  BY DEF SoundInv, Had, CompletedIsDownloaded
<1> QED
  BY <1>1, RunsAreSound, PTL
(***************************************************************************)
(* The queue implements DownloadTasks.                                     *)
(***************************************************************************)
LEMMA CallStrict ==
  ASSUME QueueTypeOK, \A r \in Runs : Sound(r) /\ Strict(r), Calls, untimely' = {}
  PROVE  \A r \in Runs : Strict(r)'
<1>1. status \in [Downloads -> Statuses] /\ RunsOK
  BY TypedRuns DEF QueueTypeOK
<1>2. RunsStay BY <1>1, CallRuns
<1> SUFFICES ASSUME NEW r \in Runs, Active(r) PROVE Strict(r)'
  BY <1>2 DEF RunsStay, Strict, Active, At, Trying
<1> DEFINE t == TaskOf(r)
<1>3. t \in Downloads /\ Busy(t) /\ Strict(r)
  BY <1>1 DEF RunsOK, RunRecords, Active, At, TaskOf, Busy
<1>4. \/ status'[t] \in {status[t], "gone"}
      \/ status[t] = "downloading" /\ status'[t] = "paused" /\ ~Doomed(t)
  <2>1. ASSUME NEW tasks, untimely \cup Early(tasks) = {} PROVE t \notin tasks
    BY <1>3, <2>1 DEF Early
  <2>2. ASSUME NEW d \in Downloads, AddTask(d) PROVE status'[t] = status[t]
    BY <1>1, <1>3, <2>2 DEF AddTask, Strict
  <2>3. ASSUME NEW d \in Downloads, CancelTask(d) PROVE status'[t] = status[t]
    BY <1>1, <1>3, <2>1, <2>3 DEF CancelTask, Becomes
  <2>4. ASSUME NEW tasks, PauseTasks(tasks)
        PROVE  \/ status'[t] = status[t]
               \/ status[t] = "downloading" /\ status'[t] = "paused" /\ ~Doomed(t)
    <3>1. PICK paused :
            /\ status' = Becomes(paused, "paused")
            /\ \A d \in paused : status[d] \in {"downloading", "waiting"}
            /\ untimely' = untimely \cup (IF \E d \in paused : Doomed(d) THEN {"late"} ELSE {})
      BY <2>4 DEF PauseTasks
    <3> QED BY <1>1, <1>3, <3>1 DEF Becomes, Strict
  <2>5. ASSUME NEW tasks, RetryTasks(tasks) PROVE status'[t] = status[t]
    BY <1>1, <1>3, <2>1, <2>5 DEF RetryTasks, Becomes
  <2>6. ASSUME NEW tasks, DeleteTasks(tasks) PROVE status'[t] \in {status[t], "gone"}
    BY <1>1, <1>3, <2>6 DEF DeleteTasks, Becomes
  <2>7. ASSUME ClearFinished PROVE status'[t] \in {status[t], "gone"}
    BY <1>1, <1>3, <2>7 DEF ClearFinished, Becomes
  <2> QED BY <2>2, <2>3, <2>4, <2>5, <2>6, <2>7 DEF Calls
<1>5. TaskOf(r)' = t /\ runs'[r].step = runs[r].step /\ runs'[r].quiet = runs[r].quiet
  BY <1>2 DEF RunsStay, TaskOf
<1>6. CASE status'[t] \in {status[t], "gone"}
  BY <1>3, <1>5, <1>6 DEF Strict, Active, At
<1>7. CASE status[t] = "downloading" /\ status'[t] = "paused" /\ ~Doomed(t)
  <2>1. ~(At(r, "fail") \/ (At(r, "unregister") /\ ~runs[r].quiet))
    <3>1. runs[r].quiet => ~At(r, "fail") BY DEF Sound, At
    <3> QED BY <1>7, <3>1 DEF Doomed, TaskOf
  <2> QED BY <1>3, <1>5, <1>7, <2>1 DEF Strict, Active, At
<1> QED BY <1>4, <1>6, <1>7

LEMMA StepStrict ==
  ASSUME QueueTypeOK, OneRun, \A r \in Runs : Sound(r) /\ Strict(r), NEW r \in Runs, RunStep(r)
  PROVE  \A s \in Runs : Strict(s)'
<1> DEFINE t == TaskOf(r)
<1>1. status \in [Downloads -> Statuses] /\ RunsOK
  BY TypedRuns DEF QueueTypeOK
<1>2. OnlyRun(r) /\ t \in Downloads /\ Active(r) /\ t' = t
  BY <1>1, StepRuns DEF TaskOf, OnlyRun
<1>3. \A d \in Downloads \ {t} : status'[d] = status[d]
  BY <1>1, <1>2 DEF RunStep, PrepareDownload, RegisterPid, ChildEnds, MarkDownloaded, AskPaused,
     UnregisterPid, SettleRun, SetTaskCompleted, SetTaskError, Sets, TaskOf
<1>4. ASSUME NEW s \in Runs \ {r} PROVE Strict(s)'
  <2>1. runs'[s] = runs[s] BY <1>2 DEF OnlyRun
  <2>2. CASE ~Active(s)
    BY <2>1, <2>2 DEF Strict, Active, At, Trying
  <2>3. CASE Active(s)
    <3>1. TaskOf(s) \in Downloads \ {t}
      BY <1>1, <1>2, <2>3 DEF OneRun, RunsOK, RunRecords, Active, At, TaskOf
    <3>2. status'[TaskOf(s)] = status[TaskOf(s)] /\ TaskOf(s)' = TaskOf(s) /\ Strict(s)
      BY <1>3, <2>1, <3>1 DEF TaskOf
    <3> QED BY <2>1, <3>2 DEF Strict, Active, At
  <2> QED BY <2>2, <2>3
<1>5. Strict(r)'
  <2>1. Strict(r) /\ Sound(r) OBVIOUS
  <2> USE <1>1, <1>2, <2>1, StepTo DEF Trying
  <2>2. ASSUME UNCHANGED status, runs[r].step \in Trying, runs'[r].step \in Trying
        PROVE  Strict(r)'
    BY <2>2 DEF Strict, Active, At, TaskOf
  <2>3. ASSUME UNCHANGED status, runs[r].step \in Trying, runs'[r].step = "unregister",
               runs'[r].quiet
        PROVE  Strict(r)'
    BY <2>3 DEF Strict, Active, At, TaskOf
  <2>4. CASE PrepareDownload(r) BY <2>2, <2>4 DEF PrepareDownload, At
  <2>5. CASE RegisterPid(r) BY <2>2, <2>5 DEF RegisterPid, At
  <2>6. CASE ChildEnds(r) BY <2>2, <2>3, <2>6 DEF ChildEnds, At
  <2>7. CASE MarkDownloaded(r)
    <3>1. status'[t] \in {"completed", "gone"} /\ runs'[r].step = "unregister" /\ runs'[r].quiet
      BY <2>7 DEF MarkDownloaded, Sets, TaskOf
    <3> QED BY <3>1 DEF Strict, Active, At
  <2>8. CASE AskPaused(r)
    <3>1. UNCHANGED status /\ runs[r].step \in Trying /\ ~runs[r].quiet
      BY <2>8 DEF AskPaused, At, Sound
    <3>2. CASE runs'[r].step = "unregister" /\ ~runs'[r].quiet /\ status[t] # "paused"
      <4>1. status'[t] \in {"downloading", "gone"} BY <3>1, <3>2 DEF Strict
      <4> QED BY <3>2, <4>1 DEF Strict, Active, At
    <3> QED BY <2>2, <2>3, <2>8, <3>1, <3>2 DEF TaskOf
  <2>9. CASE UnregisterPid(r)
    <3>1. UNCHANGED status /\ At(r, "unregister") BY <2>9 DEF UnregisterPid
    <3>2. CASE runs[r].quiet
      <4>1. runs'[r].step = "settle" BY <2>9, <3>2 DEF UnregisterPid
      <4> QED BY <3>1, <4>1 DEF Strict, Active, At, TaskOf
    <3>3. CASE ~runs[r].quiet
      <4>1. runs'[r].step = "fail" BY <2>9, <3>3 DEF UnregisterPid
      <4>2. status'[t] \in {"downloading", "gone"} BY <3>1, <3>3 DEF Strict
      <4> QED BY <4>1, <4>2 DEF Strict, Active, At
    <3> QED BY <3>2, <3>3
  <2>10. CASE SettleRun(r)
    <3>1. UNCHANGED status /\ runs'[r].step \in {"over", "complete"}
      BY <2>10 DEF SettleRun, Ends
    <3> QED BY <3>1 DEF Strict, Active, At, TaskOf
  <2>11. CASE SetTaskCompleted(r) \/ SetTaskError(r)
    <3>1. runs'[r].step = "over" BY <2>11 DEF SetTaskCompleted, SetTaskError, Ends
    <3> QED BY <3>1 DEF Strict, Active, At
  <2> QED BY <2>4, <2>5, <2>6, <2>7, <2>8, <2>9, <2>10, <2>11 DEF RunStep
<1> QED BY <1>4, <1>5

LEMMA StartStrict ==
  ASSUME QueueTypeOK, \A r \in Runs : Sound(r) /\ Strict(r), StartNext
  PROVE  \A s \in Runs : Strict(s)'
<1>1. status \in [Downloads -> Statuses] /\ RunsOK
  BY TypedRuns DEF QueueTypeOK
<1>2. CASE UNCHANGED <<status, runs>>
  BY <1>2 DEF Strict, Active, At, TaskOf
<1>3. ASSUME NEW d \in Downloads, NEW r \in Runs, Started(d, r), NEW s \in Runs
      PROVE  Strict(s)'
  <2>1. status[d] = "waiting" /\ status' = [status EXCEPT ![d] = "downloading"]
    BY <1>3 DEF Started, Waiting
  <2>2. CASE s = r
    <3>1. runs'[s].step = "prepare" /\ TaskOf(s)' = d
      BY <1>1, <1>3, <2>2 DEF Started, RunsOK, TaskOf
    <3> QED BY <1>1, <2>1, <3>1 DEF Strict, Active, At
  <2>3. CASE s # r
    <3>1. runs'[s] = runs[s] BY <1>1, <1>3, <2>3 DEF Started, RunsOK
    <3>2. CASE ~Active(s) BY <3>1, <3>2 DEF Strict, Active, At, Trying
    <3>3. CASE Active(s)
      <4>1. status'[TaskOf(s)] = status[TaskOf(s)] /\ TaskOf(s)' = TaskOf(s) /\ Strict(s)
        BY <1>1, <2>1, <3>1, <3>3 DEF Sound, RunsOK, RunRecords, Active, At, TaskOf
      <4> QED BY <3>1, <4>1 DEF Strict, Active, At
    <3> QED BY <3>2, <3>3
  <2> QED BY <2>2, <2>3
<1> QED BY <1>1, <1>2, <1>3, StartRuns

LEMMA StrictStep ==
  ASSUME QueueTypeOK, SoundInv, StrictInv, [QueueNext]_queueVars
  PROVE  StrictInv'
<1> SUFFICES ASSUME untimely' = {} PROVE \A r \in Runs : Strict(r)'
  BY DEF StrictInv
<1>1. untimely = {} BY UntimelyGrows
<1>2. OneRun /\ \A r \in Runs : Sound(r) /\ Strict(r)
  BY <1>1 DEF SoundInv, StrictInv
<1>3. CASE UNCHANGED queueVars
  BY <1>2, <1>3 DEF queueVars, Strict, Active, At, TaskOf
<1> QED
  BY <1>2, <1>3, CallStrict, StepStrict, StartStrict, QueueSteps

(***************************************************************************)
(* The refinement.                                                         *)
(***************************************************************************)
LEMMA ShownAs ==
  ASSUME status \in [Downloads -> Statuses]
  PROVE  \A d \in Downloads :
           /\ Shown(d) = "absent" <=> status[d] \in {"new", "gone"}
           /\ Shown(d) = "active" <=> status[d] = "downloading"
           /\ Shown(d) = "done" <=> status[d] = "completed"
           /\ Shown(d) = "failed" <=> status[d] = "error"
           /\ Shown(d) = "waiting" <=> status[d] = "waiting"
           /\ Shown(d) = "paused" <=> status[d] = "paused"
           /\ Shown(d) = "cancelled" <=> status[d] = "cancelled"
BY DEF Shown, Statuses
\* What the user sees of the statuses, moved and left alone.
LEMMA ShownMoves ==
  ASSUME status \in [Downloads -> Statuses], status' \in [Downloads -> Statuses],
         NEW tasks \in SUBSET Downloads, NEW to,
         \A d \in Downloads \ tasks : Shown(d)' = Shown(d),
         \A d \in tasks : Shown(d)' = to
  PROVE  Promise!Moves(tasks, to)
BY DEF Promise!Moves

LEMMA ShownSame ==
  ASSUME NEW d \in Downloads, status'[d] = status[d]
  PROVE  Shown(d)' = Shown(d)
BY DEF Shown

LEMMA PromiseStep ==
  ASSUME QueueTypeOK, QueueTypeOK', SoundInv, StrictInv, [QueueNext]_queueVars
  PROVE  [Promise!TasksNext]_(Promise!tasksVars)
<1> DEFINE Stutters == UNCHANGED Promise!tasksVars
<1>1. CASE untimely' # {}
  BY <1>1 DEF Promise!TasksNext
<1>2. CASE untimely' = {}
  <2>1. untimely = {} BY <1>2, UntimelyGrows
  <2>2. UNCHANGED (untimely # {}) BY <1>2, <2>1
  <2>3. /\ status \in [Downloads -> Statuses] /\ status' \in [Downloads -> Statuses] /\ RunsOK
        /\ fetched \subseteq Downloads
    BY TypedRuns DEF QueueTypeOK
  <2>4. Had /\ \A r \in Runs : Sound(r) /\ Strict(r)
    BY <2>1 DEF SoundInv, StrictInv
  <2>5. ASSUME UNCHANGED <<status, fetched>> PROVE Stutters
    BY <2>2, <2>5 DEF Promise!tasksVars, Shown
  <2>6. ASSUME Promise!Step PROVE Promise!TasksNext
    BY <2>2, <2>6 DEF Promise!TasksNext
  <2>7. /\ \A d \in Downloads : status'[d] = status[d] => Shown(d)' = Shown(d)
        /\ \A states : Promise!In(states) = {d \in Downloads : Shown(d) \in states}
    BY ShownSame DEF Promise!In
  <2> DEFINE Goal == Promise!TasksNext \/ Stutters
  <2>8. CASE Calls
    <3>1. fetched' = fetched
      BY <2>8 DEF Calls, AddTask, CancelTask, PauseTasks, RetryTasks, DeleteTasks, ClearFinished
    <3>2. ASSUME NEW d \in Downloads, AddTask(d) PROVE Promise!Add(d)
      <4>1. status[d] = "new" /\ status' = [status EXCEPT ![d] = "waiting"]
        BY <3>2 DEF AddTask
      <4>2. Shown(d) = "absent" /\ Shown(d)' = "waiting"
        BY <2>3, <4>1 DEF Shown
      <4>3. \A e \in Downloads \ {d} : Shown(e)' = Shown(e)
        BY <2>3, <2>7, <4>1
      <4> QED BY <3>1, <4>2, <4>3, <2>3, ShownMoves DEF Promise!Add, Promise!NoFile
    <3>3. ASSUME NEW tasks \in SUBSET Downloads, NEW value \in Statuses, NEW to,
                 status' = Becomes(tasks, value),
                 <<value, to>> \in {<<"waiting", "waiting">>, <<"cancelled", "cancelled">>,
                                   <<"paused", "paused">>, <<"gone", "absent">>}
          PROVE  Promise!Moves(tasks, to)
      <4>1. \A d \in tasks : status'[d] = value
        BY <3>3 DEF Becomes
      <4>2. \A d \in Downloads \ tasks : status'[d] = status[d]
        BY <3>3 DEF Becomes
      <4>3. \A d \in tasks : Shown(d)' = to
        BY <3>3, <4>1 DEF Shown
      <4> QED BY <2>3, <2>7, <4>2, <4>3, ShownMoves
    <3>4. ASSUME NEW d \in Downloads, CancelTask(d) PROVE Promise!Cancel(d) \/ Stutters
      <4> DEFINE stopped == {d} \cap {e \in Downloads : status[e] \in {"waiting", "paused", "error"}}
      <4>1. status' = Becomes(stopped, "cancelled")
        BY <3>4 DEF CancelTask
      <4>2. CASE stopped = {}
        <5>1. status' = status BY <2>3, <4>1, <4>2 DEF Becomes
        <5> QED BY <2>5, <3>1, <5>1
      <4>3. CASE stopped = {d}
        <5>1. Promise!Moves({d}, "cancelled")
          <6>1. "cancelled" \in Statuses BY DEF Statuses
          <6> QED BY <3>3, <4>1, <4>3, <6>1
        <5>2. status[d] \in {"waiting", "paused", "error"} BY <4>3
        <5>3. Shown(d) \in {"waiting", "paused", "failed"} BY <2>3, <5>2, ShownAs
        <5> QED BY <3>1, <5>1, <5>3 DEF Promise!Cancel, Promise!NoFile
      <4> QED BY <4>2, <4>3
    <3>5. {"waiting", "cancelled", "paused", "gone"} \subseteq Statuses
      BY DEF Statuses
    <3>6. ASSUME NEW tasks \in SUBSET Downloads, PauseTasks(tasks)
          PROVE  \E paused \in SUBSET Downloads : Promise!Pause(paused)
      <4> DEFINE paused == {d \in tasks : status[d] \in {"downloading", "waiting"}}
      <4>1. Promise!Moves(paused, "paused")
        <5>1. status' = Becomes(paused, "paused") BY <3>6 DEF PauseTasks
        <5> QED BY <3>3, <3>5, <5>1
      <4>2. paused \subseteq Promise!In({"active", "waiting"})
        BY <2>3, <2>7, ShownAs
      <4> QED BY <3>1, <4>1, <4>2 DEF Promise!Pause, Promise!NoFile
    <3>7. ASSUME NEW tasks \in SUBSET Downloads, RetryTasks(tasks)
          PROVE  \E again \in SUBSET Downloads : Promise!Resume(again)
      <4> DEFINE again == {d \in tasks : status[d] \in {"error", "cancelled", "paused"}}
      <4>1. Promise!Moves(again, "waiting")
        <5>1. status' = Becomes(again, "waiting") BY <3>7 DEF RetryTasks
        <5> QED BY <3>3, <3>5, <5>1
      <4>2. again \subseteq Promise!In({"failed", "cancelled", "paused"})
        BY <2>3, <2>7, ShownAs
      <4> QED BY <3>1, <4>1, <4>2 DEF Promise!Resume, Promise!NoFile
    <3>8. ASSUME NEW tasks \in SUBSET Downloads, DeleteTasks(tasks)
          PROVE  \E known \in SUBSET Downloads : Promise!Remove(known)
      <4> DEFINE known == {d \in tasks : status[d] # "new"}
      <4>1. status' = Becomes(known, "gone") BY <3>8 DEF DeleteTasks
      <4> QED BY <3>1, <3>3, <3>5, <4>1 DEF Promise!Remove, Promise!NoFile
    <3>9. ASSUME ClearFinished PROVE \E known \in SUBSET Downloads : Promise!Remove(known)
      <4> DEFINE known == {d \in Downloads : status[d] \in {"completed", "error", "cancelled"}}
      <4>1. status' = Becomes(known, "gone") BY <3>9 DEF ClearFinished
      <4> QED BY <3>1, <3>3, <3>5, <4>1 DEF Promise!Remove, Promise!NoFile
    <3>10. \A tasks \in {{d} : d \in Downloads} \cup {Downloads} : tasks \in SUBSET Downloads
      OBVIOUS
    <3> QED BY <2>6, <2>8, <3>2, <3>4, <3>6, <3>7, <3>8, <3>9, <3>10 DEF Calls, Promise!Step
  <2>9. CASE StartNext
    <3>1. fetched' = fetched BY <2>9 DEF StartNext
    <3>2. ASSUME NEW d \in Downloads, NEW r \in Runs, Started(d, r) PROVE Promise!Start(d)
      <4>1. status[d] = "waiting" /\ status' = [status EXCEPT ![d] = "downloading"]
        BY <3>2 DEF Started, Waiting
      <4>2. Shown(d) = "waiting" /\ Shown(d)' = "active"
        BY <2>3, <4>1 DEF Shown
      <4>3. Promise!Moves({d}, "active")
        BY <2>3, <2>7, <4>1, <4>2, ShownMoves
      <4>4. Promise!In({"active"}) = Downloading
        BY <2>3, <2>7, ShownAs DEF Downloading
      <4>5. MaxConcurrent > 0 => Cardinality(Downloading) < MaxConcurrent
        <5>1. Downloading \subseteq Downloads BY DEF Downloading
        <5>2. Cardinality(Downloading) \in Nat
          BY <5>1, FS_Subset, FS_CardinalityType
        <5> QED BY <3>2, <5>2 DEF Started, Full
      <4>6. [e \in Downloads |-> Shown(e)][d] = "waiting"
        BY <4>2
      <4>7. MaxConcurrent > 0 => Cardinality(Promise!In({"active"})) < MaxConcurrent
        BY <4>4, <4>5
      <4>8. \A S : Promise!Cardinality(S) = Cardinality(S)
        BY DEF Promise!Cardinality, Cardinality
      <4>9. Promise!NoFile BY <3>1 DEF Promise!NoFile
      <4> QED BY <4>3, <4>6, <4>7, <4>8, <4>9 DEF Promise!Start
    <3>3. CASE UNCHANGED status
      BY <2>5, <3>1, <3>3
    <3> QED BY <2>3, <2>6, <2>9, <3>2, <3>3, StartRuns DEF Promise!Step
  <2>10. ASSUME NEW r \in Runs, RunStep(r) PROVE Goal
    <3>1. PICK t \in Downloads : t = TaskOf(r) /\ Active(r) /\ Sound(r) /\ Strict(r)
      BY <2>3, <2>4, <2>10, StepRuns DEF TaskOf
    <3>2. ASSUME ChildEnds(r) PROVE Goal
      <4>1. CASE fetched' = fetched \cup {t}
        <5>1. UNCHANGED status BY <3>2 DEF ChildEnds
        <5>2. Promise!Fetch(t) BY <4>1, <5>1 DEF Promise!Fetch, Shown
        <5> QED BY <2>6, <3>1, <5>2 DEF Promise!Step
      <4>2. CASE UNCHANGED fetched
        BY <2>5, <3>2, <4>2 DEF ChildEnds
      <4> QED BY <3>1, <3>2, <4>1, <4>2 DEF ChildEnds, TaskOf
    <3>3. ASSUME UNCHANGED fetched, Sets(t, "completed"),
                 t \in fetched \/ status[t] = "gone"
          PROVE  Goal
      <4>1. CASE status[t] \in {"gone", "completed"}
        <5>1. status' = status BY <2>3, <3>3, <4>1 DEF Sets
        <5> QED BY <2>5, <3>3, <5>1
      <4>2. CASE status[t] \in {"downloading", "paused"}
        <5>1. status' = [status EXCEPT ![t] = "completed"]
          BY <2>3, <3>1, <3>3, <4>2 DEF Sets
        <5>2. Shown(t) \in {"active", "paused"} /\ Shown(t)' = "done"
          BY <2>3, <3>1, <4>2, <5>1 DEF Shown
        <5>3. Promise!Moves({t}, "done")
          BY <2>3, <2>7, <3>1, <5>1, <5>2, ShownMoves
        <5>4. Promise!Finish(t)
          BY <3>1, <3>3, <4>2, <5>2, <5>3 DEF Promise!Finish, Promise!NoFile
        <5> QED BY <2>6, <3>1, <5>4 DEF Promise!Step
      <4> QED BY <3>1, <4>1, <4>2 DEF Strict
    <3>4. ASSUME UNCHANGED fetched, Sets(t, "error"), status[t] \in {"downloading", "gone"}
          PROVE  Goal
      <4>1. CASE status[t] = "gone"
        <5>1. status' = status BY <2>3, <3>4, <4>1 DEF Sets
        <5> QED BY <2>5, <3>4, <5>1
      <4>2. CASE status[t] = "downloading"
        <5>1. status' = [status EXCEPT ![t] = "error"]
          BY <2>3, <3>1, <3>4, <4>2 DEF Sets
        <5>2. Shown(t) = "active" /\ Shown(t)' = "failed"
          BY <2>3, <3>1, <4>2, <5>1 DEF Shown
        <5>3. Promise!Moves({t}, "failed")
          BY <2>3, <2>7, <3>1, <5>1, <5>2, ShownMoves
        <5>4. Promise!Fail(t)
          BY <3>1, <3>4, <5>2, <5>3 DEF Promise!Fail, Promise!NoFile
        <5> QED BY <2>6, <3>1, <5>4 DEF Promise!Step
      <4> QED BY <3>4, <4>1, <4>2
    <3>5. CASE MarkDownloaded(r)
      BY <3>1, <3>3, <3>5 DEF MarkDownloaded, Sound, TaskOf
    <3>6. CASE SetTaskCompleted(r)
      BY <3>1, <3>3, <3>6 DEF SetTaskCompleted, Sound, TaskOf
    <3>7. CASE SetTaskError(r)
      BY <3>1, <3>4, <3>7 DEF SetTaskError, Strict, TaskOf
    <3>8. CASE \/ PrepareDownload(r) \/ RegisterPid(r) \/ AskPaused(r) \/ UnregisterPid(r)
               \/ SettleRun(r)
      <4>1. UNCHANGED <<status, fetched>>
        BY <3>8 DEF PrepareDownload, RegisterPid, AskPaused, UnregisterPid, SettleRun
      <4> QED BY <2>5, <4>1
    <3> QED BY <2>10, <3>2, <3>5, <3>6, <3>7, <3>8 DEF RunStep
  <2>11. CASE UNCHANGED queueVars
    BY <2>5, <2>11 DEF queueVars
  <2> QED BY <2>8, <2>9, <2>10, <2>11, QueueSteps
<1> QED BY <1>1, <1>2

\* The invariant behind the refinement: while no call came at the wrong time, a task that
\* is tried is downloading, paused or gone, and one whose failure is to be written is downloading
\* or gone.
THEOREM TasksAreStrict == QueueSpec => []StrictInv
<1>1. QueueInit => StrictInv
  BY DEF QueueInit, StrictInv, Strict, Active, At, NoSuchRun, Trying
<1> QED
  BY <1>1, QueueTypes, RunsAreSound, StrictStep, PTL DEF QueueSpec

\* The queue implements DownloadTasks: a pause holds, no task is done without its file, and
\* the limit is kept.
THEOREM QueueImplementsTasks == QueueSpec => QueueKeepsPromise
<1>1. QueueInit => Promise!TasksInit
  BY DEF QueueInit, Promise!TasksInit, Shown
<1>2. QueueTypeOK /\ QueueTypeOK' /\ SoundInv /\ StrictInv /\ [QueueNext]_queueVars
        => [Promise!TasksNext]_(Promise!tasksVars)
  BY PromiseStep
<1> QED
  BY <1>1, <1>2, QueueTypes, RunsAreSound, TasksAreStrict, PTL
     DEF QueueSpec, QueueKeepsPromise, Promise!TasksSpec
================================================================================
