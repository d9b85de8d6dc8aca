---------------------------- MODULE DownloadTasks ----------------------------
(***************************************************************************)
(* What the queue of video downloads promises its user: what becomes of a  *)
(* task, without the runs, the child processes and the mutex.  A task is   *)
(* started when there is room, is done only with its file, fails only      *)
(* while it is under way, and stays paused until the user says otherwise,  *)
(* unless its file came in all the same.                                   *)
(***************************************************************************)
EXTENDS Naturals, FiniteSets

CONSTANTS
  Tasks,  \* the downloads
  Room    \* how many may be under way at once, 0 for no limit

VARIABLES
  state,  \* "absent", "waiting", "active", "paused", "done", "failed", "cancelled"
  files,  \* the tasks whose file has been downloaded
  astray  \* the user did what the queue makes no promise about

tasksVars == <<state, files, astray>>

In(states) == {t \in Tasks : state[t] \in states}
Moves(tasks, to) == state' = [t \in Tasks |-> IF t \in tasks THEN to ELSE state[t]]
NoFile == UNCHANGED files

TasksInit == state = [t \in Tasks |-> "absent"] /\ files = {} /\ astray = FALSE

Add(t) == state[t] = "absent" /\ Moves({t}, "waiting") /\ NoFile
Start(t) ==
  /\ state[t] = "waiting"
  /\ Room > 0 => Cardinality(In({"active"})) < Room
  /\ Moves({t}, "active") /\ NoFile
Fetch(t) == files' = files \cup {t} /\ UNCHANGED state
Finish(t) == state[t] \in {"active", "paused"} /\ t \in files /\ Moves({t}, "done") /\ NoFile
Fail(t) == state[t] = "active" /\ Moves({t}, "failed") /\ NoFile
Pause(tasks) == tasks \subseteq In({"active", "waiting"}) /\ Moves(tasks, "paused") /\ NoFile
Resume(tasks) ==
  tasks \subseteq In({"failed", "cancelled", "paused"}) /\ Moves(tasks, "waiting") /\ NoFile
Cancel(t) == state[t] \in {"waiting", "paused", "failed"} /\ Moves({t}, "cancelled") /\ NoFile
Remove(tasks) == Moves(tasks, "absent") /\ NoFile

Step ==
  \/ \E tasks \in SUBSET Tasks : Pause(tasks) \/ Resume(tasks) \/ Remove(tasks)
  \/ \E t \in Tasks : Add(t) \/ Start(t) \/ Fetch(t) \/ Finish(t) \/ Fail(t) \/ Cancel(t)

\* A step is one of these, or the user goes astray by it or has before.
TasksNext == (Step /\ UNCHANGED astray) \/ astray'

TasksSpec == TasksInit /\ [][TasksNext]_tasksVars
===============================================================================
