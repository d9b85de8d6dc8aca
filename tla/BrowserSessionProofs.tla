------------------------- MODULE BrowserSessionProofs -------------------------
(***************************************************************************)
(* What holds of a profile's sessions for any number of callers, browsers, *)
(* calls and failures: its types, the exclusion its launch lock gives, and *)
(* what the end of a session may take away from the next one.              *)
(***************************************************************************)
EXTENDS BrowserSession, TLAPS

USE DEF vars, modelled, asked, browser, scheduler, status, plaintext, data, history

USE CallerAssumption, KindAssumption, BoundAssumption

Tasks == [op : Launches \cup Stops, step : TaskSteps]

\* A caller that goes to a step keeps what it asked for; the others stay.
LEMMA GotoTask ==
  ASSUME task \in [Callers -> Tasks], NEW t \in Callers, NEW s \in TaskSteps, Goto(t, s)
  PROVE  /\ task' \in [Callers -> Tasks]
         /\ task'[t].step = s
         /\ s # "idle" => task'[t].op = task[t].op
         /\ \A c \in Callers \ {t} : task'[c] = task[c]
<1>1. Idle \in Tasks /\ Idle.step = "idle"
  BY DEF Idle, Tasks, Launches, Stops, TaskSteps
<1>2. [op |-> task[t].op, step |-> s] \in Tasks
  BY DEF Tasks
<1> QED
  BY <1>1, <1>2 DEF Goto

\* Asking replaces the task of one caller.
LEMMA AskTask ==
  ASSUME task \in [Callers -> Tasks], NEW t \in Callers, NEW op \in Launches \cup Stops,
         Ask(t, op)
  PROVE  /\ task' \in [Callers -> Tasks]
         /\ task'[t].step = "wait" /\ task'[t].op = op
         /\ \A c \in Callers \ {t} : task'[c] = task[c]
<1>1. [op |-> op, step |-> "wait"] \in Tasks
  BY DEF Tasks, TaskSteps
<1> QED
  BY <1>1 DEF Ask

\* The numbers a session may have.
LEMMA SessionNumbers ==
  /\ Sessions \subseteq Nat /\ 0 \notin Sessions /\ NoBrowser = 0
  /\ \A n \in Sessions \cup {NoBrowser} : n < MaxSessions => n + 1 \in Sessions
BY DEF Sessions, NoBrowser

\* A task keeps its type in every step of a launch or a stop.
LEMMA TaskType ==
  ASSUME task \in [Callers -> Tasks], NEW t \in Callers, LaunchStep(t) \/ StopStep(t)
  PROVE  task' \in [Callers -> Tasks]
<1> USE GotoTask DEF At, Afterwards, TaskSteps, LaunchSteps, StopSteps
<1>1. CASE LockProfileLaunch(t) BY <1>1 DEF LockProfileLaunch
<1>2. CASE RefuseLaunch(t) BY <1>2 DEF RefuseLaunch
<1>3. CASE AcquireTeamLock(t) BY <1>3 DEF AcquireTeamLock
<1>4. CASE MarkProfileRunning(t) BY <1>4 DEF MarkProfileRunning
<1>5. CASE QueueProfileSync(t) BY <1>5 DEF QueueProfileSync
<1>6. CASE CheckStatus(t) BY <1>6 DEF CheckStatus
<1>7. CASE LaunchFails(t) BY <1>7 DEF LaunchFails
<1>8. CASE PrepareForLaunch(t) BY <1>8 DEF PrepareForLaunch
<1>9. CASE LaunchWayfern(t) BY <1>9 DEF LaunchWayfern
<1>10. CASE SaveProcessInfo(t) BY <1>10 DEF SaveProcessInfo
<1>11. CASE UnwindLaunch(t) BY <1>11 DEF UnwindLaunch
<1>12. CASE UnlockProfileLaunch(t) BY <1>12 DEF UnlockProfileLaunch
<1>13. CASE StopBrowser(t) BY <1>13 DEF StopBrowser
<1>14. CASE StopFails(t) BY <1>14 DEF StopFails
<1>15. CASE ClearRecord(t) BY <1>15 DEF ClearRecord
<1>16. CASE StopTidies(t) BY <1>16 DEF StopTidies
<1>17. CASE StopDrops(t) BY <1>17 DEF StopDrops
<1>18. CASE StopReleases(t) BY <1>18 DEF StopReleases
<1>19. CASE StopMarks(t) BY <1>19 DEF StopMarks
<1> QED
  BY <1>1, <1>2, <1>3, <1>4, <1>5, <1>6, <1>7, <1>8, <1>9, <1>10, <1>11, <1>12, <1>13,
     <1>14, <1>15, <1>16, <1>17, <1>18, <1>19 DEF LaunchStep, StopStep
\* Counting a failure keeps the types.
LEMMA FailsType ==
  ASSUME failures \in Nat, faults \subseteq Faults, NEW n \in Faults, Fails(n)
  PROVE  failures' \in Nat /\ faults' \subseteq Faults
BY DEF Fails, Fault

\* What a browser leaves behind, what tidies it and what drops its copy keep them.
LEMMA BrowserGoneType ==
  ASSUME TypeOK, process # NoBrowser, BrowserGone
  PROVE  /\ process' = NoBrowser /\ ended' \subseteq Sessions
         /\ ram' \subseteq Sessions /\ disk' \subseteq Sessions /\ uncleared' \subseteq Sessions
BY DEF TypeOK, BrowserGone

LEMMA TidyType ==
  ASSUME TypeOK, Tidy
  PROVE  /\ snap' \subseteq Sessions /\ disk' \subseteq Sessions /\ uncleared' \subseteq Sessions
         /\ failures' \in Nat /\ faults' \subseteq Faults
<1> USE DEF TypeOK
<1>1. "reencrypt" \in Faults
  BY DEF Faults
<1>2. CASE kind = "protected"
  BY <1>1, <1>2, FailsType DEF Tidy
<1>3. CASE kind = "clear"
  BY <1>3 DEF Tidy
<1>4. CASE kind = "plain"
  BY <1>4 DEF Tidy
<1> QED
  BY <1>2, <1>3, <1>4 DEF AllKinds

LEMMA DropType ==
  ASSUME TypeOK, Drop
  PROVE  key' \in BOOLEAN /\ ramUp' \in BOOLEAN /\ ram' \subseteq Sessions
BY DEF TypeOK, Drop

--------------------------------------------------------------------------------
LEMMA TypeInit == Init => TypeOK
<1> SUFFICES ASSUME Init PROVE TypeOK
  OBVIOUS
<1>1. Idle \in Tasks
  BY DEF Idle, Tasks, Launches, Stops, TaskSteps
<1> QED
  BY <1>1 DEF Init, TypeOK, Tasks, NoBrowser, CheckerSteps

LEMMA TypeStep == TypeOK /\ [Next]_vars => TypeOK'
<1> SUFFICES ASSUME TypeOK, [Next]_vars PROVE TypeOK'
  OBVIOUS
<1> USE DEF TypeOK
<1>t. task \in [Callers -> Tasks]
  BY DEF Tasks
<1>n. NoBrowser \in Sessions \cup {NoBrowser}
  OBVIOUS
<1>f. /\ {"refused", "hasty", "unseen", "unsaved", "resnapped", "reencrypt", "locked"} \subseteq Faults
      /\ {"skipped", "upload"} \subseteq Faults
  BY DEF Faults
<1>o. Next => overlapped' \in BOOLEAN
  BY DEF Next
<1>1. ASSUME NEW t \in Callers, LaunchStep(t), overlapped' \in BOOLEAN PROVE TypeOK'
  <2>0. task' \in [Callers -> [op : Launches \cup Stops, step : TaskSteps]]
    BY <1>1, <1>t, TaskType DEF Tasks
  <2> USE <2>0, <1>1, <1>f
  <2>1. CASE LockProfileLaunch(t) BY <2>1 DEF LockProfileLaunch, Goto
  <2>2. CASE RefuseLaunch(t) BY <2>2 DEF RefuseLaunch, Goto
  <2>3. CASE AcquireTeamLock(t) BY <2>3 DEF AcquireTeamLock, Goto
  <2>4. CASE MarkProfileRunning(t) BY <2>4 DEF MarkProfileRunning, Goto
  <2>5. CASE QueueProfileSync(t) BY <2>5 DEF QueueProfileSync, Goto
  <2>6. CASE CheckStatus(t) BY <2>6 DEF CheckStatus, RefreshRecord, Goto
  <2>7. CASE LaunchFails(t) BY <2>7 DEF LaunchFails, Goto
  <2>8. CASE PrepareForLaunch(t)
    <3>1. CASE kind = "protected" BY <2>8, <3>1 DEF PrepareForLaunch, Goto
    <3>2. CASE kind # "protected" BY <2>8, <3>2 DEF PrepareForLaunch, Goto
    <3> QED
      BY <3>1, <3>2
  <2>9. CASE LaunchWayfern(t) BY <2>9, SessionNumbers DEF LaunchWayfern, Goto
  <2>10. CASE SaveProcessInfo(t)
    <3>1. failures' \in Nat /\ faults' \subseteq Faults
      BY <2>10, FailsType DEF SaveProcessInfo
    <3> QED
      BY <2>10, <3>1 DEF SaveProcessInfo, Goto
  <2>11. CASE UnwindLaunch(t)
    <3>1. CASE recorded # NoBrowser /\ process = recorded
      BY <2>11, <3>1 DEF UnwindLaunch, Goto
    <3>2. CASE ~(recorded # NoBrowser /\ process = recorded)
      <4>1. faults' \subseteq Faults
        BY <2>11, <3>2 DEF UnwindLaunch
      <4>2. teamLock' = FALSE /\ marked' = FALSE
        BY <2>11, <3>2 DEF UnwindLaunch
      <4> QED
        BY <2>11, <4>1, <4>2 DEF UnwindLaunch, Goto
    <3> QED
      BY <3>1, <3>2
  <2>12. CASE UnlockProfileLaunch(t) BY <2>12 DEF UnlockProfileLaunch, Goto
  <2> QED
    BY <2>1, <2>2, <2>3, <2>4, <2>5, <2>6, <2>7, <2>8, <2>9, <2>10, <2>11, <2>12
       DEF LaunchStep
<1>2. ASSUME NEW t \in Callers, StopStep(t), overlapped' \in BOOLEAN PROVE TypeOK'
  <2>0. task' \in [Callers -> [op : Launches \cup Stops, step : TaskSteps]]
    BY <1>2, <1>t, TaskType DEF Tasks
  <2> USE <2>0, <1>2, <1>n, <1>f
  <2>1. CASE StopBrowser(t)
    <3>1. CASE process # NoBrowser
      <4>1. BrowserGone
        BY <2>1, <3>1 DEF StopBrowser
      <4> QED
        BY <2>1, <3>1, <4>1, BrowserGoneType DEF StopBrowser, Goto
    <3>2. CASE process = NoBrowser
      BY <2>1, <3>2 DEF StopBrowser, Goto
    <3> QED
      BY <3>1, <3>2
  <2>2. CASE StopFails(t) BY <2>2 DEF StopFails, Goto
  <2>3. CASE ClearRecord(t) BY <2>3 DEF ClearRecord, UnseenIf, Goto
  <2>4. CASE StopTidies(t) BY <2>4, TidyType DEF StopTidies, Goto
  <2>5. CASE StopDrops(t) BY <2>5, DropType DEF StopDrops, Goto
  <2>6. CASE StopReleases(t) BY <2>6 DEF StopReleases, Goto
  <2>7. CASE StopMarks(t) BY <2>7 DEF StopMarks, Goto
  <2> QED
    BY <2>1, <2>2, <2>3, <2>4, <2>5, <2>6, <2>7 DEF StopStep
<1>3. ASSUME NEW t \in Callers, NEW op \in Launches \cup Stops, Ask(t, op),
             overlapped' \in BOOLEAN
      PROVE  TypeOK'
  <2>1. task' \in [Callers -> [op : Launches \cup Stops, step : TaskSteps]]
    BY <1>3, <1>t, AskTask DEF Tasks
  <2> QED
    BY <1>3, <2>1 DEF Ask
<1>4. ASSUME CheckerStep, overlapped' \in BOOLEAN PROVE TypeOK'
  <2> USE <1>4 DEF CheckerSteps, CheckerGoesTo
  <2>1. CASE CheckerLooks BY <2>1 DEF CheckerLooks
  <2>2. CASE CheckerChecks BY <2>2 DEF CheckerChecks, RefreshRecord
  <2>3. CASE CheckerMarksRunning BY <2>3 DEF CheckerMarksRunning
  <2>4. CASE CheckerTidies BY <2>4, TidyType DEF CheckerTidies
  <2>5. CASE CheckerDrops BY <2>5, DropType DEF CheckerDrops
  <2>6. CASE CheckerMarksStopped BY <2>6 DEF CheckerMarksStopped
  <2>7. CASE CheckerReleases BY <2>7 DEF CheckerReleases
  <2> QED
    BY <2>1, <2>2, <2>3, <2>4, <2>5, <2>6, <2>7 DEF CheckerStep
<1>5. ASSUME SyncStep, overlapped' \in BOOLEAN PROVE TypeOK'
  <2>1. CASE SyncTakes BY <1>5, <1>f, <2>1 DEF SyncTakes, Fault
  <2>2. CASE SyncUploads
    <3>1. failures' \in Nat /\ faults' \subseteq Faults
      BY <2>2, <1>f, FailsType DEF SyncUploads
    <3> QED
      BY <1>5, <2>2, <3>1 DEF SyncUploads
  <2> QED
    BY <1>5, <2>1, <2>2 DEF SyncStep
<1>6. ASSUME BrowserExits, overlapped' \in BOOLEAN PROVE TypeOK'
  BY <1>6, <1>n, BrowserGoneType DEF BrowserExits
<1>7. ASSUME OthersCheckStatus, overlapped' \in BOOLEAN PROVE TypeOK'
  BY <1>7, <1>f DEF OthersCheckStatus, RefreshRecord, UnseenIf
<1>8. ASSUME UnlockProfile \/ LockProfile, overlapped' \in BOOLEAN PROVE TypeOK'
  BY <1>8, <1>f DEF UnlockProfile, LockProfile
<1>9. CASE UNCHANGED vars
  BY <1>9
<1> QED
  BY <1>o, <1>1, <1>2, <1>3, <1>4, <1>5, <1>6, <1>7, <1>8, <1>9 DEF Next, Step

\* Every state of the model has the types its declarations give it.
THEOREM TypeCorrect == Spec => []TypeOK
BY TypeInit, TypeStep, PTL DEF Spec

--------------------------------------------------------------------------------
(***************************************************************************)
(* Who is between its first and its last step holds the launch lock, and   *)
(* from the status check of a launch to its spawn, and from the kill of a  *)
(* stop to its end, no browser runs.                                       *)
(***************************************************************************)
HeldSteps == LaunchSteps \cup StopSteps
QuietSteps == {"prepare", "spawn", "clearRecord", "tidy", "drop", "unlockStopped"}

LockInv ==
  /\ \A t \in Callers : launchLock = t <=> task[t].step \in HeldSteps
  /\ \A t \in Callers : task[t].step \in QuietSteps => process = NoBrowser

LEMMA LockInit == Init => LockInv
BY DEF Init, LockInv, HeldSteps, QuietSteps, LaunchSteps, StopSteps, Idle

\* A step of the holder to another held step; no browser starts.
LEMMA HolderMoves ==
  ASSUME TypeOK, LockInv, NEW t \in Callers, NEW s \in HeldSteps, Goto(t, s),
         task[t].step \in HeldSteps, launchLock' = launchLock,
         process' \in {process, NoBrowser},
         s \in QuietSteps => process' = NoBrowser
  PROVE  LockInv'
<1>1. task \in [Callers -> Tasks] /\ s \in TaskSteps
  BY DEF TypeOK, Tasks, HeldSteps, TaskSteps
<1>2. task'[t].step = s /\ \A c \in Callers \ {t} : task'[c] = task[c]
  BY <1>1, GotoTask
<1> QED
  BY <1>2 DEF LockInv

\* A step that neither moves a task nor the lock, nor starts a browser.
LEMMA OthersMove ==
  ASSUME LockInv, task' = task, launchLock' = launchLock,
         process' \in {process, NoBrowser}
  PROVE  LockInv'
BY DEF LockInv

LEMMA LockStep == TypeOK /\ LockInv /\ [Next]_vars => LockInv'
<1> SUFFICES ASSUME TypeOK, LockInv, [Next]_vars PROVE LockInv'
  OBVIOUS
<1>t. task \in [Callers -> Tasks]
  BY DEF TypeOK, Tasks
<1> USE DEF At
<1>1. ASSUME NEW t \in Callers, LaunchStep(t) PROVE LockInv'
  <2> USE DEF HeldSteps, QuietSteps, LaunchSteps, StopSteps
  <2>1. CASE LockProfileLaunch(t)
    <3> DEFINE s == IF task[t].op \in Stops THEN "find" ELSE "teamLock"
    <3>1. s \in {"find", "teamLock"} /\ s \in TaskSteps /\ Goto(t, s)
      BY <2>1 DEF LockProfileLaunch, TaskSteps
    <3>2. task'[t].step = s /\ \A c \in Callers \ {t} : task'[c] = task[c]
      BY <3>1, <1>t, GotoTask
    <3> QED
      BY <2>1, <3>1, <3>2 DEF LockProfileLaunch, LockInv
  <2>2. CASE RefuseLaunch(t) BY <2>2, HolderMoves DEF RefuseLaunch
  <2>3. CASE AcquireTeamLock(t) BY <2>3, HolderMoves DEF AcquireTeamLock
  <2>4. CASE MarkProfileRunning(t) BY <2>4, HolderMoves DEF MarkProfileRunning
  <2>5. CASE QueueProfileSync(t) BY <2>5, HolderMoves DEF QueueProfileSync
  <2>6. CASE CheckStatus(t) BY <2>6, HolderMoves DEF CheckStatus
  <2>7. CASE LaunchFails(t) BY <2>7, HolderMoves DEF LaunchFails
  <2>8. CASE PrepareForLaunch(t)
    <3>1. process = NoBrowser
      BY <2>8 DEF PrepareForLaunch, LockInv
    <3> QED
      BY <2>8, <3>1, HolderMoves DEF PrepareForLaunch
  <2>9. CASE LaunchWayfern(t)
    <3>1. task'[t].step = "record" /\ \A c \in Callers \ {t} : task'[c] = task[c]
      BY <2>9, <1>t, GotoTask DEF LaunchWayfern, TaskSteps
    <3> QED
      BY <2>9, <3>1 DEF LaunchWayfern, LockInv
  <2>10. CASE SaveProcessInfo(t) BY <2>10, HolderMoves DEF SaveProcessInfo
  <2>11. CASE UnwindLaunch(t) BY <2>11, HolderMoves DEF UnwindLaunch
  <2>12. CASE UnlockProfileLaunch(t)
    <3> DEFINE s == IF At(t, "unlock") THEN "idle" ELSE "release"
    <3>1. s \in {"idle", "release"} /\ s \in TaskSteps /\ Goto(t, s)
      BY <2>12 DEF UnlockProfileLaunch, TaskSteps, Afterwards
    <3>2. task'[t].step = s /\ \A c \in Callers \ {t} : task'[c] = task[c]
      BY <3>1, <1>t, GotoTask
    <3> QED
      BY <2>12, <3>1, <3>2 DEF UnlockProfileLaunch, LockInv
  <2> QED
    BY <1>1, <2>1, <2>2, <2>3, <2>4, <2>5, <2>6, <2>7, <2>8, <2>9, <2>10, <2>11, <2>12
       DEF LaunchStep
<1>2. ASSUME NEW t \in Callers, StopStep(t) PROVE LockInv'
  <2> USE DEF HeldSteps, QuietSteps, LaunchSteps, StopSteps
  <2>1. CASE StopBrowser(t)
    <3>1. process' = NoBrowser
      BY <2>1 DEF StopBrowser, BrowserGone
    <3> QED
      BY <2>1, <3>1, HolderMoves DEF StopBrowser
  <2>2. CASE StopFails(t) BY <2>2, HolderMoves DEF StopFails
  <2>3. CASE ClearRecord(t)
    <3>1. process = NoBrowser
      BY <2>3 DEF ClearRecord, LockInv
    <3> QED
      BY <2>3, <3>1, HolderMoves DEF ClearRecord
  <2>4. CASE StopTidies(t)
    <3>1. process = NoBrowser
      BY <2>4 DEF StopTidies, LockInv
    <3> QED
      BY <2>4, <3>1, HolderMoves DEF StopTidies
  <2>5. CASE StopDrops(t)
    <3>1. process = NoBrowser
      BY <2>5 DEF StopDrops, LockInv
    <3> QED
      BY <2>5, <3>1, HolderMoves DEF StopDrops
  <2>6. CASE StopReleases(t) \/ StopMarks(t)
    <3>1. PICK s \in {"idle", "markStopped"} : Goto(t, s)
      BY <2>6 DEF StopReleases, StopMarks
    <3>2. task'[t].step = s /\ \A c \in Callers \ {t} : task'[c] = task[c]
      BY <3>1, <1>t, GotoTask DEF TaskSteps, Afterwards
    <3> QED
      BY <2>6, <3>2 DEF StopReleases, StopMarks, LockInv
  <2> QED
    BY <1>2, <2>1, <2>2, <2>3, <2>4, <2>5, <2>6 DEF StopStep
<1>3. ASSUME NEW t \in Callers, NEW op \in Launches \cup Stops, Ask(t, op) PROVE LockInv'
  <2>1. task'[t].step = "wait" /\ \A c \in Callers \ {t} : task'[c] = task[c]
    BY <1>3, <1>t, AskTask
  <2> QED
    BY <1>3, <2>1 DEF Ask, LockInv, HeldSteps, QuietSteps, LaunchSteps, StopSteps
<1>4. CASE CheckerStep
  BY <1>4, OthersMove DEF CheckerStep, CheckerLooks, CheckerChecks, CheckerMarksRunning,
     CheckerTidies, CheckerDrops, CheckerMarksStopped, CheckerReleases
<1>5. CASE SyncStep
  BY <1>5, OthersMove DEF SyncStep, SyncTakes, SyncUploads
<1>6. CASE BrowserExits \/ OthersCheckStatus \/ UnlockProfile \/ LockProfile
  BY <1>6, OthersMove DEF BrowserExits, BrowserGone, OthersCheckStatus, UnlockProfile,
     LockProfile
<1>7. CASE UNCHANGED vars
  BY <1>7, OthersMove
<1> QED
  BY <1>1, <1>2, <1>3, <1>4, <1>5, <1>6, <1>7 DEF Next, Step

LEMMA LockHeld == Spec => [](TypeOK /\ LockInv)
BY TypeInit, TypeStep, LockInit, LockStep, PTL DEF Spec

--------------------------------------------------------------------------------
\* Nobody but the caller that takes a step moves, and it keeps what it asked for.
LEMMA OneMoves ==
  ASSUME TypeOK, NEW t \in Callers, LaunchStep(t) \/ StopStep(t)
  PROVE  /\ task'[t].step # "idle" => task'[t].op = task[t].op
         /\ \A c \in Callers \ {t} : task'[c] = task[c]
<1> task \in [Callers -> Tasks]
  BY DEF TypeOK, Tasks
<1> USE GotoTask DEF At, Afterwards, TaskSteps, LaunchSteps, StopSteps
<1>1. CASE LockProfileLaunch(t) BY <1>1 DEF LockProfileLaunch
<1>2. CASE RefuseLaunch(t) BY <1>2 DEF RefuseLaunch
<1>3. CASE AcquireTeamLock(t) BY <1>3 DEF AcquireTeamLock
<1>4. CASE MarkProfileRunning(t) BY <1>4 DEF MarkProfileRunning
<1>5. CASE QueueProfileSync(t) BY <1>5 DEF QueueProfileSync
<1>6. CASE CheckStatus(t) BY <1>6 DEF CheckStatus
<1>7. CASE LaunchFails(t) BY <1>7 DEF LaunchFails
<1>8. CASE PrepareForLaunch(t) BY <1>8 DEF PrepareForLaunch
<1>9. CASE LaunchWayfern(t) BY <1>9 DEF LaunchWayfern
<1>10. CASE SaveProcessInfo(t) BY <1>10 DEF SaveProcessInfo
<1>11. CASE UnwindLaunch(t) BY <1>11 DEF UnwindLaunch
<1>12. CASE UnlockProfileLaunch(t) BY <1>12 DEF UnlockProfileLaunch
<1>13. CASE StopBrowser(t) BY <1>13 DEF StopBrowser
<1>14. CASE StopFails(t) BY <1>14 DEF StopFails
<1>15. CASE ClearRecord(t) BY <1>15 DEF ClearRecord
<1>16. CASE StopTidies(t) BY <1>16 DEF StopTidies
<1>17. CASE StopDrops(t) BY <1>17 DEF StopDrops
<1>18. CASE StopReleases(t) BY <1>18 DEF StopReleases
<1>19. CASE StopMarks(t) BY <1>19 DEF StopMarks
<1> QED
  BY <1>1, <1>2, <1>3, <1>4, <1>5, <1>6, <1>7, <1>8, <1>9, <1>10, <1>11, <1>12, <1>13,
     <1>14, <1>15, <1>16, <1>17, <1>18, <1>19 DEF LaunchStep, StopStep

\* The control flow: where every step of a launch or a stop leads.
LEMMA ControlFlow ==
  ASSUME TypeOK, NEW t \in Callers
  PROVE
  /\ LockProfileLaunch(t) =>
       task[t].step = "wait" /\ task'[t].step = IF task[t].op \in Stops THEN "find" ELSE "teamLock"
  /\ RefuseLaunch(t) =>
       task[t].step = "teamLock" /\ task'[t].step = "unlock"
  /\ AcquireTeamLock(t) =>
       task[t].step = "teamLock" /\ task'[t].step = IF task[t].op = "url" THEN "status" ELSE "mark"
  /\ MarkProfileRunning(t) =>
       task[t].step = "mark" /\ task'[t].step = "queue"
  /\ QueueProfileSync(t) =>
       task[t].step = "queue" /\ task'[t].step = "status"
  /\ CheckStatus(t) =>
       task[t].step = "status" /\ task'[t].step \in IF process = NoBrowser THEN {"prepare"} ELSE {"unlock", "unwind"}
  /\ LaunchFails(t) =>
       task[t].step \in {"prepare", "spawn"} /\ task'[t].step = "unwind"
  /\ PrepareForLaunch(t) =>
       task[t].step = "prepare" /\ task'[t].step = "spawn"
  /\ LaunchWayfern(t) =>
       task[t].step = "spawn" /\ task'[t].step = "record"
  /\ SaveProcessInfo(t) =>
       task[t].step = "record" /\ task'[t].step \in {"unlock", "unwind"}
  /\ UnwindLaunch(t) =>
       task[t].step = "unwind" /\ task'[t].step = "unlock"
  /\ UnlockProfileLaunch(t) =>
       task[t].step \in {"unlock", "unlockStopped"} /\ task'[t].step = IF task[t].step = "unlock" THEN "idle" ELSE "release"
  /\ StopBrowser(t) =>
       task[t].step = "find" /\ task'[t].step = "clearRecord"
  /\ StopFails(t) =>
       task[t].step = "find" /\ task'[t].step = "unlock"
  /\ ClearRecord(t) =>
       task[t].step = "clearRecord" /\ task'[t].step \in {"tidy", "unlock"}
  /\ StopTidies(t) =>
       task[t].step = "tidy" /\ task'[t].step = "drop"
  /\ StopDrops(t) =>
       task[t].step = "drop" /\ task'[t].step = "unlockStopped"
  /\ StopReleases(t) =>
       task[t].step = "release" /\ task'[t].step \in {"idle", "markStopped"}
  /\ StopMarks(t) =>
       task[t].step = "markStopped" /\ task'[t].step = "idle"
<1> task \in [Callers -> Tasks]
  BY DEF TypeOK, Tasks
<1> USE GotoTask DEF At, Afterwards, TaskSteps, LaunchSteps, StopSteps
<1>1. ASSUME LockProfileLaunch(t)
      PROVE  task[t].step = "wait" /\ task'[t].step = IF task[t].op \in Stops THEN "find" ELSE "teamLock"
  BY <1>1 DEF LockProfileLaunch
<1>2. ASSUME RefuseLaunch(t)
      PROVE  task[t].step = "teamLock" /\ task'[t].step = "unlock"
  BY <1>2 DEF RefuseLaunch
<1>3. ASSUME AcquireTeamLock(t)
      PROVE  task[t].step = "teamLock" /\ task'[t].step = IF task[t].op = "url" THEN "status" ELSE "mark"
  BY <1>3 DEF AcquireTeamLock
<1>4. ASSUME MarkProfileRunning(t)
      PROVE  task[t].step = "mark" /\ task'[t].step = "queue"
  BY <1>4 DEF MarkProfileRunning
<1>5. ASSUME QueueProfileSync(t)
      PROVE  task[t].step = "queue" /\ task'[t].step = "status"
  BY <1>5 DEF QueueProfileSync
<1>6. ASSUME CheckStatus(t)
      PROVE  task[t].step = "status" /\ task'[t].step \in IF process = NoBrowser THEN {"prepare"} ELSE {"unlock", "unwind"}
  BY <1>6 DEF CheckStatus
<1>7. ASSUME LaunchFails(t)
      PROVE  task[t].step \in {"prepare", "spawn"} /\ task'[t].step = "unwind"
  BY <1>7 DEF LaunchFails
<1>8. ASSUME PrepareForLaunch(t)
      PROVE  task[t].step = "prepare" /\ task'[t].step = "spawn"
  BY <1>8 DEF PrepareForLaunch
<1>9. ASSUME LaunchWayfern(t)
      PROVE  task[t].step = "spawn" /\ task'[t].step = "record"
  BY <1>9 DEF LaunchWayfern
<1>10. ASSUME SaveProcessInfo(t)
      PROVE  task[t].step = "record" /\ task'[t].step \in {"unlock", "unwind"}
  BY <1>10 DEF SaveProcessInfo
<1>11. ASSUME UnwindLaunch(t)
      PROVE  task[t].step = "unwind" /\ task'[t].step = "unlock"
  BY <1>11 DEF UnwindLaunch
<1>12. ASSUME UnlockProfileLaunch(t)
      PROVE  task[t].step \in {"unlock", "unlockStopped"} /\ task'[t].step = IF task[t].step = "unlock" THEN "idle" ELSE "release"
  BY <1>12 DEF UnlockProfileLaunch
<1>13. ASSUME StopBrowser(t)
      PROVE  task[t].step = "find" /\ task'[t].step = "clearRecord"
  BY <1>13 DEF StopBrowser
<1>14. ASSUME StopFails(t)
      PROVE  task[t].step = "find" /\ task'[t].step = "unlock"
  BY <1>14 DEF StopFails
<1>15. ASSUME ClearRecord(t)
      PROVE  task[t].step = "clearRecord" /\ task'[t].step \in {"tidy", "unlock"}
  BY <1>15 DEF ClearRecord
<1>16. ASSUME StopTidies(t)
      PROVE  task[t].step = "tidy" /\ task'[t].step = "drop"
  BY <1>16 DEF StopTidies
<1>17. ASSUME StopDrops(t)
      PROVE  task[t].step = "drop" /\ task'[t].step = "unlockStopped"
  BY <1>17 DEF StopDrops
<1>18. ASSUME StopReleases(t)
      PROVE  task[t].step = "release" /\ task'[t].step \in {"idle", "markStopped"}
  BY <1>18 DEF StopReleases
<1>19. ASSUME StopMarks(t)
      PROVE  task[t].step = "markStopped" /\ task'[t].step = "idle"
  BY <1>19 DEF StopMarks
<1> QED
  BY <1>1, <1>2, <1>3, <1>4, <1>5, <1>6, <1>7, <1>8, <1>9, <1>10, <1>11, <1>12, <1>13,
     <1>14, <1>15, <1>16, <1>17, <1>18, <1>19

--------------------------------------------------------------------------------
(***************************************************************************)
(* What one session may take away from another.  The end of a session is   *)
(* dealt with outside of the launch lock, so the argument is about the     *)
(* states in which no launch overlaps it.                                  *)
(***************************************************************************)
Before == {"mark", "queue", "status", "prepare", "spawn", "record"}
AfterTidy == {"drop", "unlockStopped", "release", "markStopped"}
Unsaved == "unsaved" \in faults
Lost == faults \cap {"reencrypt", "resnapped", "locked", "unsaved"} # {}

\* What launches were asked for as, and how browsers are numbered.
AskInv ==
  /\ \A t \in Callers : task[t].step \in LaunchSteps \ {"unlock"} => task[t].op \in Launches
  /\ process \in {started, NoBrowser}
  /\ \A n \in queued \cup ended \cup uncleared : n <= started

\* A browser that runs is recorded, or about to be.
SeenInv ==
  process # NoBrowser =>
    recorded = process \/ (\E t \in Callers : task[t].step = "record") \/ Unsaved

\* As long as nothing overlapped, nothing runs while an end is dealt with.
EndInv ==
  \/ overlapped
  \/ ~(Launching /\ Ending) /\ (Ending => process = NoBrowser)

LEMMA AskStep ==
  ASSUME TypeOK, AskInv, [Next]_vars
  PROVE  AskInv'
<1> USE DEF AskInv, Launches, Stops, LaunchSteps, NoBrowser
<1>1. ASSUME NEW t \in Callers, LaunchStep(t) PROVE AskInv'
  <2>m. /\ task'[t].step # "idle" => task'[t].op = task[t].op
        /\ \A c \in Callers \ {t} : task'[c] = task[c]
    BY <1>1, OneMoves
  <2>1. CASE LockProfileLaunch(t)
    <3>1. task[t].step = "wait" /\ task'[t].step = IF task[t].op \in Stops THEN "find" ELSE "teamLock"
      BY <2>1, ControlFlow
    <3>2. task[t].op \in Launches \cup Stops
      BY DEF TypeOK
    <3> QED
      BY <2>m, <2>1, <3>1, <3>2 DEF LockProfileLaunch
  <2>2. CASE RefuseLaunch(t)
    <3>1. task[t].step = "teamLock" /\ task'[t].step = "unlock"
      BY <2>2, ControlFlow
    <3> QED
      BY <2>m, <2>2, <3>1 DEF RefuseLaunch
  <2>3. CASE AcquireTeamLock(t)
    <3>1. task[t].step = "teamLock" /\ task'[t].step = IF task[t].op = "url" THEN "status" ELSE "mark"
      BY <2>3, ControlFlow
    <3> QED
      BY <2>m, <2>3, <3>1 DEF AcquireTeamLock
  <2>4. CASE MarkProfileRunning(t)
    <3>1. task[t].step = "mark" /\ task'[t].step = "queue"
      BY <2>4, ControlFlow
    <3> QED
      BY <2>m, <2>4, <3>1 DEF MarkProfileRunning
  <2>5. CASE QueueProfileSync(t)
    <3>1. task[t].step = "queue" /\ task'[t].step = "status"
      BY <2>5, ControlFlow
    <3> QED
      BY <2>m, <2>5, <3>1 DEF QueueProfileSync
  <2>6. CASE CheckStatus(t)
    <3>1. task[t].step = "status" /\ task'[t].step \in IF process = NoBrowser THEN {"prepare"} ELSE {"unlock", "unwind"}
      BY <2>6, ControlFlow
    <3> QED
      BY <2>m, <2>6, <3>1 DEF CheckStatus, RefreshRecord
  <2>7. CASE LaunchFails(t)
    <3>1. task[t].step \in {"prepare", "spawn"} /\ task'[t].step = "unwind"
      BY <2>7, ControlFlow
    <3> QED
      BY <2>m, <2>7, <3>1 DEF LaunchFails
  <2>8. CASE PrepareForLaunch(t)
    <3>1. task[t].step = "prepare" /\ task'[t].step = "spawn"
      BY <2>8, ControlFlow
    <3> QED
      BY <2>m, <2>8, <3>1 DEF PrepareForLaunch
  <2>9. CASE LaunchWayfern(t)
    <3>1. task[t].step = "spawn" /\ task'[t].step = "record"
      BY <2>9, ControlFlow
    <3>2. started + 1 \in Nat /\ started <= started + 1 /\ started \in Nat
      BY SessionNumbers DEF TypeOK
    <3>3. \A n \in queued \cup ended \cup uncleared : n \in Nat
      BY SessionNumbers DEF TypeOK
    <3>4. \A n \in queued' \cup ended' \cup uncleared' : n <= started'
      <4> SUFFICES ASSUME NEW n \in queued' \cup ended' \cup uncleared' PROVE n <= started'
        OBVIOUS
      <4>1. n \in queued \cup ended \cup uncleared \/ n = started + 1
        BY <2>9 DEF LaunchWayfern
      <4> QED
        BY <2>9, <3>2, <3>3, <4>1 DEF LaunchWayfern
    <3> QED
      BY <2>m, <2>9, <3>1, <3>4 DEF LaunchWayfern
  <2>10. CASE SaveProcessInfo(t)
    <3>1. task[t].step = "record" /\ task'[t].step \in {"unlock", "unwind"}
      BY <2>10, ControlFlow
    <3> QED
      BY <2>m, <2>10, <3>1 DEF SaveProcessInfo, Fails, Fault
  <2>11. CASE UnwindLaunch(t)
    <3>1. task[t].step = "unwind" /\ task'[t].step = "unlock"
      BY <2>11, ControlFlow
    <3> QED
      BY <2>m, <2>11, <3>1 DEF UnwindLaunch
  <2>12. CASE UnlockProfileLaunch(t)
    <3>1. task[t].step \in {"unlock", "unlockStopped"} /\ task'[t].step = IF task[t].step = "unlock" THEN "idle" ELSE "release"
      BY <2>12, ControlFlow
    <3> QED
      BY <2>m, <2>12, <3>1 DEF UnlockProfileLaunch
  <2> QED
    BY <1>1, <2>1, <2>2, <2>3, <2>4, <2>5, <2>6, <2>7, <2>8, <2>9, <2>10, <2>11, <2>12
       DEF LaunchStep
<1>2. ASSUME NEW t \in Callers, StopStep(t) PROVE AskInv'
  <2>m. /\ task'[t].step # "idle" => task'[t].op = task[t].op
        /\ \A c \in Callers \ {t} : task'[c] = task[c]
    BY <1>2, OneMoves
  <2>1. CASE StopBrowser(t)
    <3>1. task[t].step = "find" /\ task'[t].step = "clearRecord"
      BY <2>1, ControlFlow
    <3>2. process' \in {started', NoBrowser}
      BY <2>1 DEF StopBrowser, BrowserGone
    <3>3. ended' \subseteq ended \cup {process} /\ uncleared' \subseteq uncleared \cup {process}
      BY <2>1 DEF StopBrowser, BrowserGone
    <3>4. process <= started
      BY SessionNumbers DEF TypeOK
    <3> QED
      BY <2>m, <2>1, <3>1, <3>2, <3>3, <3>4 DEF StopBrowser
  <2>2. CASE StopFails(t)
    <3>1. task[t].step = "find" /\ task'[t].step = "unlock"
      BY <2>2, ControlFlow
    <3> QED
      BY <2>m, <2>2, <3>1 DEF StopFails
  <2>3. CASE ClearRecord(t)
    <3>1. task[t].step = "clearRecord" /\ task'[t].step \in {"tidy", "unlock"}
      BY <2>3, ControlFlow
    <3> QED
      BY <2>m, <2>3, <3>1 DEF ClearRecord, UnseenIf
  <2>4. CASE StopTidies(t)
    <3>1. task[t].step = "tidy" /\ task'[t].step = "drop"
      BY <2>4, ControlFlow
    <3>2. uncleared' \subseteq uncleared
      BY <2>4 DEF StopTidies, Tidy
    <3> QED
      BY <2>m, <2>4, <3>1, <3>2 DEF StopTidies
  <2>5. CASE StopDrops(t)
    <3>1. task[t].step = "drop" /\ task'[t].step = "unlockStopped"
      BY <2>5, ControlFlow
    <3> QED
      BY <2>m, <2>5, <3>1 DEF StopDrops
  <2>6. CASE StopReleases(t)
    <3>1. task[t].step = "release" /\ task'[t].step \in {"idle", "markStopped"}
      BY <2>6, ControlFlow
    <3> QED
      BY <2>m, <2>6, <3>1 DEF StopReleases
  <2>7. CASE StopMarks(t)
    <3>1. task[t].step = "markStopped" /\ task'[t].step = "idle"
      BY <2>7, ControlFlow
    <3> QED
      BY <2>m, <2>7, <3>1 DEF StopMarks
  <2> QED
    BY <1>2, <2>1, <2>2, <2>3, <2>4, <2>5, <2>6, <2>7 DEF StopStep
<1>3. ASSUME NEW t \in Callers, NEW op \in Launches \cup Stops, Ask(t, op) PROVE AskInv'
  <2>1. /\ task'[t].step = "wait" /\ task'[t].op = op
        /\ \A c \in Callers \ {t} : task'[c] = task[c]
    <3> task \in [Callers -> Tasks]
      BY DEF TypeOK, Tasks
    <3> QED
      BY <1>3, AskTask
  <2> QED
    BY <1>3, <2>1 DEF Ask, At
<1>4. CASE CheckerStep
  <2>1. CASE CheckerLooks BY <2>1 DEF CheckerLooks
  <2>2. CASE CheckerChecks BY <2>2 DEF CheckerChecks, RefreshRecord
  <2>3. CASE CheckerMarksRunning BY <2>3 DEF CheckerMarksRunning
  <2>4. CASE CheckerTidies
    <3>1. uncleared' \subseteq uncleared
      BY <2>4 DEF CheckerTidies, Tidy
    <3> QED
      BY <2>4, <3>1 DEF CheckerTidies
  <2>5. CASE CheckerDrops BY <2>5 DEF CheckerDrops
  <2>6. CASE CheckerMarksStopped BY <2>6 DEF CheckerMarksStopped
  <2>7. CASE CheckerReleases BY <2>7 DEF CheckerReleases
  <2> QED
    BY <1>4, <2>1, <2>2, <2>3, <2>4, <2>5, <2>6, <2>7 DEF CheckerStep
<1>5. CASE SyncStep
  BY <1>5 DEF SyncStep, SyncTakes, SyncUploads, Fails, Fault
<1>6. CASE BrowserExits
  <2>1. ended' \subseteq ended \cup {process} /\ uncleared' \subseteq uncleared \cup {process}
    BY <1>6 DEF BrowserExits, BrowserGone
  <2>2. process <= started
    BY SessionNumbers DEF TypeOK
  <2> QED
    BY <1>6, <2>1, <2>2 DEF BrowserExits, BrowserGone
<1>7. CASE OthersCheckStatus
  BY <1>7 DEF OthersCheckStatus, RefreshRecord, UnseenIf
<1>8. CASE UnlockProfile
  BY <1>8 DEF UnlockProfile
<1>9. CASE LockProfile
  BY <1>9 DEF LockProfile
<1>10. CASE UNCHANGED vars
  BY <1>10
<1> QED
  BY <1>1, <1>2, <1>3, <1>4, <1>5, <1>6, <1>7, <1>8, <1>9, <1>10 DEF Next, Step

LEMMA SeenStep ==
  ASSUME TypeOK, LockInv, AskInv, SeenInv, [Next]_vars
  PROVE  SeenInv'
<1> USE DEF LockInv, AskInv, SeenInv, Unsaved, HeldSteps, QuietSteps, LaunchSteps, StopSteps, NoBrowser
<1>1. ASSUME NEW t \in Callers, LaunchStep(t) PROVE SeenInv'
  <2>m. /\ task'[t].step # "idle" => task'[t].op = task[t].op
        /\ \A c \in Callers \ {t} : task'[c] = task[c]
    BY <1>1, OneMoves
  <2>1. CASE LockProfileLaunch(t)
    <3>1. task[t].step = "wait" /\ task'[t].step = IF task[t].op \in Stops THEN "find" ELSE "teamLock"
      BY <2>1, ControlFlow
    <3> QED
      BY <2>m, <2>1, <3>1 DEF LockProfileLaunch
  <2>2. CASE RefuseLaunch(t)
    <3>1. task[t].step = "teamLock" /\ task'[t].step = "unlock"
      BY <2>2, ControlFlow
    <3> QED
      BY <2>m, <2>2, <3>1 DEF RefuseLaunch
  <2>3. CASE AcquireTeamLock(t)
    <3>1. task[t].step = "teamLock" /\ task'[t].step = IF task[t].op = "url" THEN "status" ELSE "mark"
      BY <2>3, ControlFlow
    <3> QED
      BY <2>m, <2>3, <3>1 DEF AcquireTeamLock
  <2>4. CASE MarkProfileRunning(t)
    <3>1. task[t].step = "mark" /\ task'[t].step = "queue"
      BY <2>4, ControlFlow
    <3> QED
      BY <2>m, <2>4, <3>1 DEF MarkProfileRunning
  <2>5. CASE QueueProfileSync(t)
    <3>1. task[t].step = "queue" /\ task'[t].step = "status"
      BY <2>5, ControlFlow
    <3> QED
      BY <2>m, <2>5, <3>1 DEF QueueProfileSync
  <2>6. CASE CheckStatus(t)
    <3>1. task[t].step = "status" /\ task'[t].step \in IF process = NoBrowser THEN {"prepare"} ELSE {"unlock", "unwind"}
      BY <2>6, ControlFlow
    <3> QED
      BY <2>m, <2>6, <3>1 DEF CheckStatus, RefreshRecord
  <2>7. CASE LaunchFails(t)
    <3>1. task[t].step \in {"prepare", "spawn"} /\ task'[t].step = "unwind"
      BY <2>7, ControlFlow
    <3> QED
      BY <2>m, <2>7, <3>1 DEF LaunchFails
  <2>8. CASE PrepareForLaunch(t)
    <3>1. task[t].step = "prepare" /\ task'[t].step = "spawn"
      BY <2>8, ControlFlow
    <3> QED
      BY <2>m, <2>8, <3>1 DEF PrepareForLaunch
  <2>9. CASE LaunchWayfern(t)
    <3>1. task[t].step = "spawn" /\ task'[t].step = "record"
      BY <2>9, ControlFlow
    <3> QED
      BY <2>m, <2>9, <3>1 DEF LaunchWayfern
  <2>10. CASE SaveProcessInfo(t)
    <3>1. task[t].step = "record" /\ task'[t].step \in {"unlock", "unwind"}
      BY <2>10, ControlFlow
    <3> QED
      BY <2>m, <2>10, <3>1 DEF SaveProcessInfo, Fails, Fault
  <2>11. CASE UnwindLaunch(t)
    <3>1. task[t].step = "unwind" /\ task'[t].step = "unlock"
      BY <2>11, ControlFlow
    <3> QED
      BY <2>m, <2>11, <3>1 DEF UnwindLaunch
  <2>12. CASE UnlockProfileLaunch(t)
    <3>1. task[t].step \in {"unlock", "unlockStopped"} /\ task'[t].step = IF task[t].step = "unlock" THEN "idle" ELSE "release"
      BY <2>12, ControlFlow
    <3> QED
      BY <2>m, <2>12, <3>1 DEF UnlockProfileLaunch
  <2> QED
    BY <1>1, <2>1, <2>2, <2>3, <2>4, <2>5, <2>6, <2>7, <2>8, <2>9, <2>10, <2>11, <2>12
       DEF LaunchStep
<1>2. ASSUME NEW t \in Callers, StopStep(t) PROVE SeenInv'
  <2>m. /\ task'[t].step # "idle" => task'[t].op = task[t].op
        /\ \A c \in Callers \ {t} : task'[c] = task[c]
    BY <1>2, OneMoves
  <2>1. CASE StopBrowser(t)
    <3>1. task[t].step = "find" /\ task'[t].step = "clearRecord"
      BY <2>1, ControlFlow
    <3> QED
      BY <2>m, <2>1, <3>1 DEF StopBrowser, BrowserGone
  <2>2. CASE StopFails(t)
    <3>1. task[t].step = "find" /\ task'[t].step = "unlock"
      BY <2>2, ControlFlow
    <3> QED
      BY <2>m, <2>2, <3>1 DEF StopFails
  <2>3. CASE ClearRecord(t)
    <3>1. task[t].step = "clearRecord" /\ task'[t].step \in {"tidy", "unlock"}
      BY <2>3, ControlFlow
    <3> QED
      BY <2>m, <2>3, <3>1 DEF ClearRecord, UnseenIf
  <2>4. CASE StopTidies(t)
    <3>1. task[t].step = "tidy" /\ task'[t].step = "drop"
      BY <2>4, ControlFlow
    <3>2. process = NoBrowser
      BY <3>1
    <3> QED
      BY <2>4, <3>2 DEF StopTidies
  <2>5. CASE StopDrops(t)
    <3>1. task[t].step = "drop" /\ task'[t].step = "unlockStopped"
      BY <2>5, ControlFlow
    <3> QED
      BY <2>m, <2>5, <3>1 DEF StopDrops
  <2>6. CASE StopReleases(t)
    <3>1. task[t].step = "release" /\ task'[t].step \in {"idle", "markStopped"}
      BY <2>6, ControlFlow
    <3> QED
      BY <2>m, <2>6, <3>1 DEF StopReleases
  <2>7. CASE StopMarks(t)
    <3>1. task[t].step = "markStopped" /\ task'[t].step = "idle"
      BY <2>7, ControlFlow
    <3> QED
      BY <2>m, <2>7, <3>1 DEF StopMarks
  <2> QED
    BY <1>2, <2>1, <2>2, <2>3, <2>4, <2>5, <2>6, <2>7 DEF StopStep
<1>3. ASSUME NEW t \in Callers, NEW op \in Launches \cup Stops, Ask(t, op) PROVE SeenInv'
  <2>1. /\ task'[t].step = "wait" /\ task'[t].op = op
        /\ \A c \in Callers \ {t} : task'[c] = task[c]
    <3> task \in [Callers -> Tasks]
      BY DEF TypeOK, Tasks
    <3> QED
      BY <1>3, AskTask
  <2> QED
    BY <1>3, <2>1 DEF Ask, At
<1>4. CASE CheckerStep
  <2>1. CASE CheckerLooks BY <2>1 DEF CheckerLooks
  <2>2. CASE CheckerChecks BY <2>2 DEF CheckerChecks, RefreshRecord
  <2>3. CASE CheckerMarksRunning BY <2>3 DEF CheckerMarksRunning
  <2>4. CASE CheckerTidies
    <3>1. "unsaved" \in faults => "unsaved" \in faults'
      BY <2>4 DEF CheckerTidies, Tidy, Fails, Fault
    <3> QED
      BY <2>4, <3>1 DEF CheckerTidies
  <2>5. CASE CheckerDrops BY <2>5 DEF CheckerDrops
  <2>6. CASE CheckerMarksStopped BY <2>6 DEF CheckerMarksStopped
  <2>7. CASE CheckerReleases BY <2>7 DEF CheckerReleases
  <2> QED
    BY <1>4, <2>1, <2>2, <2>3, <2>4, <2>5, <2>6, <2>7 DEF CheckerStep
<1>5. CASE SyncStep
  BY <1>5 DEF SyncStep, SyncTakes, SyncUploads, Fails, Fault
<1>6. CASE BrowserExits
  BY <1>6 DEF BrowserExits, BrowserGone
<1>7. CASE OthersCheckStatus
  BY <1>7 DEF OthersCheckStatus, RefreshRecord, UnseenIf
<1>8. CASE UnlockProfile
  BY <1>8 DEF UnlockProfile
<1>9. CASE LockProfile
  BY <1>9 DEF LockProfile
<1>10. CASE UNCHANGED vars
  BY <1>10
<1> QED
  BY <1>1, <1>2, <1>3, <1>4, <1>5, <1>6, <1>7, <1>8, <1>9, <1>10 DEF Next, Step

\* Only LaunchWayfern starts a browser, only CheckerStep moves the checker, and
\* nothing that went wrong is forgotten.
LEMMA BrowserStarts ==
  ASSUME Next
  PROVE  process' \in {process, NoBrowser} \/ \E t \in Callers : LaunchWayfern(t)
<1>1. ASSUME NEW t \in Callers, LaunchStep(t), ~LaunchWayfern(t) PROVE process' = process
  BY <1>1 DEF LaunchStep, LockProfileLaunch, RefuseLaunch, AcquireTeamLock,
     MarkProfileRunning, QueueProfileSync, CheckStatus, LaunchFails, PrepareForLaunch,
     SaveProcessInfo, UnwindLaunch, UnlockProfileLaunch
<1>2. ASSUME NEW t \in Callers, StopStep(t) PROVE process' \in {process, NoBrowser}
  BY <1>2 DEF StopStep, StopBrowser, BrowserGone, StopFails, ClearRecord, StopTidies,
     StopDrops, StopReleases, StopMarks
<1>3. ASSUME NEW t \in Callers, NEW op \in Launches \cup Stops, Ask(t, op)
      PROVE  process' = process
  BY <1>3 DEF Ask
<1>4. CASE CheckerStep
  BY <1>4 DEF CheckerStep, CheckerLooks, CheckerChecks, CheckerMarksRunning, CheckerTidies,
     CheckerDrops, CheckerMarksStopped, CheckerReleases
<1>5. CASE SyncStep
  BY <1>5 DEF SyncStep, SyncTakes, SyncUploads
<1>6. CASE BrowserExits \/ OthersCheckStatus \/ UnlockProfile \/ LockProfile
  BY <1>6 DEF BrowserExits, BrowserGone, OthersCheckStatus, UnlockProfile, LockProfile
<1> QED
  BY <1>1, <1>2, <1>3, <1>4, <1>5, <1>6 DEF Next, Step

LEMMA CheckerMoves ==
  ASSUME Next
  PROVE  checker' = checker \/ CheckerStep
<1>1. ASSUME NEW t \in Callers, LaunchStep(t) PROVE checker' = checker
  BY <1>1 DEF LaunchStep, LockProfileLaunch, RefuseLaunch, AcquireTeamLock,
     MarkProfileRunning, QueueProfileSync, CheckStatus, LaunchFails, PrepareForLaunch,
     LaunchWayfern, SaveProcessInfo, UnwindLaunch, UnlockProfileLaunch
<1>2. ASSUME NEW t \in Callers, StopStep(t) PROVE checker' = checker
  BY <1>2 DEF StopStep, StopBrowser, StopFails, ClearRecord, StopTidies, StopDrops,
     StopReleases, StopMarks
<1>3. ASSUME NEW t \in Callers, NEW op \in Launches \cup Stops, Ask(t, op)
      PROVE  checker' = checker
  BY <1>3 DEF Ask
<1>4. SyncStep => checker' = checker
  BY DEF SyncStep, SyncTakes, SyncUploads
<1>5. BrowserExits \/ OthersCheckStatus \/ UnlockProfile \/ LockProfile => checker' = checker
  BY DEF BrowserExits, OthersCheckStatus, UnlockProfile, LockProfile
<1> QED
  BY <1>1, <1>2, <1>3, <1>4, <1>5 DEF Next, Step

LEMMA FaultsGrow ==
  ASSUME [Next]_vars
  PROVE  faults \subseteq faults' /\ (overlapped => overlapped')
<1> USE DEF Fault, Fails
<1>0. Tidy => faults \subseteq faults'
  BY DEF Tidy
<1>1. ASSUME NEW t \in Callers, LaunchStep(t) PROVE faults \subseteq faults'
  BY <1>1 DEF LaunchStep, LockProfileLaunch, RefuseLaunch, AcquireTeamLock,
     MarkProfileRunning, QueueProfileSync, CheckStatus, LaunchFails, PrepareForLaunch,
     LaunchWayfern, SaveProcessInfo, UnwindLaunch, UnlockProfileLaunch
<1>2. ASSUME NEW t \in Callers, StopStep(t) PROVE faults \subseteq faults'
  BY <1>0, <1>2 DEF StopStep, StopBrowser, StopFails, ClearRecord, UnseenIf, StopTidies,
     StopDrops, StopReleases, StopMarks
<1>3. ASSUME NEW t \in Callers, NEW op \in Launches \cup Stops, Ask(t, op)
      PROVE  faults \subseteq faults'
  BY <1>3 DEF Ask
<1>4. CheckerStep => faults \subseteq faults'
  BY <1>0 DEF CheckerStep, CheckerLooks, CheckerChecks, CheckerMarksRunning, CheckerTidies,
     CheckerDrops, CheckerMarksStopped, CheckerReleases
<1>5. SyncStep => faults \subseteq faults'
  BY DEF SyncStep, SyncTakes, SyncUploads
<1>6. BrowserExits \/ OthersCheckStatus \/ UnlockProfile \/ LockProfile
        => faults \subseteq faults'
  BY DEF BrowserExits, OthersCheckStatus, UnseenIf, UnlockProfile, LockProfile
<1>7. CASE UNCHANGED vars
  BY <1>7
<1>8. Next => (overlapped => overlapped')
  BY DEF Next
<1>9. Step => faults \subseteq faults'
  BY <1>1, <1>2, <1>3, <1>4, <1>5, <1>6 DEF Step
<1> QED
  BY <1>7, <1>8, <1>9 DEF Next

\* An end that begins to be dealt with was seen to be one.
LEMMA EndsQuiet ==
  ASSUME TypeOK, LockInv, Next, ~Ending, Ending'
  PROVE  process' = NoBrowser
<1> USE DEF Ending, Afterwards
<1>1. ASSUME NEW t \in Callers, LaunchStep(t) PROVE process' = NoBrowser
  <2>1. checker' = checker
    BY <1>1 DEF LaunchStep, LockProfileLaunch, RefuseLaunch, AcquireTeamLock,
       MarkProfileRunning, QueueProfileSync, CheckStatus, LaunchFails, PrepareForLaunch,
       LaunchWayfern, SaveProcessInfo, UnwindLaunch, UnlockProfileLaunch
  <2>2. task'[t].step \in Afterwards
    BY <1>1, <2>1, OneMoves
  <2>3. UnlockProfileLaunch(t) /\ task[t].step = "unlockStopped"
    BY <1>1, <2>2, ControlFlow DEF LaunchStep
  <2> QED
    BY <2>3 DEF UnlockProfileLaunch, LockInv, QuietSteps
<1>2. ASSUME NEW t \in Callers, StopStep(t) PROVE process' = NoBrowser
  <2>1. checker' = checker
    BY <1>2 DEF StopStep, StopBrowser, StopFails, ClearRecord, StopTidies, StopDrops,
       StopReleases, StopMarks
  <2>2. task'[t].step \in Afterwards /\ task[t].step \notin Afterwards
    BY <1>2, <2>1, OneMoves
  <2> QED
    BY <1>2, <2>2, ControlFlow DEF StopStep
<1>3. ASSUME NEW t \in Callers, NEW op \in Launches \cup Stops, Ask(t, op)
      PROVE  process' = NoBrowser
  <2>1. task'[t].step = "wait" /\ \A c \in Callers \ {t} : task'[c] = task[c]
    <3> task \in [Callers -> Tasks]
      BY DEF TypeOK, Tasks
    <3> QED
      BY <1>3, AskTask
  <2> QED
    BY <1>3, <2>1 DEF Ask
<1>4. CASE CheckerStep
  BY <1>4 DEF CheckerStep, CheckerGoesTo, CheckerLooks, CheckerChecks, CheckerMarksRunning,
     CheckerTidies, CheckerDrops, CheckerMarksStopped, CheckerReleases
<1>5. CASE SyncStep
  BY <1>5 DEF SyncStep, SyncTakes, SyncUploads
<1>6. CASE BrowserExits \/ OthersCheckStatus \/ UnlockProfile \/ LockProfile
  BY <1>6 DEF BrowserExits, OthersCheckStatus, UnlockProfile, LockProfile
<1> QED
  BY <1>1, <1>2, <1>3, <1>4, <1>5, <1>6 DEF Next, Step

LEMMA EndStep ==
  ASSUME TypeOK, LockInv, AskInv, EndInv, [Next]_vars
  PROVE  EndInv'
<1>1. CASE UNCHANGED vars
  BY <1>1 DEF EndInv, Launching, Ending
<1>2. CASE Next
  <2>1. overlapped' = (overlapped \/ (Launching' /\ Ending'))
    BY <1>2 DEF Next
  <2>2. ASSUME ~overlapped', Ending' PROVE process' = NoBrowser
    <3>1. CASE Ending
      <4>1. process = NoBrowser /\ ~Launching
        BY <2>1, <2>2, <3>1 DEF EndInv
      <4>2. \A t \in Callers : ~LaunchWayfern(t)
        BY <4>1 DEF LaunchWayfern, At, AskInv, Launching, LaunchSteps
      <4> QED
        BY <1>2, <4>1, <4>2, BrowserStarts
    <3>2. CASE ~Ending
      BY <1>2, <2>2, <3>2, EndsQuiet
    <3> QED
      BY <3>1, <3>2
  <2> QED
    BY <2>1, <2>2 DEF EndInv
<1> QED
  BY <1>1, <1>2

--------------------------------------------------------------------------------
(***************************************************************************)
(* What a browser that runs, or is about to, holds: the team lock, and if  *)
(* its launch queued a sync the mark that defers it.                       *)
(***************************************************************************)
Held ==
  /\ process # NoBrowser => teamLock
  /\ process \in queued => marked
  /\ \A t \in Callers : task[t].step \in Before => teamLock
  /\ \A t \in Callers :
       task[t].step \in {"queue", "status", "prepare", "spawn"} /\ task[t].op # "url" => marked

HoldInv == ~overlapped /\ ~Unsaved => Held

LEMMA HoldStep ==
  ASSUME TypeOK, LockInv, AskInv, SeenInv, EndInv, HoldInv, [Next]_vars
  PROVE  HoldInv'
<1> SUFFICES ASSUME ~overlapped', ~Unsaved' PROVE Held'
  BY DEF HoldInv
<1>a. ~overlapped /\ ~Unsaved
  BY FaultsGrow DEF Unsaved
<1>b. Held
  BY <1>a DEF HoldInv
<1>c. Ending => process = NoBrowser /\ ~Launching
  BY <1>a DEF EndInv
<1>d. ASSUME Ending, NEW c \in Callers PROVE task[c].step \notin Before
  BY <1>c, <1>d DEF Launching, AskInv, Before, LaunchSteps
<1>q. NoBrowser \notin queued
  BY SessionNumbers DEF TypeOK
<1> USE DEF Held, Before, LaunchSteps, StopSteps
<1>1. ASSUME NEW t \in Callers, LaunchStep(t) PROVE Held'
  <2>m. /\ task'[t].step # "idle" => task'[t].op = task[t].op
        /\ \A c \in Callers \ {t} : task'[c] = task[c]
    BY <1>1, OneMoves
  <2>1. CASE LockProfileLaunch(t)
    <3>1. task[t].step = "wait" /\ task'[t].step = IF task[t].op \in Stops THEN "find" ELSE "teamLock"
      BY <2>1, ControlFlow
    <3> QED
      BY <1>b, <2>m, <2>1, <3>1 DEF LockProfileLaunch
  <2>2. CASE RefuseLaunch(t)
    <3>1. task[t].step = "teamLock" /\ task'[t].step = "unlock"
      BY <2>2, ControlFlow
    <3> QED
      BY <1>b, <2>m, <2>2, <3>1 DEF RefuseLaunch
  <2>3. CASE AcquireTeamLock(t)
    <3>1. task[t].step = "teamLock" /\ task'[t].step = IF task[t].op = "url" THEN "status" ELSE "mark"
      BY <2>3, ControlFlow
    <3> QED
      BY <1>b, <2>m, <2>3, <3>1 DEF AcquireTeamLock
  <2>4. CASE MarkProfileRunning(t)
    <3>1. task[t].step = "mark" /\ task'[t].step = "queue"
      BY <2>4, ControlFlow
    <3> QED
      BY <1>b, <2>m, <2>4, <3>1 DEF MarkProfileRunning
  <2>5. CASE QueueProfileSync(t)
    <3>1. task[t].step = "queue" /\ task'[t].step = "status"
      BY <2>5, ControlFlow
    <3> QED
      BY <1>b, <2>m, <2>5, <3>1 DEF QueueProfileSync
  <2>6. CASE CheckStatus(t)
    <3>1. task[t].step = "status" /\ task'[t].step \in IF process = NoBrowser THEN {"prepare"} ELSE {"unlock", "unwind"}
      BY <2>6, ControlFlow
    <3> QED
      BY <1>b, <2>m, <2>6, <3>1 DEF CheckStatus, RefreshRecord
  <2>7. CASE LaunchFails(t)
    <3>1. task[t].step \in {"prepare", "spawn"} /\ task'[t].step = "unwind"
      BY <2>7, ControlFlow
    <3> QED
      BY <1>b, <2>m, <2>7, <3>1 DEF LaunchFails
  <2>8. CASE PrepareForLaunch(t)
    <3>1. task[t].step = "prepare" /\ task'[t].step = "spawn"
      BY <2>8, ControlFlow
    <3> QED
      BY <1>b, <2>m, <2>8, <3>1 DEF PrepareForLaunch
  <2>9. CASE LaunchWayfern(t)
    <3>1. task[t].step = "spawn" /\ task'[t].step = "record"
      BY <2>9, ControlFlow
    <3>2. started + 1 \notin queued
      BY SessionNumbers DEF AskInv, TypeOK, Sessions
    <3>3. teamLock /\ (task[t].op # "url" => marked)
      BY <1>b, <3>1
    <3>4. process' \in queued' => marked
      BY <2>9, <3>2, <3>3 DEF LaunchWayfern
    <3> QED
      BY <1>b, <2>m, <2>9, <3>1, <3>3, <3>4 DEF LaunchWayfern
  <2>10. CASE SaveProcessInfo(t)
    <3>1. task[t].step = "record" /\ task'[t].step \in {"unlock", "unwind"}
      BY <2>10, ControlFlow
    <3> QED
      BY <1>b, <2>m, <2>10, <3>1 DEF SaveProcessInfo, Fails, Fault
  <2>11. CASE UnwindLaunch(t)
    <3>1. task[t].step = "unwind" /\ task'[t].step = "unlock"
      BY <2>11, ControlFlow
    <3>2. CASE recorded # NoBrowser /\ process = recorded
      BY <1>b, <2>m, <2>11, <3>1, <3>2 DEF UnwindLaunch
    <3>3. CASE ~(recorded # NoBrowser /\ process = recorded)
      <4>1. \A c \in Callers : task[c].step \in HeldSteps => c = t
        BY <3>1 DEF LockInv, HeldSteps, LaunchSteps
      <4>2. \A c \in Callers : task[c].step \notin Before
        BY <3>1, <4>1 DEF HeldSteps, LaunchSteps
      <4>3. process = NoBrowser
        BY <1>a, <3>3, <4>2 DEF SeenInv
      <4> QED
        BY <1>q, <2>m, <2>11, <3>1, <4>2, <4>3 DEF UnwindLaunch
    <3> QED
      BY <3>2, <3>3
  <2>12. CASE UnlockProfileLaunch(t)
    <3>1. task[t].step \in {"unlock", "unlockStopped"} /\ task'[t].step = IF task[t].step = "unlock" THEN "idle" ELSE "release"
      BY <2>12, ControlFlow
    <3> QED
      BY <1>b, <2>m, <2>12, <3>1 DEF UnlockProfileLaunch
  <2> QED
    BY <1>1, <2>1, <2>2, <2>3, <2>4, <2>5, <2>6, <2>7, <2>8, <2>9, <2>10, <2>11, <2>12
       DEF LaunchStep
<1>2. ASSUME NEW t \in Callers, StopStep(t) PROVE Held'
  <2>m. /\ task'[t].step # "idle" => task'[t].op = task[t].op
        /\ \A c \in Callers \ {t} : task'[c] = task[c]
    BY <1>2, OneMoves
  <2>1. CASE StopBrowser(t)
    <3>1. task[t].step = "find" /\ task'[t].step = "clearRecord"
      BY <2>1, ControlFlow
    <3>2. process' \notin queued'
      BY <1>q, <2>1 DEF StopBrowser, BrowserGone
    <3>3. process' = NoBrowser
      BY <2>1 DEF StopBrowser, BrowserGone
    <3> QED
      BY <1>b, <2>m, <2>1, <3>1, <3>2, <3>3 DEF StopBrowser
  <2>2. CASE StopFails(t)
    <3>1. task[t].step = "find" /\ task'[t].step = "unlock"
      BY <2>2, ControlFlow
    <3> QED
      BY <1>b, <2>m, <2>2, <3>1 DEF StopFails
  <2>3. CASE ClearRecord(t)
    <3>1. task[t].step = "clearRecord" /\ task'[t].step \in {"tidy", "unlock"}
      BY <2>3, ControlFlow
    <3> QED
      BY <1>b, <2>m, <2>3, <3>1 DEF ClearRecord, UnseenIf
  <2>4. CASE StopTidies(t)
    <3>1. task[t].step = "tidy" /\ task'[t].step = "drop"
      BY <2>4, ControlFlow
    <3> QED
      BY <1>b, <2>m, <2>4, <3>1 DEF StopTidies
  <2>5. CASE StopDrops(t)
    <3>1. task[t].step = "drop" /\ task'[t].step = "unlockStopped"
      BY <2>5, ControlFlow
    <3> QED
      BY <1>b, <2>m, <2>5, <3>1 DEF StopDrops
  <2>6. CASE StopReleases(t)
    <3>1. task[t].step = "release" /\ task'[t].step \in {"idle", "markStopped"}
      BY <2>6, ControlFlow
    <3>2. Ending
      BY <3>1 DEF Ending, Afterwards
    <3> QED
      BY <1>c, <1>d, <1>q, <2>m, <2>6, <3>1, <3>2 DEF StopReleases
  <2>7. CASE StopMarks(t)
    <3>1. task[t].step = "markStopped" /\ task'[t].step = "idle"
      BY <2>7, ControlFlow
    <3>2. Ending
      BY <3>1 DEF Ending, Afterwards
    <3> QED
      BY <1>c, <1>d, <1>q, <2>m, <2>7, <3>1, <3>2 DEF StopMarks
  <2> QED
    BY <1>2, <2>1, <2>2, <2>3, <2>4, <2>5, <2>6, <2>7 DEF StopStep
<1>3. ASSUME NEW t \in Callers, NEW op \in Launches \cup Stops, Ask(t, op) PROVE Held'
  <2>1. /\ task'[t].step = "wait" /\ task'[t].op = op
        /\ \A c \in Callers \ {t} : task'[c] = task[c]
    <3> task \in [Callers -> Tasks]
      BY DEF TypeOK, Tasks
    <3> QED
      BY <1>3, AskTask
  <2> QED
    BY <1>b, <1>3, <2>1 DEF Ask, At
<1>4. CASE CheckerStep
  <2>1. CASE CheckerLooks BY <1>b, <2>1 DEF CheckerLooks
  <2>2. CASE CheckerChecks BY <1>b, <2>2 DEF CheckerChecks, RefreshRecord
  <2>3. CASE CheckerMarksRunning BY <1>b, <2>3 DEF CheckerMarksRunning
  <2>4. CASE CheckerTidies BY <1>b, <2>4 DEF CheckerTidies
  <2>5. CASE CheckerDrops BY <1>b, <2>5 DEF CheckerDrops
  <2>6. CASE CheckerMarksStopped
    <3>1. Ending
      BY <2>6 DEF CheckerMarksStopped, Ending
    <3> QED
      BY <1>c, <1>d, <1>q, <2>6, <3>1 DEF CheckerMarksStopped
  <2>7. CASE CheckerReleases
    <3>1. Ending
      BY <2>7 DEF CheckerReleases, Ending
    <3> QED
      BY <1>c, <1>d, <1>q, <2>7, <3>1 DEF CheckerReleases
  <2> QED
    BY <1>4, <2>1, <2>2, <2>3, <2>4, <2>5, <2>6, <2>7 DEF CheckerStep
<1>5. CASE SyncStep
  BY <1>b, <1>5 DEF SyncStep, SyncTakes, SyncUploads, Fails, Fault
<1>6. CASE BrowserExits
  BY <1>b, <1>q, <1>6 DEF BrowserExits, BrowserGone
<1>7. CASE OthersCheckStatus
  BY <1>b, <1>7 DEF OthersCheckStatus, RefreshRecord, UnseenIf
<1>8. CASE UnlockProfile
  BY <1>b, <1>8 DEF UnlockProfile
<1>9. CASE LockProfile
  BY <1>b, <1>9 DEF LockProfile
<1>10. CASE UNCHANGED vars
  BY <1>b, <1>10
<1> QED
  BY <1>1, <1>2, <1>3, <1>4, <1>5, <1>6, <1>7, <1>8, <1>9, <1>10 DEF Next, Step

--------------------------------------------------------------------------------
(***************************************************************************)
(* Where the work of a session is.                                         *)
(***************************************************************************)
Tidied ==
  checker \in {"drop", "markStopped", "release"} \/ \E t \in Callers : task[t].step \in AfterTidy

\* The plaintext copy exists only with its key, and holds nothing without existing.
CopyInv ==
  /\ ramUp => key
  /\ ~ramUp => ram = {}
  /\ kind # "clear" => uncleared = {}
  /\ kind # "protected" => ended \subseteq disk

Kept ==
  /\ snap \subseteq disk
  /\ ended \subseteq disk \cup ram
  /\ kind = "protected" /\ (process # NoBrowser \/ \E t \in Callers : task[t].step = "spawn")
       => ramUp
  /\ Tidied => DealtWith

KeepInv == ~overlapped /\ ~Lost => Kept

\* The queued sync waits for whom it was queued.
ReleaseInv ==
  ~overlapped /\ ~Lost /\ "hasty" \notin faults =>
    marked \/ (ended \cap queued \subseteq disk /\ uncleared \cap queued = {})

\* Tidying leaves the work of all sessions that ended as it is to stay, if it does
\* not fail.
LEMMA TidyDealsWith ==
  ASSUME TypeOK, CopyInv, Tidy, UNCHANGED <<kind, ended>>, snap \subseteq disk,
         ended \subseteq disk \cup ram, "reencrypt" \notin faults'
  PROVE  DealtWith' /\ snap' \subseteq disk' /\ disk \subseteq disk'
<1> USE DEF DealtWith, CopyInv
<1>1. CASE kind = "protected"
  BY <1>1 DEF Tidy, Fails, Fault
<1>2. CASE kind = "clear"
  BY <1>2 DEF Tidy
<1>3. CASE kind = "plain"
  BY <1>3 DEF Tidy
<1> QED
  BY <1>1, <1>2, <1>3 DEF TypeOK, AllKinds

LEMMA CopyStep ==
  ASSUME TypeOK, CopyInv, [Next]_vars
  PROVE  CopyInv'
<1> USE DEF CopyInv
<1>0. ASSUME Tidy, UNCHANGED <<kind, key, ramUp, ram, ended>> PROVE CopyInv'
  <2>1. CASE kind = "protected"
    BY <1>0, <2>1 DEF Tidy
  <2>2. CASE kind = "clear"
    BY <1>0, <2>2 DEF Tidy
  <2>3. CASE kind = "plain"
    BY <1>0, <2>3 DEF Tidy
  <2> QED
    BY <2>1, <2>2, <2>3 DEF TypeOK, AllKinds
<1>g. ASSUME BrowserGone, process # NoBrowser, UNCHANGED <<kind, key, ramUp>> PROVE CopyInv'
  BY <1>g DEF BrowserGone
<1>d. ASSUME Drop, UNCHANGED <<kind, ended, data>> PROVE CopyInv'
  BY <1>d DEF Drop
<1>1. ASSUME NEW t \in Callers, LaunchStep(t) PROVE CopyInv'
  <2>1. CASE PrepareForLaunch(t)
    BY <2>1 DEF PrepareForLaunch
  <2> QED
    BY <1>1, <2>1 DEF LaunchStep, LockProfileLaunch, RefuseLaunch, AcquireTeamLock,
       MarkProfileRunning, QueueProfileSync, CheckStatus, LaunchFails, LaunchWayfern,
       SaveProcessInfo, UnwindLaunch, UnlockProfileLaunch
<1>2. ASSUME NEW t \in Callers, StopStep(t) PROVE CopyInv'
  <2>1. CASE StopBrowser(t)
    <3>1. CASE process # NoBrowser
      <4>1. BrowserGone /\ UNCHANGED <<kind, key, ramUp>>
        BY <2>1, <3>1 DEF StopBrowser
      <4> QED
        BY <1>g, <3>1, <4>1
    <3>2. CASE process = NoBrowser
      BY <2>1, <3>2 DEF StopBrowser
    <3> QED
      BY <3>1, <3>2
  <2>2. CASE StopTidies(t)
    BY <1>0, <2>2 DEF StopTidies
  <2>3. CASE StopDrops(t)
    BY <1>d, <2>3 DEF StopDrops
  <2> QED
    BY <1>2, <2>1, <2>2, <2>3 DEF StopStep, StopFails, ClearRecord, StopReleases, StopMarks
<1>3. ASSUME NEW t \in Callers, NEW op \in Launches \cup Stops, Ask(t, op) PROVE CopyInv'
  BY <1>3 DEF Ask
<1>4. CASE CheckerStep
  <2>1. CASE CheckerTidies
    BY <1>0, <2>1 DEF CheckerTidies
  <2>2. CASE CheckerDrops
    BY <1>d, <2>2 DEF CheckerDrops
  <2> QED
    BY <1>4, <2>1, <2>2 DEF CheckerStep, CheckerLooks, CheckerChecks, CheckerMarksRunning,
       CheckerMarksStopped, CheckerReleases
<1>5. CASE SyncStep
  BY <1>5 DEF SyncStep, SyncTakes, SyncUploads
<1>6. CASE BrowserExits
  BY <1>6, <1>g DEF BrowserExits
<1>7. CASE OthersCheckStatus \/ UnlockProfile \/ LockProfile
  <2>1. CASE OthersCheckStatus
    BY <2>1 DEF OthersCheckStatus
  <2>2. CASE UnlockProfile
    BY <2>2 DEF UnlockProfile
  <2>3. CASE LockProfile
    BY <2>3 DEF LockProfile
  <2> QED
    BY <1>7, <2>1, <2>2, <2>3
<1>8. CASE UNCHANGED vars
  BY <1>8
<1> QED
  BY <1>1, <1>2, <1>3, <1>4, <1>5, <1>6, <1>7, <1>8 DEF Next, Step

LEMMA KeepStep ==
  ASSUME TypeOK, LockInv, AskInv, SeenInv, EndInv, CopyInv, KeepInv, [Next]_vars
  PROVE  KeepInv'
<1> SUFFICES ASSUME ~overlapped', ~Lost' PROVE Kept'
  BY DEF KeepInv
<1>a. ~overlapped /\ ~Lost
  BY FaultsGrow DEF Lost
<1>b. Kept
  BY <1>a DEF KeepInv
<1>c. Ending => process = NoBrowser /\ ~Launching
  BY <1>a DEF EndInv
<1>d. Tidied => process = NoBrowser
  BY <1>c DEF Tidied, AfterTidy, Ending, Afterwards, LockInv, QuietSteps
<1>e. ~("unsaved" \in faults) /\ {"reencrypt", "resnapped", "locked"} \cap faults' = {}
  BY <1>a DEF Lost
<1> USE DEF Kept, DealtWith, Tidied, AfterTidy, StopSteps
<1>g. ASSUME BrowserGone, process # NoBrowser, UNCHANGED <<snap, kind, ramUp>>
      PROVE  /\ snap' \subseteq disk' /\ ended' \subseteq disk' \cup ram'
             /\ process' = NoBrowser
  <2>1. CASE kind = "protected"
    BY <1>b, <1>g, <2>1 DEF BrowserGone
  <2>2. CASE kind # "protected"
    BY <1>b, <1>g, <2>2 DEF BrowserGone
  <2> QED
    BY <2>1, <2>2
<1>1. ASSUME NEW t \in Callers, LaunchStep(t) PROVE Kept'
  <2>m. /\ task'[t].step # "idle" => task'[t].op = task[t].op
        /\ \A c \in Callers \ {t} : task'[c] = task[c]
    BY <1>1, OneMoves
  <2>1. CASE LockProfileLaunch(t)
    <3>1. task[t].step = "wait" /\ task'[t].step = IF task[t].op \in Stops THEN "find" ELSE "teamLock"
      BY <2>1, ControlFlow
    <3> QED
      BY <1>b, <2>m, <2>1, <3>1 DEF LockProfileLaunch
  <2>2. CASE RefuseLaunch(t)
    <3>1. task[t].step = "teamLock" /\ task'[t].step = "unlock"
      BY <2>2, ControlFlow
    <3> QED
      BY <1>b, <2>m, <2>2, <3>1 DEF RefuseLaunch
  <2>3. CASE AcquireTeamLock(t)
    <3>1. task[t].step = "teamLock" /\ task'[t].step = IF task[t].op = "url" THEN "status" ELSE "mark"
      BY <2>3, ControlFlow
    <3> QED
      BY <1>b, <2>m, <2>3, <3>1 DEF AcquireTeamLock
  <2>4. CASE MarkProfileRunning(t)
    <3>1. task[t].step = "mark" /\ task'[t].step = "queue"
      BY <2>4, ControlFlow
    <3> QED
      BY <1>b, <2>m, <2>4, <3>1 DEF MarkProfileRunning
  <2>5. CASE QueueProfileSync(t)
    <3>1. task[t].step = "queue" /\ task'[t].step = "status"
      BY <2>5, ControlFlow
    <3> QED
      BY <1>b, <2>m, <2>5, <3>1 DEF QueueProfileSync
  <2>6. CASE CheckStatus(t)
    <3>1. task[t].step = "status" /\ task'[t].step \in IF process = NoBrowser THEN {"prepare"} ELSE {"unlock", "unwind"}
      BY <2>6, ControlFlow
    <3> QED
      BY <1>b, <2>m, <2>6, <3>1 DEF CheckStatus, RefreshRecord
  <2>7. CASE LaunchFails(t)
    <3>1. task[t].step \in {"prepare", "spawn"} /\ task'[t].step = "unwind"
      BY <2>7, ControlFlow
    <3> QED
      BY <1>b, <2>m, <2>7, <3>1 DEF LaunchFails
  <2>8. CASE PrepareForLaunch(t)
    <3>1. task[t].step = "prepare" /\ task'[t].step = "spawn"
      BY <2>8, ControlFlow
    <3>2. CASE kind = "protected"
      <4>1. ram' \subseteq disk
        BY <1>e, <2>8, <3>2 DEF PrepareForLaunch
      <4>2. ended \subseteq disk' \cup ram' /\ ramUp' /\ snap' \subseteq disk'
        BY <1>b, <2>8, <3>2, <4>1 DEF PrepareForLaunch, CopyInv
      <4> QED
        BY <1>b, <2>m, <2>8, <3>1, <4>2 DEF PrepareForLaunch
    <3>3. CASE kind # "protected"
      BY <1>b, <2>m, <2>8, <3>1, <3>3 DEF PrepareForLaunch
    <3> QED
      BY <3>2, <3>3
  <2>9. CASE LaunchWayfern(t)
    <3>1. task[t].step = "spawn" /\ task'[t].step = "record"
      BY <2>9, ControlFlow
    <3> QED
      BY <1>b, <2>m, <2>9, <3>1 DEF LaunchWayfern
  <2>10. CASE SaveProcessInfo(t)
    <3>1. task[t].step = "record" /\ task'[t].step \in {"unlock", "unwind"}
      BY <2>10, ControlFlow
    <3> QED
      BY <1>b, <2>m, <2>10, <3>1 DEF SaveProcessInfo, Fails, Fault
  <2>11. CASE UnwindLaunch(t)
    <3>1. task[t].step = "unwind" /\ task'[t].step = "unlock"
      BY <2>11, ControlFlow
    <3> QED
      BY <1>b, <2>m, <2>11, <3>1 DEF UnwindLaunch
  <2>12. CASE UnlockProfileLaunch(t)
    <3>1. task[t].step \in {"unlock", "unlockStopped"} /\ task'[t].step = IF task[t].step = "unlock" THEN "idle" ELSE "release"
      BY <2>12, ControlFlow
    <3>2. Tidied' => Tidied
      BY <2>m, <2>12, <3>1 DEF UnlockProfileLaunch
    <3> QED
      BY <1>b, <2>m, <2>12, <3>1, <3>2 DEF UnlockProfileLaunch
  <2> QED
    BY <1>1, <2>1, <2>2, <2>3, <2>4, <2>5, <2>6, <2>7, <2>8, <2>9, <2>10, <2>11, <2>12
       DEF LaunchStep
<1>2. ASSUME NEW t \in Callers, StopStep(t) PROVE Kept'
  <2>m. /\ task'[t].step # "idle" => task'[t].op = task[t].op
        /\ \A c \in Callers \ {t} : task'[c] = task[c]
    BY <1>2, OneMoves
  <2>1. CASE StopBrowser(t)
    <3>1. task[t].step = "find" /\ task'[t].step = "clearRecord"
      BY <2>1, ControlFlow
    <3>2. CASE process # NoBrowser
      <4>1. ~Tidied
        BY <1>d, <3>2
      <4>2. ~Tidied'
        BY <2>m, <2>1, <3>1, <4>1 DEF StopBrowser
      <4>3. BrowserGone /\ UNCHANGED <<snap, kind, ramUp>>
        BY <2>1, <3>2 DEF StopBrowser
      <4> QED
        BY <1>b, <1>g, <2>m, <2>1, <3>1, <3>2, <4>2, <4>3
    <3>3. CASE process = NoBrowser
      BY <1>b, <2>m, <2>1, <3>1, <3>3 DEF StopBrowser
    <3> QED
      BY <3>2, <3>3
  <2>2. CASE StopFails(t)
    <3>1. task[t].step = "find" /\ task'[t].step = "unlock"
      BY <2>2, ControlFlow
    <3> QED
      BY <1>b, <2>m, <2>2, <3>1 DEF StopFails
  <2>3. CASE ClearRecord(t)
    <3>1. task[t].step = "clearRecord" /\ task'[t].step \in {"tidy", "unlock"}
      BY <2>3, ControlFlow
    <3> QED
      BY <1>b, <2>m, <2>3, <3>1 DEF ClearRecord, UnseenIf
  <2>4. CASE StopTidies(t)
    <3>1. task[t].step = "tidy" /\ task'[t].step = "drop"
      BY <2>4, ControlFlow
    <3>2. DealtWith' /\ snap' \subseteq disk' /\ disk \subseteq disk'
      BY <1>b, <1>e, <2>4, TidyDealsWith DEF StopTidies
    <3> QED
      BY <1>b, <2>m, <2>4, <3>1, <3>2 DEF StopTidies
  <2>5. CASE StopDrops(t)
    <3>1. task[t].step = "drop" /\ task'[t].step = "unlockStopped"
      BY <2>5, ControlFlow
    <3>2. DealtWith /\ process = NoBrowser
      BY <1>b, <1>d, <3>1
    <3>3. \A c \in Callers : task[c].step # "spawn"
      BY <3>1 DEF LockInv, HeldSteps, LaunchSteps, StopSteps
    <3>4. \A c \in Callers : task'[c].step # "spawn"
      BY <2>m, <3>1, <3>3
    <3>5. DealtWith' /\ snap' \subseteq disk' /\ process' = NoBrowser
      BY <1>b, <2>5, <3>2 DEF StopDrops
    <3> QED
      BY <3>4, <3>5
  <2>6. CASE StopReleases(t)
    <3>1. task[t].step = "release" /\ task'[t].step \in {"idle", "markStopped"}
      BY <2>6, ControlFlow
    <3> QED
      BY <1>b, <2>m, <2>6, <3>1 DEF StopReleases
  <2>7. CASE StopMarks(t)
    <3>1. task[t].step = "markStopped" /\ task'[t].step = "idle"
      BY <2>7, ControlFlow
    <3> QED
      BY <1>b, <2>m, <2>7, <3>1 DEF StopMarks
  <2> QED
    BY <1>2, <2>1, <2>2, <2>3, <2>4, <2>5, <2>6, <2>7 DEF StopStep
<1>3. ASSUME NEW t \in Callers, NEW op \in Launches \cup Stops, Ask(t, op) PROVE Kept'
  <2>1. /\ task'[t].step = "wait" /\ task'[t].op = op
        /\ \A c \in Callers \ {t} : task'[c] = task[c]
    <3> task \in [Callers -> Tasks]
      BY DEF TypeOK, Tasks
    <3> QED
      BY <1>3, AskTask
  <2> QED
    BY <1>b, <1>3, <2>1 DEF Ask, At
<1>4. CASE CheckerStep
  <2>1. CASE CheckerLooks BY <1>b, <2>1 DEF CheckerGoesTo, CheckerLooks
  <2>2. CASE CheckerChecks BY <1>b, <2>2 DEF CheckerGoesTo, CheckerChecks, RefreshRecord
  <2>3. CASE CheckerMarksRunning BY <1>b, <2>3 DEF CheckerGoesTo, CheckerMarksRunning
  <2>4. CASE CheckerTidies
    <3>1. DealtWith' /\ snap' \subseteq disk' /\ disk \subseteq disk'
      BY <1>b, <1>e, <2>4, TidyDealsWith DEF CheckerTidies
    <3> QED
      BY <1>b, <2>4, <3>1 DEF CheckerTidies, CheckerGoesTo
  <2>5. CASE CheckerDrops
    <3>1. DealtWith /\ Ending
      BY <1>b, <2>5 DEF CheckerDrops, Ending
    <3>2. \A c \in Callers : task[c].step # "spawn"
      BY <1>c, <3>1 DEF Launching, AskInv, LaunchSteps
    <3>3. DealtWith' /\ snap' \subseteq disk' /\ process' = NoBrowser
      BY <1>b, <1>c, <2>5, <3>1 DEF CheckerDrops
    <3> QED
      BY <2>5, <3>2, <3>3 DEF CheckerDrops
  <2>6. CASE CheckerMarksStopped BY <1>b, <2>6 DEF CheckerGoesTo, CheckerMarksStopped
  <2>7. CASE CheckerReleases BY <1>b, <2>7 DEF CheckerGoesTo, CheckerReleases
  <2> QED
    BY <1>4, <2>1, <2>2, <2>3, <2>4, <2>5, <2>6, <2>7 DEF CheckerStep
<1>5. CASE SyncStep
  BY <1>b, <1>5 DEF SyncStep, SyncTakes, SyncUploads, Fails, Fault
<1>6. CASE BrowserExits
  <2>1. ~Tidied /\ ~Tidied'
    BY <1>d, <1>6 DEF BrowserExits
  <2> QED
    BY <1>b, <1>g, <1>6, <2>1 DEF BrowserExits
<1>7. CASE OthersCheckStatus
  BY <1>b, <1>7 DEF OthersCheckStatus, RefreshRecord, UnseenIf
<1>8. CASE UnlockProfile
  BY <1>b, <1>8 DEF UnlockProfile
<1>9. CASE LockProfile
  <2>1. ram \subseteq disk /\ ~Launching
    BY <1>e, <1>9 DEF LockProfile
  <2>2. \A c \in Callers : task[c].step \notin {"spawn", "record"}
    BY <2>1 DEF Launching, AskInv, LaunchSteps
  <2>3. process = NoBrowser
    BY <1>e, <2>2, <1>9 DEF LockProfile, SeenInv, Unsaved
  <2> QED
    BY <1>b, <1>9, <2>1, <2>2, <2>3 DEF LockProfile
<1>10. CASE UNCHANGED vars
  BY <1>b, <1>10
<1> QED
  BY <1>1, <1>2, <1>3, <1>4, <1>5, <1>6, <1>7, <1>8, <1>9, <1>10 DEF Next, Step

LEMMA ReleaseStep ==
  ASSUME TypeOK, AskInv, HoldInv, KeepInv, ReleaseInv, [Next]_vars
  PROVE  ReleaseInv'
<1> DEFINE Released == marked \/ (ended \cap queued \subseteq disk /\ uncleared \cap queued = {})
<1> SUFFICES ASSUME ~overlapped', ~Lost', "hasty" \notin faults' PROVE Released'
  BY DEF ReleaseInv
<1>a. ~overlapped /\ ~Lost /\ ~Unsaved /\ "hasty" \notin faults
  BY FaultsGrow DEF Lost, Unsaved
<1>b. Released
  BY <1>a DEF ReleaseInv
<1>c. Tidied => DealtWith
  BY <1>a DEF KeepInv, Kept
<1>d. process \in queued => marked
  BY <1>a DEF HoldInv, Held
<1>e. DealtWith => ended \cap queued \subseteq disk /\ uncleared \cap queued = {}
  BY DEF DealtWith
<1>g. ASSUME BrowserGone, UNCHANGED <<marked, queued>> PROVE Released'
  BY <1>b, <1>d, <1>g DEF BrowserGone
<1>t. ASSUME Tidy, UNCHANGED <<marked, queued, ended>> PROVE Released'
  <2>1. disk \subseteq disk' /\ uncleared' \subseteq uncleared
    BY <1>t DEF Tidy
  <2> QED
    BY <1>b, <1>t, <2>1
<1>1. ASSUME NEW t \in Callers, LaunchStep(t) PROVE Released'
  <2>1. CASE LaunchWayfern(t)
    <3>1. started + 1 \notin ended \cup uncleared
      BY SessionNumbers DEF AskInv, TypeOK, Sessions
    <3> QED
      BY <1>b, <2>1, <3>1 DEF LaunchWayfern
  <2>2. CASE UnwindLaunch(t)
    BY <1>b, <1>e, <2>2 DEF UnwindLaunch
  <2> QED
    BY <1>b, <1>1, <2>1, <2>2 DEF LaunchStep, LockProfileLaunch, RefuseLaunch,
       AcquireTeamLock, MarkProfileRunning, QueueProfileSync, CheckStatus, LaunchFails,
       PrepareForLaunch, SaveProcessInfo, UnlockProfileLaunch
<1>2. ASSUME NEW t \in Callers, StopStep(t) PROVE Released'
  <2>1. CASE StopBrowser(t)
    BY <1>b, <1>g, <2>1 DEF StopBrowser
  <2>2. CASE StopTidies(t)
    BY <1>t, <2>2 DEF StopTidies
  <2>3. CASE StopMarks(t)
    <3>1. Tidied
      BY <2>3, ControlFlow DEF Tidied, AfterTidy
    <3> QED
      BY <1>c, <1>e, <2>3, <3>1 DEF StopMarks
  <2> QED
    BY <1>b, <1>2, <2>1, <2>2, <2>3 DEF StopStep, StopFails, ClearRecord, StopDrops,
       StopReleases
<1>3. ASSUME NEW t \in Callers, NEW op \in Launches \cup Stops, Ask(t, op) PROVE Released'
  BY <1>b, <1>3 DEF Ask
<1>4. CASE CheckerStep
  <2>1. CASE CheckerTidies
    BY <1>t, <2>1 DEF CheckerTidies
  <2>2. CASE CheckerMarksStopped
    BY <1>c, <1>e, <2>2 DEF CheckerMarksStopped, Tidied
  <2> QED
    BY <1>b, <1>4, <2>1, <2>2 DEF CheckerStep, CheckerLooks, CheckerChecks,
       CheckerMarksRunning, CheckerDrops, CheckerReleases
<1>5. CASE SyncStep
  BY <1>b, <1>5 DEF SyncStep, SyncTakes, SyncUploads
<1>6. CASE BrowserExits
  BY <1>6, <1>g DEF BrowserExits
<1>7. CASE OthersCheckStatus \/ UnlockProfile \/ LockProfile
  <2>1. UNCHANGED <<marked, queued, ended, disk, uncleared>>
    BY <1>7 DEF OthersCheckStatus, UnlockProfile, LockProfile
  <2> QED
    BY <1>b, <2>1
<1>8. CASE UNCHANGED vars
  BY <1>b, <1>8
<1> QED
  BY <1>1, <1>2, <1>3, <1>4, <1>5, <1>6, <1>7, <1>8 DEF Next, Step

--------------------------------------------------------------------------------
(***************************************************************************)
(* The inductive invariant, and what follows from it.                      *)
(***************************************************************************)
SessionInv ==
  /\ TypeOK /\ LockInv /\ AskInv /\ SeenInv /\ EndInv
  /\ HoldInv /\ CopyInv /\ KeepInv /\ ReleaseInv

LEMMA SessionInit == Init => SessionInv
<1> SUFFICES ASSUME Init PROVE SessionInv
  OBVIOUS
<1>1. \A t \in Callers : task[t].step = "idle"
  BY DEF Init, Idle
<1>2. AskInv
  BY <1>1 DEF Init, AskInv, LaunchSteps
<1>3. SeenInv /\ CopyInv
  BY DEF Init, SeenInv, CopyInv
<1>4. EndInv
  BY <1>1 DEF Init, EndInv, Ending, Afterwards
<1>5. HoldInv
  BY <1>1 DEF Init, HoldInv, Held, Before
<1>6. KeepInv
  BY <1>1 DEF Init, KeepInv, Kept, Tidied, AfterTidy
<1>7. ReleaseInv
  BY DEF Init, ReleaseInv
<1> QED
  BY TypeInit, LockInit, <1>2, <1>3, <1>4, <1>5, <1>6, <1>7 DEF SessionInv

LEMMA SessionInvariant == Spec => []SessionInv
<1>1. SessionInv /\ [Next]_vars => SessionInv'
  BY TypeStep, LockStep, AskStep, SeenStep, EndStep, HoldStep, CopyStep, KeepStep,
     ReleaseStep DEF SessionInv
<1> QED
  BY SessionInit, <1>1, PTL DEF Spec

\* Two browsers never run on one profile directory: every start of one is a step of
\* a caller that holds the launch lock and saw nobody run since it did.
THEOREM OneBrowserAtATime == Spec => OneBrowser
<1>1. SessionInv /\ [Next]_vars
        => [process # NoBrowser => process' \in {process, NoBrowser}]_vars
  <2> SUFFICES ASSUME SessionInv, Next, process # NoBrowser
               PROVE  process' \in {process, NoBrowser}
    OBVIOUS
  <2>1. \A t \in Callers : ~LaunchWayfern(t)
    BY DEF LaunchWayfern, At, SessionInv, LockInv, QuietSteps
  <2> QED
    BY <2>1, BrowserStarts
<1> QED
  BY <1>1, SessionInvariant, PTL DEF Spec, OneBrowser

\* The team lock stays with the browser that runs, unless a launch overlapped the
\* end of a session or a record could not be saved.
THEOREM RunningBrowserHoldsLock == Spec => []RunningHoldsLock
<1>1. SessionInv => RunningHoldsLock
  BY DEF SessionInv, HoldInv, Held, RunningHoldsLock, Unsaved
<1> QED
  BY <1>1, SessionInvariant, PTL

\* So does the mark that makes its queued sync wait.
THEOREM RunningBrowserDefersSync == Spec => []RunningDefersSync
<1>1. SessionInv => RunningDefersSync
  BY DEF SessionInv, HoldInv, Held, RunningDefersSync, Unsaved
<1> QED
  BY <1>1, SessionInvariant, PTL

\* What a session wrote is on disk or in the copy it will be encrypted from, unless
\* it was lost in one of the ways named.
THEOREM WorkIsKept == Spec => []WorkKept
<1>1. SessionInv => WorkKept
  BY DEF SessionInv, KeepInv, Kept, WorkKept, Lost
<1> QED
  BY <1>1, SessionInvariant, PTL

\* A queued sync begins to upload only after the sessions that queued one are dealt
\* with.
THEOREM ReleasedInTime == Spec => ReleasedWhenDealtWith
<1> DEFINE Late == sync = "idle" /\ sync' = "upload" =>
       \/ ended \cap queued \subseteq disk /\ uncleared \cap queued = {}
       \/ overlapped
       \/ faults \cap {"hasty", "reencrypt", "resnapped", "locked", "unsaved"} # {}
<1>1. SessionInv /\ [Next]_vars => [Late]_vars
  <2> SUFFICES ASSUME SessionInv, Next, sync = "idle", sync' = "upload", ~overlapped,
                      faults \cap {"hasty", "reencrypt", "resnapped", "locked", "unsaved"} = {}
               PROVE  ended \cap queued \subseteq disk /\ uncleared \cap queued = {}
    OBVIOUS
  <2>1. ~marked
    <3>1. ASSUME NEW t \in Callers, LaunchStep(t) PROVE sync' = sync
      BY <3>1 DEF LaunchStep, LockProfileLaunch, RefuseLaunch, AcquireTeamLock,
         MarkProfileRunning, QueueProfileSync, CheckStatus, LaunchFails, PrepareForLaunch,
         LaunchWayfern, SaveProcessInfo, UnwindLaunch, UnlockProfileLaunch
    <3>2. ASSUME NEW t \in Callers, StopStep(t) PROVE sync' = sync
      BY <3>2 DEF StopStep, StopBrowser, StopFails, ClearRecord, StopTidies, StopDrops,
         StopReleases, StopMarks
    <3>3. ASSUME NEW t \in Callers, NEW op \in Launches \cup Stops, Ask(t, op)
          PROVE  sync' = sync
      BY <3>3 DEF Ask
    <3>4. CheckerStep => sync' = sync
      BY DEF CheckerStep, CheckerLooks, CheckerChecks, CheckerMarksRunning, CheckerTidies,
         CheckerDrops, CheckerMarksStopped, CheckerReleases
    <3>5. BrowserExits \/ OthersCheckStatus \/ UnlockProfile \/ LockProfile => sync' = sync
      BY DEF BrowserExits, OthersCheckStatus, UnlockProfile, LockProfile
    <3>6. SyncStep
      BY <3>1, <3>2, <3>3, <3>4, <3>5 DEF Next, Step
    <3> QED
      BY <3>6 DEF SyncStep, SyncTakes, SyncUploads
  <2> QED
    BY <2>1 DEF SessionInv, ReleaseInv, Lost
<1> QED
  BY <1>1, SessionInvariant, PTL DEF Spec, ReleasedWhenDealtWith
===============================================================================
