---------------------------- MODULE BrowserSession ----------------------------
(***************************************************************************)
(* One local profile from launch to the end of its browser, and what the   *)
(* end of a session sets off: the record of the process is cleared, a      *)
(* password-protected profile is re-encrypted or its browsing data wiped,  *)
(* the queued sync is released, and the team lock is given back.           *)
(*                                                                         *)
(* Launches and stops of a profile exclude each other by its launch lock   *)
(* (browser_runner.rs).  The status checker (lib.rs) deals with browsers   *)
(* the user closed; it runs beside them and takes no lock.  The profile is *)
(* synced and shared, so that every launch takes the team lock.            *)
(***************************************************************************)
EXTENDS Naturals, FiniteSets

CONSTANTS
  Callers,        \* tasks that launch or stop the profile
  NoCaller,       \* nobody holds the launch lock
  Kinds,          \* the kinds of profile considered
  KeepDecrypted,  \* keep_decrypted_profiles_in_ram
  MaxSessions,    \* bound: browsers started
  MaxCalls,       \* bound: launches and stops asked for
  MaxFailures     \* bound: writes and transfers that fail

AllKinds == {"plain", "protected", "clear"}

ASSUME CallerAssumption == NoCaller \notin Callers
ASSUME KindAssumption == Kinds \subseteq AllKinds /\ KeepDecrypted \in BOOLEAN
ASSUME BoundAssumption ==
  MaxSessions \in Nat /\ MaxCalls \in Nat /\ MaxFailures \in Nat

\* The browsers of the profile, numbered as they start; a number is its pid too.
Sessions == 1 .. MaxSessions
NoBrowser == 0

VARIABLES
  kind,        \* password_protected, clear_on_close, or neither
  task,        \* what each caller asked for and how far it is
  launchLock,  \* the profile's entry of PROFILE_LAUNCH_LOCKS: who holds it
  process,     \* the browser that is alive
  recorded,    \* process_id in metadata.json
  started,     \* browsers started so far
  teamLock,    \* the profile lock is held for this user
  marked,      \* the profile is in running_profiles of the scheduler
  pending,     \* it is in pending_profiles
  sync,        \* its sync task
  checker,     \* where the status checker is
  hadPid,      \* the checker: the profile as listed had a process_id
  last,        \* the checker: last_running_states
  key,         \* the cached key of a protected profile
  ramUp,       \* its plaintext copy exists
  ram,         \* sessions whose work the plaintext copy holds
  snap,        \* those in LAUNCH_SNAPSHOTS, taken for unchanged at the end
  disk,        \* sessions whose work the profile directory holds
  uncleared,   \* clear-on-close sessions still to be wiped from it
  calls, failures,  \* counters of the bounds
  ended,       \* history: sessions that ended
  queued,      \* history: sessions whose launch queued a sync
  uploaded,    \* history: sessions whose work was uploaded
  overlapped,  \* history: a launch was under way while an end was dealt with
  faults       \* history: other ways the code loses track of an end

asked == <<task, calls>>
browser == <<process, recorded, started>>
scheduler == <<marked, pending, sync>>
status == <<checker, hadPid, last>>
plaintext == <<key, ramUp, ram, snap>>
data == <<disk, uncleared>>
history == <<ended, queued, uploaded>>
modelled == <<kind, asked, launchLock, browser, teamLock, scheduler, status, plaintext,
              data, failures, history, faults>>
vars == <<modelled, overlapped>>

Launches == {"launch", "apiLaunch", "url"}
Stops == {"stop", "apiStop"}
LaunchSteps ==
  {"teamLock", "mark", "queue", "status", "prepare", "spawn", "record", "unwind", "unlock"}
StopSteps == {"find", "clearRecord", "tidy", "drop", "unlockStopped"}
Afterwards == {"release", "markStopped"}
TaskSteps == {"idle", "wait"} \cup LaunchSteps \cup StopSteps \cup Afterwards
CheckerSteps == {"look", "status", "markRunning", "tidy", "drop", "markStopped", "release"}
Faults == {"refused", "hasty", "unseen", "unsaved", "resnapped", "reencrypt", "locked",
           "skipped", "upload"}

Idle == [op |-> "launch", step |-> "idle"]

TypeOK ==
  /\ kind \in AllKinds
  /\ task \in [Callers -> [op : Launches \cup Stops, step : TaskSteps]]
  /\ launchLock \in Callers \cup {NoCaller}
  /\ process \in Sessions \cup {NoBrowser} /\ recorded \in Sessions \cup {NoBrowser}
  /\ started \in Sessions \cup {NoBrowser}
  /\ teamLock \in BOOLEAN /\ marked \in BOOLEAN /\ pending \in BOOLEAN
  /\ sync \in {"idle", "upload"}
  /\ checker \in CheckerSteps /\ hadPid \in BOOLEAN /\ last \in BOOLEAN
  /\ key \in BOOLEAN /\ ramUp \in BOOLEAN
  /\ ram \subseteq Sessions /\ snap \subseteq Sessions
  /\ disk \subseteq Sessions /\ uncleared \subseteq Sessions
  /\ calls \in Nat /\ failures \in Nat
  /\ ended \subseteq Sessions /\ queued \subseteq Sessions /\ uploaded \subseteq Sessions
  /\ overlapped \in BOOLEAN /\ faults \subseteq Faults

Init ==
  /\ kind \in Kinds
  /\ task = [t \in Callers |-> Idle]
  /\ launchLock = NoCaller
  /\ process = NoBrowser /\ recorded = NoBrowser /\ started = NoBrowser
  /\ teamLock = FALSE /\ marked = FALSE /\ pending = FALSE /\ sync = "idle"
  /\ checker = "look" /\ hadPid = FALSE /\ last = FALSE
  /\ key = FALSE /\ ramUp = FALSE /\ ram = {} /\ snap = {}
  /\ disk = {} /\ uncleared = {}
  /\ calls = 0 /\ failures = 0
  /\ ended = {} /\ queued = {} /\ uploaded = {}
  /\ overlapped = FALSE /\ faults = {}

At(t, step) == task[t].step = step
Goto(t, step) ==
  /\ task' = [task EXCEPT ![t] = IF step = "idle" THEN Idle
                                 ELSE [op |-> task[t].op, step |-> step]]
  /\ UNCHANGED calls
Fault(name) == faults' = faults \cup {name}
\* A write or a transfer fails, and leaves its name in the history.
Fails(name) ==
  /\ failures < MaxFailures
  /\ failures' = failures + 1
  /\ Fault(name)

\* A launch of the profile is under way.
Launching == \E t \in Callers : task[t].op \in Launches /\ task[t].step \in LaunchSteps

\* Every session that ended is dealt with: its work is on disk, as it is to stay.
DealtWith == ended \subseteq disk /\ uncleared = {}

(***************************************************************************)
(* The browser.                                                            *)
(***************************************************************************)
\* It is gone; it has written where it was told to.
BrowserGone ==
  /\ process' = NoBrowser
  /\ ended' = ended \cup {process}
  /\ ram' = IF kind = "protected" /\ ramUp THEN ram \cup {process} ELSE ram
  /\ disk' = IF kind # "protected" THEN disk \cup {process} ELSE disk
  /\ uncleared' = IF kind = "clear" THEN uncleared \cup {process} ELSE uncleared

\* The user closes the window, or it crashes.
BrowserExits ==
  /\ process # NoBrowser
  /\ BrowserGone
  /\ UNCHANGED <<kind, asked, launchLock, recorded, started, teamLock, scheduler, status,
                 key, ramUp, snap, failures, queued, uploaded, faults>>

\* check_browser_status looks for the process and corrects the record by it.
RefreshRecord == recorded' = process

\* History: a record is cleared that the checker will not come across.
UnseenIf(cond) ==
  faults' = IF cond /\ recorded # NoBrowser /\ process = NoBrowser /\ ~last /\ checker = "look"
            THEN faults \cup {"unseen"} ELSE faults

\* The frontend, an editor of the profile or the API checks the status.
OthersCheckStatus ==
  /\ recorded # process
  /\ RefreshRecord
  /\ UnseenIf(TRUE)
  /\ UNCHANGED <<kind, asked, launchLock, process, started, teamLock, scheduler, status,
                 plaintext, data, failures, history>>

(***************************************************************************)
(* A launch or a stop begins.                                              *)
(***************************************************************************)
\* The API takes the team lock before it launches.
Ask(t, op) ==
  /\ At(t, "idle")
  /\ calls < MaxCalls
  /\ calls' = calls + 1
  /\ task' = [task EXCEPT ![t] = [op |-> op, step |-> "wait"]]
  /\ teamLock' = (teamLock \/ op = "apiLaunch")
  /\ UNCHANGED <<kind, launchLock, browser, scheduler, status, plaintext, data, failures,
                 history, faults>>

\* Mutant: opening a URL does not take the launch lock.
UrlWithoutLock(t) ==
  /\ At(t, "wait")
  /\ IF task[t].op = "url"
     THEN UNCHANGED launchLock
     ELSE launchLock = NoCaller /\ launchLock' = t
  /\ Goto(t, IF task[t].op \in Stops THEN "find" ELSE "teamLock")
  /\ UNCHANGED <<kind, browser, teamLock, scheduler, status, plaintext, data, failures,
                 history, faults>>

LockProfileLaunch(t) ==
  /\ At(t, "wait")
  /\ launchLock = NoCaller
  /\ launchLock' = t
  /\ Goto(t, IF task[t].op \in Stops THEN "find" ELSE "teamLock")
  /\ UNCHANGED <<kind, browser, teamLock, scheduler, status, plaintext, data, failures,
                 history, faults>>

(***************************************************************************)
(* launch_browser_profile_tracked and open_url_with_profile.               *)
(***************************************************************************)
\* Refused: the gate of a remote session is down, or somebody else has the lock.
\* Nothing is undone, not even the lock the API took.
RefuseLaunch(t) ==
  /\ At(t, "teamLock")
  /\ Goto(t, "unlock")
  /\ faults' = IF task[t].op = "apiLaunch" THEN faults \cup {"refused"} ELSE faults
  /\ UNCHANGED <<kind, launchLock, browser, teamLock, scheduler, status, plaintext, data,
                 failures, history>>

\* Opening a URL neither marks the profile nor queues its sync.
AcquireTeamLock(t) ==
  /\ At(t, "teamLock")
  /\ teamLock' = TRUE
  /\ Goto(t, IF task[t].op = "url" THEN "status" ELSE "mark")
  /\ UNCHANGED <<kind, launchLock, browser, scheduler, status, plaintext, data, failures,
                 history, faults>>

MarkProfileRunning(t) ==
  /\ At(t, "mark")
  /\ marked' = TRUE
  /\ Goto(t, "queue")
  /\ UNCHANGED <<kind, launchLock, browser, teamLock, pending, sync, status, plaintext,
                 data, failures, history, faults>>

QueueProfileSync(t) ==
  /\ At(t, "queue")
  /\ pending' = TRUE
  /\ Goto(t, "status")
  /\ UNCHANGED <<kind, launchLock, browser, teamLock, marked, sync, status, plaintext,
                 data, failures, history, faults>>

\* A browser that runs is given the URL, or the launch is an error.
CheckStatus(t) ==
  /\ At(t, "status")
  /\ RefreshRecord
  /\ \/ process = NoBrowser /\ Goto(t, "prepare")
     \/ process # NoBrowser /\ Goto(t, "unlock")
     \/ process # NoBrowser /\ Goto(t, "unwind")
  /\ UNCHANGED <<kind, launchLock, process, started, teamLock, scheduler, status,
                 plaintext, data, failures, history, faults>>

LaunchFails(t) ==
  /\ At(t, "prepare") \/ At(t, "spawn")
  /\ Goto(t, "unwind")
  /\ UNCHANGED <<kind, launchLock, browser, teamLock, scheduler, status, plaintext, data,
                 failures, history, faults>>

\* Mutant: a plaintext copy that is there is wiped like a stale one.
PrepareAfresh(t) ==
  /\ At(t, "prepare")
  /\ IF kind # "protected" THEN UNCHANGED <<ramUp, ram, snap>>
     ELSE key /\ ramUp' = TRUE /\ ram' = disk /\ snap' = disk
  /\ Goto(t, "spawn")
  /\ UNCHANGED <<kind, launchLock, browser, teamLock, scheduler, status, key, data,
                 failures, history, faults>>

\* prepare_for_launch: a plaintext copy that is there is used as it is.
PrepareForLaunch(t) ==
  /\ At(t, "prepare")
  /\ IF kind # "protected" THEN UNCHANGED <<ramUp, ram, snap, faults>>
     ELSE /\ key
          /\ ramUp' = TRUE
          /\ ram' = IF ramUp THEN ram ELSE disk
          /\ snap' = ram'
          /\ faults' = IF ram' \subseteq disk THEN faults ELSE faults \cup {"resnapped"}
  /\ Goto(t, "spawn")
  /\ UNCHANGED <<kind, launchLock, browser, teamLock, scheduler, status, key, data,
                 failures, history>>

LaunchWayfern(t) ==
  /\ At(t, "spawn")
  /\ started < MaxSessions
  /\ started' = started + 1
  /\ process' = started + 1
  /\ queued' = IF task[t].op = "url" THEN queued ELSE queued \cup {started + 1}
  /\ Goto(t, "record")
  /\ UNCHANGED <<kind, launchLock, recorded, teamLock, scheduler, status, plaintext, data,
                 failures, ended, uploaded, faults>>

\* Mutant: what is recorded is not the browser's own process.
SaveOtherProcess(t) ==
  /\ At(t, "record")
  /\ recorded' = started + 1
  /\ Goto(t, "unlock")
  /\ UNCHANGED <<kind, launchLock, process, started, teamLock, scheduler, status, plaintext,
                 data, failures, history, faults>>

SaveProcessInfo(t) ==
  /\ At(t, "record")
  /\ \/ recorded' = started /\ Goto(t, "unlock") /\ UNCHANGED <<failures, faults>>
     \/ recorded' = recorded /\ Goto(t, "unwind") /\ Fails("unsaved")
  /\ UNCHANGED <<kind, launchLock, process, started, teamLock, scheduler, status, plaintext,
                 data, history>>

\* Mutant: no liveness check.
UnwindAlways(t) ==
  /\ At(t, "unwind")
  /\ teamLock' = FALSE /\ marked' = FALSE
  /\ Goto(t, "unlock")
  /\ UNCHANGED <<kind, launchLock, browser, pending, sync, status, plaintext, data,
                 failures, history, faults>>

\* unwind_launch leaves the browser that is recorded and alive what it holds.
UnwindLaunch(t) ==
  /\ At(t, "unwind")
  /\ IF recorded # NoBrowser /\ process = recorded
     THEN UNCHANGED <<teamLock, marked, faults>>
     ELSE /\ teamLock' = FALSE /\ marked' = FALSE
          /\ faults' = IF DealtWith THEN faults ELSE faults \cup {"hasty"}
  /\ Goto(t, "unlock")
  /\ UNCHANGED <<kind, launchLock, browser, pending, sync, status, plaintext, data,
                 failures, history>>

\* The guard of the launch lock goes out of scope; a stop has more to do.
UnlockProfileLaunch(t) ==
  /\ At(t, "unlock") \/ At(t, "unlockStopped")
  /\ launchLock' = NoCaller
  /\ Goto(t, IF At(t, "unlock") THEN "idle" ELSE "release")
  /\ UNCHANGED <<kind, browser, teamLock, scheduler, status, plaintext, data, failures,
                 history, faults>>

(***************************************************************************)
(* What the end of a browser sets off, here and in the status checker.     *)
(***************************************************************************)
\* reencrypt_changed_files writes what the snapshot does not take for unchanged;
\* it may fail part of the way.  clear_profile_browsing_data wipes the directory.
Tidy ==
  CASE kind = "protected" ->
         /\ snap' = {}
         /\ UNCHANGED uncleared
         /\ IF ramUp /\ key
            THEN \/ disk' = disk \cup (ram \ snap) /\ UNCHANGED <<failures, faults>>
                 \/ UNCHANGED disk /\ Fails("reencrypt")
            ELSE UNCHANGED <<disk, failures, faults>>
    [] kind = "clear" -> uncleared' = {} /\ UNCHANGED <<snap, disk, failures, faults>>
    [] OTHER -> UNCHANGED <<snap, uncleared, disk, failures, faults>>

\* complete_after_quit drops the key and the plaintext copy, whatever became of
\* the re-encryption.
Drop ==
  IF kind = "protected" /\ ramUp /\ key /\ ~KeepDecrypted
  THEN key' = FALSE /\ ramUp' = FALSE /\ ram' = {}
  ELSE UNCHANGED <<key, ramUp, ram>>

(***************************************************************************)
(* kill_browser_process, and what its callers do after it.                 *)
(***************************************************************************)
StopBrowser(t) ==
  /\ At(t, "find")
  /\ IF process # NoBrowser
     THEN BrowserGone
     ELSE UNCHANGED <<process, ended, ram, disk, uncleared>>
  /\ Goto(t, "clearRecord")
  /\ UNCHANGED <<kind, launchLock, recorded, started, teamLock, scheduler, status, key,
                 ramUp, snap, failures, queued, uploaded, faults>>

\* Mutant: it does not die, and the callers are not told.
StopFailsQuietly(t) ==
  /\ At(t, "find")
  /\ process # NoBrowser
  /\ Goto(t, "unlockStopped")
  /\ UNCHANGED <<kind, launchLock, browser, teamLock, scheduler, status, plaintext, data,
                 failures, history, faults>>

\* It does not die: an error, and nothing else happens.
StopFails(t) ==
  /\ At(t, "find")
  /\ process # NoBrowser
  /\ Goto(t, "unlock")
  /\ UNCHANGED <<kind, launchLock, browser, teamLock, scheduler, status, plaintext, data,
                 failures, history, faults>>

\* A record that cannot be saved is an error too: the checker will see to the rest.
ClearRecord(t) ==
  /\ At(t, "clearRecord")
  /\ \/ /\ recorded' = NoBrowser
        /\ UnseenIf(task[t].op = "apiStop")
        /\ Goto(t, "tidy")
     \/ Goto(t, "unlock") /\ UNCHANGED <<recorded, faults>>
  /\ UNCHANGED <<kind, launchLock, process, started, teamLock, scheduler, status,
                 plaintext, data, failures, history>>

StopTidies(t) ==
  /\ At(t, "tidy")
  /\ Tidy
  /\ Goto(t, "drop")
  /\ UNCHANGED <<kind, launchLock, browser, teamLock, scheduler, status, key, ramUp, ram,
                 history>>

StopDrops(t) ==
  /\ At(t, "drop")
  /\ Drop
  /\ Goto(t, "unlockStopped")
  /\ UNCHANGED <<kind, launchLock, browser, teamLock, scheduler, status, snap, data,
                 failures, history, faults>>

\* The API releases the team lock and leaves the mark to the status checker.
StopReleases(t) ==
  /\ At(t, "release")
  /\ teamLock' = FALSE
  /\ Goto(t, IF task[t].op = "apiStop" THEN "idle" ELSE "markStopped")
  /\ UNCHANGED <<kind, launchLock, browser, scheduler, status, plaintext, data, failures,
                 history, faults>>

StopMarks(t) ==
  /\ At(t, "markStopped")
  /\ marked' = FALSE
  /\ Goto(t, "idle")
  /\ UNCHANGED <<kind, launchLock, browser, teamLock, pending, sync, status, plaintext,
                 data, failures, history, faults>>

(***************************************************************************)
(* The status checker.                                                     *)
(***************************************************************************)
CheckerGoesTo(step) == checker' = step

\* list_profiles; only what has a pid or was last seen running is looked at.
CheckerLooks ==
  /\ checker = "look"
  /\ recorded # NoBrowser \/ last
  /\ hadPid' = (recorded # NoBrowser)
  /\ CheckerGoesTo("status")
  /\ UNCHANGED <<kind, asked, launchLock, browser, teamLock, scheduler, last, plaintext,
                 data, failures, history, faults>>

\* Mutant: the queued sync is released as soon as the browser is gone.
CheckerReleasesFirst ==
  /\ checker = "status"
  /\ RefreshRecord
  /\ CheckerGoesTo(IF process # NoBrowser
                   THEN IF last THEN "look" ELSE "markRunning"
                   ELSE IF last \/ hadPid THEN "tidy" ELSE "look")
  /\ hadPid' = FALSE
  /\ marked' = (marked /\ process # NoBrowser)
  /\ UNCHANGED <<kind, asked, launchLock, process, started, teamLock, pending, sync, last,
                 plaintext, data, failures, history, faults>>

CheckerChecks ==
  /\ checker = "status"
  /\ RefreshRecord
  /\ CheckerGoesTo(IF process # NoBrowser
                   THEN IF last THEN "look" ELSE "markRunning"
                   ELSE IF last \/ hadPid THEN "tidy" ELSE "look")
  /\ hadPid' = FALSE
  /\ UNCHANGED <<kind, asked, launchLock, process, started, teamLock, scheduler, last,
                 plaintext, data, failures, history, faults>>

CheckerMarksRunning ==
  /\ checker = "markRunning"
  /\ marked' = TRUE
  /\ last' = TRUE
  /\ CheckerGoesTo("look")
  /\ UNCHANGED <<kind, asked, launchLock, browser, teamLock, pending, sync, hadPid,
                 plaintext, data, failures, history, faults>>

CheckerTidies ==
  /\ checker = "tidy"
  /\ Tidy
  /\ CheckerGoesTo("drop")
  /\ UNCHANGED <<kind, asked, launchLock, browser, teamLock, scheduler, hadPid, last, key,
                 ramUp, ram, history>>

CheckerDrops ==
  /\ checker = "drop"
  /\ Drop
  /\ CheckerGoesTo("markStopped")
  /\ UNCHANGED <<kind, asked, launchLock, browser, teamLock, scheduler, hadPid, last,
                 snap, data, failures, history, faults>>

\* Mutant: the scheduler is not told.
CheckerForgetsMark ==
  /\ checker = "markStopped"
  /\ CheckerGoesTo("release")
  /\ UNCHANGED <<kind, asked, launchLock, browser, teamLock, scheduler, hadPid, last,
                 plaintext, data, failures, history, faults>>

CheckerMarksStopped ==
  /\ checker = "markStopped"
  /\ marked' = FALSE
  /\ CheckerGoesTo("release")
  /\ UNCHANGED <<kind, asked, launchLock, browser, teamLock, pending, sync, hadPid, last,
                 plaintext, data, failures, history, faults>>

\* Mutant: a browser that exits by itself keeps the team lock.
CheckerKeepsLock ==
  /\ checker = "release"
  /\ last' = FALSE
  /\ CheckerGoesTo("look")
  /\ UNCHANGED <<kind, asked, launchLock, browser, teamLock, scheduler, hadPid, plaintext,
                 data, failures, history, faults>>

CheckerReleases ==
  /\ checker = "release"
  /\ teamLock' = FALSE
  /\ last' = FALSE
  /\ CheckerGoesTo("look")
  /\ UNCHANGED <<kind, asked, launchLock, browser, scheduler, hadPid, plaintext, data,
                 failures, history, faults>>

(***************************************************************************)
(* The key of a protected profile, and its sync.                           *)
(***************************************************************************)
UnlockProfile ==
  /\ kind = "protected" /\ ~key
  /\ key' = TRUE
  /\ UNCHANGED <<kind, asked, launchLock, browser, teamLock, scheduler, status, ramUp, ram,
                 snap, data, failures, history, faults>>

\* lock_profile purges a plaintext copy nobody may have re-encrypted, or that a
\* browser about to be recorded was started on.
LockProfile ==
  /\ kind = "protected"
  /\ ~(recorded # NoBrowser /\ process = recorded)
  /\ key \/ ramUp
  /\ key' = FALSE /\ ramUp' = FALSE /\ ram' = {}
  /\ faults' = IF ram \subseteq disk /\ ~Launching THEN faults ELSE faults \cup {"locked"}
  /\ UNCHANGED <<kind, asked, launchLock, browser, teamLock, scheduler, status, snap, data,
                 failures, history>>

\* The scheduler takes a profile that is queued and not running; the engine skips
\* one that has a process_id, and nothing queues it again.
SyncTakes ==
  /\ sync = "idle"
  /\ pending /\ ~marked
  /\ pending' = FALSE
  /\ IF recorded # NoBrowser
     THEN UNCHANGED sync /\ Fault("skipped")
     ELSE sync' = "upload" /\ UNCHANGED faults
  /\ UNCHANGED <<kind, asked, launchLock, browser, teamLock, marked, status, plaintext,
                 data, failures, history>>

\* A sync that failed is not queued again.
SyncUploads ==
  /\ sync = "upload"
  /\ \/ uploaded' = uploaded \cup disk /\ UNCHANGED <<failures, faults>>
     \/ UNCHANGED uploaded /\ Fails("upload")
  /\ sync' = "idle"
  /\ UNCHANGED <<kind, asked, launchLock, browser, teamLock, marked, pending, status,
                 plaintext, data, ended, queued>>

LaunchStep(t) ==
  \/ LockProfileLaunch(t) \/ RefuseLaunch(t) \/ AcquireTeamLock(t)
  \/ MarkProfileRunning(t) \/ QueueProfileSync(t) \/ CheckStatus(t)
  \/ LaunchFails(t) \/ PrepareForLaunch(t) \/ LaunchWayfern(t) \/ SaveProcessInfo(t)
  \/ UnwindLaunch(t) \/ UnlockProfileLaunch(t)
StopStep(t) ==
  \/ StopBrowser(t) \/ StopFails(t) \/ ClearRecord(t) \/ StopTidies(t) \/ StopDrops(t)
  \/ StopReleases(t) \/ StopMarks(t)
CheckerStep ==
  \/ CheckerLooks \/ CheckerChecks \/ CheckerMarksRunning \/ CheckerTidies
  \/ CheckerDrops \/ CheckerMarksStopped \/ CheckerReleases
SyncStep == SyncTakes \/ SyncUploads

Step ==
  \/ \E t \in Callers : LaunchStep(t) \/ StopStep(t) \/ \E op \in Launches \cup Stops : Ask(t, op)
  \/ CheckerStep \/ SyncStep
  \/ BrowserExits \/ OthersCheckStatus \/ UnlockProfile \/ LockProfile

\* History: a launch is under way while the end of a session is dealt with.
Ending ==
  \/ checker \in {"tidy", "drop", "markStopped", "release"}
  \/ \E t \in Callers : task[t].step \in Afterwards

Next == Step /\ overlapped' = (overlapped \/ (Launching' /\ Ending'))

Spec == Init /\ [][Next]_vars

(***************************************************************************)
(* Fairness: a task that began goes on, the checker and the scheduler run  *)
(* for as long as the app does.  Nobody has to ask, exit or unlock.        *)
(***************************************************************************)
Fairness ==
  /\ \A t \in Callers : WF_modelled(LaunchStep(t) \/ StopStep(t))
  /\ WF_modelled(CheckerStep)
  /\ WF_modelled(SyncStep)

FairSpec == Spec /\ Fairness

(***************************************************************************)
(* Properties.                                                             *)
(***************************************************************************)
\* Two browsers never run on one profile directory, however launches, stops and
\* opened URLs interleave (lock_profile_launch, launch_or_open_url).
OneBrowser == [][process # NoBrowser => process' \in {process, NoBrowser}]_vars

\* As long as no launch overlaps the end of a session before it, and no record
\* fails to be saved, a browser that runs holds the team lock: nothing another
\* session left behind gives it back (unwind_launch, kill_browser_profile, lib.rs).
RunningHoldsLock ==
  process # NoBrowser /\ ~overlapped /\ "unsaved" \notin faults => teamLock

\* And the scheduler is told that it runs, so that its sync waits.
RunningDefersSync ==
  process \in queued /\ ~overlapped /\ "unsaved" \notin faults => marked

\* The queued sync of a profile begins to upload only when every session whose
\* launch queued one is dealt with: re-encrypted, or wiped (lib.rs "Must run BEFORE
\* mark_profile_stopped").  Except after an overlap, a launch that failed before
\* the end of the session before was dealt with, or work that was lost.
ReleasedWhenDealtWith ==
  [][sync = "idle" /\ sync' = "upload" =>
       \/ ended \cap queued \subseteq disk /\ uncleared \cap queued = {}
       \/ overlapped
       \/ faults \cap {"hasty", "reencrypt", "resnapped", "locked", "unsaved"} # {}]_vars

\* The work of a session that ended is on disk, or in the plaintext copy it will
\* be encrypted from, however launches, stops, the checker and lock_profile
\* interleave, except in the four ways named (password.rs).
WorkKept ==
  \/ ended \subseteq disk \cup ram
  \/ overlapped \/ faults \cap {"reencrypt", "resnapped", "locked", "unsaved"} # {}

\* complete_after_quit "re-encrypts ephemeral -> disk": when it purges the plaintext
\* copy, the work of every session that ended is in the profile directory, even
\* when no launch overlapped the end of a session.
PurgedWhenSaved ==
  [][checker = "drop" /\ ramUp /\ ~ramUp' => ended \subseteq disk \/ overlapped]_vars

\* The team lock does not outlive the browser, unless the checker could not come
\* across the end of its session or a launch of the API was refused (lib.rs
\* "leaking the lock, which the 30s heartbeat then renews indefinitely").
LockIsReleased ==
  (process = NoBrowser /\ teamLock)
    ~> (~teamLock \/ process # NoBrowser \/ faults \cap {"unseen", "refused"} # {})

\* A session that queued a sync when it was launched is uploaded when it ended,
\* unless another browser runs by then (lib.rs "Sync was queued at launch;
\* mark_profile_stopped triggers it").
EndedIsUploaded ==
  \A n \in Sessions :
    (n \in ended \cap queued)
      ~> (n \in uploaded \/ process # NoBrowser \/ overlapped \/ faults \ {"refused"} # {})

===============================================================================
