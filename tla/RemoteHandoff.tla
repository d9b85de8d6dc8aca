----------------------------- MODULE RemoteHandoff -----------------------------
(***************************************************************************)
(* What a remote session owes this machine (remote_handoff.rs) and how its *)
(* transitions get here (remote_session.rs).  A session of a profile runs  *)
(* on a host; the host pushes the profile back when the session closes.    *)
(* The store gates local launches of the profile from the moment a session *)
(* is noticed until a pull of its work completed.                          *)
(*                                                                         *)
(* News of a session comes from four places, and nothing orders them: the  *)
(* event stream (a snapshot on connect, then transitions in order), the    *)
(* reply to this machine's own start, the reply to its own stop, and a     *)
(* listing asked for while the stream is down.  Pulls are tasks of their   *)
(* own: they look at the gate, sleep, transfer for minutes, and clear the  *)
(* gate by profile.                                                        *)
(***************************************************************************)
EXTENDS Naturals, Sequences, FiniteSets

CONSTANTS
  Profiles,      \* profile ids
  NumSessions,   \* sessions are numbered in the order the backend starts them
  ProfileOf,     \* the profile each session runs
  OwnSessions,   \* those this machine asks the backend to start
  Slots,         \* bound: pull tasks of one profile at a time
  NoSession,     \* no session
  PullAttempts,  \* PULL_ATTEMPTS
  MaxDrops,      \* bound: times the stream drops
  MaxListings,   \* bound: listings asked for while it is down
  MaxRestarts,   \* bound: times the process dies and starts again
  MaxFailures    \* bound: times the store cannot be written

Sessions == 1 .. NumSessions
BackendStates == {"unborn", "starting", "live", "closed"}
Reports == UNION {[S -> BackendStates] : S \in SUBSET Sessions}

ASSUME SessionAssumption == NumSessions \in Nat /\ ProfileOf \in [Sessions -> Profiles]
ASSUME OwnAssumption == OwnSessions \subseteq Sessions /\ NoSession \notin Sessions
ASSUME BoundAssumption ==
  /\ PullAttempts \in Nat \ {0} /\ MaxDrops \in Nat /\ MaxListings \in Nat
  /\ MaxRestarts \in Nat /\ MaxFailures \in Nat

VARIABLES
  backend,        \* each session as the backend has it
  here,           \* profiles with a local copy
  store,          \* STORE: what the gate holds of each profile
  disk,           \* remote_handoff.json, as the next process would load it
  writing,        \* the file is truncated and being written, STORE is locked
  connected,      \* the event stream is up
  frames,         \* frames of this connection still to be dispatched
  authoritative,  \* INDEX_AUTHORITATIVE
  index,          \* LIVE_BY_PROFILE
  listing,        \* the listing on its way, if one is: the backend as it was
  started,        \* own sessions whose start was accepted, reply on its way
  stopped,        \* sessions whose stop was accepted, reply on its way
  pulls,          \* the pull tasks of each profile
  resumeDue,      \* resume_pending_pulls has yet to run in this process
  drops, listings, restarts, failures,  \* counters of the bounds
  watched,        \* history: sessions this machine noted as running
  pulled,         \* history: sessions whose work is in the local copy
  excused,        \* history: profiles whose gate was lifted or moved wrongly
  neglected       \* history: profiles whose pulls gave up or were not started

gate == <<store, disk, writing>>
stream == <<connected, frames>>
indexVars == <<authoritative, index>>
replies == <<listing, started, stopped>>
tasks == <<pulls, resumeDue>>
bounds == <<drops, listings, restarts, failures>>
history == <<watched, pulled, excused, neglected>>
vars == <<backend, here, gate, stream, indexVars, replies, tasks, bounds, history>>

Open == [state |-> "none", session |-> NoSession]
Running(s) == [state |-> "running", session |-> s]
PendingSync(s) == [state |-> "pending", session |-> s]
Entries == [state : {"running", "pending"}, session : Sessions]

NoTask == [pc |-> "none", attempt |-> 0, covers |-> {}]
NewTask == [pc |-> "check", attempt |-> 0, covers |-> {}]
Tasks == [pc : {"none", "check", "begin", "transfer"}, attempt : 0 .. PullAttempts - 1,
          covers : SUBSET Sessions]

Frames == [full : BOOLEAN, report : Reports]

TypeOK ==
  /\ backend \in [Sessions -> BackendStates]
  /\ here \subseteq Profiles
  /\ store \in [Profiles -> Entries \cup {Open}]
  /\ disk \in [Profiles -> Entries \cup {Open}]
  /\ writing \in BOOLEAN
  /\ connected \in BOOLEAN /\ frames \in Seq(Frames)
  /\ authoritative \in BOOLEAN /\ index \in [Profiles -> Sessions \cup {NoSession}]
  /\ listing \in Seq(Reports)
  /\ started \subseteq Sessions /\ stopped \subseteq Sessions
  /\ pulls \in [Profiles -> [Slots -> Tasks]]
  /\ resumeDue \in BOOLEAN
  /\ drops \in Nat /\ listings \in Nat /\ restarts \in Nat /\ failures \in Nat
  /\ watched \subseteq Sessions /\ pulled \subseteq Sessions
  /\ excused \subseteq Profiles /\ neglected \subseteq Profiles

Init ==
  /\ backend = [s \in Sessions |-> "unborn"]
  /\ here \in SUBSET Profiles
  /\ store = [p \in Profiles |-> Open] /\ disk = store /\ writing = FALSE
  /\ connected = FALSE /\ frames = <<>>
  /\ authoritative = FALSE /\ index = [p \in Profiles |-> NoSession]
  /\ listing = <<>> /\ started = {} /\ stopped = {}
  /\ pulls = [p \in Profiles |-> [i \in Slots |-> NoTask]]
  /\ resumeDue = TRUE
  /\ drops = 0 /\ listings = 0 /\ restarts = 0 /\ failures = 0
  /\ watched = {} /\ pulled = {} /\ excused = {} /\ neglected = {}
(***************************************************************************)
(* The backend.  A profile's sessions follow one another: the profile lock *)
(* is held until a session closed.  Closing pushes the host's work.        *)
(***************************************************************************)
Emit(s, state) ==
  frames' = IF connected
            THEN Append(frames, [full |-> FALSE, report |-> [t \in {s} |-> state]])
            ELSE frames

\* Every session there has been, as GET /api/remote-sessions lists it.
Listing == [s \in {t \in Sessions : backend[t] # "unborn"} |-> backend[s]]

ClosedOf(p) == {s \in Sessions : ProfileOf[s] = p /\ backend[s] = "closed"}

BackendAccepts(s) ==
  /\ backend[s] = "unborn"
  /\ \A t \in 1 .. s - 1 : ProfileOf[t] = ProfileOf[s] => backend[t] = "closed"
  /\ backend' = [backend EXCEPT ![s] = "starting"]
  /\ Emit(s, "starting")

StartElsewhere(s) ==
  /\ s \notin OwnSessions
  /\ BackendAccepts(s)
  /\ UNCHANGED <<here, gate, connected, indexVars, replies, tasks, bounds, history>>

\* start_remote_session: the request is accepted, the reply still to come.
StartRemoteSession(s) ==
  /\ s \in OwnSessions
  /\ BackendAccepts(s)
  /\ started' = started \cup {s}
  /\ UNCHANGED <<here, gate, connected, indexVars, listing, stopped, tasks, bounds,
                 history>>

BecomesLive(s) ==
  /\ backend[s] = "starting"
  /\ backend' = [backend EXCEPT ![s] = "live"]
  /\ Emit(s, "live")
  /\ UNCHANGED <<here, gate, connected, indexVars, replies, tasks, bounds, history>>

Closes(s) ==
  /\ backend[s] \in {"starting", "live"}
  /\ backend' = [backend EXCEPT ![s] = "closed"]
  /\ Emit(s, "closed")
  /\ UNCHANGED <<here, gate, connected, indexVars, replies, tasks, bounds, history>>

\* end_remote_session: a stop that is answered means the session is closed.
EndRemoteSession(s) ==
  /\ backend[s] \in {"starting", "live"}
  /\ backend' = [backend EXCEPT ![s] = "closed"]
  /\ Emit(s, "closed")
  /\ stopped' = stopped \cup {s}
  /\ UNCHANGED <<here, gate, connected, indexVars, listing, started, tasks, bounds,
                 history>>

\* The reply of a start or of a stop never arrives.
LoseReply(s) ==
  /\ \/ s \in started /\ started' = started \ {s} /\ UNCHANGED stopped
     \/ s \in stopped /\ stopped' = stopped \ {s} /\ UNCHANGED started
  /\ UNCHANGED <<backend, here, gate, stream, indexVars, listing, tasks, bounds,
                 history>>

(***************************************************************************)
(* The store.  A change is written to disk under the lock of STORE.        *)
(***************************************************************************)
\* Replace the store: mutate persists it only if it changed.
Mutate(new) ==
  /\ ~writing
  /\ store' = new
  /\ writing' = (new # store)
  /\ UNCHANGED disk

\* The gate as a report leaves it: a session that is not over takes the entry,
\* whatever held it (note_running); an entry whose session is over is owed a
\* pull (note_ended), and so is one that a full listing lacks (reconcile).
Unfinished(report, p) ==
  {s \in DOMAIN report : ProfileOf[s] = p /\ report[s] # "closed"}

\* Mutant: no reconcile.
ToldByTransitions(report, full) ==
  [p \in Profiles |->
     IF Unfinished(report, p) # {}
     THEN Running(CHOOSE s \in Unfinished(report, p) : TRUE)
     ELSE IF store[p].state = "running" /\ ~full /\ store[p].session \in DOMAIN report
     THEN PendingSync(store[p].session)
     ELSE store[p]]

Told(report, full) ==
  [p \in Profiles |->
     IF Unfinished(report, p) # {}
     THEN Running(CHOOSE s \in Unfinished(report, p) : TRUE)
     ELSE IF store[p].state = "running" /\ (full \/ store[p].session \in DOMAIN report)
     THEN PendingSync(store[p].session)
     ELSE store[p]]

EndedBy(new) == {p \in Profiles : store[p].state = "running" /\ new[p].state = "pending"}

\* History: entries of a newer session that make way for one of an older.
SetBack(new) ==
  {p \in Profiles : /\ store[p] # Open /\ new[p] # Open
                    /\ new[p].session < store[p].session}

Watch(report) == watched' = watched \cup {s \in DOMAIN report : report[s] # "closed"}

(***************************************************************************)
(* schedule_pull.                                                          *)
(***************************************************************************)
Free(p) == {i \in Slots : pulls[p][i].pc = "none"}

Spawn(ps) ==
  /\ \A p \in ps : Free(p) # {}
  /\ pulls' = [p \in Profiles |->
                 IF p \in ps
                 THEN [pulls[p] EXCEPT ![CHOOSE i \in Slots : i \in Free(p)] = NewTask]
                 ELSE pulls[p]]

(***************************************************************************)
(* The news.                                                               *)
(***************************************************************************)
\* Mutant: a session that stopped being drivable keeps its slot.
IndexKeepsSlot(report, full) ==
  [p \in Profiles |->
     LET drivable == {s \in DOMAIN report : ProfileOf[s] = p /\ report[s] = "live"}
     IN  IF drivable # {} THEN CHOOSE s \in drivable : TRUE
         ELSE IF full THEN NoSession
         ELSE index[p]]

\* A listing says it all; a transition moves the slot of its own session only.
IndexAfter(report, full) ==
  [p \in Profiles |->
     LET drivable == {s \in DOMAIN report : ProfileOf[s] = p /\ report[s] = "live"}
     IN  IF drivable # {} THEN CHOOSE s \in drivable : TRUE
         ELSE IF full \/ index[p] \in DOMAIN report THEN NoSession
         ELSE index[p]]

\* dispatch_frame, apply_to_index: the next frame of the stream.
DispatchFrame ==
  /\ frames # <<>>
  /\ LET frame == Head(frames)
         new == Told(frame.report, frame.full)
     IN  /\ Mutate(new)
         /\ Spawn(EndedBy(new))
         /\ Watch(frame.report)
         /\ index' = IndexAfter(frame.report, frame.full)
         /\ authoritative' = (authoritative \/ frame.full)
         /\ excused' = excused \cup SetBack(new)
         /\ neglected' = neglected \ EndedBy(new)
  /\ frames' = Tail(frames)
  /\ UNCHANGED <<backend, here, connected, replies, resumeDue, bounds, pulled>>

\* connect_session_events: the stream opens with a snapshot.
Connect ==
  /\ ~connected
  /\ connected' = TRUE
  /\ frames' = <<[full |-> TRUE, report |-> Listing]>>
  /\ UNCHANGED <<backend, here, gate, indexVars, replies, tasks, bounds, history>>

\* It drops, with what was still on the wire.
DropStream ==
  /\ connected
  /\ drops < MaxDrops
  /\ drops' = drops + 1
  /\ connected' = FALSE /\ frames' = <<>>
  /\ authoritative' = FALSE
  /\ UNCHANGED <<backend, here, gate, index, replies, tasks, listings, restarts,
                 failures, history>>

\* live_session_for_profile: not in the index, and the index is no answer.
AskForListing(p) ==
  /\ index[p] = NoSession /\ ~authoritative
  /\ listing = <<>>
  /\ listings < MaxListings
  /\ listings' = listings + 1
  /\ listing' = <<Listing>>
  /\ UNCHANGED <<backend, here, gate, stream, indexVars, started, stopped, tasks,
                 drops, restarts, failures, history>>

\* Its answer goes through reindex without an app handle: no pull is started.
ListingArrives ==
  /\ listing # <<>>
  /\ LET report == Head(listing)
         new == Told(report, TRUE)
     IN  /\ Mutate(new)
         /\ Watch(report)
         /\ index' = IndexAfter(report, TRUE)
         /\ excused' = excused \cup SetBack(new)
         /\ neglected' = neglected \cup EndedBy(new)
  /\ listing' = <<>>
  /\ UNCHANGED <<backend, here, stream, authoritative, started, stopped, tasks,
                 bounds, pulled>>

LoseListing ==
  /\ listing # <<>>
  /\ listing' = <<>>
  /\ UNCHANGED <<backend, here, gate, stream, indexVars, started, stopped, tasks,
                 bounds, history>>

\* note_session_started: the reply to this machine's own start.
NoteSessionStarted(s) ==
  /\ s \in started
  /\ LET new == [store EXCEPT ![ProfileOf[s]] = Running(s)]
     IN  Mutate(new) /\ excused' = excused \cup SetBack(new)
  /\ started' = started \ {s}
  /\ watched' = watched \cup {s}
  /\ UNCHANGED <<backend, here, stream, indexVars, listing, stopped, tasks, bounds,
                 pulled, neglected>>

\* note_session_stopped: only a session the gate holds has a profile to pull.
NoteSessionStopped(s) ==
  /\ s \in stopped
  /\ LET p == ProfileOf[s]
         new == IF store[p] = Running(s) THEN [store EXCEPT ![p] = PendingSync(s)]
                ELSE store
     IN  /\ Mutate(new)
         /\ Spawn(EndedBy(new))
         /\ neglected' = neglected \ EndedBy(new)
  /\ stopped' = stopped \ {s}
  /\ UNCHANGED <<backend, here, stream, indexVars, listing, started, resumeDue,
                 bounds, watched, pulled, excused>>

(***************************************************************************)
(* A pull task.                                                            *)
(***************************************************************************)
SetTask(p, i, task) == pulls' = [pulls EXCEPT ![p] = [@ EXCEPT ![i] = task]]

\* It looks at the gate, and from the second attempt on sleeps after that.
PullLooks(p, i) ==
  /\ pulls[p][i].pc = "check"
  /\ ~writing
  /\ SetTask(p, i, IF store[p].state = "pending"
                   THEN [pc |-> "begin", attempt |-> pulls[p][i].attempt, covers |-> {}]
                   ELSE NoTask)
  /\ UNCHANGED <<backend, here, gate, stream, indexVars, replies, resumeDue, bounds,
                 history>>

\* It reads the remote manifest: the work of every session closed by now.
PullBegins(p, i) ==
  /\ pulls[p][i].pc = "begin"
  /\ SetTask(p, i, [pc |-> "transfer", attempt |-> pulls[p][i].attempt,
                    covers |-> ClosedOf(p)])
  /\ UNCHANGED <<backend, here, gate, stream, indexVars, replies, resumeDue, bounds,
                 history>>

\* clear(profile_id) asks for no session.  History: the gate held a session
\* that was not over when the pull began.
Clear(p, covers) ==
  /\ Mutate([store EXCEPT ![p] = Open])
  /\ excused' = IF store[p] # Open /\ store[p].session \notin covers
                THEN excused \cup {p} ELSE excused

PullCompletes(p, i) ==
  /\ pulls[p][i].pc = "transfer" /\ p \in here
  /\ pulled' = pulled \cup pulls[p][i].covers
  /\ Clear(p, pulls[p][i].covers)
  /\ SetTask(p, i, NoTask)
  /\ UNCHANGED <<backend, here, stream, indexVars, replies, resumeDue, bounds,
                 watched, neglected>>

\* Mutant: a pull that was skipped counts as done.
PullFailsOpen(p, i) ==
  /\ pulls[p][i].pc = "transfer" /\ p \in here
  /\ Clear(p, pulls[p][i].covers)
  /\ SetTask(p, i, NoTask)
  /\ UNCHANGED <<backend, here, stream, indexVars, replies, resumeDue, bounds,
                 watched, pulled, neglected>>

\* Mutant: one attempt too many.
PullFailsTooOften(p, i) ==
  /\ pulls[p][i].pc = "transfer" /\ p \in here
  /\ LET attempt == pulls[p][i].attempt + 1
     IN  IF attempt <= PullAttempts
         THEN /\ SetTask(p, i, [pc |-> "check", attempt |-> attempt, covers |-> {}])
              /\ UNCHANGED neglected
         ELSE /\ SetTask(p, i, NoTask)
              /\ neglected' = neglected \cup {p}
  /\ UNCHANGED <<backend, here, gate, stream, indexVars, replies, resumeDue, bounds,
                 watched, pulled, excused>>

\* It was skipped, or failed: try again, or leave the profile gated.
PullFails(p, i) ==
  /\ pulls[p][i].pc = "transfer" /\ p \in here
  /\ LET attempt == pulls[p][i].attempt + 1
     IN  IF attempt < PullAttempts
         THEN /\ SetTask(p, i, [pc |-> "check", attempt |-> attempt, covers |-> {}])
              /\ UNCHANGED neglected
         ELSE /\ SetTask(p, i, NoTask)
              /\ neglected' = neglected \cup {p}
  /\ UNCHANGED <<backend, here, gate, stream, indexVars, replies, resumeDue, bounds,
                 watched, pulled, excused>>

\* It failed because there is no local copy: nothing to protect.
PullFindsNoCopy(p, i) ==
  /\ pulls[p][i].pc = "transfer" /\ p \notin here
  /\ Clear(p, pulls[p][i].covers)
  /\ SetTask(p, i, NoTask)
  /\ UNCHANGED <<backend, here, stream, indexVars, replies, resumeDue, bounds,
                 watched, pulled, neglected>>

\* A profile of another device comes down with what was pushed so far.
ProfileArrives(p) ==
  /\ p \notin here
  /\ here' = here \cup {p}
  /\ pulled' = pulled \cup ClosedOf(p)
  /\ UNCHANGED <<backend, gate, stream, indexVars, replies, tasks, bounds, watched,
                 excused, neglected>>

\* Mutant: only profiles that ended while the process runs are pulled.
ResumeNothing ==
  /\ resumeDue /\ ~writing
  /\ resumeDue' = FALSE
  /\ UNCHANGED <<backend, here, gate, stream, indexVars, replies, pulls, bounds,
                 history>>

ResumePendingPulls ==
  /\ resumeDue /\ ~writing
  /\ resumeDue' = FALSE
  /\ LET owed == {p \in Profiles : store[p].state = "pending"}
     IN  Spawn(owed) /\ neglected' = neglected \ owed
  /\ UNCHANGED <<backend, here, gate, stream, indexVars, replies, bounds, watched,
                 pulled, excused>>

(***************************************************************************)
(* The file, and the death of the process.                                 *)
(***************************************************************************)
AllOpen == [p \in Profiles |-> Open]

PersistEnds ==
  /\ writing
  /\ writing' = FALSE /\ disk' = store
  /\ UNCHANGED <<backend, here, store, stream, indexVars, replies, tasks, bounds,
                 history>>

\* It cannot be opened, or the disk fills up and half a file does not parse.
PersistFails ==
  /\ writing
  /\ failures < MaxFailures
  /\ failures' = failures + 1
  /\ writing' = FALSE /\ disk' \in {disk, AllOpen}
  /\ UNCHANGED <<backend, here, store, stream, indexVars, replies, tasks, drops,
                 listings, restarts, history>>

\* The process dies and starts again: load_from_disk, a file cut short is empty.
Restart ==
  /\ restarts < MaxRestarts
  /\ restarts' = restarts + 1
  /\ store' = IF writing THEN AllOpen ELSE disk
  /\ disk' = store' /\ writing' = FALSE
  /\ connected' = FALSE /\ frames' = <<>>
  /\ authoritative' = FALSE /\ index' = [p \in Profiles |-> NoSession]
  /\ listing' = <<>> /\ started' = {} /\ stopped' = {}
  /\ pulls' = [p \in Profiles |-> [i \in Slots |-> NoTask]] /\ resumeDue' = TRUE
  /\ excused' = excused \cup {p \in Profiles : store[p] # Open /\ store'[p] # store[p]}
  /\ neglected' = {}
  /\ UNCHANGED <<backend, here, drops, listings, failures, watched, pulled>>

BackendStep(s) == BecomesLive(s) \/ Closes(s)
TaskStep(p, i) ==
  \/ PullLooks(p, i) \/ PullBegins(p, i) \/ PullCompletes(p, i) \/ PullFails(p, i)
  \/ PullFindsNoCopy(p, i)

Next ==
  \/ \E s \in Sessions :
       \/ StartElsewhere(s) \/ StartRemoteSession(s) \/ BackendStep(s)
       \/ EndRemoteSession(s) \/ LoseReply(s)
       \/ NoteSessionStarted(s) \/ NoteSessionStopped(s)
  \/ \E p \in Profiles :
       \/ AskForListing(p) \/ ProfileArrives(p)
       \/ \E i \in Slots : TaskStep(p, i)
  \/ DispatchFrame \/ Connect \/ DropStream
  \/ ListingArrives \/ LoseListing
  \/ ResumePendingPulls
  \/ PersistEnds \/ PersistFails \/ Restart

Spec == Init /\ [][Next]_vars

(***************************************************************************)
(* Fairness: the stream's own task reconnects without end and dispatches   *)
(* what arrives, a write returns, and each attempt of a pull ends.         *)
(***************************************************************************)
Fairness ==
  /\ WF_vars(Connect) /\ WF_vars(DispatchFrame)
  /\ WF_vars(PersistEnds) /\ WF_vars(ResumePendingPulls)
  /\ \A p \in Profiles, i \in Slots : WF_vars(TaskStep(p, i))

FairSpec == Spec /\ Fairness
(***************************************************************************)
(* Properties.                                                             *)
(***************************************************************************)
\* ensure_local_launch_allowed lets a browser open over the local copy.
Launchable(p) == p \in here /\ store[p] = Open

\* Sessions noted here whose work is not in the local copy: still open there, or
\* pushed and not pulled.
Unpulled(p) == {s \in watched \ pulled : ProfileOf[s] = p}

\* The gate of a profile lifts before the work of every session it was raised
\* for is here only in the three ways "excused" names: a pull cleared an entry
\* of a session that was not over when the pull began, older news replaced the
\* entry of a newer session, or the store was lost (remote_handoff.rs).
OpenOnlyWhenPulled == \A p \in Profiles \ excused : Launchable(p) => Unpulled(p) = {}

\* "A new session started, or another pull got there first": the gate of a session
\* that is not over is not lifted by the pull of the session before it.
RunningGateStays ==
  [][\A p \in Profiles, s \in Sessions :
       store[p] = Running(s) /\ backend[s] # "closed" => store'[p] # Open]_vars

\* A profile that owes a pull has one under way, or is next in line for one when
\* the process started, unless a burst of attempts gave up or a listing moved it
\* (schedule_pull, reconcile, resume_pending_pulls).
PendingIsAttended ==
  \A p \in Profiles \ neglected :
    store[p].state = "pending" => resumeDue \/ Free(p) # Slots

\* Once the stream has dispatched all it sent, an authoritative index names for
\* each profile the session that can be driven (apply_to_index).  A listing that was
\* asked for while the stream was down may be older than what it puts its answer over.
IndexIsTrue ==
  authoritative /\ frames = <<>> /\ listings = 0 =>
    \A p \in Profiles, s \in Sessions :
      ProfileOf[s] = p => (index[p] = s <=> backend[s] = "live")

\* A session the gate holds as running, and that is over, does not stay so: the
\* stream or the snapshot of the next connection tells (reindex, reconcile).
EndedIsNoticed ==
  \A s \in Sessions :
    (store[ProfileOf[s]] = Running(s) /\ backend[s] = "closed")
      ~> store[ProfileOf[s]] # Running(s)

================================================================================
