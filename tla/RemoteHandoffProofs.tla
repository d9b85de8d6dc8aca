-------------------------- MODULE RemoteHandoffProofs --------------------------
(***************************************************************************)
(* What holds of the remote hand-off for any profiles, sessions, drops,    *)
(* listings, restarts and failed writes: its types, that the gate lifts    *)
(* early in no way but the three that "excused" names, that a profile      *)
(* which owes a pull is attended to, and that the stream fills the index.  *)
(***************************************************************************)
EXTENDS RemoteHandoff, SequenceTheorems, TLAPS

USE DEF vars, gate, stream, indexVars, replies, tasks, bounds, history

\* A report is a function from some of the sessions.
LEMMA ReportDomain ==
  ASSUME NEW R \in Reports
  PROVE  /\ DOMAIN R \subseteq Sessions
         /\ \A s \in DOMAIN R : R[s] \in BackendStates
BY DEF Reports

\* What the backend lists is a report, and so is one transition.
LEMMA BackendReports ==
  ASSUME TypeOK
  PROVE  /\ Listing \in Reports
         /\ \A s \in Sessions, st \in BackendStates : [t \in {s} |-> st] \in Reports
<1>1. Listing \in Reports
  <2> DEFINE S == {t \in Sessions : backend[t] # "unborn"}
  <2>1. S \in SUBSET Sessions /\ Listing \in [S -> BackendStates]
    BY DEF Listing, TypeOK
  <2> QED
    BY <2>1 DEF Reports
<1>2. ASSUME NEW s \in Sessions, NEW st \in BackendStates
      PROVE  [t \in {s} |-> st] \in Reports
  <2>1. {s} \in SUBSET Sessions /\ [t \in {s} |-> st] \in [{s} -> BackendStates]
    OBVIOUS
  <2> QED
    BY <2>1 DEF Reports
<1> QED
  BY <1>1, <1>2

\* Reports keep the store and the index well typed.
LEMMA ToldType ==
  ASSUME TypeOK, NEW R \in Reports, NEW full \in BOOLEAN
  PROVE  /\ Told(R, full) \in [Profiles -> Entries \cup {Open}]
         /\ IndexAfter(R, full) \in [Profiles -> Sessions \cup {NoSession}]
<1>1. DOMAIN R \subseteq Sessions
  BY ReportDomain
<1>2. ASSUME NEW p \in Profiles PROVE Told(R, full)[p] \in Entries \cup {Open}
  <2>1. CASE Unfinished(R, p) # {}
    <3>1. (CHOOSE s \in Unfinished(R, p) : TRUE) \in Sessions
      BY <2>1, <1>1 DEF Unfinished
    <3> QED
      BY <2>1, <3>1 DEF Told, Running, Entries
  <2>2. CASE Unfinished(R, p) = {}
    BY <2>2 DEF Told, PendingSync, Entries, TypeOK, Open
  <2> QED
    BY <2>1, <2>2
<1>3. ASSUME NEW p \in Profiles PROVE IndexAfter(R, full)[p] \in Sessions \cup {NoSession}
  <2> DEFINE D == {s \in DOMAIN R : ProfileOf[s] = p /\ R[s] = "live"}
  <2>1. CASE D # {}
    <3>1. (CHOOSE s \in D : TRUE) \in Sessions
      BY <2>1, <1>1
    <3> HIDE DEF D
    <3>2. IndexAfter(R, full)[p] = CHOOSE s \in D : TRUE
      BY <2>1 DEF IndexAfter, D
    <3> QED
      BY <3>1, <3>2
  <2>2. CASE D = {}
    BY <2>2 DEF IndexAfter, TypeOK
  <2> QED
    BY <2>1, <2>2
<1> QED
  BY <1>2, <1>3 DEF Told, IndexAfter

\* Starting pull tasks keeps them well typed.
LEMMA SpawnType ==
  ASSUME TypeOK, NEW ps \in SUBSET Profiles, Spawn(ps)
  PROVE  pulls' \in [Profiles -> [Slots -> Tasks]]
<1>1. NewTask \in Tasks
  BY BoundAssumption DEF NewTask, Tasks
<1> QED
  BY <1>1 DEF Spawn, Free, TypeOK

\* So does moving one of them.
LEMMA SetTaskType ==
  ASSUME TypeOK, NEW p \in Profiles, NEW i \in Slots, NEW task \in Tasks, SetTask(p, i, task)
  PROVE  pulls' \in [Profiles -> [Slots -> Tasks]]
BY DEF SetTask, TypeOK

\* Every variable has its type at the start, and keeps it.
LEMMA TypeInit == Init => TypeOK
<1>1. NoTask \in Tasks
  BY BoundAssumption DEF NoTask, Tasks
<1>2. Open \in Entries \cup {Open} /\ \A S : <<>> \in Seq(S)
  BY EmptySeq
<1>3. Init => store \in [Profiles -> Entries \cup {Open}]
  BY <1>2 DEF Init
<1>4. Init => pulls \in [Profiles -> [Slots -> Tasks]]
  BY <1>1 DEF Init
<1>5. Init => frames \in Seq(Frames)
  BY <1>2 DEF Init
<1>6. Init => index \in [Profiles -> Sessions \cup {NoSession}]
  BY <1>2 DEF Init
<1>7. Init => backend \in [Sessions -> BackendStates]
  BY <1>2 DEF Init, BackendStates
<1>8. Init => listing \in Seq(Reports)
  BY <1>2 DEF Init
<1>9. Init => disk \in [Profiles -> Entries \cup {Open}]
  BY <1>3 DEF Init
<1>10. Init => writing \in BOOLEAN /\ connected \in BOOLEAN /\ authoritative \in BOOLEAN
  BY DEF Init
<1> QED
  BY <1>3, <1>4, <1>5, <1>6, <1>7, <1>8, <1>9, <1>10 DEF Init, TypeOK

LEMMA TypeStep == TypeOK /\ [Next]_vars => TypeOK'
<1> SUFFICES ASSUME TypeOK, [Next]_vars PROVE TypeOK'
  OBVIOUS
<1>0. \A s \in Sessions, st \in BackendStates : Emit(s, st) => frames' \in Seq(Frames)
  <2> SUFFICES ASSUME NEW s \in Sessions, NEW st \in BackendStates, Emit(s, st)
               PROVE  frames' \in Seq(Frames)
    OBVIOUS
  <2>1. [full |-> FALSE, report |-> [t \in {s} |-> st]] \in Frames
    BY BackendReports DEF Frames
  <2> QED
    BY <2>1 DEF Emit, TypeOK
<1>1. ASSUME NEW s \in Sessions, StartElsewhere(s) \/ StartRemoteSession(s) PROVE TypeOK'
  BY <1>0, <1>1 DEF StartElsewhere, StartRemoteSession, BackendAccepts, TypeOK, BackendStates
<1>2. ASSUME NEW s \in Sessions, BecomesLive(s) \/ Closes(s) \/ EndRemoteSession(s)
      PROVE  TypeOK'
  BY <1>0, <1>2 DEF BecomesLive, Closes, EndRemoteSession, TypeOK, BackendStates
<1>3. ASSUME NEW s \in Sessions, LoseReply(s) PROVE TypeOK'
  BY <1>3 DEF LoseReply, TypeOK
<1>4. ASSUME NEW s \in Sessions, NoteSessionStarted(s) PROVE TypeOK'
  BY <1>4, SessionAssumption
  DEF NoteSessionStarted, Mutate, Running, SetBack, TypeOK, Entries
<1>5. ASSUME NEW s \in Sessions, NoteSessionStopped(s) PROVE TypeOK'
  <2>1. pulls' \in [Profiles -> [Slots -> Tasks]]
    BY <1>5, SpawnType DEF NoteSessionStopped, EndedBy
  <2> QED
    BY <1>5, <2>1, SessionAssumption
    DEF NoteSessionStopped, Mutate, PendingSync, TypeOK, Entries
<1>6. ASSUME NEW p \in Profiles, AskForListing(p) PROVE TypeOK'
  BY <1>6, BackendReports DEF AskForListing, TypeOK
<1>7. ASSUME NEW p \in Profiles, ProfileArrives(p) PROVE TypeOK'
  BY <1>7 DEF ProfileArrives, ClosedOf, TypeOK
<1>8. ASSUME NEW p \in Profiles, NEW i \in Slots, TaskStep(p, i) PROVE TypeOK'
  <2> USE DEF TypeOK
  <2>0. NoTask \in Tasks /\ pulls[p][i] \in Tasks
    BY BoundAssumption DEF NoTask, Tasks
  <2>1. CASE PullLooks(p, i)
    <3>1. [pc |-> "begin", attempt |-> pulls[p][i].attempt, covers |-> {}] \in Tasks
      BY <2>0 DEF Tasks
    <3> QED
      BY <2>0, <2>1, <3>1, SetTaskType DEF PullLooks
  <2>2. CASE PullBegins(p, i)
    <3>1. [pc |-> "transfer", attempt |-> pulls[p][i].attempt, covers |-> ClosedOf(p)]
            \in Tasks
      BY <2>0 DEF Tasks, ClosedOf
    <3> QED
      BY <2>2, <3>1, SetTaskType DEF PullBegins
  <2>3. CASE PullCompletes(p, i) \/ PullFindsNoCopy(p, i)
    <3>1. pulls[p][i].covers \subseteq Sessions
      BY <2>0 DEF Tasks
    <3>2. pulls' \in [Profiles -> [Slots -> Tasks]]
      <4>1. SetTask(p, i, NoTask)
        BY <2>3 DEF PullCompletes, PullFindsNoCopy
      <4> QED
        BY <2>0, <4>1, SetTaskType
    <3>3. store' \in [Profiles -> Entries \cup {Open}] /\ writing' \in BOOLEAN /\ disk' = disk
      BY <2>3 DEF PullCompletes, PullFindsNoCopy, Clear, Mutate
    <3>4. pulled' \subseteq Sessions /\ excused' \subseteq Profiles
      BY <2>3, <3>1 DEF PullCompletes, PullFindsNoCopy, Clear
    <3> QED
      BY <2>3, <3>2, <3>3, <3>4 DEF PullCompletes, PullFindsNoCopy
  <2>4. CASE PullFails(p, i)
    <3>1. pulls[p][i].attempt \in Nat
      BY <2>0 DEF Tasks
    <3>2. pulls[p][i].attempt + 1 < PullAttempts =>
            [pc |-> "check", attempt |-> pulls[p][i].attempt + 1, covers |-> {}] \in Tasks
      BY <3>1, BoundAssumption DEF Tasks
    <3>3. pulls' \in [Profiles -> [Slots -> Tasks]]
      <4>1. \E task \in Tasks : SetTask(p, i, task)
        BY <2>0, <2>4, <3>2 DEF PullFails
      <4> QED
        BY <4>1, SetTaskType
    <3>4. neglected' \subseteq Profiles
      BY <2>4 DEF PullFails
    <3> QED
      BY <2>4, <3>3, <3>4 DEF PullFails
  <2> QED
    BY <1>8, <2>1, <2>2, <2>3, <2>4 DEF TaskStep
<1>9. CASE DispatchFrame
  <2>1. Head(frames) \in Frames /\ Tail(frames) \in Seq(Frames)
    BY <1>9 DEF DispatchFrame, TypeOK
  <2>2. /\ Head(frames).report \in Reports /\ Head(frames).full \in BOOLEAN
    BY <2>1 DEF Frames
  <2>3. pulls' \in [Profiles -> [Slots -> Tasks]]
    BY <1>9, SpawnType DEF DispatchFrame, EndedBy
  <2>4. store' \in [Profiles -> Entries \cup {Open}]
        /\ index' \in [Profiles -> Sessions \cup {NoSession}]
    BY <1>9, <2>2, ToldType DEF DispatchFrame, Mutate
  <2>5. watched' \subseteq Sessions
    BY <1>9, <2>2, ReportDomain DEF DispatchFrame, Watch, TypeOK
  <2> QED
    BY <1>9, <2>1, <2>2, <2>3, <2>4, <2>5 DEF DispatchFrame, Mutate, SetBack, TypeOK
<1>10. CASE Connect
  <2>1. [full |-> TRUE, report |-> Listing] \in Frames
    BY BackendReports DEF Frames
  <2> QED
    BY <1>10, <2>1 DEF Connect, TypeOK
<1>11. CASE DropStream \/ LoseListing
  <2>1. \A S : <<>> \in Seq(S)
    BY EmptySeq
  <2>2. CASE DropStream
    <3>1. frames' \in Seq(Frames)
      BY <2>1, <2>2 DEF DropStream
    <3>2. drops' \in Nat
      BY <2>1, <2>2 DEF DropStream, TypeOK
    <3>3. connected' \in BOOLEAN /\ authoritative' \in BOOLEAN
      BY <2>1, <2>2 DEF DropStream, TypeOK
    <3>4. index' \in [Profiles -> Sessions \cup {NoSession}]
      BY <2>1, <2>2 DEF DropStream, TypeOK
    <3> QED
      BY <3>1, <3>2, <3>3, <3>4, <2>2 DEF DropStream, TypeOK
  <2>3. CASE LoseListing
    BY <2>1, <2>3 DEF LoseListing, TypeOK
  <2> QED
    BY <1>11, <2>2, <2>3
<1>12. CASE ListingArrives
  <2>1. Head(listing) \in Reports
    BY <1>12 DEF ListingArrives, TypeOK
  <2>2. store' \in [Profiles -> Entries \cup {Open}]
        /\ index' \in [Profiles -> Sessions \cup {NoSession}]
    BY <1>12, <2>1, ToldType DEF ListingArrives, Mutate
  <2>3. watched' \subseteq Sessions
    BY <1>12, <2>1, ReportDomain DEF ListingArrives, Watch, TypeOK
  <2> QED
    BY <1>12, <2>2, <2>3, EmptySeq DEF ListingArrives, Mutate, SetBack, EndedBy, TypeOK
<1>13. CASE ResumePendingPulls
  <2>1. pulls' \in [Profiles -> [Slots -> Tasks]]
    BY <1>13, SpawnType DEF ResumePendingPulls
  <2> QED
    BY <1>13, <2>1 DEF ResumePendingPulls, TypeOK
<1>14. CASE PersistEnds \/ PersistFails
  <2>1. disk' \in [Profiles -> Entries \cup {Open}]
    BY <1>14 DEF PersistEnds, PersistFails, AllOpen, TypeOK
  <2>2. CASE PersistEnds
    BY <2>1, <2>2 DEF PersistEnds, TypeOK
  <2>3. CASE PersistFails
    <3>0. failures \in Nat
      BY DEF TypeOK
    <3>1. failures' = failures + 1 /\ writing' = FALSE
      BY <2>3 DEF PersistFails
    <3>2. UNCHANGED <<backend, here, store, stream, indexVars, replies, tasks, drops,
                      listings, restarts, history>>
      BY <2>3 DEF PersistFails
    <3>3. failures' \in Nat
      BY <3>0, <3>1
    <3> QED
      BY <2>1, <3>1, <3>2, <3>3 DEF TypeOK
  <2> QED
    BY <1>14, <2>2, <2>3
<1>15. CASE Restart
  <2>1. NoTask \in Tasks
    BY BoundAssumption DEF NoTask, Tasks
  <2>2. pulls' \in [Profiles -> [Slots -> Tasks]]
    BY <1>15, <2>1 DEF Restart
  <2>3. store' \in [Profiles -> Entries \cup {Open}]
    BY <1>15 DEF Restart, AllOpen, TypeOK
  <2>4. frames' \in Seq(Frames) /\ listing' \in Seq(Reports)
    BY <1>15, EmptySeq DEF Restart
  <2>5. index' \in [Profiles -> Sessions \cup {NoSession}]
    BY <1>15 DEF Restart
  <2>6. disk' \in [Profiles -> Entries \cup {Open}] /\ restarts' \in Nat
    BY <1>15, <2>3 DEF Restart, TypeOK
  <2>7. excused' \subseteq Profiles /\ neglected' \subseteq Profiles
    BY <1>15 DEF Restart, TypeOK
  <2> QED
    BY <1>15, <2>2, <2>3, <2>4, <2>5, <2>6, <2>7 DEF Restart, TypeOK
<1>16. CASE UNCHANGED vars
  BY <1>16 DEF TypeOK
<1> QED
  BY <1>1, <1>2, <1>3, <1>4, <1>5, <1>6, <1>7, <1>8, <1>9, <1>10, <1>11, <1>12, <1>13,
     <1>14, <1>15, <1>16 DEF Next, BackendStep

\* The state of the hand-off is well typed (TypeOK).
THEOREM TypeCorrect == Spec => []TypeOK
BY TypeInit, TypeStep, PTL DEF Spec
--------------------------------------------------------------------------------
(***************************************************************************)
(* The gate.  Sessions of a profile follow one another, so a pull that     *)
(* covers the session an entry names covers all before it; and the entry   *)
(* of a profile names the newest session whose work is owed.               *)
(***************************************************************************)
SameProfile(s, t) == ProfileOf[s] = ProfileOf[t]

\* A session starts when the one before it closed.
OneAfterTheOther ==
  \A s, t \in Sessions :
    t < s /\ SameProfile(s, t) /\ backend[s] # "unborn" => backend[t] = "closed"

\* A report was true when it was made: it shows one unfinished session at most.
OneUnfinished(report) ==
  \A s, t \in DOMAIN report :
    SameProfile(s, t) /\ report[s] # "closed" /\ report[t] # "closed" => s = t

ReportsSound ==
  /\ \A k \in 1 .. Len(frames) : OneUnfinished(frames[k].report)
  /\ \A k \in 1 .. Len(listing) : OneUnfinished(listing[k])

\* What a pull covers is closed, and with a session all those before it.
Covered(p, covers) ==
  /\ \A s \in covers : ProfileOf[s] = p /\ backend[s] = "closed"
  /\ \A s \in covers, t \in Sessions : t < s /\ SameProfile(s, t) => t \in covers

CoversSound == \A p \in Profiles, i \in Slots : Covered(p, pulls[p][i].covers)

\* Work that is owed is named by the entry, or by an entry after it.
Owed(p, s) ==
  \/ store[p] # Open /\ s <= store[p].session
  \/ p \notin here /\ backend[s] = "closed"

OwedIsGated == \A p \in Profiles \ excused : \A s \in Unpulled(p) : Owed(p, s)

GateInv == TypeOK /\ OneAfterTheOther /\ ReportsSound /\ CoversSound /\ OwedIsGated

LEMMA GateInvInit == Init => GateInv
<1> SUFFICES ASSUME Init PROVE GateInv
  OBVIOUS
<1>1. TypeOK
  BY TypeInit
<1>2. OneAfterTheOther
  BY DEF Init, OneAfterTheOther
<1>3. ReportsSound
  BY EmptySeq DEF Init, ReportsSound
<1>4. CoversSound
  BY DEF Init, CoversSound, Covered, NoTask
<1>5. OwedIsGated
  BY DEF Init, OwedIsGated, Unpulled
<1> QED
  BY <1>1, <1>2, <1>3, <1>4, <1>5 DEF GateInv

\* Nothing but the backend's own steps moves a session.
BackendMoves ==
  \E s \in Sessions :
    \/ StartElsewhere(s) \/ StartRemoteSession(s)
    \/ BecomesLive(s) \/ Closes(s) \/ EndRemoteSession(s)

\* The order of the sessions is the backend's.
LEMMA OrderKept ==
  ASSUME TypeOK, OneAfterTheOther, [Next]_vars
  PROVE  /\ OneAfterTheOther'
         /\ \A s \in Sessions : backend[s] = "closed" => backend'[s] = "closed"
<1>1. CASE UNCHANGED backend
  BY <1>1 DEF OneAfterTheOther
<1>2. ASSUME NEW s \in Sessions, BackendAccepts(s)
      PROVE  /\ OneAfterTheOther'
             /\ \A t \in Sessions : backend[t] = "closed" => backend'[t] = "closed"
  <2>1. \A t \in Sessions : t < s /\ SameProfile(s, t) => backend[t] = "closed"
    BY <1>2, SessionAssumption DEF BackendAccepts, Sessions, SameProfile
  <2>2. \A t \in Sessions : s < t /\ SameProfile(s, t) => backend[t] = "unborn"
    BY <1>2 DEF BackendAccepts, OneAfterTheOther, SameProfile
  <2>3. \A t \in Sessions : backend'[t] = IF t = s THEN "starting" ELSE backend[t]
    BY <1>2 DEF BackendAccepts, TypeOK
  <2>4. \A t, u \in Sessions : t < u => t # u
    BY SessionAssumption DEF Sessions
  <2>5. backend[s] = "unborn"
    BY <1>2 DEF BackendAccepts
  <2> QED
    BY <2>1, <2>2, <2>3, <2>4, <2>5 DEF OneAfterTheOther, SameProfile
<1>3. ASSUME NEW s \in Sessions, backend[s] \in {"starting", "live"}, NEW st \in {"live", "closed"},
             backend' = [backend EXCEPT ![s] = st], st = "live" => backend[s] = "starting"
      PROVE  /\ OneAfterTheOther'
             /\ \A t \in Sessions : backend[t] = "closed" => backend'[t] = "closed"
  BY <1>3 DEF OneAfterTheOther, TypeOK, SameProfile
<1>4. BackendMoves \/ UNCHANGED backend
  BY DEF BackendMoves, Next, BackendStep, TaskStep, LoseReply, NoteSessionStarted, NoteSessionStopped,
         AskForListing, ProfileArrives, PullLooks, PullBegins, PullCompletes, PullFails,
         PullFindsNoCopy, DispatchFrame, Connect, DropStream, ListingArrives, LoseListing,
         ResumePendingPulls, PersistEnds, PersistFails, Restart
<1> QED
  BY <1>1, <1>2, <1>3, <1>4
  DEF BackendMoves, StartElsewhere, StartRemoteSession, BecomesLive, Closes, EndRemoteSession

LEMMA ReportsKept ==
  ASSUME TypeOK, OneAfterTheOther, ReportsSound, [Next]_vars
  PROVE  ReportsSound'
<1> USE DEF ReportsSound
<1>0. OneUnfinished(Listing)
  <2>1. \A s, t \in Sessions :
          SameProfile(s, t) /\ backend[s] \notin {"unborn", "closed"}
            /\ backend[t] \notin {"unborn", "closed"} => ~(t < s)
    BY DEF OneAfterTheOther
  <2>2. \A s, t \in Sessions : s = t \/ s < t \/ t < s
    BY SessionAssumption DEF Sessions
  <2>3. DOMAIN Listing \subseteq Sessions
        /\ \A s \in DOMAIN Listing : Listing[s] = backend[s] /\ backend[s] # "unborn"
    BY DEF Listing
  <2> QED
    BY <2>1, <2>2, <2>3 DEF OneUnfinished, SameProfile
<1>1. ASSUME NEW s, NEW st, Emit(s, st), listing' = listing PROVE ReportsSound'
  <2>1. CASE ~connected
    BY <1>1, <2>1 DEF Emit
  <2>2. CASE connected
    <3> DEFINE f == [full |-> FALSE, report |-> [t \in {s} |-> st]]
    <3>1. OneUnfinished(f.report)
      BY DEF OneUnfinished
    <3>2. frames' = Append(frames, f)
      BY <1>1, <2>2 DEF Emit
    <3> HIDE DEF f
    <3>3. frames \in Seq(Frames)
      BY DEF TypeOK
    <3>4. Len(frames') = Len(frames) + 1 /\ Len(frames) \in Nat
          /\ \A k \in 1 .. Len(frames) + 1 :
               frames'[k] = IF k <= Len(frames) THEN frames[k] ELSE f
      BY <3>2, <3>3
    <3>5. ASSUME NEW k \in 1 .. Len(frames') PROVE OneUnfinished(frames'[k].report)
      BY <3>1, <3>4
    <3>6. \A k \in 1 .. Len(listing') : OneUnfinished(listing'[k])
      BY <1>1
    <3>7. \A R : OneUnfinished(R) <=> OneUnfinished(R)'
      BY DEF OneUnfinished, SameProfile
    <3> QED
      BY <3>5, <3>6, <3>7
  <2> QED
    BY <2>1, <2>2
<1>2. ASSUME NEW p \in Profiles, AskForListing(p) PROVE ReportsSound'
  BY <1>0, <1>2 DEF AskForListing
<1>3. CASE Connect
  BY <1>0, <1>3 DEF Connect
<1>4. CASE DispatchFrame
  <2>1. frames \in Seq(Frames) /\ frames # <<>> /\ frames' = Tail(frames) /\ listing' = listing
    BY <1>4 DEF TypeOK, DispatchFrame
  <2>2. \A k \in 1 .. Len(frames') : k + 1 \in 1 .. Len(frames) /\ frames'[k] = frames[k + 1]
    BY <2>1
  <2> QED
    BY <2>1, <2>2 DEF OneUnfinished, SameProfile
<1>5. CASE (frames' = frames \/ frames' = <<>>) /\ (listing' = listing \/ listing' = <<>>)
  BY <1>5, EmptySeq
<1>6. CASE BackendMoves
  BY <1>1, <1>6 DEF BackendMoves, StartElsewhere, StartRemoteSession, BackendAccepts, BecomesLive,
                    Closes, EndRemoteSession
<1>7. ASSUME NEW s \in Sessions, LoseReply(s) \/ NoteSessionStarted(s) \/ NoteSessionStopped(s)
      PROVE  frames' = frames /\ listing' = listing
  BY <1>7 DEF LoseReply, NoteSessionStarted, NoteSessionStopped
<1>8. ASSUME NEW p \in Profiles, NEW i \in Slots, TaskStep(p, i)
      PROVE  frames' = frames /\ listing' = listing
  BY <1>8 DEF TaskStep, PullLooks, PullBegins, PullCompletes, PullFails, PullFindsNoCopy
<1>9. CASE DropStream \/ ListingArrives \/ LoseListing \/ Restart
  BY <1>5, <1>9 DEF DropStream, ListingArrives, LoseListing, Restart
<1>10. CASE ResumePendingPulls \/ PersistEnds \/ PersistFails \/ UNCHANGED vars
  BY <1>5, <1>10 DEF ResumePendingPulls, PersistEnds, PersistFails
<1>11. ASSUME NEW p \in Profiles, ProfileArrives(p) PROVE frames' = frames /\ listing' = listing
  BY <1>11 DEF ProfileArrives
<1> QED
  BY <1>2, <1>3, <1>4, <1>5, <1>6, <1>7, <1>8, <1>9, <1>10, <1>11 DEF Next, BackendMoves, BackendStep

LEMMA CoversKept ==
  ASSUME TypeOK, OneAfterTheOther, CoversSound, [Next]_vars
  PROVE  CoversSound'
<1> USE DEF CoversSound
<1>1. \A p \in Profiles, i \in Slots : pulls[p][i].covers \subseteq Sessions
  BY DEF TypeOK, Tasks
<1>2. \A p \in Profiles : Covered(p, {}) /\ Covered(p, ClosedOf(p))
  BY SessionAssumption DEF Covered, ClosedOf, OneAfterTheOther, SameProfile
<1>3. \A p \in Profiles, c \in SUBSET Sessions : Covered(p, c) => Covered(p, c)'
  BY OrderKept DEF Covered, SameProfile
<1>4. ASSUME NEW p \in Profiles, NEW i \in Slots, NEW task, SetTask(p, i, task),
             task.covers \in SUBSET Sessions, Covered(p, task.covers)
      PROVE  CoversSound'
  <2>1. ASSUME NEW q \in Profiles, NEW j \in Slots
        PROVE  pulls'[q][j] = IF q = p /\ j = i THEN task ELSE pulls[q][j]
    BY <1>4 DEF SetTask, TypeOK
  <2>2. ASSUME NEW q \in Profiles, NEW j \in Slots PROVE Covered(q, pulls[q][j].covers)'
    <3>1. CASE q = p /\ j = i
      BY <1>3, <1>4, <2>1, <3>1
    <3>2. CASE ~(q = p /\ j = i)
      BY <1>1, <1>3, <2>1, <3>2
    <3> QED
      BY <3>1, <3>2
  <2> QED
    BY <2>2
<1>5. ASSUME NEW ps, Spawn(ps) PROVE CoversSound'
  <2>1. NewTask.covers = {}
    BY DEF NewTask
  <2>2. ASSUME NEW p \in Profiles, NEW i \in Slots
        PROVE  pulls'[p][i] \in {NewTask, pulls[p][i]}
    BY <1>5 DEF Spawn, TypeOK
  <2> QED
    BY <1>1, <1>2, <1>3, <2>1, <2>2
<1>6. ASSUME NEW p \in Profiles, NEW i \in Slots, TaskStep(p, i) PROVE CoversSound'
  <2>1. ASSUME NEW pc, NEW a, NEW c \in {{}, ClosedOf(p)},
               SetTask(p, i, [pc |-> pc, attempt |-> a, covers |-> c])
        PROVE  CoversSound'
    BY <1>2, <1>4, <2>1 DEF ClosedOf
  <2>2. \E pc, a : \E c \in {{}, ClosedOf(p)} :
          SetTask(p, i, [pc |-> pc, attempt |-> a, covers |-> c])
    BY <1>6 DEF TaskStep, PullLooks, PullBegins, PullCompletes, PullFails, PullFindsNoCopy, NoTask
  <2> QED
    BY <2>1, <2>2
<1>7. CASE Restart
  BY <1>2, <1>3, <1>7 DEF Restart, NoTask
<1>8. CASE UNCHANGED pulls
  BY <1>1, <1>3, <1>8
<1>9. \/ \E ps : Spawn(ps)
      \/ \E p \in Profiles, i \in Slots : TaskStep(p, i)
      \/ Restart \/ UNCHANGED pulls
  BY DEF Next, BackendStep, StartElsewhere, StartRemoteSession, BecomesLive, Closes, EndRemoteSession,
         LoseReply, NoteSessionStarted, NoteSessionStopped, AskForListing, ProfileArrives,
         DispatchFrame, Connect, DropStream, ListingArrives, LoseListing, ResumePendingPulls,
         PersistEnds, PersistFails
<1> QED
  BY <1>5, <1>6, <1>7, <1>8, <1>9

\* News keeps what is owed gated: the entry it writes names the one session it
\* shows unfinished, and an older one only where that excuses the profile.
LEMMA NewsGates ==
  ASSUME TypeOK, OwedIsGated, NEW R \in Reports, OneUnfinished(R), NEW full \in BOOLEAN,
         Mutate(Told(R, full)), Watch(R), excused' = excused \cup SetBack(Told(R, full)),
         UNCHANGED <<backend, here, pulled>>
  PROVE  OwedIsGated'
<1> SUFFICES ASSUME NEW p \in Profiles \ excused', NEW s \in Unpulled(p)'
             PROVE  Owed(p, s)'
  BY DEF OwedIsGated
<1>1. p \notin excused /\ p \notin SetBack(Told(R, full)) /\ store' = Told(R, full)
  BY DEF Mutate
<1>2. s \in Sessions /\ ProfileOf[s] = p /\ s \notin pulled
  BY ReportDomain DEF Unpulled, Watch, TypeOK
<1>3. CASE Unfinished(R, p) # {}
  <2> DEFINE new == CHOOSE u \in Unfinished(R, p) : TRUE
  <2>1. new \in Unfinished(R, p) /\ Told(R, full)[p] = Running(new)
    BY <1>3 DEF Told
  <2>2. new \in Sessions /\ \A u \in Unfinished(R, p) : u = new
    BY <2>1, ReportDomain DEF Unfinished, OneUnfinished, SameProfile
  <2> HIDE DEF new
  <2>3. store'[p] # Open /\ store'[p].session = new
    BY <1>1, <2>1 DEF Running, Open
  <2>4. CASE s \in watched
    <3>1. Owed(p, s)
      BY <1>1, <1>2, <2>4 DEF OwedIsGated, Unpulled
    <3>2. CASE store[p] # Open /\ s <= store[p].session
      <4>1. store[p].session \in Sessions
        BY <3>2 DEF TypeOK, Entries
      <4>2. ~(new < store[p].session)
        BY <1>1, <2>3, <3>2 DEF SetBack
      <4> QED
        BY <1>2, <2>2, <2>3, <3>2, <4>1, <4>2, SessionAssumption DEF Owed, Sessions
    <3>3. CASE p \notin here /\ backend[s] = "closed"
      BY <3>3 DEF Owed
    <3> QED
      BY <3>1, <3>2, <3>3 DEF Owed
  <2>5. CASE s \notin watched
    <3>1. s \in Unfinished(R, p)
      BY <1>2, <2>5 DEF Watch, Unpulled, Unfinished
    <3> QED
      BY <1>2, <2>2, <2>3, <3>1, SessionAssumption DEF Owed, Sessions
  <2> QED
    BY <2>4, <2>5
<1>4. CASE Unfinished(R, p) = {}
  <2>1. s \in watched
    BY <1>2, <1>4 DEF Watch, Unpulled, Unfinished
  <2>2. Owed(p, s)
    BY <1>1, <1>2, <2>1 DEF OwedIsGated, Unpulled
  <2>3. store[p] # Open => store'[p] # Open /\ store'[p].session = store[p].session
    BY <1>1, <1>4 DEF Told, PendingSync, Open
  <2> QED
    BY <2>2, <2>3 DEF Owed
<1> QED
  BY <1>3, <1>4

\* A pull that clears the gate covers all that the gate named, unless the
\* profile is excused.
LEMMA ClearGates ==
  ASSUME TypeOK, CoversSound, OwedIsGated, NEW p \in Profiles, NEW i \in Slots,
         Clear(p, pulls[p][i].covers), UNCHANGED <<backend, here, watched>>,
         \/ p \in here /\ pulled' = pulled \cup pulls[p][i].covers
         \/ p \notin here /\ pulled' = pulled
  PROVE  OwedIsGated'
<1> DEFINE covers == pulls[p][i].covers
<1>1. Covered(p, covers)
  BY DEF CoversSound
<1>2. store' = [store EXCEPT ![p] = Open] /\ excused \subseteq excused'
  BY DEF Clear, Mutate
<1> SUFFICES ASSUME NEW q \in Profiles \ excused', NEW s \in Unpulled(q)'
             PROVE  Owed(q, s)'
  BY DEF OwedIsGated
<1>3. q \notin excused /\ s \in Unpulled(q) /\ s \in Sessions /\ ProfileOf[s] = q
  BY <1>2 DEF Unpulled, TypeOK
<1>4. Owed(q, s)
  BY <1>3 DEF OwedIsGated
<1>5. CASE q # p
  BY <1>2, <1>4, <1>5 DEF Owed, TypeOK
<1>6. CASE q = p
  <2>1. CASE store[p] # Open /\ s <= store[p].session
    <3>1. store[p].session \in covers
      BY <1>6, <2>1 DEF Clear
    <3>2. store[p].session \in Sessions
      BY <2>1 DEF TypeOK, Entries
    <3>3. s \in covers
      <4>1. CASE s = store[p].session
        BY <3>1, <4>1
      <4>2. CASE s < store[p].session
        BY <1>1, <1>3, <1>6, <3>1, <4>2 DEF Covered, SameProfile
      <4> QED
        BY <1>3, <2>1, <3>2, <4>1, <4>2, SessionAssumption DEF Sessions
    <3>4. backend[s] = "closed"
      BY <1>1, <3>3 DEF Covered
    <3>5. p \notin here
      BY <3>3 DEF Unpulled
    <3> QED
      BY <1>6, <3>4, <3>5 DEF Owed
  <2>2. CASE p \notin here /\ backend[s] = "closed"
    BY <1>6, <2>2 DEF Owed
  <2> QED
    BY <1>4, <1>6, <2>1, <2>2 DEF Owed
<1> QED
  BY <1>5, <1>6

\* An entry keeps its session, a start that is noted is not the backend's past,
\* and what the file lost excuses the profile.
LEMMA OwedKept ==
  ASSUME GateInv, [Next]_vars
  PROVE  OwedIsGated'
<1> USE DEF GateInv
<1>0. \A s \in Sessions : backend[s] = "closed" => backend'[s] = "closed"
  BY OrderKept
<1>1. CASE UNCHANGED <<here, gate, history>>
  BY <1>0, <1>1 DEF OwedIsGated, Unpulled, Owed, TypeOK
<1>2. ASSUME NEW s \in Sessions, NoteSessionStarted(s) PROVE OwedIsGated'
  <2> DEFINE q == ProfileOf[s]
  <2>0. q \in Profiles
    BY SessionAssumption
  <2>1. /\ store' = [store EXCEPT ![q] = Running(s)]
        /\ excused' = excused \cup SetBack(store') /\ watched' = watched \cup {s}
        /\ UNCHANGED <<backend, here, pulled>>
    BY <1>2 DEF NoteSessionStarted, Mutate
  <2> SUFFICES ASSUME NEW p \in Profiles \ excused', NEW t \in Unpulled(p)'
               PROVE  Owed(p, t)'
    BY DEF OwedIsGated
  <2>2. p \notin excused /\ t \in Sessions /\ ProfileOf[t] = p /\ t \notin pulled
    BY <2>1 DEF Unpulled, TypeOK
  <2>3. CASE t = s
    <3>1. store'[p] = Running(s)
      BY <2>0, <2>1, <2>2, <2>3 DEF TypeOK
    <3> QED
      BY <2>2, <2>3, <3>1, SessionAssumption DEF Owed, Running, Open, Sessions
  <2>4. CASE t # s
    <3>1. Owed(p, t)
      BY <2>1, <2>2, <2>4 DEF OwedIsGated, Unpulled
    <3>2. CASE p # q
      BY <2>1, <3>1, <3>2 DEF Owed, TypeOK
    <3>3. CASE p = q
      <4>1. store'[p] = Running(s)
        BY <2>0, <2>1, <3>3 DEF TypeOK
      <4>2. store'[p] # Open /\ store'[p].session = s
        BY <4>1 DEF Running, Open
      <4>3. CASE store[p] # Open /\ t <= store[p].session
        <5>1. store[p].session \in Sessions /\ ~(s < store[p].session)
          BY <2>1, <4>2, <4>3 DEF SetBack, TypeOK, Entries
        <5> QED
          BY <2>2, <4>2, <4>3, <5>1, SessionAssumption DEF Owed, Sessions
      <4>4. CASE p \notin here /\ backend[t] = "closed"
        BY <2>1, <4>4 DEF Owed
      <4> QED
        BY <3>1, <4>3, <4>4 DEF Owed
    <3> QED
      BY <3>2, <3>3
  <2> QED
    BY <2>3, <2>4
<1>3. ASSUME NEW s \in Sessions, NoteSessionStopped(s) PROVE OwedIsGated'
  <2>1. \A p \in Profiles :
          store[p] # Open => store'[p] # Open /\ store'[p].session = store[p].session
    BY <1>3 DEF NoteSessionStopped, Mutate, Running, PendingSync, Open, TypeOK
  <2> QED
    BY <1>3, <2>1 DEF NoteSessionStopped, OwedIsGated, Unpulled, Owed
<1>4. ASSUME NEW p \in Profiles, ProfileArrives(p) PROVE OwedIsGated'
  <2>1. /\ here' = here \cup {p} /\ pulled' = pulled \cup ClosedOf(p)
        /\ UNCHANGED <<backend, store, watched, excused>>
    BY <1>4 DEF ProfileArrives
  <2> SUFFICES ASSUME NEW q \in Profiles \ excused', NEW s \in Unpulled(q)'
               PROVE  Owed(q, s)'
    BY DEF OwedIsGated
  <2>2. q \notin excused /\ s \in Unpulled(q) /\ s \in Sessions /\ s \notin ClosedOf(p)
    BY <2>1 DEF Unpulled, TypeOK
  <2> QED
    BY <2>1, <2>2 DEF OwedIsGated, Owed, Unpulled, ClosedOf
<1>5. ASSUME NEW p \in Profiles, NEW i \in Slots, PullCompletes(p, i) \/ PullFindsNoCopy(p, i)
      PROVE  OwedIsGated'
  BY <1>5, ClearGates DEF PullCompletes, PullFindsNoCopy
<1>6. CASE DispatchFrame
  <2>1. frames \in Seq(Frames) /\ frames # <<>> /\ 1 \in 1 .. Len(frames) /\ Head(frames) = frames[1]
    BY <1>6 DEF DispatchFrame, TypeOK
  <2>2. Head(frames) \in Frames /\ OneUnfinished(Head(frames).report)
    BY <2>1 DEF ReportsSound
  <2>3. Head(frames).report \in Reports /\ Head(frames).full \in BOOLEAN
    BY <2>2 DEF Frames
  <2> QED
    BY <1>6, <2>2, <2>3, NewsGates DEF DispatchFrame
<1>7. CASE ListingArrives
  <2>1. listing \in Seq(Reports) /\ listing # <<>> /\ 1 \in 1 .. Len(listing)
        /\ Head(listing) = listing[1]
    BY <1>7 DEF ListingArrives, TypeOK
  <2>2. Head(listing) \in Reports /\ OneUnfinished(Head(listing))
    BY <2>1 DEF ReportsSound
  <2> QED
    BY <1>7, <2>2, NewsGates DEF ListingArrives
<1>8. CASE Restart
  <2>1. /\ excused' = excused \cup {p \in Profiles : store[p] # Open /\ store'[p] # store[p]}
        /\ UNCHANGED <<backend, here, watched, pulled>>
    BY <1>8 DEF Restart
  <2> QED
    BY <2>1 DEF OwedIsGated, Unpulled, Owed
<1>9. CASE PersistEnds \/ PersistFails
  BY <1>9 DEF PersistEnds, PersistFails, OwedIsGated, Unpulled, Owed
<1>10. ASSUME NEW p \in Profiles, NEW i \in Slots, PullLooks(p, i) \/ PullBegins(p, i) \/ PullFails(p, i)
       PROVE  OwedIsGated'
  BY <1>10 DEF PullLooks, PullBegins, PullFails, OwedIsGated, Unpulled, Owed
<1>11. CASE ResumePendingPulls
  BY <1>11 DEF ResumePendingPulls, OwedIsGated, Unpulled, Owed
<1>12. CASE BackendMoves
  BY <1>1, <1>12 DEF BackendMoves, StartElsewhere, StartRemoteSession, BecomesLive, Closes, EndRemoteSession
<1>13. CASE Connect \/ DropStream \/ LoseListing \/ UNCHANGED vars
  BY <1>1, <1>13 DEF Connect, DropStream, LoseListing
<1>14. ASSUME NEW s \in Sessions, LoseReply(s) PROVE OwedIsGated'
  BY <1>1, <1>14 DEF LoseReply
<1>15. ASSUME NEW p \in Profiles, AskForListing(p) PROVE OwedIsGated'
  BY <1>1, <1>15 DEF AskForListing
<1> QED
  BY <1>2, <1>3, <1>4, <1>5, <1>6, <1>7, <1>8, <1>9, <1>10, <1>11, <1>12, <1>13, <1>14, <1>15
  DEF Next, BackendMoves, BackendStep, TaskStep

\* Only the three ways that excused names lift a profile's gate before the work of
\* every session noted here is in the local copy (OpenOnlyWhenPulled).
THEOREM GateLiftsOnlyOverPulledWork == Spec => []OpenOnlyWhenPulled
<1>1. Init => GateInv
  BY GateInvInit
<1>2. GateInv /\ [Next]_vars => GateInv'
  BY TypeStep, OrderKept, ReportsKept, CoversKept, OwedKept DEF GateInv
<1>3. GateInv => OpenOnlyWhenPulled
  BY DEF GateInv, OwedIsGated, Owed, OpenOnlyWhenPulled, Launchable
<1> QED
  BY <1>1, <1>2, <1>3, PTL DEF Spec
--------------------------------------------------------------------------------
\* A profile has a pull task if one of its slots is taken.
LEMMA TaskTaken ==
  ASSUME TypeOK, NEW p \in Profiles
  PROVE  Free(p) # Slots <=> \E i \in Slots : pulls[p][i].pc # "none"
BY DEF Free

\* A task that starts is one.
LEMMA SpawnTakes ==
  ASSUME TypeOK, NEW ps \in SUBSET Profiles, Spawn(ps), NEW p \in Profiles,
         p \in ps \/ Free(p) # Slots
  PROVE  Free(p)' # Slots
<1>1. CASE p \in ps
  <2> DEFINE i == CHOOSE j \in Slots : j \in Free(p)
  <2>1. i \in Slots
    BY <1>1 DEF Spawn, Free
  <2>2. pulls'[p] = [pulls[p] EXCEPT ![i] = NewTask]
    BY <1>1 DEF Spawn
  <2> HIDE DEF i
  <2>3. pulls'[p][i].pc = "check"
    BY <2>1, <2>2 DEF NewTask, TypeOK
  <2> QED
    BY <2>1, <2>3 DEF Free
<1>2. CASE p \notin ps
  BY <1>2 DEF Spawn, Free
<1> QED
  BY <1>1, <1>2

\* A profile that owes a pull has a pull task or one coming, unless its attempts
\* gave up or a listing moved it (PendingIsAttended).
THEOREM PendingWorkIsAttended == Spec => []PendingIsAttended
<1>1. Init => PendingIsAttended
  BY DEF Init, PendingIsAttended, Open
<1>2. TypeOK /\ PendingIsAttended /\ [Next]_vars => PendingIsAttended'
  <2> SUFFICES ASSUME TypeOK, PendingIsAttended, [Next]_vars PROVE PendingIsAttended'
    OBVIOUS
  <2> USE DEF PendingIsAttended
  <2>1. CASE UNCHANGED <<store, tasks, neglected>>
    BY <2>1 DEF Free
  <2>2. CASE BackendMoves \/ Connect \/ DropStream \/ LoseListing \/ PersistEnds \/ PersistFails
             \/ UNCHANGED vars
    BY <2>1, <2>2 DEF BackendMoves, StartElsewhere, StartRemoteSession, BecomesLive, Closes,
       EndRemoteSession, Connect, DropStream, LoseListing, PersistEnds, PersistFails
  <2>3. ASSUME NEW s \in Sessions, LoseReply(s) PROVE PendingIsAttended'
    BY <2>1, <2>3 DEF LoseReply
  <2>4. ASSUME NEW p \in Profiles, AskForListing(p) \/ ProfileArrives(p) PROVE PendingIsAttended'
    BY <2>1, <2>4 DEF AskForListing, ProfileArrives
  <2>5. ASSUME NEW s \in Sessions, NoteSessionStarted(s) PROVE PendingIsAttended'
    <3>1. store' = [store EXCEPT ![ProfileOf[s]] = Running(s)] /\ UNCHANGED <<tasks, neglected>>
      BY <2>5 DEF NoteSessionStarted, Mutate
    <3> QED
      BY <3>1 DEF Running, Free, TypeOK
  <2>6. ASSUME NEW ps \in SUBSET Profiles, Spawn(ps), neglected' = neglected \ ps,
               \A p \in Profiles \ ps : store'[p].state = "pending" => store[p].state = "pending",
               resumeDue' = resumeDue
                 \/ \A p \in Profiles : store'[p].state = "pending" => p \in ps
        PROVE  PendingIsAttended'
    BY <2>6, SpawnTakes
  <2>7. ASSUME NEW s \in Sessions, NoteSessionStopped(s) PROVE PendingIsAttended'
    <3>1. /\ Spawn(EndedBy(store')) /\ neglected' = neglected \ EndedBy(store')
          /\ resumeDue' = resumeDue
          /\ \A p \in Profiles : store'[p].state = "pending" =>
               store[p].state = "pending" \/ store[p].state = "running"
      BY <2>7 DEF NoteSessionStopped, Mutate, Running, PendingSync, TypeOK
    <3> QED
      BY <2>6, <3>1 DEF EndedBy
  <2>8. CASE DispatchFrame
    <3>1. /\ Spawn(EndedBy(store')) /\ neglected' = neglected \ EndedBy(store')
          /\ resumeDue' = resumeDue
      BY <2>8 DEF DispatchFrame, Mutate
    <3>2. \A p \in Profiles : store'[p].state = "pending" =>
             store[p].state = "pending" \/ store[p].state = "running"
      BY <2>8 DEF DispatchFrame, Mutate, Told, Running, PendingSync
    <3> QED
      BY <2>6, <3>1, <3>2 DEF EndedBy
  <2>9. CASE ListingArrives
    <3>1. neglected' = neglected \cup EndedBy(store') /\ UNCHANGED tasks
      BY <2>9 DEF ListingArrives, Mutate
    <3>2. \A p \in Profiles : store'[p].state = "pending" =>
             store[p].state = "pending" \/ store[p].state = "running"
      BY <2>9 DEF ListingArrives, Mutate, Told, Running, PendingSync
    <3> QED
      BY <3>1, <3>2 DEF EndedBy, Free
  <2>10. CASE ResumePendingPulls
    <3> DEFINE owed == {p \in Profiles : store[p].state = "pending"}
    <3>1. Spawn(owed) /\ neglected' = neglected \ owed /\ store' = store
      BY <2>10 DEF ResumePendingPulls
    <3> QED
      BY <2>6, <3>1
  <2>11. CASE Restart
    BY <2>11 DEF Restart
  <2>12. ASSUME NEW p \in Profiles, NEW i \in Slots, TaskStep(p, i) PROVE PendingIsAttended'
    <3>1. ASSUME NEW q \in Profiles, q # p PROVE pulls'[q] = pulls[q] /\ store'[q] = store[q]
      BY <2>12, <3>1 DEF TaskStep, PullLooks, PullBegins, PullCompletes, PullFails, PullFindsNoCopy,
                         SetTask, Clear, Mutate, TypeOK
    <3>2. neglected \subseteq neglected' /\ resumeDue' = resumeDue
      BY <2>12 DEF TaskStep, PullLooks, PullBegins, PullCompletes, PullFails, PullFindsNoCopy
    <3>3. ASSUME p \notin neglected', store'[p].state = "pending" PROVE Free(p)' # Slots
      <4>1. ASSUME NEW task, task.pc # "none", SetTask(p, i, task) PROVE Free(p)' # Slots
        BY <4>1 DEF SetTask, Free, TypeOK
      <4>2. CASE PullLooks(p, i)
        BY <3>3, <4>1, <4>2 DEF PullLooks
      <4>3. CASE PullBegins(p, i)
        BY <4>1, <4>3 DEF PullBegins
      <4>4. CASE PullCompletes(p, i) \/ PullFindsNoCopy(p, i)
        BY <3>3, <4>4 DEF PullCompletes, PullFindsNoCopy, Clear, Mutate, Open, TypeOK
      <4>5. CASE PullFails(p, i)
        BY <3>3, <4>1, <4>5 DEF PullFails
      <4> QED
        BY <2>12, <4>2, <4>3, <4>4, <4>5 DEF TaskStep
    <3> QED
      BY <3>1, <3>2, <3>3 DEF Free
  <2> QED
    BY <2>2, <2>3, <2>4, <2>5, <2>7, <2>8, <2>9, <2>10, <2>11, <2>12
    DEF Next, BackendMoves, BackendStep
<1> QED
  BY <1>1, <1>2, TypeCorrect, PTL DEF Spec
--------------------------------------------------------------------------------
(***************************************************************************)
(* The index.  What the frames on the wire say last of a session is how it *)
(* is; of a session they do not mention an authoritative index tells, and  *)
(* before the snapshot of the connection there is none they do not.        *)
(***************************************************************************)
Mentioned(s, k) == s \in DOMAIN frames[k].report
Silent(s) == \A k \in 1 .. Len(frames) : ~Mentioned(s, k)
MentionedAfter(s, k) == \E m \in 1 .. Len(frames) : k < m /\ Mentioned(s, m)

\* Frames come with a connection only; its snapshot is first.
WireSound ==
  /\ authoritative => connected
  /\ ~connected => frames = <<>>
  /\ connected /\ ~authoritative => frames # <<>> /\ frames[1].full
  /\ \A k \in 1 .. Len(frames) : frames[k].full => k = 1 /\ ~authoritative
  /\ listings = 0 => listing = <<>>

LastWordIsTrue ==
  \A k \in 1 .. Len(frames), s \in Sessions :
    Mentioned(s, k) /\ ~MentionedAfter(s, k) => frames[k].report[s] = backend[s]

\* A later session of the profile is mentioned after a frame that shows this one open.
LaterIsMentioned ==
  \A k \in 1 .. Len(frames), s, t \in Sessions :
    /\ Mentioned(t, k) /\ frames[k].report[t] # "closed"
    /\ SameProfile(s, t) /\ s # t
    => backend[s] \in {"unborn", "closed"} \/ MentionedAfter(s, k)

InIndex(s) == index[ProfileOf[s]] = s <=> backend[s] = "live"

SilentIsKnown ==
  \A s \in Sessions : connected /\ Silent(s) =>
    IF authoritative THEN listings = 0 => InIndex(s) ELSE backend[s] = "unborn"

IndexInv ==
  /\ TypeOK /\ OneAfterTheOther /\ ReportsSound
  /\ WireSound /\ LastWordIsTrue /\ LaterIsMentioned /\ SilentIsKnown

\* The slots a report leaves: of the sessions it mentions, the one it shows live; of the
\* others none in a listing, and in a transition those it does not contradict.
LEMMA IndexTold ==
  ASSUME TypeOK, NEW R \in Reports, OneUnfinished(R), NEW full \in BOOLEAN, NEW s \in Sessions
  PROVE  /\ s \in DOMAIN R => (IndexAfter(R, full)[ProfileOf[s]] = s <=> R[s] = "live")
         /\ s \notin DOMAIN R /\ full => IndexAfter(R, full)[ProfileOf[s]] # s
         /\ s \notin DOMAIN R /\ ~full =>
              (IndexAfter(R, full)[ProfileOf[s]] = s <=>
                 /\ index[ProfileOf[s]] = s
                 /\ \A t \in DOMAIN R : SameProfile(s, t) => R[t] # "live")
<1> DEFINE p == ProfileOf[s]
           D == {t \in DOMAIN R : ProfileOf[t] = p /\ R[t] = "live"}
<1>1. p \in Profiles /\ NoSession # s /\ DOMAIN R \subseteq Sessions
  BY SessionAssumption, OwnAssumption, ReportDomain
<1>2. \A t, u \in D : t = u
  BY DEF OneUnfinished, SameProfile
<1>3. IndexAfter(R, full)[p] = IF D # {} THEN CHOOSE t \in D : TRUE
                               ELSE IF full \/ index[p] \in DOMAIN R THEN NoSession
                               ELSE index[p]
  BY <1>1 DEF IndexAfter
<1>4. (\E t \in DOMAIN R : SameProfile(s, t) /\ R[t] = "live") <=> D # {}
  BY DEF SameProfile
<1>5. s \in D <=> s \in DOMAIN R /\ R[s] = "live"
  OBVIOUS
<1> HIDE DEF p, D
<1>6. CASE D # {}
  <2>1. (CHOOSE t \in D : TRUE) \in D
    BY <1>6
  <2> QED
    BY <1>1, <1>2, <1>3, <1>4, <1>5, <1>6, <2>1 DEF p
<1>7. CASE D = {}
  BY <1>1, <1>3, <1>4, <1>5, <1>7 DEF p
<1> QED
  BY <1>6, <1>7

\* What else a step of the backend may do: it puts the session on the wire.
LEMMA IndexOverEmit ==
  ASSUME IndexInv, OneAfterTheOther', NEW s \in Sessions, NEW st \in BackendStates,
         backend' = [backend EXCEPT ![s] = st], Emit(s, st),
         \A t \in Sessions : SameProfile(s, t) /\ s # t => backend[t] \in {"unborn", "closed"},
         UNCHANGED <<connected, authoritative, index, listing, listings>>
  PROVE  WireSound' /\ LastWordIsTrue' /\ LaterIsMentioned' /\ SilentIsKnown'
<1> DEFINE f == [full |-> FALSE, report |-> [t \in {s} |-> st]]
<1>1. \A t \in Sessions : backend'[t] = IF t = s THEN st ELSE backend[t]
  BY DEF IndexInv, TypeOK
<1>2. CASE ~connected
  <2>1. frames = <<>> /\ frames' = frames /\ ~connected' /\ ~authoritative'
    BY <1>2 DEF Emit, IndexInv, WireSound
  <2> QED
    BY <2>1, EmptySeq DEF IndexInv, WireSound, LastWordIsTrue, LaterIsMentioned, SilentIsKnown
<1>3. CASE connected
  <2>0. PICK n \in Nat : n = Len(frames)
    BY DEF IndexInv, TypeOK
  <2>1. frames \in Seq(Frames) /\ frames' = Append(frames, f)
    BY <1>3 DEF Emit, IndexInv, TypeOK
  <2>2. f.full = FALSE /\ DOMAIN f.report = {s} /\ f.report[s] = st
    OBVIOUS
  <2> HIDE DEF f
  <2>3. n \in Nat /\ Len(frames) = n /\ Len(frames') = n + 1
        /\ \A k \in 1 .. n + 1 : frames'[k] = IF k <= n THEN frames[k] ELSE f
    BY <2>0, <2>1
  <2>4. ASSUME NEW k \in 1 .. n
        PROVE  frames'[k] = frames[k] /\ \A t : Mentioned(t, k)' <=> Mentioned(t, k)
    <3>1. k \in 1 .. n + 1 /\ k <= n
      BY <2>3
    <3> QED
      BY <2>3, <3>1 DEF Mentioned
  <2>5. \A t : Mentioned(t, n + 1)' <=> t = s
    <3>1. n + 1 \in 1 .. n + 1 /\ ~(n + 1 <= n)
      BY <2>3
    <3>2. frames'[n + 1] = f
      BY <2>3, <3>1
    <3> QED
      BY <2>2, <3>2 DEF Mentioned
  <2>6. \A t : Silent(t)' <=> Silent(t) /\ t # s
    BY <2>3, <2>4, <2>5 DEF Silent
  <2>7. \A t, k : k \in 1 .. n => (MentionedAfter(t, k)' <=> MentionedAfter(t, k) \/ t = s)
    BY <2>3, <2>4, <2>5 DEF MentionedAfter
  <2>8. WireSound'
    <3>1. frames' # <<>> /\ (frames # <<>> => frames'[1] = frames[1])
      BY <2>1, <2>3, EmptySeq
    <3>2. \A k \in 1 .. n + 1 : frames'[k].full => k \in 1 .. n /\ frames[k].full
      BY <2>2, <2>3
    <3> QED
      BY <1>3, <2>3, <3>1, <3>2 DEF IndexInv, WireSound
  <2>9. LastWordIsTrue'
    <3> SUFFICES ASSUME NEW k \in 1 .. Len(frames'), NEW t \in Sessions,
                        Mentioned(t, k)', ~MentionedAfter(t, k)'
                 PROVE  frames'[k].report[t] = backend'[t]
      BY DEF LastWordIsTrue
    <3>1. CASE k = n + 1
      BY <1>1, <2>2, <2>3, <2>5, <3>1
    <3>2. CASE k \in 1 .. n
      <4>1. Mentioned(t, k) /\ ~MentionedAfter(t, k) /\ t # s
        BY <2>4, <2>7, <3>2
      <4>2. frames[k].report[t] = backend[t]
        BY <2>3, <3>2, <4>1 DEF IndexInv, LastWordIsTrue
      <4> QED
        BY <1>1, <2>3, <3>2, <4>1, <4>2
    <3> QED
      BY <2>3, <3>1, <3>2
  <2>10. LaterIsMentioned'
    <3> SUFFICES ASSUME NEW k \in 1 .. Len(frames'), NEW u \in Sessions, NEW t \in Sessions,
                        Mentioned(t, k)', frames'[k].report[t] # "closed",
                        SameProfile(u, t), u # t
                 PROVE  backend'[u] \in {"unborn", "closed"} \/ MentionedAfter(u, k)'
      BY DEF LaterIsMentioned, SameProfile
    <3>1. CASE k = n + 1
      <4>1. t = s
        BY <2>5, <3>1
      <4> QED
        BY <1>1, <4>1 DEF SameProfile
    <3>2. CASE k \in 1 .. n
      <4>1. Mentioned(t, k) /\ frames[k].report[t] # "closed"
        BY <2>3, <2>4, <3>2
      <4>2. backend[u] \in {"unborn", "closed"} \/ MentionedAfter(u, k)
        BY <2>3, <3>2, <4>1 DEF IndexInv, LaterIsMentioned
      <4> QED
        BY <1>1, <2>7, <3>2, <4>2
    <3> QED
      BY <2>3, <3>1, <3>2
  <2>11. SilentIsKnown'
    <3> SUFFICES ASSUME NEW t \in Sessions, connected', Silent(t)'
                 PROVE  IF authoritative THEN listings = 0 => InIndex(t)' ELSE backend'[t] = "unborn"
      BY DEF SilentIsKnown
    <3>1. Silent(t) /\ t # s /\ backend'[t] = backend[t]
      BY <1>1, <2>6
    <3> QED
      BY <1>3, <3>1 DEF IndexInv, SilentIsKnown, InIndex
  <2> QED
    BY <2>8, <2>9, <2>10, <2>11
<1> QED
  BY <1>2, <1>3

\* The snapshot of a connection tells of every session there has been.
LEMMA IndexOverConnect ==
  ASSUME IndexInv, Connect
  PROVE  WireSound' /\ LastWordIsTrue' /\ LaterIsMentioned' /\ SilentIsKnown'
<1> DEFINE f == [full |-> TRUE, report |-> Listing]
<1>1. /\ frames' = <<f>> /\ connected' /\ ~authoritative'
      /\ UNCHANGED <<backend, listing, listings>>
  BY DEF Connect, IndexInv, WireSound
<1>2. f.full /\ \A s : (s \in DOMAIN f.report <=> s \in Sessions /\ backend[s] # "unborn")
      /\ (s \in DOMAIN f.report => f.report[s] = backend[s])
  BY DEF Listing
<1> HIDE DEF f
<1>3. Len(frames') = 1 /\ frames'[1] = f /\ frames' # <<>>
  BY <1>1
<1>4. \A s : Mentioned(s, 1)' <=> s \in Sessions /\ backend[s] # "unborn"
  BY <1>2, <1>3 DEF Mentioned
<1>5. \A k \in 1 .. Len(frames') : k = 1
  BY <1>3
<1>6. WireSound'
  BY <1>1, <1>2, <1>3, <1>5 DEF WireSound, IndexInv
<1>7. LastWordIsTrue'
  BY <1>1, <1>2, <1>3, <1>4, <1>5 DEF LastWordIsTrue
<1>8. LaterIsMentioned'
  <2> SUFFICES ASSUME NEW s \in Sessions, NEW t \in Sessions, backend[t] # "unborn",
                      backend[t] # "closed", SameProfile(s, t), s # t
               PROVE  backend[s] \in {"unborn", "closed"}
    BY <1>1, <1>2, <1>3, <1>4, <1>5 DEF LaterIsMentioned, SameProfile
  <2>1. s < t \/ t < s
    BY SessionAssumption DEF Sessions
  <2> QED
    BY <2>1 DEF IndexInv, OneAfterTheOther, SameProfile
<1>9. SilentIsKnown'
  BY <1>1, <1>3, <1>4 DEF SilentIsKnown, Silent
<1> QED
  BY <1>6, <1>7, <1>8, <1>9

\* A frame that is dispatched leaves the index as it tells.
LEMMA IndexOverDispatch ==
  ASSUME IndexInv, DispatchFrame
  PROVE  WireSound' /\ LastWordIsTrue' /\ LaterIsMentioned' /\ SilentIsKnown'
<1> DEFINE f == frames[1]
           n == Len(frames)
<1>1. frames \in Seq(Frames) /\ frames # <<>> /\ frames' = Tail(frames) /\ Head(frames) = f
  BY DEF DispatchFrame, IndexInv, TypeOK
<1>2. n \in Nat \ {0} /\ Len(frames') = n - 1
      /\ \A k \in 1 .. n - 1 : k + 1 \in 1 .. n /\ frames'[k] = frames[k + 1]
  BY <1>1
<1>3. f \in Frames /\ 1 \in 1 .. n
  BY <1>1, <1>2
<1>4. /\ index' = IndexAfter(f.report, f.full)
      /\ authoritative' = (authoritative \/ f.full)
      /\ UNCHANGED <<backend, connected, listing, listings>>
  BY <1>1 DEF DispatchFrame
<1>5. f.report \in Reports /\ f.full \in BOOLEAN /\ OneUnfinished(f.report)
  BY <1>3 DEF IndexInv, ReportsSound, Frames
<1>6. connected /\ authoritative' /\ (f.full <=> ~authoritative)
  BY <1>1, <1>3, <1>4 DEF IndexInv, WireSound, TypeOK
<1> HIDE DEF f, n
<1>7. \A s : \A k \in 1 .. n - 1 : Mentioned(s, k)' <=> Mentioned(s, k + 1)
  BY <1>2 DEF Mentioned
<1>8. \A s : \A k \in 1 .. n - 1 : MentionedAfter(s, k + 1) => MentionedAfter(s, k)'
  <2> SUFFICES ASSUME NEW s, NEW k \in 1 .. n - 1, NEW m \in 1 .. n, k + 1 < m, Mentioned(s, m)
               PROVE  MentionedAfter(s, k)'
    BY DEF MentionedAfter, n
  <2>1. m - 1 \in 1 .. n - 1 /\ k < m - 1 /\ (m - 1) + 1 = m
    BY <1>2
  <2>2. Mentioned(s, m - 1)'
    BY <1>7, <2>1
  <2> QED
    BY <1>2, <2>1, <2>2 DEF MentionedAfter
<1>9. \A s : Silent(s)' => ~MentionedAfter(s, 1)
  <2> SUFFICES ASSUME NEW s, NEW m \in 1 .. n, 1 < m, Mentioned(s, m) PROVE ~Silent(s)'
    BY DEF MentionedAfter, n
  <2>1. m - 1 \in 1 .. n - 1 /\ (m - 1) + 1 = m
    BY <1>2
  <2> QED
    BY <1>2, <1>7, <2>1 DEF Silent
<1>10. \A s : Silent(s)' /\ ~Mentioned(s, 1) => Silent(s)
  BY <1>2, <1>9 DEF Silent, MentionedAfter, n
<1>11. WireSound'
  <2>1. \A k \in 1 .. n - 1 : ~frames'[k].full
    BY <1>2 DEF IndexInv, WireSound, n
  <2> QED
    BY <1>2, <1>4, <1>6, <2>1 DEF IndexInv, WireSound
<1>12. LastWordIsTrue'
  <2> SUFFICES ASSUME NEW k \in 1 .. n - 1, NEW s \in Sessions,
                      Mentioned(s, k)', ~MentionedAfter(s, k)'
               PROVE  frames'[k].report[s] = backend[s]
    BY <1>2, <1>4 DEF LastWordIsTrue
  <2>1. k + 1 \in 1 .. n /\ Mentioned(s, k + 1) /\ ~MentionedAfter(s, k + 1)
    BY <1>2, <1>7, <1>8
  <2>2. frames[k + 1].report[s] = backend[s]
    BY <2>1 DEF IndexInv, LastWordIsTrue, n
  <2> QED
    BY <1>2, <2>2
<1>13. LaterIsMentioned'
  <2> SUFFICES ASSUME NEW k \in 1 .. n - 1, NEW s \in Sessions, NEW t \in Sessions,
                      Mentioned(t, k)', frames'[k].report[t] # "closed", SameProfile(s, t), s # t
               PROVE  backend[s] \in {"unborn", "closed"} \/ MentionedAfter(s, k)'
    BY <1>2, <1>4 DEF LaterIsMentioned, SameProfile
  <2>1. k + 1 \in 1 .. n /\ Mentioned(t, k + 1) /\ frames[k + 1].report[t] # "closed"
    BY <1>2, <1>7
  <2>2. backend[s] \in {"unborn", "closed"} \/ MentionedAfter(s, k + 1)
    BY <2>1 DEF IndexInv, LaterIsMentioned, n
  <2> QED
    BY <1>8, <2>2
<1>14. SilentIsKnown'
  <2> SUFFICES ASSUME NEW s \in Sessions, Silent(s)', listings = 0
               PROVE  index'[ProfileOf[s]] = s <=> backend[s] = "live"
    BY <1>4, <1>6 DEF SilentIsKnown, InIndex
  <2>1. ~MentionedAfter(s, 1)
    BY <1>9
  <2>2. CASE Mentioned(s, 1)
    <3>1. s \in DOMAIN f.report /\ f.report[s] = backend[s]
      BY <1>3, <2>1, <2>2 DEF IndexInv, LastWordIsTrue, Mentioned, f, n
    <3> QED
      BY <1>4, <1>5, <3>1, IndexTold DEF IndexInv
  <2>3. CASE ~Mentioned(s, 1)
    <3>1. s \notin DOMAIN f.report /\ Silent(s)
      BY <1>10, <2>3 DEF Mentioned, f
    <3>2. CASE f.full
      <4>1. backend[s] = "unborn"
        BY <1>6, <3>1, <3>2 DEF IndexInv, SilentIsKnown
      <4> QED
        BY <1>4, <1>5, <3>1, <3>2, <4>1, IndexTold DEF IndexInv
    <3>3. CASE ~f.full
      <4>1. InIndex(s)
        BY <1>6, <3>1, <3>3 DEF IndexInv, SilentIsKnown
      <4>2. ASSUME NEW t \in DOMAIN f.report, SameProfile(s, t), f.report[t] = "live"
            PROVE  backend[s] # "live"
        <5>1. t \in Sessions /\ Mentioned(t, 1) /\ frames[1].report[t] # "closed" /\ s # t
          BY <1>5, <3>1, <4>2, ReportDomain DEF Mentioned, f
        <5> QED
          BY <1>3, <2>1, <4>2, <5>1 DEF IndexInv, LaterIsMentioned, n
      <4> QED
        BY <1>4, <1>5, <3>1, <3>3, <4>1, <4>2, IndexTold DEF IndexInv, InIndex
    <3> QED
      BY <3>2, <3>3
  <2> QED
    BY <2>2, <2>3
<1> QED
  BY <1>11, <1>12, <1>13, <1>14

\* An index the stream alone has filled is true once all it sent is dispatched
\* (IndexIsTrue).
THEOREM StreamFillsIndex == Spec => []IndexIsTrue
<1>1. Init => IndexInv
  <2> SUFFICES ASSUME Init PROVE IndexInv
    OBVIOUS
  <2>1. TypeOK /\ OneAfterTheOther /\ ReportsSound
    BY GateInvInit DEF GateInv
  <2>2. frames = <<>> /\ ~connected /\ ~authoritative /\ listing = <<>>
    BY DEF Init
  <2> QED
    BY <2>1, <2>2, EmptySeq
    DEF IndexInv, WireSound, LastWordIsTrue, LaterIsMentioned, SilentIsKnown
<1>2. IndexInv /\ [Next]_vars => IndexInv'
  <2> SUFFICES ASSUME IndexInv, [Next]_vars PROVE IndexInv'
    OBVIOUS
  <2> DEFINE Rest == WireSound /\ LastWordIsTrue /\ LaterIsMentioned /\ SilentIsKnown
  <2>1. TypeOK' /\ OneAfterTheOther' /\ ReportsSound'
    BY TypeStep, OrderKept, ReportsKept DEF IndexInv
  <2> SUFFICES Rest'
    BY <2>1 DEF IndexInv
  <2>2. CASE UNCHANGED <<backend, stream, indexVars>>
             /\ \/ listings' = listings /\ (listing' = listing \/ listing' = <<>>)
                \/ listings' # 0 /\ listings <= listings'
    <3>1. listings \in Nat
      BY DEF IndexInv, TypeOK
    <3>2. listings' = 0 => listings = 0
      BY <2>2, <3>1
    <3>3. \A s, k : Mentioned(s, k)' <=> Mentioned(s, k)
      BY <2>2 DEF Mentioned
    <3>4. \A s, k : MentionedAfter(s, k)' <=> MentionedAfter(s, k)
      BY <2>2, <3>3 DEF MentionedAfter
    <3>5. \A s : (Silent(s)' <=> Silent(s)) /\ (InIndex(s)' <=> InIndex(s))
      BY <2>2, <3>3 DEF Silent, InIndex
    <3>6. WireSound'
      BY <2>2, <3>2 DEF IndexInv, WireSound
    <3>7. LastWordIsTrue' /\ LaterIsMentioned'
      BY <2>2, <3>3, <3>4 DEF IndexInv, LastWordIsTrue, LaterIsMentioned, SameProfile
    <3>8. SilentIsKnown'
      BY <2>2, <3>2, <3>5 DEF IndexInv, SilentIsKnown
    <3> QED
      BY <3>6, <3>7, <3>8
  <2>3. CASE connected' = FALSE /\ frames' = <<>> /\ authoritative' = FALSE
             /\ listings' = listings /\ (listing' = listing \/ listing' = <<>>)
    BY <2>3, EmptySeq
    DEF IndexInv, WireSound, LastWordIsTrue, LaterIsMentioned, SilentIsKnown
  <2>4. ASSUME NEW s \in Sessions,
               StartElsewhere(s) \/ StartRemoteSession(s) \/ BecomesLive(s) \/ Closes(s)
                 \/ EndRemoteSession(s)
        PROVE  Rest'
    <3>1. PICK st \in BackendStates :
            backend' = [backend EXCEPT ![s] = st] /\ Emit(s, st)
      BY <2>4 DEF StartElsewhere, StartRemoteSession, BackendAccepts, BecomesLive, Closes,
                  EndRemoteSession, BackendStates
    <3>2. UNCHANGED <<connected, authoritative, index, listing, listings>>
      BY <2>4 DEF StartElsewhere, StartRemoteSession, BecomesLive, Closes, EndRemoteSession
    <3>3. ASSUME NEW t \in Sessions, SameProfile(s, t), s # t
          PROVE  backend[t] \in {"unborn", "closed"}
      <4>1. s < t \/ t < s
        BY <3>3, SessionAssumption DEF Sessions
      <4>2. CASE BackendAccepts(s)
        <5>1. t < s => backend[t] = "closed"
          BY <4>2, <3>3, SessionAssumption DEF BackendAccepts, Sessions, SameProfile
        <5>2. s < t => backend[t] = "unborn"
          BY <4>2, <3>3 DEF BackendAccepts, IndexInv, OneAfterTheOther, SameProfile
        <5> QED
          BY <4>1, <5>1, <5>2
      <4>3. CASE backend[s] \in {"starting", "live"}
        BY <3>3, <4>1, <4>3 DEF IndexInv, OneAfterTheOther, SameProfile
      <4> QED
        BY <2>4, <4>2, <4>3
        DEF StartElsewhere, StartRemoteSession, BecomesLive, Closes, EndRemoteSession
    <3> QED
      BY <2>1, <3>1, <3>2, <3>3, IndexOverEmit
  <2>5. ASSUME NEW s \in Sessions, LoseReply(s) \/ NoteSessionStarted(s) \/ NoteSessionStopped(s)
        PROVE  Rest'
    BY <2>2, <2>5 DEF LoseReply, NoteSessionStarted, NoteSessionStopped
  <2>6. ASSUME NEW p \in Profiles, AskForListing(p) PROVE Rest'
    <3>1. listings \in Nat /\ listings' = listings + 1
      BY <2>6 DEF AskForListing, IndexInv, TypeOK
    <3>2. listings' # 0 /\ listings <= listings'
      BY <3>1
    <3> QED
      BY <2>2, <2>6, <3>2 DEF AskForListing
  <2>7. ASSUME NEW p \in Profiles, ProfileArrives(p) PROVE Rest'
    BY <2>2, <2>7 DEF ProfileArrives
  <2>8. ASSUME NEW p \in Profiles, NEW i \in Slots, TaskStep(p, i) PROVE Rest'
    BY <2>2, <2>8 DEF TaskStep, PullLooks, PullBegins, PullCompletes, PullFails, PullFindsNoCopy
  <2>9. CASE DispatchFrame
    BY <2>9, IndexOverDispatch
  <2>10. CASE Connect
    BY <2>10, IndexOverConnect
  <2>11. CASE DropStream \/ Restart
    BY <2>3, <2>11 DEF DropStream, Restart
  <2>12. CASE ListingArrives
    <3>1. listings # 0 /\ UNCHANGED <<backend, stream, authoritative, listings>> /\ listing' = <<>>
      BY <2>12 DEF ListingArrives, IndexInv, WireSound
    <3>2. \A s, k : Mentioned(s, k)' <=> Mentioned(s, k)
      BY <3>1 DEF Mentioned
    <3>3. \A s, k : MentionedAfter(s, k)' <=> MentionedAfter(s, k)
      BY <3>1, <3>2 DEF MentionedAfter
    <3>4. \A s : Silent(s)' <=> Silent(s)
      BY <3>1, <3>2 DEF Silent
    <3>5. WireSound' /\ LastWordIsTrue' /\ LaterIsMentioned'
      BY <3>1, <3>2, <3>3 DEF IndexInv, WireSound, LastWordIsTrue, LaterIsMentioned, SameProfile
    <3>6. SilentIsKnown'
      BY <3>1, <3>4 DEF IndexInv, SilentIsKnown
    <3> QED
      BY <3>5, <3>6
  <2>13. CASE LoseListing \/ ResumePendingPulls \/ PersistEnds \/ PersistFails \/ UNCHANGED vars
    BY <2>2, <2>13 DEF LoseListing, ResumePendingPulls, PersistEnds, PersistFails
  <2> QED
    BY <2>4, <2>5, <2>6, <2>7, <2>8, <2>9, <2>10, <2>11, <2>12, <2>13 DEF Next, BackendStep
<1>3. IndexInv => IndexIsTrue
  <2> SUFFICES ASSUME IndexInv, authoritative, frames = <<>>, listings = 0,
                      NEW s \in Sessions
               PROVE  index[ProfileOf[s]] = s <=> backend[s] = "live"
    BY DEF IndexIsTrue
  <2>1. connected /\ Silent(s)
    BY DEF IndexInv, WireSound, Silent
  <2> QED
    BY <2>1 DEF IndexInv, SilentIsKnown, InIndex
<1> QED
  BY <1>1, <1>2, <1>3, PTL DEF Spec
================================================================================
