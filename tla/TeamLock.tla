------------------------------- MODULE TeamLock -------------------------------
(***************************************************************************)
(* The lock a shared profile has in the cloud (team_lock.rs): a launch     *)
(* takes it, the end of the browser gives it back, and while the manager   *)
(* is connected a loop renews the locks the local cache names and then     *)
(* replaces the cache by the server's list.  The server's side is known    *)
(* from its use: one holder per profile, a user, whichever device of his   *)
(* asks; a lock that is not renewed for more than Grace rounds lapses.     *)
(*                                                                         *)
(* A round is the loop's thirty seconds: every loop gets through one round *)
(* in it.                                                                  *)
(***************************************************************************)
EXTENDS Naturals

CONSTANTS
  Seats,      \* the devices
  Users,      \* the users; a remote session's holder name is a user of its own
  Owner,      \* the user signed in on each device
  NoUser,     \* nobody
  Grace,      \* rounds a lock survives without being renewed
  MaxLosses   \* bound: lost requests, sign-outs and restarts

ASSUME OwnerAssumption == Owner \in [Seats -> Users] /\ NoUser \notin Users
ASSUME GraceAssumption == Grace \in Nat /\ MaxLosses \in Nat

VARIABLES
  holder, age,  \* the server: who holds the lock, and rounds since it was renewed
  known,        \* each device's cached entry of the profile
  signedIn,     \* a user with a subscription is signed in
  connected,    \* the lock manager is connected
  beat,         \* its heartbeat loop, or the connect that starts it
  answer,       \* the list a fetch got and has not yet put into the cache
  use,          \* the launch or the stop of the profile on the device
  browsing,     \* its browser runs
  losses,       \* counter of the bound
  mishap        \* history: what no lock can help against

leaseVars == <<holder, age, known, signedIn, connected, beat, answer, use, browsing, losses,
               mishap>>

UseSteps == {"idle", "connecting", "check", "post", "insert", "spawn", "delete", "forget"}
Connecting == {"ask", "enter"}
Beats == {"off", "rested", "due", "beat", "refresh", "replace"} \cup Connecting

LeaseTypeOK ==
  /\ holder \in Users \cup {NoUser} /\ age \in 0 .. Grace
  /\ holder = NoUser => age = 0
  /\ known \in [Seats -> Users \cup {NoUser}]
  /\ signedIn \in [Seats -> BOOLEAN] /\ connected \in [Seats -> BOOLEAN]
  /\ beat \in [Seats -> Beats]
  /\ answer \in [Seats -> Users \cup {NoUser}]
  /\ use \in [Seats -> UseSteps]
  /\ browsing \in [Seats -> BOOLEAN]
  /\ losses \in 0 .. MaxLosses
  /\ mishap \subseteq {"unclear", "unreleased", "parted", "shared"}

LeaseInit ==
  /\ holder = NoUser /\ age = 0
  /\ known = [d \in Seats |-> NoUser]
  /\ signedIn = [d \in Seats |-> TRUE] /\ connected = [d \in Seats |-> FALSE]
  /\ beat = [d \in Seats |-> "off"]
  /\ answer = [d \in Seats |-> NoUser]
  /\ use = [d \in Seats |-> "idle"]
  /\ browsing = [d \in Seats |-> FALSE]
  /\ losses = 0 /\ mishap = {}

Uses(d, step) == use[d] = step
GoesOn(d, step) == use' = [use EXCEPT ![d] = step]
BeatsOn(d, step) == beat' = [beat EXCEPT ![d] = step]
Mine(d) == holder = Owner[d]

\* A request fails, or the manager goes down.
Loss(names) ==
  /\ losses < MaxLosses
  /\ losses' = losses + 1
  /\ mishap' = mishap \cup names
NoLoss == UNCHANGED <<losses, mishap>>

(***************************************************************************)
(* acquire_team_lock_if_needed.                                            *)
(***************************************************************************)
\* connect: connected is set first, so that another launch would not wait.
StartConnect(d) ==
  /\ connected' = [connected EXCEPT ![d] = TRUE]
  /\ BeatsOn(d, "ask")

LaunchProfile(d) ==
  /\ Uses(d, "idle") /\ ~browsing[d] /\ signedIn[d]
  /\ \/ ~connected[d] /\ beat[d] \notin Connecting /\ StartConnect(d) /\ GoesOn(d, "connecting")
     \/ connected[d] /\ GoesOn(d, "check") /\ UNCHANGED <<connected, beat>>
  /\ UNCHANGED <<holder, age, known, signedIn, answer, browsing, losses, mishap>>

\* The ten-minute loop of cloud_auth, or a sign-in, connects too.
Reconnect(d) ==
  /\ ~connected[d] /\ beat[d] \notin Connecting
  /\ StartConnect(d)
  /\ signedIn' = [signedIn EXCEPT ![d] = TRUE]
  /\ UNCHANGED <<holder, age, known, answer, use, browsing, losses, mishap>>

AwaitConnect(d) ==
  /\ Uses(d, "connecting") /\ beat[d] \notin Connecting
  /\ GoesOn(d, "check")
  /\ UNCHANGED <<holder, age, known, signedIn, connected, beat, answer, browsing, losses, mishap>>

\* is_locked_by_another looks at the cache alone; a lock another user had refuses the
\* launch until the next refresh.
CheckCache(d) ==
  /\ Uses(d, "check")
  /\ GoesOn(d, IF known[d] \in {NoUser, Owner[d]} THEN "post" ELSE "idle")
  /\ UNCHANGED <<holder, age, known, signedIn, connected, beat, answer, browsing, losses, mishap>>

\* Mutant: the launch goes on when the lock is refused.
PostLockIgnoresRefusal(d) ==
  /\ Uses(d, "post")
  /\ IF signedIn[d] /\ holder \in {NoUser, Owner[d]}
     THEN holder' = Owner[d] /\ age' = 0
     ELSE UNCHANGED <<holder, age>>
  /\ GoesOn(d, "insert")
  /\ mishap' = IF signedIn[d] /\ Mine(d) THEN mishap \cup {"shared"} ELSE mishap
  /\ UNCHANGED <<known, signedIn, connected, beat, answer, browsing, losses>>

\* acquire_lock: the server grants it to nobody but the holder, who may be the user
\* on another device.
PostLock(d) ==
  /\ Uses(d, "post")
  /\ IF signedIn[d] /\ holder \in {NoUser, Owner[d]}
     THEN holder' = Owner[d] /\ age' = 0 /\ GoesOn(d, "insert")
     ELSE GoesOn(d, "idle") /\ UNCHANGED <<holder, age>>
  /\ mishap' = IF signedIn[d] /\ Mine(d) THEN mishap \cup {"shared"} ELSE mishap
  /\ UNCHANGED <<known, signedIn, connected, beat, answer, browsing, losses>>

\* The request or its response is lost: the launch is refused either way.
PostLost(d) ==
  /\ Uses(d, "post") /\ signedIn[d]
  /\ Loss({"unclear"})
  /\ GoesOn(d, "idle")
  /\ \/ holder \in {NoUser, Owner[d]} /\ holder' = Owner[d] /\ age' = 0
     \/ UNCHANGED <<holder, age>>
  /\ UNCHANGED <<known, signedIn, connected, beat, answer, browsing>>

InsertLock(d) ==
  /\ Uses(d, "insert")
  /\ known' = IF signedIn[d] THEN [known EXCEPT ![d] = Owner[d]] ELSE known
  /\ GoesOn(d, "spawn")
  /\ UNCHANGED <<holder, age, signedIn, connected, beat, answer, browsing, losses, mishap>>

\* Mutant: a launch that fails keeps the lock.
SpawnFailureKeepsLock(d) ==
  /\ Uses(d, "spawn")
  /\ \/ browsing' = [browsing EXCEPT ![d] = TRUE]
     \/ UNCHANGED browsing
  /\ GoesOn(d, "idle")
  /\ UNCHANGED <<holder, age, known, signedIn, connected, beat, answer, losses, mishap>>

\* The browser starts; or it does not, and the launch is unwound.
Spawn(d) ==
  /\ Uses(d, "spawn")
  /\ \/ browsing' = [browsing EXCEPT ![d] = TRUE] /\ GoesOn(d, "idle")
     \/ GoesOn(d, "delete") /\ UNCHANGED browsing
  /\ UNCHANGED <<holder, age, known, signedIn, connected, beat, answer, losses, mishap>>

(***************************************************************************)
(* release_team_lock_if_needed, once the browser is gone.                  *)
(***************************************************************************)
BrowserEnds(d) ==
  /\ browsing[d] /\ Uses(d, "idle")
  /\ browsing' = [browsing EXCEPT ![d] = FALSE]
  /\ GoesOn(d, "delete")
  /\ UNCHANGED <<holder, age, known, signedIn, connected, beat, answer, losses, mishap>>

\* Mutant: a freed lock keeps the age of its lease.
DeleteLockKeepsAge(d) ==
  /\ Uses(d, "delete")
  /\ GoesOn(d, IF signedIn[d] THEN "forget" ELSE "idle")
  /\ \/ /\ holder' = IF signedIn[d] /\ Mine(d) THEN NoUser ELSE holder
        /\ NoLoss
     \/ signedIn[d] /\ Loss({"unreleased"}) /\ UNCHANGED holder
  /\ UNCHANGED <<age, known, signedIn, connected, beat, answer, browsing>>

\* The server frees the user's lock, whichever of his devices asks.  A lost request is
\* not noticed; nobody signed in, nothing is released.
DeleteLock(d) ==
  /\ Uses(d, "delete")
  /\ GoesOn(d, IF signedIn[d] THEN "forget" ELSE "idle")
  /\ \/ /\ holder' = IF signedIn[d] /\ Mine(d) THEN NoUser ELSE holder
        /\ age' = IF signedIn[d] /\ Mine(d) THEN 0 ELSE age
        /\ NoLoss
     \/ signedIn[d] /\ Loss({"unreleased"}) /\ UNCHANGED <<holder, age>>
  /\ UNCHANGED <<known, signedIn, connected, beat, answer, browsing>>

ForgetLock(d) ==
  /\ Uses(d, "forget")
  /\ known' = [known EXCEPT ![d] = NoUser]
  /\ GoesOn(d, "idle")
  /\ UNCHANGED <<holder, age, signedIn, connected, beat, answer, browsing, losses, mishap>>

(***************************************************************************)
(* connect, and the heartbeat loop.                                        *)
(***************************************************************************)
\* fetch_locks asks the server ...
FetchLocks(d) ==
  /\ beat[d] \in {"ask", "refresh"}
  /\ \/ /\ answer' = [answer EXCEPT ![d] = holder]
        /\ BeatsOn(d, IF beat[d] = "ask" THEN "enter" ELSE "replace")
        /\ NoLoss
     \/ Loss({}) /\ BeatsOn(d, "rested") /\ UNCHANGED answer
  /\ UNCHANGED <<holder, age, known, signedIn, connected, use, browsing>>

\* ... and replaces the cache by what it said, whatever happened in between.
ReplaceLocks(d) ==
  /\ beat[d] \in {"enter", "replace"}
  /\ known' = [known EXCEPT ![d] = answer[d]]
  /\ answer' = [answer EXCEPT ![d] = NoUser]
  /\ BeatsOn(d, "rested")
  /\ UNCHANGED <<holder, age, signedIn, connected, use, browsing, losses, mishap>>

\* Mutant: the loop only fetches.
WakeLoopOnlyFetches(d) ==
  /\ beat[d] = "due"
  /\ BeatsOn(d, IF ~connected[d] THEN "off" ELSE "refresh")
  /\ UNCHANGED <<holder, age, known, signedIn, connected, answer, use, browsing, losses, mishap>>

\* The loop wakes: it ends when disconnected, else it renews the lock if the cache says
\* that it is this user's.
WakeLoop(d) ==
  /\ beat[d] = "due"
  /\ BeatsOn(d, IF ~connected[d] THEN "off"
                ELSE IF known[d] = Owner[d] THEN "beat" ELSE "refresh")
  /\ UNCHANGED <<holder, age, known, signedIn, connected, answer, use, browsing, losses, mishap>>

SendHeartbeat(d) ==
  /\ beat[d] = "beat"
  /\ BeatsOn(d, "refresh")
  /\ \/ age' = (IF Mine(d) THEN 0 ELSE age) /\ NoLoss
     \/ Loss({}) /\ UNCHANGED age
  /\ UNCHANGED <<holder, known, signedIn, connected, answer, use, browsing>>

\* Half a minute: every loop has had its round.  The server drops a lock it has not
\* heard of for too long.
Round ==
  /\ \A d \in Seats : beat[d] \in {"off", "rested"}
  /\ beat' = [d \in Seats |-> IF beat[d] = "rested" THEN "due" ELSE beat[d]]
  /\ IF holder = NoUser THEN UNCHANGED <<holder, age>>
     ELSE IF age < Grace THEN age' = age + 1 /\ UNCHANGED holder
     ELSE holder' = NoUser /\ age' = 0
  /\ UNCHANGED <<known, signedIn, connected, answer, use, browsing, losses, mishap>>

\* disconnect, at sign-out: the loop is aborted, a connect under way is not.
Disconnect(d) ==
  /\ signedIn[d]
  /\ Loss({"parted"})
  /\ signedIn' = [signedIn EXCEPT ![d] = FALSE]
  /\ connected' = [connected EXCEPT ![d] = FALSE]
  /\ known' = [known EXCEPT ![d] = NoUser]
  /\ IF beat[d] \in Connecting THEN UNCHANGED <<beat, answer>>
     ELSE BeatsOn(d, "off") /\ answer' = [answer EXCEPT ![d] = NoUser]
  /\ UNCHANGED <<holder, age, use, browsing>>

\* The application is restarted; its browser lives on.
RestartApp(d) ==
  /\ Loss({"parted"})
  /\ connected' = [connected EXCEPT ![d] = FALSE]
  /\ known' = [known EXCEPT ![d] = NoUser]
  /\ BeatsOn(d, "off")
  /\ answer' = [answer EXCEPT ![d] = NoUser]
  /\ GoesOn(d, "idle")
  /\ UNCHANGED <<holder, age, signedIn, browsing>>

LeaseNext ==
  \/ Round
  \/ \E d \in Seats :
       \/ LaunchProfile(d) \/ Reconnect(d) \/ AwaitConnect(d) \/ CheckCache(d)
       \/ PostLock(d) \/ PostLost(d) \/ InsertLock(d) \/ Spawn(d)
       \/ BrowserEnds(d) \/ DeleteLock(d) \/ ForgetLock(d)
       \/ FetchLocks(d) \/ ReplaceLocks(d) \/ WakeLoop(d) \/ SendHeartbeat(d)
       \/ Disconnect(d) \/ RestartApp(d)

LeaseSpec == LeaseInit /\ [][LeaseNext]_leaseVars

(***************************************************************************)
(* Properties.                                                             *)
(***************************************************************************)
\* Two users never have the profile open at once while the loops of their devices keep up
\* with the lease: managers stay connected, no more requests are lost than the lease
\* stands, and no user opens it on two devices (his first release frees the lock).
KeepsUp == mishap \cap {"parted", "shared"} = {} /\ 2 + losses <= Grace
OneUserAtATime ==
  KeepsUp => \A d, e \in Seats : browsing[d] /\ browsing[e] => Owner[d] = Owner[e]

\* The lock of a running browser is its user's and was renewed within two rounds, and one
\* more for every request lost: a fetch answered before the lock was taken drops it from
\* the cache, and only the next one brings it back.
RenewedInTime ==
  KeepsUp => \A d \in Seats : browsing[d] => Mine(d) /\ age <= 2 + losses

\* A lock that nobody uses is not kept alive by the loops: its holder has a browser
\* running, or a launch or a stop under way that has yet to release it.
NoLeftoverLock ==
  mishap = {} /\ holder # NoUser =>
    \E d \in Seats : Owner[d] = holder /\ (browsing[d] \/ use[d] \in {"insert", "spawn", "delete"})

===============================================================================
