------------------------------ MODULE ConfigSync ------------------------------
(***************************************************************************)
(* One config entity (a proxy; groups, VPNs, extensions and extension      *)
(* groups are reconciled alike) on several devices and on the sync server. *)
(*                                                                         *)
(* Each device holds the entity in memory and in a file.  Its scheduler's  *)
(* loop applies the deletions it heard of and then reconciles what is      *)
(* queued: stat the tombstone, stat the object, upload the copy it read at *)
(* the start or download the object (engine.rs).  The user edits, deletes  *)
(* and switches the sync of the entity at any time.                        *)
(*                                                                         *)
(* The server answers stats, stores objects and tombstones, and polls for  *)
(* each subscriber: when the manifest was bumped since its last listing it *)
(* lists again and reports every key whose time differs (sync.service.ts). *)
(* Clocks agree and count seconds, as updated_at and lastModified do.      *)
(***************************************************************************)
EXTENDS Naturals, FiniteSets

CONSTANTS
  Devices,
  MaxTime,      \* bound: the clock stops here
  MaxCalls,     \* bound: edits, deletions and switches
  MaxTroubles   \* bound: restarts, reconnects and requests that fail

ASSUME DevicesAssumption == Devices # {}
ASSUME BoundAssumption ==
  MaxTime \in Nat \ {0} /\ MaxCalls \in Nat /\ MaxTroubles \in Nat

\* updated_at is in seconds since 1970: 0 stands for no time at all.
Times == 1 .. MaxTime

VARIABLES
  clock,
  mem,        \* stored_proxies of each device
  file,       \* proxies/<id>.json of each device
  object,     \* the object on the server
  tombstone,  \* when its tombstone was written, 0 without one
  queued,     \* pending_proxies
  heard,      \* pending_tombstones
  sync,       \* how far the loop of each device is
  deleting,   \* the task that deletes the object and leaves a tombstone
  enabling,   \* set_proxy_sync_enabled, after the switch is saved
  bumped,     \* the manifest changed since the last listing of the subscriber
  known,      \* lastKnownState of the subscriber: a time per key, 0 without one
  inbox,      \* work items on their way to the loop
  calls, troubles,  \* counters of the bounds
  deleted,    \* history: somebody deleted the entity
  faults      \* history: what went wrong

local == <<mem, file>>
server == <<object, tombstone>>
requests == <<deleting, enabling>>
feed == <<bumped, known, inbox>>
work == <<queued, heard>>
vars == <<clock, local, server, work, sync, requests, feed, calls, troubles,
          deleted, faults>>

Nothing == [at |-> 0, on |-> FALSE]
Copies == [at : Times, on : BOOLEAN] \cup {Nothing}
NoObject == [copy |-> Nothing, written |-> 0]
Objects == [copy : Copies \ {Nothing}, written : Times] \cup {NoObject}

Idle == [pc |-> "idle", copy |-> Nothing]
SyncSteps == {"idle", "tombstone", "object", "presign", "put", "writeFile", "get", "save"}
Items == {"object", "tombstone"}
Faults == {"failed", "overtaken", "sameSecond", "uncleared", "meanwhile", "stale",
           "forgotten", "older"}

NoKey == [object |-> 0, tombstone |-> 0]

TypeOK ==
  /\ clock \in Times
  /\ mem \in [Devices -> Copies] /\ file \in [Devices -> Copies]
  /\ object \in Objects /\ tombstone \in Times \cup {0}
  /\ queued \in [Devices -> BOOLEAN] /\ heard \in [Devices -> BOOLEAN]
  /\ sync \in [Devices -> [pc : SyncSteps, copy : Copies]]
  /\ deleting \in [Devices -> {"idle", "object", "tombstone"}]
  /\ enabling \in [Devices -> {"idle", "clear", "queue"}]
  /\ bumped \in [Devices -> BOOLEAN]
  /\ known \in [Devices -> [object : Times \cup {0}, tombstone : Times \cup {0}]]
  /\ inbox \in [Devices -> SUBSET Items]
  /\ calls \in Nat /\ troubles \in Nat
  /\ deleted \in BOOLEAN /\ faults \subseteq Faults

\* The app starts on every device: the entity was created on one of them, or it is
\* on the server and some edited it while they could not sync.
Init ==
  /\ clock \in Times
  /\ \/ /\ object = NoObject
        /\ \E d \in Devices, on \in BOOLEAN :
             mem = [e \in Devices |-> IF e = d THEN [at |-> 1, on |-> on] ELSE Nothing]
     \/ /\ object = [copy |-> [at |-> 1, on |-> TRUE], written |-> 1]
        /\ mem \in [Devices -> [at : 1 .. clock, on : {TRUE}]]
  /\ file = mem
  /\ queued = [d \in Devices |-> mem[d].on]
  /\ tombstone = 0
  /\ heard = [d \in Devices |-> FALSE]
  /\ sync = [d \in Devices |-> Idle]
  /\ deleting = [d \in Devices |-> "idle"] /\ enabling = [d \in Devices |-> "idle"]
  /\ bumped = [d \in Devices |-> TRUE] /\ known = [d \in Devices |-> NoKey]
  /\ inbox = [d \in Devices |-> {}]
  /\ calls = 0 /\ troubles = 0
  /\ deleted = FALSE /\ faults = {}

Fault(names) == faults' = faults \cup names
Trouble == troubles < MaxTroubles /\ troubles' = troubles + 1
Fails(name) == Trouble /\ Fault({name})

Saved(d, copy) == mem' = [mem EXCEPT ![d] = copy] /\ file' = [file EXCEPT ![d] = copy]
\* bumpManifest: every subscriber lists again.
BumpManifest == bumped' = [d \in Devices |-> TRUE]

Tick ==
  /\ clock < MaxTime
  /\ clock' = clock + 1
  /\ UNCHANGED <<local, server, work, sync, requests, feed, calls, troubles,
                 deleted, faults>>

(***************************************************************************)
(* The user.                                                               *)
(***************************************************************************)
Call == calls < MaxCalls /\ calls' = calls + 1

\* Mutant: the stamp is taken from a later clock.
EditAhead(d) ==
  /\ Call
  /\ mem[d] # Nothing
  /\ Saved(d, [at |-> clock + 1, on |-> mem[d].on])
  /\ queued' = [queued EXCEPT ![d] = @ \/ mem[d].on]
  /\ UNCHANGED <<clock, server, heard, sync, requests, feed, troubles, deleted, faults>>

\* History: the edit is made while a sync that read the copy before it may download.
Deciding(d) == sync[d].pc \in {"tombstone", "object", "get", "save"}

\* update_stored_proxy: stamped with the time, saved, and queued if it syncs.
Edit(d) ==
  /\ Call
  /\ mem[d] # Nothing
  /\ Saved(d, [at |-> clock, on |-> mem[d].on])
  /\ queued' = [queued EXCEPT ![d] = @ \/ mem[d].on]
  /\ Fault(IF Deciding(d) THEN {"meanwhile"} ELSE {})
  /\ UNCHANGED <<clock, server, heard, sync, requests, feed, troubles, deleted>>

\* delete_stored_proxy: here at once, on the server by a task of its own.  Bound: one
\* such task at a time.
Delete(d) ==
  /\ Call
  /\ mem[d] # Nothing /\ deleting[d] = "idle"
  /\ Saved(d, Nothing)
  /\ deleting' = [deleting EXCEPT ![d] = IF mem[d].on THEN "object" ELSE @]
  /\ deleted' = TRUE
  /\ UNCHANGED <<clock, server, work, sync, enabling, feed, troubles,
                 faults>>

\* SyncService.delete goes on to the tombstone when the object cannot be deleted.
DeleteObject(d) ==
  /\ deleting[d] = "object"
  /\ \/ /\ object' = NoObject
        /\ deleting' = [deleting EXCEPT ![d] = "tombstone"]
        /\ UNCHANGED troubles
     \/ /\ Trouble
        /\ \E next \in {"idle", "tombstone"} : deleting' = [deleting EXCEPT ![d] = next]
        /\ UNCHANGED object
  /\ UNCHANGED <<clock, local, tombstone, work, sync, enabling, feed, calls, deleted, faults>>

\* History: a subscriber has seen the key with this very time.
SameSecond(key) ==
  IF \E e \in Devices : known[e][key] = clock THEN {"sameSecond"} ELSE {}

PutTombstone(d) ==
  /\ deleting[d] = "tombstone"
  /\ deleting' = [deleting EXCEPT ![d] = "idle"]
  /\ \/ /\ tombstone' = clock
        /\ BumpManifest
        /\ Fault(SameSecond("tombstone"))
        /\ UNCHANGED troubles
     \/ /\ Trouble
        /\ UNCHANGED <<tombstone, bumped, faults>>
  /\ UNCHANGED <<clock, local, object, work, sync, enabling, known, inbox, calls, deleted>>

\* set_proxy_sync_enabled: the switch is saved; updated_at stays as it is.  Bound:
\* one switching on at a time.
SetSyncEnabled(d) ==
  /\ Call
  /\ mem[d] # Nothing /\ (mem[d].on \/ enabling[d] = "idle")
  /\ Saved(d, [mem[d] EXCEPT !.on = ~@])
  /\ enabling' = [enabling EXCEPT ![d] = IF mem[d].on THEN @ ELSE "clear"]
  /\ UNCHANGED <<clock, server, work, sync, deleting, feed, troubles,
                 deleted, faults>>

\* clear_config_tombstone: a failure is logged.
ClearTombstone(d) ==
  /\ enabling[d] = "clear"
  /\ enabling' = [enabling EXCEPT ![d] = "queue"]
  /\ \/ /\ tombstone' = 0
        /\ BumpManifest
        /\ UNCHANGED <<troubles, faults>>
     \/ /\ Fails("uncleared")
        /\ UNCHANGED <<tombstone, bumped>>
  /\ UNCHANGED <<clock, local, object, work, sync, deleting, known, inbox, calls, deleted>>

EnablingQueues(d) ==
  /\ enabling[d] = "queue"
  /\ enabling' = [enabling EXCEPT ![d] = "idle"]
  /\ queued' = [queued EXCEPT ![d] = TRUE]
  /\ UNCHANGED <<clock, local, server, heard, sync, deleting, feed, calls, troubles, deleted, faults>>

(***************************************************************************)
(* The subscription: the server's polls, and the work items they become.   *)
(***************************************************************************)
Listing == [object |-> object.written, tombstone |-> tombstone]

\* Mutant: a key that is written again is not new.
ReportedNew(before, now) ==
  {item \in Items : before[item] = 0 /\ now[item] # 0}

\* handle_event makes the same work item of a key that is new, written again or gone.
Reported(before, now) ==
  {item \in Items : before[item] # now[item]}

Lists(d) ==
  /\ bumped[d]
  /\ bumped' = [bumped EXCEPT ![d] = FALSE]
  /\ known' = [known EXCEPT ![d] = Listing]

Poll(d) ==
  /\ Lists(d)
  /\ inbox' = [inbox EXCEPT ![d] = @ \cup Reported(known[d], Listing)]
  /\ UNCHANGED <<clock, local, server, work, sync, requests, calls, troubles,
                 deleted, faults>>

\* The next poll is due before this one is done: switchMap drops what it reports,
\* the listing stays.
PollOvertaken(d) ==
  /\ Lists(d)
  /\ Fails("overtaken")
  /\ UNCHANGED <<clock, local, server, work, sync, requests, inbox, calls, deleted>>

\* A new connection knows nothing: all there is is reported again.
Reconnect(d) ==
  /\ Trouble
  /\ bumped' = [bumped EXCEPT ![d] = TRUE]
  /\ known' = [known EXCEPT ![d] = NoKey]
  /\ UNCHANGED <<clock, local, server, work, sync, requests, inbox, calls, deleted, faults>>

\* The process dies and starts again: what was in memory only is lost, and a sync
\* that was queued comes back only if the first listing has the object.
Restart(d) ==
  /\ Trouble
  /\ mem' = [mem EXCEPT ![d] = file[d]]
  /\ queued' = [queued EXCEPT ![d] = FALSE] /\ heard' = [heard EXCEPT ![d] = FALSE]
  /\ sync' = [sync EXCEPT ![d] = Idle]
  /\ deleting' = [deleting EXCEPT ![d] = "idle"]
  /\ enabling' = [enabling EXCEPT ![d] = "idle"]
  /\ bumped' = [bumped EXCEPT ![d] = TRUE] /\ known' = [known EXCEPT ![d] = NoKey]
  /\ inbox' = [inbox EXCEPT ![d] = {}]
  /\ Fault((IF file[d] # mem[d] THEN {"stale"} ELSE {})
           \cup (IF object = NoObject THEN {"forgotten"} ELSE {}))
  /\ UNCHANGED <<clock, file, server, calls, deleted>>

(***************************************************************************)
(* The loop of a device.                                                   *)
(***************************************************************************)
\* Items are received one by one, between two ticks.
Receive(d, item) ==
  /\ sync[d].pc = "idle" /\ item \in inbox[d]
  /\ IF item = "object"
     THEN queued' = [queued EXCEPT ![d] = TRUE] /\ UNCHANGED heard
     ELSE heard' = [heard EXCEPT ![d] = TRUE] /\ UNCHANGED queued
  /\ inbox' = [inbox EXCEPT ![d] = @ \ {item}]
  /\ UNCHANGED <<clock, local, server, sync, requests, bumped, known, calls, troubles, deleted, faults>>

\* Mutant: the copy stays when it was edited since.
ApplyTombstoneToOlder(d) ==
  /\ sync[d].pc = "idle" /\ heard[d]
  /\ heard' = [heard EXCEPT ![d] = FALSE]
  /\ queued' = [queued EXCEPT ![d] = FALSE]
  /\ IF mem[d].on /\ mem[d].at < tombstone THEN Saved(d, Nothing) ELSE UNCHANGED local
  /\ UNCHANGED <<clock, server, sync, requests, feed, calls, troubles, deleted,
                 faults>>

\* process_pending_tombstones: drop the queued sync, delete a copy that syncs.
ApplyTombstone(d) ==
  /\ sync[d].pc = "idle" /\ heard[d]
  /\ heard' = [heard EXCEPT ![d] = FALSE]
  /\ queued' = [queued EXCEPT ![d] = FALSE]
  /\ IF mem[d].on THEN Saved(d, Nothing) ELSE UNCHANGED local
  /\ UNCHANGED <<clock, server, sync, requests, feed, calls, troubles, deleted,
                 faults>>

Goto(d, pc, copy) ==
  sync' = [sync EXCEPT ![d] = IF pc = "idle" THEN Idle ELSE [pc |-> pc, copy |-> copy]]

\* A request of a sync fails: it is reported and not queued again.
SyncFails(d) ==
  /\ sync[d].pc \in {"tombstone", "object", "presign", "put", "get"}
  /\ Goto(d, "idle", Nothing)
  /\ Fails("failed")
  /\ UNCHANGED <<clock, local, server, work, requests, feed, calls, deleted>>

\* sync_proxy reads the copy first, whatever its switch says.
SyncBegins(d) ==
  /\ sync[d].pc = "idle" /\ queued[d] /\ ~heard[d]
  /\ queued' = [queued EXCEPT ![d] = FALSE]
  /\ Goto(d, "tombstone", mem[d])
  /\ UNCHANGED <<clock, local, server, heard, requests, feed, calls, troubles,
                 deleted, faults>>

TombstoneOutranksLocal(copy) == tombstone # 0 /\ tombstone >= copy.at

TombstoneBlocks(d) ==
  /\ sync[d].pc = "tombstone"
  /\ IF TombstoneOutranksLocal(sync[d].copy)
     THEN Goto(d, "idle", Nothing)
     ELSE Goto(d, "object", sync[d].copy)
  /\ UNCHANGED <<clock, local, server, work, requests, feed, calls, troubles,
                 deleted, faults>>

\* Mutant: what is there on both sides is always downloaded.
RemoteWins(copy) ==
  IF object = NoObject
  THEN IF copy = Nothing THEN "idle" ELSE "presign"
  ELSE IF object.copy.at = copy.at THEN "idle" ELSE "get"

\* Last writer wins; an object beats no copy, a copy beats no object.
Reconciled(copy) ==
  CASE copy.at > object.copy.at -> "presign"
    [] object.copy.at > copy.at -> "get"
    [] OTHER -> "idle"

StatObject(d) ==
  /\ sync[d].pc = "object"
  /\ Goto(d, Reconciled(sync[d].copy), sync[d].copy)
  /\ UNCHANGED <<clock, local, server, work, requests, feed, calls, troubles,
                 deleted, faults>>

\* presign_upload bumps the manifest before the object is there.
PresignUpload(d) ==
  /\ sync[d].pc = "presign"
  /\ Goto(d, "put", sync[d].copy)
  /\ BumpManifest
  /\ UNCHANGED <<clock, local, server, work, requests, known, inbox, calls, troubles, deleted, faults>>

PutObject(d) ==
  /\ sync[d].pc = "put"
  /\ object' = [copy |-> sync[d].copy, written |-> clock]
  /\ Fault(SameSecond("object"))
  /\ Goto(d, "writeFile", sync[d].copy)
  /\ UNCHANGED <<clock, local, tombstone, work, requests, feed, calls, troubles,
                 deleted>>

\* upload_proxy writes what it uploaded to the file, not what is in memory by now.
WriteFile(d) ==
  /\ sync[d].pc = "writeFile"
  /\ file' = [file EXCEPT ![d] = sync[d].copy]
  /\ Goto(d, "idle", Nothing)
  /\ UNCHANGED <<clock, mem, server, work, requests, feed, calls, troubles,
                 deleted, faults>>

\* An object that is gone by now is an error.  History: it may also be older by now
\* than the copy it is to replace, if a slow upload of another device went over it.
GetObject(d) ==
  /\ sync[d].pc = "get"
  /\ IF object = NoObject THEN Goto(d, "idle", Nothing) ELSE Goto(d, "save", object.copy)
  /\ Fault(IF object.copy.at < sync[d].copy.at THEN {"older"} ELSE {})
  /\ UNCHANGED <<clock, local, server, work, requests, feed, calls, troubles, deleted>>

\* download_proxy replaces the file and the copy in memory, whatever they are by now.
DownloadSaves(d) ==
  /\ sync[d].pc = "save"
  /\ Saved(d, sync[d].copy)
  /\ Goto(d, "idle", Nothing)
  /\ UNCHANGED <<clock, server, work, requests, feed, calls, troubles, deleted, faults>>

LoopStep(d) ==
  \/ \E item \in Items : Receive(d, item)
  \/ ApplyTombstone(d) \/ SyncBegins(d) \/ TombstoneBlocks(d)
  \/ StatObject(d) \/ PresignUpload(d) \/ PutObject(d) \/ WriteFile(d)
  \/ GetObject(d) \/ DownloadSaves(d)
RequestStep(d) ==
  \/ DeleteObject(d) \/ PutTombstone(d) \/ ClearTombstone(d) \/ EnablingQueues(d)
UserStep(d) == Edit(d) \/ Delete(d) \/ SetSyncEnabled(d)
Mishap(d) == PollOvertaken(d) \/ Reconnect(d) \/ Restart(d) \/ SyncFails(d)

Next ==
  \/ Tick
  \/ \E d \in Devices : UserStep(d) \/ RequestStep(d) \/ LoopStep(d) \/ Poll(d) \/ Mishap(d)

Spec == Init /\ [][Next]_vars

(***************************************************************************)
(* Properties.                                                             *)
(***************************************************************************)
\* The loop of d has nothing left to do, and what its user asked for is done.
Settled(d) ==
  /\ sync[d].pc = "idle" /\ ~queued[d] /\ ~heard[d]
  /\ deleting[d] = "idle" /\ enabling[d] = "idle"
  /\ ~bumped[d] /\ inbox[d] = {}

\* The times of the copies there are.
Held == {mem[d].at : d \in Devices} \cup {object.copy.at}

\* "Resolve by user-edit timestamp (last-write-wins)": as long as nobody deletes
\* the entity, the newest edit that some device or the server holds is not lost to
\* an older one, unless it was made while its device was about to download or a
\* restart brought back the file an upload had left (sync_proxy).
NewestKept ==
  [][\/ deleted'
     \/ faults' \cap {"meanwhile", "stale"} # {}
     \/ \A t \in Held : \E u \in Held' : u >= t]_vars

\* The last listing for d is not what is there: an upload was announced before it
\* was done, and nothing was written since.
Unannounced(d) == ~bumped[d] /\ known[d] # Listing

\* When everything has settled, all devices hold copies of the same time, unless
\* the entity was deleted, some copy does not sync, a sync failed or was forgotten at
\* a restart, or the feed missed a write (sync_proxy, subscribe).
SettledAgree ==
  (\A d \in Devices : Settled(d)) =>
    \/ \A d, e \in Devices : mem[d].at = mem[e].at
    \/ deleted \/ \E d \in Devices : mem[d] # Nothing /\ ~mem[d].on
    \/ \E d \in Devices : Unannounced(d)
    \/ faults \cap {"failed", "overtaken", "sameSecond", "forgotten"} # {}

\* A device that has settled holds no copy older than the tombstone, unless it does
\* not sync it, could not clear the tombstone when it switched the sync on, a report
\* of the feed was lost, or the object was rewritten between stat and download: a
\* device that was away when the entity was deleted is told when it connects
\* (process_pending_tombstones).
SettledDeleted ==
  \A d \in Devices :
    Settled(d) /\ mem[d].on /\ tombstone >= mem[d].at =>
      faults \cap {"overtaken", "sameSecond", "uncleared", "older"} # {}

\* "An id that was ever deleted could otherwise never be uploaded again": switching
\* the sync of a kept copy on again clears the tombstone, and a device that syncs
\* the entity is told of a deletion only while there is one.
ToldOfDeletions ==
  [][\A d \in Devices :
       mem[d].on /\ ~heard[d] /\ "tombstone" \in inbox'[d] \ inbox[d] => tombstone # 0]_vars
===============================================================================
