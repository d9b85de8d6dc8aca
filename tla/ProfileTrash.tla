----------------------------- MODULE ProfileTrash -----------------------------
(***************************************************************************)
(* What becomes of a profile that is deleted (profile/trash.rs, and        *)
(* remove_profile of profile/manager.rs): its directory moves to the trash *)
(* and back, file operation by file operation under TRASH_MUTATION, while  *)
(* the expiry sweep runs, other tasks save the profile as they read it     *)
(* before, and the cloud is told of a deletion, of which this device hears *)
(* in turn.                                                                *)
(*                                                                         *)
(* A directory is the set of what matters in it.  "data" are the files the *)
(* profile had when it was deleted; what a browser may write into a        *)
(* directory without them is left out, and so are other devices.           *)
(***************************************************************************)
EXTENDS Naturals

CONSTANTS
  Hands,         \* calls of the user and the API, and the sweep
  NoHand,        \* nobody holds TRASH_MUTATION
  MaxRemovals,   \* bound: deletions of the profile that begin
  MaxBreaks      \* bound: I/O errors and crashes

ASSUME TrashAssumption == NoHand \notin Hands /\ MaxRemovals \in Nat /\ MaxBreaks \in Nat

VARIABLES
  live,       \* profiles/<id>
  entry,      \* trash/<id>
  expired,    \* the time in the entry's manifest.json is up
  mutating,   \* TRASH_MUTATION
  hand,       \* where each call is
  saver,      \* a task that has read the profile, with its sync mode, and will save it
  synced,     \* the profile's sync is enabled
  objects,    \* the server has files of the profile
  tombstone,  \* and a tombstone of it
  deleting,   \* the remote deletion a call will ask for, or has left running
  told,       \* pending_tombstones holds the profile
  removals, breaks,  \* counters of the bounds
  wanted,     \* history: the user has not given the data up for good
  excused      \* history: what happened that TrashKeeps is not about

trashCloud == <<synced, objects, tombstone, deleting, told>>
trashBounds == <<removals, breaks>>
trashVars == <<live, entry, expired, mutating, hand, saver, trashCloud, trashBounds, wanted,
               excused>>

TrashInit ==
  /\ live = {"metadata", "data"} /\ entry = {} /\ expired = FALSE
  /\ mutating = NoHand
  /\ hand = [c \in Hands |-> "idle"]
  /\ saver = "none"
  /\ synced \in BOOLEAN /\ objects = synced /\ tombstone = FALSE
  /\ deleting = [c \in Hands |-> "none"] /\ told = FALSE
  /\ removals = 0 /\ breaks = 0
  /\ wanted = TRUE /\ excused = {}

HandGoes(c, step) == hand' = [hand EXCEPT ![c] = step]
HandAt(c, step) == hand[c] = step
Locks(c) == mutating = NoHand /\ mutating' = c
Unlocks(c) == mutating' = IF mutating = c THEN NoHand ELSE mutating
Listed == "metadata" \in live
Readable == {"profile", "manifest"} \subseteq entry
Excused(condition, why) == excused' = IF condition THEN excused \cup {why} ELSE excused

(***************************************************************************)
(* Deletion: remove_profile, trash_profile.                                *)
(***************************************************************************)
\* find_profile looks before the lock is taken, for the sync mode too.
FindProfile(c) ==
  /\ HandAt(c, "idle") /\ deleting[c] = "none" /\ removals < MaxRemovals
  /\ Listed
  /\ removals' = removals + 1
  /\ deleting' = IF synced THEN [deleting EXCEPT ![c] = "asked"] ELSE deleting
  /\ HandGoes(c, "found")
  /\ UNCHANGED <<live, entry, expired, mutating, saver, synced, objects, tombstone, told,
                 breaks, wanted, excused>>

\* engine.delete_profile is left to a task of its own.
TellsCloud(c) ==
  deleting' = [deleting EXCEPT ![c] = IF @ = "asked" THEN "objects" ELSE @]

RemovePermanently(c) ==
  /\ HandAt(c, "found")
  /\ live' = {}
  /\ wanted' = (wanted /\ "data" \notin live)
  /\ TellsCloud(c)
  /\ HandGoes(c, "idle")
  /\ UNCHANGED <<entry, expired, mutating, saver, synced, objects, tombstone, told,
                 trashBounds, excused>>

LockTrash(c) ==
  /\ HandAt(c, "found") /\ Locks(c)
  /\ Excused(~Listed, "twice")
  /\ HandGoes(c, "drop")
  /\ UNCHANGED <<live, entry, expired, saver, trashCloud, trashBounds, wanted>>

\* An older entry under the same id is dropped, whatever there is to put in its place.
DropOlder(c) ==
  /\ HandAt(c, "drop")
  /\ entry' = {}
  /\ HandGoes(c, "move")
  /\ UNCHANGED <<live, expired, mutating, saver, trashCloud, trashBounds, wanted, excused>>

\* move_dir: a rename; where that fails, a copy and then the removal of the source.
MoveToTrash(c) ==
  /\ HandAt(c, "move")
  /\ entry' = live
  /\ \/ live' = {} /\ HandGoes(c, "describe")
     \/ UNCHANGED live /\ HandGoes(c, "copied")
  /\ UNCHANGED <<expired, mutating, saver, trashCloud, trashBounds, wanted, excused>>
RemoveSource(c) ==
  /\ HandAt(c, "copied")
  /\ live' = {} /\ HandGoes(c, "describe")
  /\ UNCHANGED <<entry, expired, mutating, saver, trashCloud, trashBounds, wanted, excused>>

\* profile.json in the place of metadata.json, and manifest.json last.
DescribeEntry(c) ==
  /\ HandAt(c, "describe")
  /\ entry' = (entry \ {"metadata"}) \cup {"profile"}
  /\ HandGoes(c, "stamp")
  /\ UNCHANGED <<live, expired, mutating, saver, trashCloud, trashBounds, wanted, excused>>
StampEntry(c) ==
  /\ HandAt(c, "stamp")
  /\ entry' = entry \cup {"manifest"} /\ expired' = FALSE
  /\ TellsCloud(c)
  /\ HandGoes(c, "idle") /\ Unlocks(c)
  /\ UNCHANGED <<live, saver, synced, objects, tombstone, told, trashBounds, wanted, excused>>

(***************************************************************************)
(* Restoration.                                                            *)
(***************************************************************************)
LockRestore(c) ==
  /\ HandAt(c, "idle") /\ deleting[c] = "none"
  /\ entry # {} /\ Locks(c)
  /\ HandGoes(c, "read")
  /\ UNCHANGED <<live, entry, expired, saver, trashCloud, trashBounds, wanted, excused>>

\* The entry must be readable, and no live profile bear its id.
ReadEntry(c) ==
  /\ HandAt(c, "read")
  /\ IF Readable /\ ~Listed THEN HandGoes(c, "clear") /\ UNCHANGED mutating
                                ELSE HandGoes(c, "idle") /\ Unlocks(c)
  /\ UNCHANGED <<live, entry, expired, saver, trashCloud, trashBounds, wanted, excused>>

\* What is left at the place it goes back to is taken for garbage.
ClearStale(c) ==
  /\ HandAt(c, "clear")
  /\ live' = {}
  /\ HandGoes(c, "moveBack")
  /\ UNCHANGED <<entry, expired, mutating, saver, trashCloud, trashBounds, wanted, excused>>
MoveBack(c) ==
  /\ HandAt(c, "moveBack")
  /\ live' = live \cup entry
  /\ \/ live = {} /\ entry' = {} /\ HandGoes(c, "register")
     \/ UNCHANGED entry /\ HandGoes(c, "copiedBack")
  /\ UNCHANGED <<expired, mutating, saver, trashCloud, trashBounds, wanted, excused>>
RemoveEntry(c) ==
  /\ HandAt(c, "copiedBack")
  /\ entry' = {} /\ HandGoes(c, "register")
  /\ UNCHANGED <<live, expired, mutating, saver, trashCloud, trashBounds, wanted, excused>>
Register(c) ==
  /\ HandAt(c, "register")
  /\ live' = (live \ {"profile", "manifest"}) \cup {"metadata"}
  /\ HandGoes(c, IF synced THEN "enable" ELSE "idle") /\ Unlocks(c)
  /\ UNCHANGED <<entry, expired, saver, trashCloud, trashBounds, wanted, excused>>

\* set_profile_sync_mode; if it refuses, the profile is saved with its sync switched off.
EnableSync(c) ==
  /\ HandAt(c, "enable")
  /\ live' = live \cup {"metadata"}
  /\ Excused(~Listed, "revived")
  /\ \/ Listed /\ HandGoes(c, "untomb") /\ UNCHANGED synced
     \/ synced' = FALSE /\ HandGoes(c, "idle")
  /\ UNCHANGED <<entry, expired, mutating, saver, objects, tombstone, deleting, told,
                 trashBounds, wanted>>

\* The tombstone is deleted, and the profile is uploaded again later.  The feed reports
\* any change of a tombstone as a deletion.
ClearRemoteTombstone(c) ==
  /\ HandAt(c, "untomb")
  /\ \/ tombstone' = FALSE /\ told' = (told \/ tombstone) /\ UNCHANGED breaks
     \/ breaks < MaxBreaks /\ breaks' = breaks + 1 /\ UNCHANGED <<tombstone, told>>
  /\ objects' = TRUE
  /\ HandGoes(c, "idle")
  /\ UNCHANGED <<live, entry, expired, mutating, saver, synced, deleting, removals, wanted,
                 excused>>

(***************************************************************************)
(* The end of an entry.                                                    *)
(***************************************************************************)
TimeIsUp ==
  /\ "manifest" \in entry /\ ~expired
  /\ expired' = TRUE
  /\ UNCHANGED <<live, entry, mutating, hand, saver, trashCloud, trashBounds, wanted, excused>>

GivesUp(condition) == wanted' = (wanted /\ ~(condition /\ "data" \in entry))

\* purge_entry, for one entry or for all that are listed.
PurgeEntry ==
  /\ entry # {} /\ mutating = NoHand
  /\ entry' = {}
  /\ GivesUp(TRUE)
  /\ UNCHANGED <<live, expired, mutating, hand, saver, trashCloud, trashBounds, excused>>

\* Mutant: the sweep lists the entries before it takes the lock.
SweepListsUnlocked(c) ==
  /\ HandAt(c, "idle") /\ mutating = NoHand
  /\ Readable /\ expired
  /\ HandGoes(c, "doomed")
  /\ UNCHANGED <<live, entry, expired, mutating, saver, trashCloud, trashBounds, wanted,
                 excused>>

\* purge_expired: what is listed with its time up, and then its removal.
SweepLists(c) ==
  /\ HandAt(c, "idle") /\ Locks(c)
  /\ Readable /\ expired
  /\ HandGoes(c, "doomed")
  /\ UNCHANGED <<live, entry, expired, saver, trashCloud, trashBounds, wanted, excused>>
SweepPurges(c) ==
  /\ HandAt(c, "doomed")
  /\ entry' = {}
  /\ GivesUp(expired)
  /\ HandGoes(c, "idle") /\ Unlocks(c)
  /\ UNCHANGED <<live, expired, saver, trashCloud, trashBounds, excused>>

(***************************************************************************)
(* Those who know nothing of the trash.                                    *)
(***************************************************************************)
\* A sync, a stop or another task works with the profile as it was, and saves it at its
\* end: save_profile makes the directory if there is none.
ReadProfile ==
  /\ saver = "none" /\ Listed
  /\ saver' = IF synced THEN "synced" ELSE "local"
  /\ UNCHANGED <<live, entry, expired, mutating, hand, trashCloud, trashBounds, wanted, excused>>
SaveProfile ==
  /\ saver # "none"
  /\ saver' = "none"
  /\ live' = live \cup {"metadata"} /\ synced' = (saver = "synced")
  /\ Excused(~Listed, "revived")
  /\ UNCHANGED <<entry, expired, mutating, hand, objects, tombstone, deleting, told,
                 trashBounds, wanted>>

\* deletePrefix: the objects, and a tombstone if there were any.
DeleteObjects(c) ==
  /\ deleting[c] = "objects"
  /\ deleting' = [deleting EXCEPT ![c] = IF objects THEN "tombstone" ELSE "none"]
  /\ objects' = FALSE
  /\ UNCHANGED <<live, entry, expired, mutating, hand, saver, synced, tombstone, told,
                 trashBounds, wanted, excused>>
PutTombstone(c) ==
  /\ deleting[c] = "tombstone"
  /\ deleting' = [deleting EXCEPT ![c] = "none"]
  /\ tombstone' = TRUE /\ told' = TRUE
  /\ UNCHANGED <<live, entry, expired, mutating, hand, saver, synced, objects, trashBounds,
                 wanted, excused>>

\* A report of the feed, or at a start of the sync the tombstone itself: a profile that
\* syncs is deleted, and not into the trash.
DeleteLocalOnly ==
  /\ told \/ tombstone
  /\ told' = FALSE
  /\ live' = IF Listed /\ synced THEN {} ELSE live
  /\ Excused(Listed /\ synced /\ "data" \in live, "told")
  /\ UNCHANGED <<entry, expired, mutating, hand, saver, synced, objects, tombstone, deleting,
                 trashBounds, wanted>>

(***************************************************************************)
(* Errors and crashes.                                                     *)
(***************************************************************************)
\* A file operation of the call fails, and the call with it.  A removal that fails may
\* have removed a part.
FailHalfway(c) ==
  /\ breaks < MaxBreaks /\ breaks' = breaks + 1
  /\ \/ hand[c] \in {"copied", "clear"} /\ live' \in SUBSET live /\ UNCHANGED entry
     \/ hand[c] \in {"drop", "copiedBack"} /\ entry' \in SUBSET entry /\ UNCHANGED live
     \/ /\ hand[c] \in {"move", "moveBack", "describe", "stamp", "register"}
        /\ UNCHANGED <<live, entry>>
  /\ Excused(hand[c] \in {"copied", "copiedBack", "describe", "stamp", "register"}, "brokenOff")
  /\ deleting' = [deleting EXCEPT ![c] = "none"]
  /\ HandGoes(c, "idle") /\ Unlocks(c)
  /\ UNCHANGED <<expired, saver, synced, objects, tombstone, told, removals, wanted>>

\* The application ends, and starts again.
RestartTrash ==
  /\ breaks < MaxBreaks /\ breaks' = breaks + 1
  /\ Excused(\E c \in Hands : hand[c] \in {"copied", "copiedBack", "describe", "stamp",
                                         "register"}, "brokenOff")
  /\ hand' = [c \in Hands |-> "idle"] /\ mutating' = NoHand /\ saver' = "none"
  /\ deleting' = [c \in Hands |-> "none"] /\ told' = FALSE
  /\ UNCHANGED <<live, entry, expired, synced, objects, tombstone, removals, wanted>>

TrashNext ==
  \/ \E c \in Hands :
       \/ FindProfile(c) \/ RemovePermanently(c)
       \/ LockTrash(c) \/ DropOlder(c) \/ MoveToTrash(c) \/ RemoveSource(c)
       \/ DescribeEntry(c) \/ StampEntry(c)
       \/ LockRestore(c) \/ ReadEntry(c) \/ ClearStale(c) \/ MoveBack(c) \/ RemoveEntry(c)
       \/ Register(c) \/ EnableSync(c) \/ ClearRemoteTombstone(c)
       \/ SweepLists(c) \/ SweepPurges(c)
       \/ DeleteObjects(c) \/ PutTombstone(c)
       \/ FailHalfway(c)
  \/ TimeIsUp \/ PurgeEntry \/ ReadProfile \/ SaveProfile \/ DeleteLocalOnly
  \/ RestartTrash

TrashSpec == TrashInit /\ [][TrashNext]_trashVars

(***************************************************************************)
(* Properties.                                                             *)
(***************************************************************************)
Intact == Listed /\ "data" \in live
Restorable == Readable /\ "data" \in entry

\* Between two calls, a profile whose data the user has neither deleted for good nor
\* purged nor let expire is in use or can be restored ("an accidental delete of a
\* profile that carries logins can be undone"), whoever deletes, restores and sweeps at
\* once.  Four things in the code break this, and "excused" names them: two deletions
\* find the profile before either takes the lock; a task saves a profile that is not
\* there any more; the tombstone of a deletion is applied to the restored profile; a call
\* breaks off between two of its file operations.
TrashKeeps == excused = {} /\ wanted /\ mutating = NoHand => Intact \/ Restorable
===============================================================================
