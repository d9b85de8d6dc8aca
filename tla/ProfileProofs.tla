----------------------------- MODULE ProfileProofs -----------------------------
(***************************************************************************)
(* What holds of the trash and of the sync of a profile's files, for any   *)
(* number of hands, devices, files, edits, mishaps and seconds.            *)
(***************************************************************************)
EXTENDS ProfileFiles, ProfileTrash, WellFoundedInduction, TLAPS

(***************************************************************************)
(* Types.                                                                  *)
(***************************************************************************)
Pieces == {"metadata", "data", "profile", "manifest"}
\* The steps of a call that holds TRASH_MUTATION.
Inside == {"drop", "move", "copied", "describe", "stamp", "read", "clear", "moveBack",
           "copiedBack", "register", "doomed"}

TrashTypeOK ==
  /\ live \subseteq Pieces /\ entry \subseteq Pieces
  /\ expired \in BOOLEAN /\ mutating \in Hands \cup {NoHand}
  /\ hand \in [Hands -> Inside \cup {"idle", "found", "enable", "untomb"}]
  /\ saver \in {"none", "local", "synced"}
  /\ synced \in BOOLEAN /\ objects \in BOOLEAN /\ tombstone \in BOOLEAN /\ told \in BOOLEAN
  /\ deleting \in [Hands -> {"none", "asked", "objects", "tombstone"}]
  /\ removals \in 0 .. MaxRemovals /\ breaks \in 0 .. MaxBreaks
  /\ wanted \in BOOLEAN /\ excused \subseteq {"twice", "revived", "told", "brokenOff"}

USE TrashAssumption
USE DEF trashCloud, trashBounds, HandGoes, HandAt, Locks, Unlocks, Excused, Inside

LEMMA TrashTypeStep ==
  ASSUME TrashTypeOK, [TrashNext]_trashVars
  PROVE  TrashTypeOK'
<1> USE DEF TrashTypeOK, Pieces, TellsCloud, GivesUp
<1>1. ASSUME NEW c \in Hands, FindProfile(c) PROVE TrashTypeOK'
  BY <1>1 DEF FindProfile
<1>2. ASSUME NEW c \in Hands, RemovePermanently(c) PROVE TrashTypeOK'
  BY <1>2 DEF RemovePermanently
<1>3. ASSUME NEW c \in Hands, LockTrash(c) PROVE TrashTypeOK'
  BY <1>3 DEF LockTrash
<1>4. ASSUME NEW c \in Hands, DropOlder(c) PROVE TrashTypeOK'
  BY <1>4 DEF DropOlder
<1>5. ASSUME NEW c \in Hands, MoveToTrash(c) PROVE TrashTypeOK'
  BY <1>5 DEF MoveToTrash
<1>6. ASSUME NEW c \in Hands, RemoveSource(c) PROVE TrashTypeOK'
  BY <1>6 DEF RemoveSource
<1>7. ASSUME NEW c \in Hands, DescribeEntry(c) PROVE TrashTypeOK'
  BY <1>7 DEF DescribeEntry
<1>8. ASSUME NEW c \in Hands, StampEntry(c) PROVE TrashTypeOK'
  BY <1>8 DEF StampEntry
<1>9. ASSUME NEW c \in Hands, LockRestore(c) PROVE TrashTypeOK'
  BY <1>9 DEF LockRestore
<1>10. ASSUME NEW c \in Hands, ReadEntry(c) PROVE TrashTypeOK'
  BY <1>10 DEF ReadEntry
<1>11. ASSUME NEW c \in Hands, ClearStale(c) PROVE TrashTypeOK'
  BY <1>11 DEF ClearStale
<1>12. ASSUME NEW c \in Hands, MoveBack(c) PROVE TrashTypeOK'
  BY <1>12 DEF MoveBack
<1>13. ASSUME NEW c \in Hands, RemoveEntry(c) PROVE TrashTypeOK'
  BY <1>13 DEF RemoveEntry
<1>14. ASSUME NEW c \in Hands, Register(c) PROVE TrashTypeOK'
  BY <1>14 DEF Register
<1>15. ASSUME NEW c \in Hands, EnableSync(c) PROVE TrashTypeOK'
  BY <1>15 DEF EnableSync
<1>16. ASSUME NEW c \in Hands, ClearRemoteTombstone(c) PROVE TrashTypeOK'
  <2>1. breaks' \in 0 .. MaxBreaks
    BY <1>16 DEF ClearRemoteTombstone
  <2>2. tombstone' \in BOOLEAN /\ told' \in BOOLEAN /\ objects' \in BOOLEAN
    BY <1>16 DEF ClearRemoteTombstone
  <2>3. hand' \in [Hands -> Inside \cup {"idle", "found", "enable", "untomb"}]
    BY <1>16 DEF ClearRemoteTombstone
  <2> QED BY <1>16, <2>1, <2>2, <2>3 DEF ClearRemoteTombstone
<1>17. ASSUME NEW c \in Hands, SweepLists(c) PROVE TrashTypeOK'
  BY <1>17 DEF SweepLists
<1>18. ASSUME NEW c \in Hands, SweepPurges(c) PROVE TrashTypeOK'
  BY <1>18 DEF SweepPurges
<1>19. ASSUME NEW c \in Hands, DeleteObjects(c) PROVE TrashTypeOK'
  BY <1>19 DEF DeleteObjects
<1>20. ASSUME NEW c \in Hands, PutTombstone(c) PROVE TrashTypeOK'
  BY <1>20 DEF PutTombstone
<1>21. ASSUME NEW c \in Hands, FailHalfway(c) PROVE TrashTypeOK'
  <2>1. breaks' \in 0 .. MaxBreaks
    BY <1>21 DEF FailHalfway
  <2>2. live' \subseteq Pieces /\ entry' \subseteq Pieces
    BY <1>21 DEF FailHalfway
  <2>3. hand' \in [Hands -> Inside \cup {"idle", "found", "enable", "untomb"}]
    BY <1>21 DEF FailHalfway
  <2>4. excused' \subseteq {"twice", "revived", "told", "brokenOff"}
    BY <1>21 DEF FailHalfway
  <2>5. mutating' \in Hands \cup {NoHand}
    BY <1>21 DEF FailHalfway
  <2>6. deleting' \in [Hands -> {"none", "asked", "objects", "tombstone"}]
    BY <1>21 DEF FailHalfway
  <2> QED BY <1>21, <2>1, <2>2, <2>3, <2>4, <2>5, <2>6 DEF FailHalfway
<1>22. CASE TimeIsUp BY <1>22 DEF TimeIsUp
<1>23. CASE PurgeEntry BY <1>23 DEF PurgeEntry
<1>24. CASE ReadProfile BY <1>24 DEF ReadProfile
<1>25. CASE SaveProfile BY <1>25 DEF SaveProfile
<1>26. CASE DeleteLocalOnly BY <1>26 DEF DeleteLocalOnly
<1>27. CASE RestartTrash
  <2>1. breaks' \in 0 .. MaxBreaks
    BY <1>27 DEF RestartTrash
  <2>2. hand' \in [Hands -> Inside \cup {"idle", "found", "enable", "untomb"}]
    BY <1>27 DEF RestartTrash
  <2>3. deleting' \in [Hands -> {"none", "asked", "objects", "tombstone"}]
    BY <1>27 DEF RestartTrash
  <2>4. excused' \subseteq {"twice", "revived", "told", "brokenOff"}
    BY <1>27 DEF RestartTrash
  <2> QED BY <1>27, <2>1, <2>2, <2>3, <2>4 DEF RestartTrash
<1>28. CASE UNCHANGED trashVars BY <1>28 DEF trashVars
<1> QED BY <1>1, <1>2, <1>3, <1>4, <1>5, <1>6, <1>7, <1>8, <1>9, <1>10, <1>11, <1>12,
           <1>13, <1>14, <1>15, <1>16, <1>17, <1>18, <1>19, <1>20, <1>21, <1>22, <1>23,
           <1>24, <1>25, <1>26, <1>27, <1>28 DEF TrashNext

\* The pieces of a profile and of its entry in the trash, the calls and the cloud's side of
\* a deletion are what TrashProofs takes them for.
THEOREM TrashTypes == TrashSpec => []TrashTypeOK
<1>1. ASSUME TrashInit PROVE TrashTypeOK
  <2> USE <1>1 DEF TrashInit, TrashTypeOK, Pieces
  <2>1. /\ synced \in BOOLEAN /\ objects \in BOOLEAN /\ tombstone \in BOOLEAN
        /\ told \in BOOLEAN /\ wanted \in BOOLEAN /\ expired \in BOOLEAN
    OBVIOUS
  <2>2. hand \in [Hands -> Inside \cup {"idle", "found", "enable", "untomb"}]
    OBVIOUS
  <2>3. deleting \in [Hands -> {"none", "asked", "objects", "tombstone"}]
    OBVIOUS
  <2>4. removals \in 0 .. MaxRemovals /\ breaks \in 0 .. MaxBreaks
    OBVIOUS
  <2> QED BY <2>1, <2>2, <2>3, <2>4
<1> QED BY <1>1, TrashTypeStep, PTL DEF TrashSpec

(***************************************************************************)
(* The lock.                                                               *)
(***************************************************************************)
\* A call is inside exactly when it holds TRASH_MUTATION.
LockIsHeld == \A c \in Hands : hand[c] \in Inside <=> mutating = c
\* What the sweep is about to remove has its time up: nobody stamps it anew meanwhile.
DoomedIsExpired == \A c \in Hands : HandAt(c, "doomed") => expired
HeldInv == LockIsHeld /\ DoomedIsExpired

LEMMA HeldStep ==
  ASSUME TrashTypeOK, HeldInv, [TrashNext]_trashVars
  PROVE  HeldInv'
<1> USE DEF TrashTypeOK, HeldInv, LockIsHeld, DoomedIsExpired
<1>1. ASSUME NEW c \in Hands, FindProfile(c) PROVE HeldInv'
  BY <1>1 DEF FindProfile
<1>2. ASSUME NEW c \in Hands, RemovePermanently(c) PROVE HeldInv'
  BY <1>2 DEF RemovePermanently
<1>3. ASSUME NEW c \in Hands, LockTrash(c) PROVE HeldInv'
  BY <1>3 DEF LockTrash
<1>4. ASSUME NEW c \in Hands, DropOlder(c) PROVE HeldInv'
  BY <1>4 DEF DropOlder
<1>5. ASSUME NEW c \in Hands, MoveToTrash(c) PROVE HeldInv'
  BY <1>5 DEF MoveToTrash
<1>6. ASSUME NEW c \in Hands, RemoveSource(c) PROVE HeldInv'
  BY <1>6 DEF RemoveSource
<1>7. ASSUME NEW c \in Hands, DescribeEntry(c) PROVE HeldInv'
  BY <1>7 DEF DescribeEntry
<1>8. ASSUME NEW c \in Hands, StampEntry(c) PROVE HeldInv'
  BY <1>8 DEF StampEntry
<1>9. ASSUME NEW c \in Hands, LockRestore(c) PROVE HeldInv'
  BY <1>9 DEF LockRestore
<1>10. ASSUME NEW c \in Hands, ReadEntry(c) PROVE HeldInv'
  BY <1>10 DEF ReadEntry
<1>11. ASSUME NEW c \in Hands, ClearStale(c) PROVE HeldInv'
  BY <1>11 DEF ClearStale
<1>12. ASSUME NEW c \in Hands, MoveBack(c) PROVE HeldInv'
  BY <1>12 DEF MoveBack
<1>13. ASSUME NEW c \in Hands, RemoveEntry(c) PROVE HeldInv'
  BY <1>13 DEF RemoveEntry
<1>14. ASSUME NEW c \in Hands, Register(c) PROVE HeldInv'
  BY <1>14 DEF Register
<1>15. ASSUME NEW c \in Hands, EnableSync(c) PROVE HeldInv'
  BY <1>15 DEF EnableSync
<1>16. ASSUME NEW c \in Hands, ClearRemoteTombstone(c) PROVE HeldInv'
  BY <1>16 DEF ClearRemoteTombstone
<1>17. ASSUME NEW c \in Hands, SweepLists(c) PROVE HeldInv'
  BY <1>17 DEF SweepLists
<1>18. ASSUME NEW c \in Hands, SweepPurges(c) PROVE HeldInv'
  BY <1>18 DEF SweepPurges
<1>19. ASSUME NEW c \in Hands, DeleteObjects(c) PROVE HeldInv'
  BY <1>19 DEF DeleteObjects
<1>20. ASSUME NEW c \in Hands, PutTombstone(c) PROVE HeldInv'
  BY <1>20 DEF PutTombstone
<1>21. ASSUME NEW c \in Hands, FailHalfway(c) PROVE HeldInv'
  BY <1>21 DEF FailHalfway
<1>22. CASE TimeIsUp BY <1>22 DEF TimeIsUp
<1>23. CASE PurgeEntry BY <1>23 DEF PurgeEntry
<1>24. CASE ReadProfile BY <1>24 DEF ReadProfile
<1>25. CASE SaveProfile BY <1>25 DEF SaveProfile
<1>26. CASE DeleteLocalOnly BY <1>26 DEF DeleteLocalOnly
<1>27. CASE RestartTrash BY <1>27 DEF RestartTrash
<1>28. CASE UNCHANGED trashVars BY <1>28 DEF trashVars
<1> QED BY <1>1, <1>2, <1>3, <1>4, <1>5, <1>6, <1>7, <1>8, <1>9, <1>10, <1>11, <1>12,
           <1>13, <1>14, <1>15, <1>16, <1>17, <1>18, <1>19, <1>20, <1>21, <1>22, <1>23,
           <1>24, <1>25, <1>26, <1>27, <1>28 DEF TrashNext

(***************************************************************************)
(* The data.                                                               *)
(***************************************************************************)
Undisturbed == excused = {} /\ wanted
\* Where the data are while a call is between two of its file operations.
HandKeeps(c) ==
  /\ hand[c] \in {"drop", "move"} => Intact
  /\ hand[c] \in {"copied", "describe", "stamp"} => "data" \in entry
  /\ HandAt(c, "stamp") => "profile" \in entry
  /\ hand[c] \in {"read", "doomed"} => Intact \/ Restorable
  /\ hand[c] \in {"clear", "moveBack"} => Restorable /\ ~Listed
  /\ hand[c] \in {"copiedBack", "register"} => "data" \in live
\* A listed profile has its data: a directory with metadata alone is one that was revived.
ListedHasData == Listed => "data" \in live
KeepInv == Undisturbed => ListedHasData /\ TrashKeeps /\ \A c \in Hands : HandKeeps(c)

LEMMA KeepStep ==
  ASSUME TrashTypeOK, HeldInv, KeepInv, [TrashNext]_trashVars
  PROVE  KeepInv'
<1> USE DEF TrashTypeOK, HeldInv, LockIsHeld, DoomedIsExpired, KeepInv, Undisturbed, HandKeeps,
          ListedHasData, TrashKeeps, Intact, Restorable, Readable, Listed, GivesUp
<1>1. ASSUME NEW c \in Hands, FindProfile(c) PROVE KeepInv'
  BY <1>1 DEF FindProfile
<1>2. ASSUME NEW c \in Hands, RemovePermanently(c) PROVE KeepInv'
  BY <1>2 DEF RemovePermanently
<1>3. ASSUME NEW c \in Hands, LockTrash(c) PROVE KeepInv'
  BY <1>3 DEF LockTrash
<1>4. ASSUME NEW c \in Hands, DropOlder(c) PROVE KeepInv'
  BY <1>4 DEF DropOlder
<1>5. ASSUME NEW c \in Hands, MoveToTrash(c) PROVE KeepInv'
  BY <1>5 DEF MoveToTrash
<1>6. ASSUME NEW c \in Hands, RemoveSource(c) PROVE KeepInv'
  BY <1>6 DEF RemoveSource
<1>7. ASSUME NEW c \in Hands, DescribeEntry(c) PROVE KeepInv'
  BY <1>7 DEF DescribeEntry
<1>8. ASSUME NEW c \in Hands, StampEntry(c) PROVE KeepInv'
  BY <1>8 DEF StampEntry
<1>9. ASSUME NEW c \in Hands, LockRestore(c) PROVE KeepInv'
  BY <1>9 DEF LockRestore
<1>10. ASSUME NEW c \in Hands, ReadEntry(c) PROVE KeepInv'
  BY <1>10 DEF ReadEntry
<1>11. ASSUME NEW c \in Hands, ClearStale(c) PROVE KeepInv'
  BY <1>11 DEF ClearStale
<1>12. ASSUME NEW c \in Hands, MoveBack(c) PROVE KeepInv'
  BY <1>12 DEF MoveBack
<1>13. ASSUME NEW c \in Hands, RemoveEntry(c) PROVE KeepInv'
  BY <1>13 DEF RemoveEntry
<1>14. ASSUME NEW c \in Hands, Register(c) PROVE KeepInv'
  BY <1>14 DEF Register
<1>15. ASSUME NEW c \in Hands, EnableSync(c) PROVE KeepInv'
  BY <1>15 DEF EnableSync
<1>16. ASSUME NEW c \in Hands, ClearRemoteTombstone(c) PROVE KeepInv'
  BY <1>16 DEF ClearRemoteTombstone
<1>17. ASSUME NEW c \in Hands, SweepLists(c) PROVE KeepInv'
  BY <1>17 DEF SweepLists
<1>18. ASSUME NEW c \in Hands, SweepPurges(c) PROVE KeepInv'
  BY <1>18 DEF SweepPurges
<1>19. ASSUME NEW c \in Hands, DeleteObjects(c) PROVE KeepInv'
  BY <1>19 DEF DeleteObjects
<1>20. ASSUME NEW c \in Hands, PutTombstone(c) PROVE KeepInv'
  BY <1>20 DEF PutTombstone
<1>21. ASSUME NEW c \in Hands, FailHalfway(c) PROVE KeepInv'
  BY <1>21 DEF FailHalfway
<1>22. CASE TimeIsUp BY <1>22 DEF TimeIsUp
<1>23. CASE PurgeEntry BY <1>23 DEF PurgeEntry
<1>24. CASE ReadProfile BY <1>24 DEF ReadProfile
<1>25. CASE SaveProfile BY <1>25 DEF SaveProfile
<1>26. CASE DeleteLocalOnly BY <1>26 DEF DeleteLocalOnly
<1>27. CASE RestartTrash BY <1>27 DEF RestartTrash
<1>28. CASE UNCHANGED trashVars BY <1>28 DEF trashVars
<1> QED BY <1>1, <1>2, <1>3, <1>4, <1>5, <1>6, <1>7, <1>8, <1>9, <1>10, <1>11, <1>12,
           <1>13, <1>14, <1>15, <1>16, <1>17, <1>18, <1>19, <1>20, <1>21, <1>22, <1>23,
           <1>24, <1>25, <1>26, <1>27, <1>28 DEF TrashNext

THEOREM TrashStands == TrashSpec => [](HeldInv /\ KeepInv)
<1>1. ASSUME TrashInit PROVE HeldInv /\ KeepInv
  BY <1>1 DEF TrashInit, HeldInv, LockIsHeld, DoomedIsExpired, KeepInv, ListedHasData,
     HandKeeps, TrashKeeps, Intact, Restorable, Listed
<1> QED BY <1>1, HeldStep, KeepStep, TrashTypes, PTL DEF TrashSpec

\* A profile whose data the user has not given up for good is in use or can be restored
\* between any two calls (trash.rs: "an accidental delete of a profile that carries logins
\* can be undone"), for any number of calls, deletions, I/O errors and crashes.
THEOREM DeletedIsRestorable == TrashSpec => []TrashKeeps
<1>1. HeldInv /\ KeepInv => TrashKeeps
  BY DEF KeepInv, Undisturbed, TrashKeeps
<1> QED BY <1>1, TrashStands, PTL

USE PathAssumption, BiasAssumption, FilesBoundAssumption
USE DEF filesBounds, filesLocal, filesServer, filesHistory

(***************************************************************************)
(* The operators of the scan and the comparison.                           *)
(***************************************************************************)
\* A nonempty set of seconds has a last one.
LEMMA LatestExists ==
  ASSUME NEW n \in Nat, NEW S \in SUBSET (0 .. n), S # {}
  PROVE  \E m \in S : \A x \in S : m >= x
<1> DEFINE left == {n - x : x \in S}
<1>1. \A x \in S : x \in Nat /\ n - x \in Nat
  OBVIOUS
<1>2. left \subseteq Nat
  BY <1>1
<1>3. left # {}
  OBVIOUS
<1>4. PICK least \in left : \A y \in left : <<y, least>> \notin OpToRel(<, Nat)
  <2> HIDE DEF left
  <2> QED BY <1>2, <1>3, NatLessThanWellFounded, WFMin
<1>5. \A y \in left : ~(y < least)
  BY <1>2, <1>4 DEF OpToRel
<1>6. PICK m \in S : least = n - m
  OBVIOUS
<1>7. \A x \in S : n - x \in left
  OBVIOUS
<1> QED
  <2> HIDE DEF left
  <2> QED BY <1>5, <1>6, <1>7

LEMMA MaxIsLatest ==
  ASSUME NEW n \in Nat, NEW S \in SUBSET (0 .. n), S # {}
  PROVE  Max(S) \in S /\ \A x \in S : Max(S) >= x
BY LatestExists DEF Max

Snapshots == [Paths -> [what : Contents, at : Seconds]]
Syncs == [step : {"idle", "compare", "transfer", "publish"},
          bias : {"auto", "preferRemote", "reencrypt"}, dir : Directions, hash : Files,
          updated : Seconds, todo : SUBSET Paths, done : SUBSET Paths, drop : SUBSET Paths,
          moves : BOOLEAN, saved : BOOLEAN, failed : BOOLEAN, cancelled : BOOLEAN]

\* A scan is no older than any file it finds.
LEMMA ScanIsLatest ==
  ASSUME NEW files \in Snapshots, clock \in Seconds
  PROVE  /\ ScanUpdated(files) \in Seconds
         /\ \A p \in Paths : files[p].what # Absent => files[p].at <= ScanUpdated(files)
<1> DEFINE times == {files[p].at : p \in Present(files)}
<1>1. times \subseteq Seconds
  BY DEF Snapshots, Present
<1>2. CASE Present(files) = {}
  BY <1>2 DEF ScanUpdated, Present
<1>3. CASE Present(files) # {}
  <2>1. times # {}
    BY <1>3
  <2>2. Max(times) \in times /\ \A t \in times : Max(times) >= t
    <3> HIDE DEF times
    <3> QED BY <1>1, <2>1, MaxIsLatest DEF Seconds
  <2>3. ScanUpdated(files) = Max(times)
    BY <1>3 DEF ScanUpdated
  <2>4. \A p \in Paths : files[p].what # Absent => files[p].at \in times
    BY DEF Present
  <2>5. Max(times) \in Seconds
    BY <1>1, <2>2
  <2> QED
    <3> HIDE DEF times
    <3> QED BY <1>1, <2>2, <2>3, <2>4, <2>5 DEF Seconds
<1> QED BY <1>2, <1>3

LEMMA ScanTypes ==
  ASSUME NEW files \in Snapshots, NEW cached \in Snapshots
  PROVE  ScanHash(files, cached) \in Files /\ ScanCache(files, cached) \in Snapshots
<1>1. ScanHash(files, cached) \in Files
  BY DEF ScanHash, Files, Snapshots
<1> QED BY <1>1 DEF ScanCache, Files, Snapshots

\* A scan that misreads nothing finds what is there.
LEMMA ScanIsTrue ==
  ASSUME NEW files, NEW cached, ~Misread(files, cached), NEW p \in Paths
  PROVE  ScanHash(files, cached)[p] = files[p].what
BY DEF Misread

LEMMA DiffTypes ==
  ASSUME NEW sync
  PROVE  /\ Diff(sync).dir \in Directions
         /\ Diff(sync).move \in SUBSET Paths /\ Diff(sync).drop \in SUBSET Paths
BY DEF Diff, Named, Directions

LEMMA NoManifestTypes ==
  /\ NoManifest.hash \in Files /\ NoManifest.updated = MaxClock + 1
  /\ \A p \in Paths : NoManifest.hash[p] = Absent
BY DEF NoManifest, Files, Contents, Absent

LEMMA NoSyncType == NoSync \in Syncs
BY NoManifestTypes DEF NoSync, Syncs, Directions, Seconds

BoundsOK == clock \in Seconds /\ edits \in 0 .. MaxEdits /\ mishaps \in 0 .. MaxMishaps
CopiesOK == disk \in [Installs -> Snapshots] /\ cache \in [Installs -> Snapshots]
ServerOK == stored \in Files /\ manifest \in Manifests \cup {NoManifest}
ResumeOK == resume \in [Installs -> [dir : Directions \cup {"none"}, done : SUBSET Paths]]
SyncsOK == syncing \in [Installs -> Syncs]
HistoryOK ==
  /\ newest \in Files /\ unsent \subseteq Installs /\ cut \subseteq Installs
  /\ excuses \subseteq {"apart", "caughtUp", "edited", "overwritten", "overlapped", "resumed",
                        "skipped", "torn", "cut", "forced", "sameSecond", "looksNewer"}

LEMMA FilesTypeParts ==
  FilesTypeOK <=> BoundsOK /\ CopiesOK /\ ServerOK /\ ResumeOK /\ SyncsOK /\ HistoryOK
BY DEF FilesTypeOK, BoundsOK, CopiesOK, ServerOK, ResumeOK, SyncsOK, HistoryOK, Snapshots, Syncs

\* A file is a member of its snapshot.
LEMMA SnapshotFacts ==
  ASSUME NEW files \in Snapshots, NEW p \in Paths
  PROVE  /\ files[p].what \in Contents /\ files[p].at \in Seconds
         /\ \A what \in Contents, at \in Seconds :
              [files EXCEPT ![p] = [what |-> what, at |-> at]] \in Snapshots
BY DEF Snapshots

LEMMA AbsentIsContent == Absent \in Contents /\ 0 \in Seconds
BY DEF Absent, Contents, Seconds

\* What the steps make of a sync.
LEMMA SyncUpdates ==
  ASSUME NEW s \in Syncs, NEW ps \in SUBSET Paths, NEW qs \in SUBSET Paths, NEW b \in BOOLEAN
  PROVE  /\ [s EXCEPT !.cancelled = TRUE] \in Syncs
         /\ [s EXCEPT !.step = "publish"] \in Syncs
         /\ [s EXCEPT !.drop = ps] \in Syncs
         /\ [s EXCEPT !.todo = ps, !.failed = b] \in Syncs
         /\ [s EXCEPT !.todo = ps, !.done = qs, !.saved = TRUE] \in Syncs
BY DEF Syncs

LEMMA SyncBecomes ==
  ASSUME SyncsOK, NEW d \in Installs, NEW s \in Syncs, syncing' = [syncing EXCEPT ![d] = s]
  PROVE  SyncsOK'
BY DEF SyncsOK

LEMMA MovedSync ==
  ASSUME SyncsOK, NEW d \in Installs, NEW p \in Paths, Moved(d, p)
  PROVE  syncing' = [syncing EXCEPT ![d] =
           [syncing[d] EXCEPT !.todo = @ \ {p}, !.done = @ \cup {p}, !.saved = TRUE]]
BY DEF SyncsOK, Moved

LEMMA NotMovedSync ==
  ASSUME SyncsOK, NEW d \in Installs, NEW p \in Paths, NotMoved(d, p)
  PROVE  syncing' = [syncing EXCEPT ![d] =
           [syncing[d] EXCEPT !.todo = syncing[d].todo \ {p},
                               !.failed = syncing[d].failed \/ p \in CriticalPaths]]
BY DEF SyncsOK, NotMoved

LEMMA TransferTypes ==
  ASSUME SyncsOK, NEW d \in Installs, NEW p \in Paths, Moved(d, p) \/ NotMoved(d, p)
  PROVE  SyncsOK'
<1> DEFINE s == syncing[d]
<1>1. s \in Syncs
  BY DEF SyncsOK
<1>2. s.todo \in SUBSET Paths /\ s.done \in SUBSET Paths /\ s.failed \in BOOLEAN
  BY <1>1 DEF Syncs
<1>3. CASE Moved(d, p)
  <2>1. [s EXCEPT !.todo = s.todo \ {p}, !.done = s.done \cup {p}, !.saved = TRUE] \in Syncs
    BY <1>1, <1>2, SyncUpdates
  <2> QED BY <1>3, <2>1, MovedSync, SyncBecomes
<1>4. CASE NotMoved(d, p)
  <2> DEFINE passed == [s EXCEPT !.todo = s.todo \ {p},
                                 !.failed = s.failed \/ p \in CriticalPaths]
  <2>1. passed \in Syncs
    <3>1. (s.failed \/ p \in CriticalPaths) \in BOOLEAN
      OBVIOUS
    <3> QED BY <1>1, <1>2, <3>1, SyncUpdates
  <2>2. syncing' = [syncing EXCEPT ![d] = passed]
    BY <1>4, NotMovedSync
  <2> HIDE DEF passed
  <2> QED BY <2>1, <2>2, SyncBecomes
<1> QED BY <1>3, <1>4

\* What the steps make of a device's files.
LEMMA CopyBecomes ==
  ASSUME NEW f \in [Installs -> Snapshots], NEW d \in Installs, NEW files \in Snapshots
  PROVE  [f EXCEPT ![d] = files] \in [Installs -> Snapshots]
OBVIOUS

LEMMA BoundsStep ==
  ASSUME BoundsOK, [FilesNext]_filesVars
  PROVE  BoundsOK'
<1> USE DEF BoundsOK, Mishap, Seconds
<1>1. CASE FilesTick BY <1>1 DEF FilesTick
<1>2. ASSUME NEW d \in Installs, NEW p \in Paths, NEW removed \in BOOLEAN,
            EditFile(d, p, removed)
     PROVE BoundsOK'
  BY <1>2 DEF EditFile
<1>3. ASSUME NEW d \in Installs, NEW p \in Paths, UploadFile(d, p) PROVE BoundsOK'
  BY <1>3 DEF UploadFile
<1>4. ASSUME NEW d \in Installs, NEW p \in Paths, DownloadFile(d, p) PROVE BoundsOK'
  BY <1>4 DEF DownloadFile
<1>5. ASSUME NEW d \in Installs, NEW p \in Paths, TransferFails(d, p) PROVE BoundsOK'
  BY <1>5 DEF TransferFails
<1>6. ASSUME NEW d \in Installs, NEW p \in Paths, DropRemote(d, p) PROVE BoundsOK'
  BY <1>6 DEF DropRemote
<1>7. ASSUME NEW d \in Installs, LoseFiles(d) PROVE BoundsOK'
  BY <1>7 DEF LoseFiles
<1>8. ASSUME NEW d \in Installs, EndTransfer(d) PROVE BoundsOK'
  BY <1>8 DEF EndTransfer
<1>9. ASSUME NEW d \in Installs, PutManifest(d) PROVE BoundsOK'
  BY <1>9 DEF PutManifest
<1>10. ASSUME NEW d \in Installs, CancelSync(d) PROVE BoundsOK'
  BY <1>10 DEF CancelSync
<1>11. ASSUME NEW d \in Installs, BreakOff(d) PROVE BoundsOK'
  BY <1>11 DEF BreakOff
<1>12. ASSUME NEW d \in Installs, NEW bias \in Biases, BeginSync(d, bias) PROVE BoundsOK'
  BY <1>12 DEF BeginSync
<1>13. ASSUME NEW d \in Installs, NEW valid \in BOOLEAN, CompareManifests(d, valid) PROVE BoundsOK'
  BY <1>13 DEF CompareManifests
<1>14. CASE UNCHANGED filesVars BY <1>14 DEF filesVars, filesBounds, filesLocal, filesServer,
          filesHistory
<1> QED BY <1>1, <1>2, <1>3, <1>4, <1>5, <1>6, <1>7, <1>8, <1>9, <1>10, <1>11, <1>12, <1>13,
          <1>14 DEF FilesNext

LEMMA CopiesStep ==
  ASSUME BoundsOK, CopiesOK, ServerOK, [FilesNext]_filesVars
  PROVE  CopiesOK'
<1> USE DEF CopiesOK, Snapshots, BoundsOK, ServerOK, Files, Contents, Seconds, Absent
<1>1. CASE FilesTick BY <1>1 DEF FilesTick
<1>2. ASSUME NEW d \in Installs, NEW p \in Paths, NEW removed \in BOOLEAN,
            EditFile(d, p, removed)
     PROVE CopiesOK'
  BY <1>2 DEF EditFile
<1>3. ASSUME NEW d \in Installs, NEW p \in Paths, UploadFile(d, p) PROVE CopiesOK'
  BY <1>3 DEF UploadFile
<1>4. ASSUME NEW d \in Installs, NEW p \in Paths, DownloadFile(d, p) PROVE CopiesOK'
  <2>1. CASE stored[p] # Absent
    <3>1. stored[p] \in 0 .. MaxEdits
      OBVIOUS
    <3>2. disk' = [disk EXCEPT ![d] = [disk[d] EXCEPT ![p] = [what |-> stored[p], at |-> clock]]]
      BY <1>4, <2>1 DEF DownloadFile
    <3> QED BY <1>4, <3>1, <3>2 DEF DownloadFile
  <2>2. CASE stored[p] = Absent
    BY <1>4, <2>2 DEF DownloadFile
  <2> QED BY <2>1, <2>2
<1>5. ASSUME NEW d \in Installs, NEW p \in Paths, TransferFails(d, p) PROVE CopiesOK'
  BY <1>5 DEF TransferFails
<1>6. ASSUME NEW d \in Installs, NEW p \in Paths, DropRemote(d, p) PROVE CopiesOK'
  BY <1>6 DEF DropRemote
<1>7. ASSUME NEW d \in Installs, LoseFiles(d) PROVE CopiesOK'
  BY <1>7 DEF LoseFiles
<1>8. ASSUME NEW d \in Installs, EndTransfer(d) PROVE CopiesOK'
  <2> DEFINE kept == [p \in Paths |-> IF p \in syncing[d].drop THEN [what |-> Absent, at |-> 0]
                                      ELSE disk[d][p]]
  <2>1. kept \in Snapshots
    OBVIOUS
  <2>2. CASE UNCHANGED <<disk, cache>>
    BY <2>2
  <2>3. CASE /\ disk' = [disk EXCEPT ![d] = kept]
             /\ cache' = [cache EXCEPT ![d] = ScanCache(kept, cache[d])]
    <3> HIDE DEF Snapshots, kept
    <3>1. ScanCache(kept, cache[d]) \in Snapshots
      BY <2>1, ScanTypes
    <3> QED BY <2>1, <2>3, <3>1, CopyBecomes
  <2> QED BY <1>8, <2>2, <2>3 DEF EndTransfer
<1>9. ASSUME NEW d \in Installs, PutManifest(d) PROVE CopiesOK'
  BY <1>9 DEF PutManifest
<1>10. ASSUME NEW d \in Installs, CancelSync(d) PROVE CopiesOK'
  BY <1>10 DEF CancelSync
<1>11. ASSUME NEW d \in Installs, BreakOff(d) PROVE CopiesOK'
  BY <1>11 DEF BreakOff
<1>12. ASSUME NEW d \in Installs, NEW bias \in Biases, BeginSync(d, bias) PROVE CopiesOK'
  <2> HIDE DEF Snapshots
  <2>1. ScanCache(disk[d], cache[d]) \in Snapshots
    BY ScanTypes
  <2> QED BY <1>12, <2>1, CopyBecomes DEF BeginSync
<1>13. ASSUME NEW d \in Installs, NEW valid \in BOOLEAN, CompareManifests(d, valid) PROVE CopiesOK'
  BY <1>13 DEF CompareManifests
<1>14. CASE UNCHANGED filesVars BY <1>14 DEF filesVars, filesBounds, filesLocal, filesServer,
          filesHistory
<1> QED BY <1>1, <1>2, <1>3, <1>4, <1>5, <1>6, <1>7, <1>8, <1>9, <1>10, <1>11, <1>12, <1>13,
          <1>14 DEF FilesNext

LEMMA ServerStep ==
  ASSUME CopiesOK, ServerOK, SyncsOK, [FilesNext]_filesVars
  PROVE  ServerOK'
<1> USE DEF ServerOK, CopiesOK, Snapshots, SyncsOK, Syncs, Manifests, Files, Contents, Absent
<1>1. CASE FilesTick BY <1>1 DEF FilesTick
<1>2. ASSUME NEW d \in Installs, NEW p \in Paths, NEW removed \in BOOLEAN,
            EditFile(d, p, removed)
     PROVE ServerOK'
  BY <1>2 DEF EditFile
<1>3. ASSUME NEW d \in Installs, NEW p \in Paths, UploadFile(d, p) PROVE ServerOK'
  <2>1. disk[d][p].what \in 0 .. MaxEdits
    OBVIOUS
  <2> QED BY <1>3, <2>1 DEF UploadFile
<1>4. ASSUME NEW d \in Installs, NEW p \in Paths, DownloadFile(d, p) PROVE ServerOK'
  BY <1>4 DEF DownloadFile
<1>5. ASSUME NEW d \in Installs, NEW p \in Paths, TransferFails(d, p) PROVE ServerOK'
  BY <1>5 DEF TransferFails
<1>6. ASSUME NEW d \in Installs, NEW p \in Paths, DropRemote(d, p) PROVE ServerOK'
  <2>1. stored' = [stored EXCEPT ![p] = 0] \/ stored' = stored
    BY <1>6 DEF DropRemote
  <2>2. manifest' = manifest
    BY <1>6 DEF DropRemote
  <2> QED BY <2>1, <2>2
<1>7. ASSUME NEW d \in Installs, LoseFiles(d) PROVE ServerOK'
  BY <1>7 DEF LoseFiles
<1>8. ASSUME NEW d \in Installs, EndTransfer(d) PROVE ServerOK'
  BY <1>8 DEF EndTransfer
<1>9. ASSUME NEW d \in Installs, PutManifest(d) PROVE ServerOK'
  BY <1>9 DEF PutManifest
<1>10. ASSUME NEW d \in Installs, CancelSync(d) PROVE ServerOK'
  BY <1>10 DEF CancelSync
<1>11. ASSUME NEW d \in Installs, BreakOff(d) PROVE ServerOK'
  BY <1>11 DEF BreakOff
<1>12. ASSUME NEW d \in Installs, NEW bias \in Biases, BeginSync(d, bias) PROVE ServerOK'
  BY <1>12 DEF BeginSync
<1>13. ASSUME NEW d \in Installs, NEW valid \in BOOLEAN, CompareManifests(d, valid) PROVE ServerOK'
  BY <1>13 DEF CompareManifests
<1>14. CASE UNCHANGED filesVars BY <1>14 DEF filesVars, filesBounds, filesLocal, filesServer,
          filesHistory
<1> QED BY <1>1, <1>2, <1>3, <1>4, <1>5, <1>6, <1>7, <1>8, <1>9, <1>10, <1>11, <1>12, <1>13,
          <1>14 DEF FilesNext

LEMMA ResumeStep ==
  ASSUME ResumeOK, SyncsOK, [FilesNext]_filesVars
  PROVE  ResumeOK'
<1> USE DEF ResumeOK, SyncsOK, Syncs, NoResume, Moved, NotMoved
<1>1. CASE FilesTick BY <1>1 DEF FilesTick
<1>2. ASSUME NEW d \in Installs, NEW p \in Paths, NEW removed \in BOOLEAN,
            EditFile(d, p, removed)
     PROVE ResumeOK'
  BY <1>2 DEF EditFile
<1>3. ASSUME NEW d \in Installs, NEW p \in Paths, UploadFile(d, p) PROVE ResumeOK'
  BY <1>3 DEF UploadFile
<1>4. ASSUME NEW d \in Installs, NEW p \in Paths, DownloadFile(d, p) PROVE ResumeOK'
  BY <1>4 DEF DownloadFile
<1>5. ASSUME NEW d \in Installs, NEW p \in Paths, TransferFails(d, p) PROVE ResumeOK'
  BY <1>5 DEF TransferFails
<1>6. ASSUME NEW d \in Installs, NEW p \in Paths, DropRemote(d, p) PROVE ResumeOK'
  BY <1>6 DEF DropRemote
<1>7. ASSUME NEW d \in Installs, LoseFiles(d) PROVE ResumeOK'
  BY <1>7 DEF LoseFiles
<1>8. ASSUME NEW d \in Installs, EndTransfer(d) PROVE ResumeOK'
  BY <1>8 DEF EndTransfer
<1>9. ASSUME NEW d \in Installs, PutManifest(d) PROVE ResumeOK'
  BY <1>9 DEF PutManifest
<1>10. ASSUME NEW d \in Installs, CancelSync(d) PROVE ResumeOK'
  BY <1>10 DEF CancelSync
<1>11. ASSUME NEW d \in Installs, BreakOff(d) PROVE ResumeOK'
  BY <1>11 DEF BreakOff
<1>12. ASSUME NEW d \in Installs, NEW bias \in Biases, BeginSync(d, bias) PROVE ResumeOK'
  BY <1>12 DEF BeginSync
<1>13. ASSUME NEW d \in Installs, NEW valid \in BOOLEAN, CompareManifests(d, valid) PROVE ResumeOK'
  BY <1>13 DEF CompareManifests
<1>14. CASE UNCHANGED filesVars BY <1>14 DEF filesVars, filesBounds, filesLocal, filesServer,
          filesHistory
<1> QED BY <1>1, <1>2, <1>3, <1>4, <1>5, <1>6, <1>7, <1>8, <1>9, <1>10, <1>11, <1>12, <1>13,
          <1>14 DEF FilesNext

LEMMA SyncsStep ==
  ASSUME BoundsOK, CopiesOK, ResumeOK, SyncsOK, [FilesNext]_filesVars
  PROVE  SyncsOK'
<1> USE DEF SyncEnds, Interrupted
<1>1. CASE FilesTick
  BY <1>1 DEF FilesTick, SyncsOK
<1>2. ASSUME NEW d \in Installs, NEW p \in Paths, NEW removed \in BOOLEAN,
            EditFile(d, p, removed)
     PROVE SyncsOK'
  BY <1>2 DEF EditFile, SyncsOK
<1>3. ASSUME NEW d \in Installs, NEW p \in Paths, UploadFile(d, p) PROVE SyncsOK'
  BY <1>3, TransferTypes DEF UploadFile
<1>4. ASSUME NEW d \in Installs, NEW p \in Paths, DownloadFile(d, p) PROVE SyncsOK'
  BY <1>4, TransferTypes DEF DownloadFile
<1>5. ASSUME NEW d \in Installs, NEW p \in Paths, TransferFails(d, p) PROVE SyncsOK'
  BY <1>5, TransferTypes DEF TransferFails
<1>6. ASSUME NEW d \in Installs, NEW p \in Paths, DropRemote(d, p) PROVE SyncsOK'
  <2>s. syncing[d] \in Syncs
    BY DEF SyncsOK
  <2>1. syncing' = [syncing EXCEPT ![d] = [syncing[d] EXCEPT !.drop = @ \ {p}]]
    BY <1>6 DEF DropRemote, SyncsOK
  <2>2. [syncing[d] EXCEPT !.drop = @ \ {p}] \in Syncs
    <3>1. syncing[d].drop \ {p} \in SUBSET Paths
      BY <2>s DEF Syncs
    <3> QED BY <2>s, <3>1, SyncUpdates
  <2> QED BY <2>1, <2>2, SyncBecomes
<1>7. ASSUME NEW d \in Installs, LoseFiles(d) PROVE SyncsOK'
  BY <1>7 DEF LoseFiles, SyncsOK
<1>8. ASSUME NEW d \in Installs, EndTransfer(d) PROVE SyncsOK'
  <2> DEFINE kept == [p \in Paths |-> IF p \in syncing[d].drop THEN [what |-> Absent, at |-> 0]
                                      ELSE disk[d][p]]
  <2>s. syncing[d] \in Syncs
    BY DEF SyncsOK
  <2>1. CASE SyncEnds(d)
    BY <2>1, NoSyncType, SyncBecomes
  <2>2. CASE syncing' = [syncing EXCEPT ![d].step = "publish"]
    <3>1. syncing' = [syncing EXCEPT ![d] = [syncing[d] EXCEPT !.step = "publish"]]
      BY <2>2 DEF SyncsOK
    <3> QED BY <2>s, <3>1, SyncUpdates, SyncBecomes
  <2>3. CASE syncing' = [syncing EXCEPT ![d].step = "publish", ![d].drop = {},
                   ![d].hash = ScanHash(kept, cache[d]), ![d].updated = ScanUpdated(kept)]
    <3>1. kept \in Snapshots
      BY AbsentIsContent, SnapshotFacts DEF CopiesOK, Snapshots
    <3> HIDE DEF kept
    <3>2. ScanHash(kept, cache[d]) \in Files /\ ScanUpdated(kept) \in Seconds
      BY <3>1, ScanTypes, ScanIsLatest DEF CopiesOK, BoundsOK
    <3>3. syncing' = [syncing EXCEPT ![d] = [syncing[d] EXCEPT !.step = "publish", !.drop = {},
                        !.hash = ScanHash(kept, cache[d]), !.updated = ScanUpdated(kept)]]
      BY <2>3 DEF SyncsOK
    <3>4. [syncing[d] EXCEPT !.step = "publish", !.drop = {},
             !.hash = ScanHash(kept, cache[d]), !.updated = ScanUpdated(kept)] \in Syncs
      BY <2>s, <3>2 DEF Syncs
    <3> QED BY <3>3, <3>4, SyncBecomes
  <2> QED BY <1>8, <2>1, <2>2, <2>3 DEF EndTransfer
<1>9. ASSUME NEW d \in Installs, PutManifest(d) PROVE SyncsOK'
  BY <1>9, NoSyncType, SyncBecomes DEF PutManifest
<1>10. ASSUME NEW d \in Installs, CancelSync(d) PROVE SyncsOK'
  <2>s. syncing[d] \in Syncs
    BY DEF SyncsOK
  <2>1. syncing' = [syncing EXCEPT ![d] = [syncing[d] EXCEPT !.cancelled = TRUE]]
    BY <1>10 DEF CancelSync, SyncsOK
  <2>2. [syncing[d] EXCEPT !.cancelled = TRUE] \in Syncs
    BY <2>s, SyncUpdates
  <2> QED BY <2>1, <2>2, SyncBecomes
<1>11. ASSUME NEW d \in Installs, BreakOff(d) PROVE SyncsOK'
  BY <1>11, NoSyncType, SyncBecomes DEF BreakOff
<1>12. ASSUME NEW d \in Installs, NEW bias \in Biases, BeginSync(d, bias) PROVE SyncsOK'
  <2>1. ScanHash(disk[d], cache[d]) \in Files /\ ScanUpdated(disk[d]) \in Seconds
    BY ScanTypes, ScanIsLatest DEF CopiesOK, BoundsOK
  <2>2. [NoSync EXCEPT !.step = "compare", !.bias = bias,
       !.hash = ScanHash(disk[d], cache[d]), !.updated = ScanUpdated(disk[d])] \in Syncs
    BY <2>1, NoSyncType DEF Syncs
  <2> QED BY <1>12, <2>2, SyncBecomes DEF BeginSync
<1>13. ASSUME NEW d \in Installs, NEW valid \in BOOLEAN, CompareManifests(d, valid) PROVE SyncsOK'
  <2> DEFINE sync == syncing[d]
             diff == Diff(sync)
             before == Before(d, diff.dir, valid)
             moving == [sync EXCEPT !.step = "transfer", !.dir = diff.dir,
                          !.todo = diff.move \ before, !.done = before, !.drop = diff.drop,
                          !.moves = diff.move \ before # {}]
  <2>1. syncing' = [syncing EXCEPT ![d] = NoSync] \/ syncing' = [syncing EXCEPT ![d] = moving]
    BY <1>13 DEF CompareManifests
  <2>2. moving \in Syncs
    <3>1. sync \in Syncs
      BY DEF SyncsOK
    <3>2. diff.dir \in Directions /\ diff.move \in SUBSET Paths /\ diff.drop \in SUBSET Paths
      BY DiffTypes
    <3>3. before \in SUBSET Paths
      BY DEF Before, ResumeOK
    <3>4. diff.move \ before \in SUBSET Paths /\ (diff.move \ before # {}) \in BOOLEAN
      BY <3>2
    <3> HIDE DEF sync, diff, before
    <3> QED BY <3>1, <3>2, <3>3, <3>4 DEF Syncs
  <2> HIDE DEF moving
  <2> QED BY <2>1, <2>2, NoSyncType, SyncBecomes
<1>14. CASE UNCHANGED filesVars BY <1>14 DEF SyncsOK, filesVars, filesBounds, filesLocal,
          filesServer, filesHistory
<1> QED BY <1>1, <1>2, <1>3, <1>4, <1>5, <1>6, <1>7, <1>8, <1>9, <1>10, <1>11, <1>12, <1>13,
          <1>14 DEF FilesNext

LEMMA HistoryStep ==
  ASSUME BoundsOK, HistoryOK, [FilesNext]_filesVars
  PROVE  HistoryOK'
<1> USE DEF HistoryOK, BoundsOK, Files, Contents, Absent, Excuse, When, Interrupted
<1>1. CASE FilesTick BY <1>1 DEF FilesTick
<1>2. ASSUME NEW d \in Installs, NEW p \in Paths, NEW removed \in BOOLEAN,
            EditFile(d, p, removed)
     PROVE HistoryOK'
  BY <1>2 DEF EditFile
<1>3. ASSUME NEW d \in Installs, NEW p \in Paths, UploadFile(d, p) PROVE HistoryOK'
  BY <1>3 DEF UploadFile
<1>4. ASSUME NEW d \in Installs, NEW p \in Paths, DownloadFile(d, p) PROVE HistoryOK'
  BY <1>4 DEF DownloadFile
<1>5. ASSUME NEW d \in Installs, NEW p \in Paths, TransferFails(d, p) PROVE HistoryOK'
  BY <1>5 DEF TransferFails
<1>6. ASSUME NEW d \in Installs, NEW p \in Paths, DropRemote(d, p) PROVE HistoryOK'
  BY <1>6 DEF DropRemote
<1>7. ASSUME NEW d \in Installs, LoseFiles(d) PROVE HistoryOK'
  BY <1>7 DEF LoseFiles
<1>8. ASSUME NEW d \in Installs, EndTransfer(d) PROVE HistoryOK'
  BY <1>8 DEF EndTransfer
<1>9. ASSUME NEW d \in Installs, PutManifest(d) PROVE HistoryOK'
  BY <1>9 DEF PutManifest
<1>10. ASSUME NEW d \in Installs, CancelSync(d) PROVE HistoryOK'
  BY <1>10 DEF CancelSync
<1>11. ASSUME NEW d \in Installs, BreakOff(d) PROVE HistoryOK'
  BY <1>11 DEF BreakOff
<1>12. ASSUME NEW d \in Installs, NEW bias \in Biases, BeginSync(d, bias) PROVE HistoryOK'
  BY <1>12 DEF BeginSync
<1>13. ASSUME NEW d \in Installs, NEW valid \in BOOLEAN, CompareManifests(d, valid) PROVE HistoryOK'
  BY <1>13 DEF CompareManifests
<1>14. CASE UNCHANGED filesVars BY <1>14 DEF filesVars, filesBounds, filesLocal, filesServer,
          filesHistory
<1> QED BY <1>1, <1>2, <1>3, <1>4, <1>5, <1>6, <1>7, <1>8, <1>9, <1>10, <1>11, <1>12, <1>13,
          <1>14 DEF FilesNext

\* Clock, files, manifests, resume files and syncs are what the module takes them for.
THEOREM FilesTypes == FilesSpec => []FilesTypeOK
<1>1. FilesInit => FilesTypeOK
  BY NoManifestTypes, NoSyncType DEF FilesInit, FilesTypeOK, Contents, Seconds, NoResume, Absent,
          Syncs
<1>2. FilesTypeOK /\ [FilesNext]_filesVars => FilesTypeOK'
  <2> SUFFICES ASSUME FilesTypeOK, [FilesNext]_filesVars PROVE FilesTypeOK'
    OBVIOUS
  <2>1. BoundsOK /\ CopiesOK /\ ServerOK /\ ResumeOK /\ SyncsOK /\ HistoryOK
    BY FilesTypeParts
  <2>2. (BoundsOK /\ CopiesOK /\ ServerOK /\ ResumeOK /\ SyncsOK /\ HistoryOK)'
    BY <2>1, BoundsStep, CopiesStep, ServerStep, ResumeStep, SyncsStep, HistoryStep
  <2> QED BY <2>2 DEF FilesTypeOK, BoundsOK, CopiesOK, ServerOK, ResumeOK, SyncsOK, HistoryOK,
                      Snapshots, Syncs
<1> QED BY <1>1, <1>2, PTL DEF FilesSpec

(***************************************************************************)
(* What the longer steps do.                                               *)
(***************************************************************************)
Others(d) == \A e \in Installs \ {d} : syncing'[e] = syncing[e]
SameCopies(d) == \A e \in Installs \ {d} : disk'[e] = disk[e]
\* The sync is about the same files as before.
SameTask(d) ==
  /\ syncing'[d].step = syncing[d].step /\ syncing'[d].dir = syncing[d].dir
  /\ syncing'[d].hash = syncing[d].hash /\ syncing'[d].updated = syncing[d].updated
  /\ syncing'[d].drop = syncing[d].drop /\ syncing'[d].bias = syncing[d].bias

LEMMA MovedOutcome ==
  ASSUME SyncsOK, NEW d \in Installs, NEW p \in Paths, Moved(d, p)
  PROVE  /\ Others(d) /\ SameTask(d) /\ syncing'[d].todo = syncing[d].todo \ {p}
         /\ syncing'[d].failed = syncing[d].failed /\ syncing'[d].saved = TRUE
<1> DEFINE moved == [syncing[d] EXCEPT !.todo = @ \ {p}, !.done = @ \cup {p}, !.saved = TRUE]
<1>1. syncing[d] \in Syncs
  BY DEF SyncsOK
<1>2. syncing' = [syncing EXCEPT ![d] = moved]
  BY MovedSync
<1>3. Others(d) /\ syncing'[d] = moved
  <2> HIDE DEF moved
  <2> QED BY <1>2 DEF SyncsOK, Others
<1>4. syncing'[d].todo = syncing[d].todo \ {p} /\ syncing'[d].saved = TRUE
  BY <1>1, <1>3 DEF Syncs
<1>5. SameTask(d) /\ syncing'[d].failed = syncing[d].failed
  BY <1>1, <1>3 DEF Syncs, SameTask
<1> QED BY <1>3, <1>4, <1>5

LEMMA NotMovedOutcome ==
  ASSUME SyncsOK, NEW d \in Installs, NEW p \in Paths, NotMoved(d, p)
  PROVE  /\ Others(d) /\ SameTask(d) /\ syncing'[d].todo = syncing[d].todo \ {p}
         /\ p \in CriticalPaths \/ syncing[d].failed => syncing'[d].failed
         /\ syncing'[d].saved = syncing[d].saved
<1>1. syncing[d] \in Syncs
  BY DEF SyncsOK
<1> DEFINE passed == [syncing[d] EXCEPT !.todo = syncing[d].todo \ {p},
                                !.failed = syncing[d].failed \/ p \in CriticalPaths]
<1>2. syncing' = [syncing EXCEPT ![d] = passed]
  BY NotMovedSync
<1>3. Others(d) /\ syncing'[d] = passed
  <2> HIDE DEF passed
  <2> QED BY <1>2 DEF SyncsOK, Others
<1>4. syncing'[d].todo = syncing[d].todo \ {p} /\ syncing'[d].saved = syncing[d].saved
  BY <1>1, <1>3 DEF Syncs
<1>5. p \in CriticalPaths \/ syncing[d].failed => syncing'[d].failed
  BY <1>1, <1>3 DEF Syncs
<1>6. SameTask(d)
  BY <1>1, <1>3 DEF Syncs, SameTask
<1> QED BY <1>3, <1>4, <1>5, <1>6

LEMMA NoSyncOutcome ==
  ASSUME SyncsOK, NEW d \in Installs, SyncEnds(d)
  PROVE  Others(d) /\ syncing'[d].step = "idle" /\ syncing'[d].bias = "auto"
BY DEF SyncsOK, SyncEnds, Others, NoSync

\* A scan that is not misled by two writes in one second.
Scanned(d) ==
  /\ "sameSecond" \notin excuses' => \A p \in Paths : syncing'[d].hash[p] = disk'[d][p].what
  /\ \A p \in Paths : disk'[d][p].what # Absent => disk'[d][p].at <= syncing'[d].updated

LEMMA BeginOutcome ==
  ASSUME BoundsOK, CopiesOK, SyncsOK, NEW d \in Installs, NEW bias \in Biases,
         BeginSync(d, bias)
  PROVE  /\ Step(d, "idle") /\ Others(d) /\ syncing'[d].step = "compare"
         /\ "forced" \notin excuses' => syncing'[d].bias = "auto"
         /\ Scanned(d)
<1>1. syncing'[d] = [NoSync EXCEPT !.step = "compare", !.bias = bias,
        !.hash = ScanHash(disk[d], cache[d]), !.updated = ScanUpdated(disk[d])]
  BY DEF BeginSync, SyncsOK
<1>2. /\ syncing'[d].step = "compare" /\ syncing'[d].bias = bias
      /\ syncing'[d].hash = ScanHash(disk[d], cache[d])
      /\ syncing'[d].updated = ScanUpdated(disk[d])
  BY <1>1 DEF NoSync
<1>3. Others(d) /\ disk' = disk
  BY DEF BeginSync, SyncsOK, Others
<1>4. disk[d] \in Snapshots
  BY DEF CopiesOK
<1>5. \A p \in Paths : disk[d][p].what # Absent => disk[d][p].at <= ScanUpdated(disk[d])
  BY <1>4, ScanIsLatest DEF BoundsOK
<1>6. "sameSecond" \notin excuses' => ~Misread(disk[d], cache[d])
  BY DEF BeginSync, Excuse, When
<1>7. "forced" \notin excuses' => bias = "auto"
  BY DEF BeginSync, Excuse, When
<1>8. Step(d, "idle")
  BY DEF BeginSync
<1>9. ASSUME "sameSecond" \notin excuses', NEW p \in Paths
      PROVE  syncing'[d].hash[p] = disk'[d][p].what
  BY <1>2, <1>3, <1>6, <1>9, ScanIsTrue
<1> QED BY <1>2, <1>3, <1>5, <1>7, <1>8, <1>9 DEF Scanned

UploadBegins(d) ==
  /\ syncing'[d].step = "transfer" /\ syncing'[d].dir = "upload"
  /\ syncing'[d].hash = syncing[d].hash /\ syncing'[d].updated = syncing[d].updated
  /\ syncing[d].bias = "auto" /\ "looksNewer" \notin excuses' => d \in unsent
  /\ \A p \in Paths :
       /\ syncing[d].hash[p] # Absent =>
            \/ p \in syncing'[d].todo
            \/ stored[p] = syncing[d].hash[p] \/ manifest.hash[p] = syncing[d].hash[p]
       /\ p \in syncing'[d].drop =>
            syncing[d].hash[p] = Absent /\ manifest.hash[p] # Absent /\ p \notin syncing'[d].todo
DownloadBegins(d) ==
  /\ syncing'[d].step = "transfer" /\ syncing'[d].dir = "download"
  /\ syncing'[d].hash = syncing[d].hash
  /\ manifest # NoManifest
  /\ syncing[d].bias = "auto" =>
       \/ \A p \in Paths : syncing[d].hash[p] = Absent
       \/ ~(syncing[d].updated > manifest.updated)
  /\ \A p \in Paths :
       /\ p \in syncing'[d].drop => manifest.hash[p] = Absent /\ syncing[d].hash[p] # Absent
       /\ p \in syncing'[d].todo =>
            manifest.hash[p] # Absent /\ syncing[d].hash[p] # manifest.hash[p]
       /\ p \notin syncing'[d].todo \cup syncing'[d].drop =>
            syncing[d].hash[p] = manifest.hash[p]

LEMMA CompareOutcome ==
  ASSUME SyncsOK, ResumeOK, NEW d \in Installs, NEW valid \in BOOLEAN, CompareManifests(d, valid),
         excuses' \cap {"resumed", "overlapped"} = {}
  PROVE  /\ Step(d, "compare") /\ Others(d)
         /\ \/ /\ syncing'[d] = NoSync
               /\ \A p \in Paths : syncing[d].hash[p] = manifest.hash[p]
               /\ unsent' = IF Holds(d, syncing[d].hash) THEN unsent \ {d} ELSE unsent
            \/ /\ UploadBegins(d) \/ DownloadBegins(d)
               /\ syncing'[d].bias = syncing[d].bias
               /\ \A e \in Installs \ {d} : syncing[e].step \notin {"transfer", "publish"}
               /\ unsent' = unsent
<1> DEFINE sync == syncing[d]
           diff == Diff(sync)
           nothing == diff.move = {} /\ diff.drop = {} /\ sync.bias # "reencrypt"
           before == Before(d, diff.dir, valid)
           moving == [sync EXCEPT !.step = "transfer", !.dir = diff.dir,
                        !.todo = diff.move \ before, !.done = before, !.drop = diff.drop,
                        !.moves = diff.move \ before # {}]
<1>1. syncing' = [syncing EXCEPT ![d] = IF nothing THEN NoSync ELSE moving]
  BY DEF CompareManifests
<1>2. Others(d) /\ syncing'[d] = IF nothing THEN NoSync ELSE moving
  <2> HIDE DEF nothing, moving
  <2> QED BY <1>1 DEF SyncsOK, Others
<1>3. Step(d, "compare")
  BY DEF CompareManifests
<1>4. unsent' = IF nothing /\ Holds(d, sync.hash) THEN unsent \ {d} ELSE unsent
  BY DEF CompareManifests
<1>5. /\ ~nothing => \A e \in Installs \ {d} : syncing[e].step \notin {"transfer", "publish"}
      /\ \A p \in diff.move \cap before : stored[p] = sync.hash[p] /\ diff.dir # "download"
      /\ "looksNewer" \notin excuses' =>
           nothing \/ diff.dir # "upload" \/ d \in unsent \/ Named(sync.hash) = {}
  BY DEF CompareManifests, Excuse, When
<1>6. sync \in Syncs /\ \A p \in Paths : NoManifest.hash[p] = Absent
  BY NoManifestTypes DEF SyncsOK
<1>7. CASE nothing
  <2>1. \A p \in Paths : sync.hash[p] = manifest.hash[p]
    BY <1>6, <1>7 DEF Diff, Named, Absent
  <2> QED BY <1>2, <1>3, <1>4, <1>7, <2>1
<1>8. CASE ~nothing
  <2>1. /\ syncing'[d].step = "transfer" /\ syncing'[d].dir = diff.dir
        /\ syncing'[d].hash = sync.hash /\ syncing'[d].updated = sync.updated
        /\ syncing'[d].todo = diff.move \ before /\ syncing'[d].drop = diff.drop
        /\ syncing'[d].bias = sync.bias
    <3> HIDE DEF diff, before, nothing
    <3> QED BY <1>2, <1>6, <1>8 DEF Syncs
  <2>2. CASE diff.dir = "upload"
    <3>1. \A p \in Paths :
            /\ sync.hash[p] # Absent => p \in diff.move \/ manifest.hash[p] = sync.hash[p]
            /\ p \in diff.drop =>
                 sync.hash[p] = Absent /\ manifest.hash[p] # Absent /\ p \notin diff.move
      BY <1>6, <2>2 DEF Diff, Named
    <3>4. ASSUME sync.bias = "auto", Named(sync.hash) = {}
          PROVE  nothing
      BY <1>6, <2>2, <3>4 DEF Diff, Named
    <3>2. UploadBegins(d)
      <4> HIDE DEF diff, before, nothing
      <4> QED BY <1>5, <1>8, <2>1, <2>2, <3>1, <3>4 DEF UploadBegins
    <3> QED BY <1>2, <1>3, <1>4, <1>5, <1>8, <2>1, <3>2
  <2>3. CASE diff.dir = "download"
    <3>1. manifest # NoManifest
      BY <2>3 DEF Diff
    <3>5. ASSUME sync.bias = "auto", ~ \A p \in Paths : sync.hash[p] = Absent
          PROVE  ~LocalIsNewer(sync)
      <4>1. Named(sync.hash) # {}
        BY <3>5 DEF Named
      <4> HIDE DEF sync
      <4> QED BY <2>3, <3>1, <3>5, <4>1 DEF Diff
    <3>6. sync.bias = "auto" =>
            \/ \A p \in Paths : sync.hash[p] = Absent
            \/ ~(sync.updated > manifest.updated)
      BY <3>5 DEF LocalIsNewer
    <3>2. \A p \in Paths :
            /\ p \in diff.drop => manifest.hash[p] = Absent /\ sync.hash[p] # Absent
            /\ p \in diff.move => manifest.hash[p] # Absent /\ sync.hash[p] # manifest.hash[p]
            /\ p \notin diff.move \cup diff.drop => sync.hash[p] = manifest.hash[p]
      BY <2>3 DEF Diff, Named
    <3>3. diff.move \cap before = {}
      <4> HIDE DEF diff, before, nothing
      <4> QED BY <1>5, <2>3
    <3>4. DownloadBegins(d)
      <4> HIDE DEF diff, before, nothing
      <4> QED BY <2>1, <2>3, <3>1, <3>2, <3>3, <3>6 DEF DownloadBegins
    <3> QED BY <1>2, <1>3, <1>4, <1>5, <1>8, <2>1, <3>4
  <2> QED BY <2>2, <2>3, DiffTypes DEF Directions
<1> QED BY <1>7, <1>8

TransferDone(d) ==
  /\ Step(d, "transfer") /\ syncing[d].todo = {} /\ ~syncing[d].failed
  /\ syncing'[d].step = "publish" /\ syncing'[d].dir = syncing[d].dir
  /\ syncing'[d].bias = syncing[d].bias /\ syncing'[d].todo = {}
  /\ cut' = cut
UploadDone(d) ==
  /\ TransferDone(d) /\ syncing[d].dir = "upload" /\ disk' = disk
  /\ syncing'[d].hash = syncing[d].hash /\ syncing'[d].updated = syncing[d].updated
  /\ syncing'[d].drop = syncing[d].drop
DownloadDone(d) ==
  /\ TransferDone(d) /\ syncing[d].dir = "download" /\ syncing'[d].drop = {}
  /\ SameCopies(d) /\ Scanned(d)
  /\ \A p \in Paths : IF p \in syncing[d].drop THEN disk'[d][p].what = Absent
                                               ELSE disk'[d][p] = disk[d][p]

LEMMA EndOutcome ==
  ASSUME BoundsOK, CopiesOK, SyncsOK, NEW d \in Installs, EndTransfer(d)
  PROVE  /\ Others(d)
         /\ \/ Interrupted(d) /\ disk' = disk
            \/ UploadDone(d) \/ DownloadDone(d)
<1> DEFINE sync == syncing[d]
           kept == [p \in Paths |-> IF p \in sync.drop THEN [what |-> Absent, at |-> 0]
                                    ELSE disk[d][p]]
<1>1. sync \in Syncs
  BY DEF SyncsOK
<1>2. kept \in Snapshots
  BY AbsentIsContent, SnapshotFacts DEF CopiesOK, Snapshots
<1>3. CASE Interrupted(d) /\ disk' = disk
  BY <1>3, NoSyncOutcome DEF Interrupted
<1>4. CASE /\ Step(d, "transfer") /\ (sync.todo = {} \/ sync.cancelled)
           /\ ~sync.failed /\ ~sync.cancelled /\ sync.dir = "upload"
           /\ syncing' = [syncing EXCEPT ![d].step = "publish"]
           /\ disk' = disk /\ cut' = cut
  BY <1>1, <1>4 DEF SyncsOK, Syncs, Others, UploadDone, TransferDone
<1>5. CASE /\ Step(d, "transfer") /\ (sync.todo = {} \/ sync.cancelled)
           /\ ~sync.failed /\ ~sync.cancelled /\ sync.dir = "download"
           /\ disk' = [disk EXCEPT ![d] = kept]
           /\ syncing' = [syncing EXCEPT ![d].step = "publish", ![d].drop = {},
                ![d].hash = ScanHash(kept, cache[d]), ![d].updated = ScanUpdated(kept)]
           /\ Excuse(When(Misread(kept, cache[d]), "sameSecond")) /\ cut' = cut
  <2>1. SameCopies(d) /\ disk'[d] = kept
    <3> HIDE DEF kept
    <3> QED BY <1>5 DEF CopiesOK, SameCopies
  <2>2. /\ Others(d) /\ syncing'[d].step = "publish" /\ syncing'[d].drop = {}
        /\ syncing'[d].dir = sync.dir /\ syncing'[d].bias = sync.bias
        /\ syncing'[d].hash = ScanHash(kept, cache[d])
        /\ syncing'[d].updated = ScanUpdated(kept) /\ syncing'[d].todo = sync.todo
    <3> HIDE DEF kept
    <3> QED BY <1>1, <1>5 DEF SyncsOK, Syncs, Others
  <2>3. \A p \in Paths : kept[p].what # Absent => kept[p].at <= ScanUpdated(kept)
    <3> HIDE DEF kept
    <3> QED BY <1>2, ScanIsLatest DEF BoundsOK
  <2>4. ASSUME "sameSecond" \notin excuses', NEW p \in Paths
        PROVE  ScanHash(kept, cache[d])[p] = kept[p].what
    <3>1. ~Misread(kept, cache[d])
      BY <1>5, <2>4 DEF Excuse, When
    <3> QED BY <3>1, ScanIsTrue
  <2>5. Scanned(d)
    <3> HIDE DEF kept
    <3> QED BY <2>1, <2>2, <2>3, <2>4 DEF Scanned
  <2>6. \A p \in Paths : IF p \in sync.drop THEN disk'[d][p].what = Absent
                                            ELSE disk'[d][p] = disk[d][p]
    BY <2>1
  <2> QED BY <1>5, <2>1, <2>2, <2>5, <2>6 DEF DownloadDone, TransferDone
<1> QED BY <1>3, <1>4, <1>5 DEF EndTransfer

(***************************************************************************)
(* What each step does, seen file by file.                                 *)
(***************************************************************************)
SameServer == stored' = stored /\ manifest' = manifest
SameHistory == newest' = newest /\ edits' = edits
SameExcept(d, p) ==
  /\ SameCopies(d)
  /\ \A q \in Paths \ {p} : disk'[d][q] = disk[d][q]

EditEffect(d, p) ==
  /\ syncing' = syncing /\ SameServer /\ SameExcept(d, p)
  /\ edits' = edits + 1 /\ unsent' = unsent \cup {d}
  /\ \A q \in Paths \ {p} : newest'[q] = newest[q]
  /\ newest'[p] = disk'[d][p].what /\ newest'[p] \in {Absent, edits + 1}
  /\ newest'[p] # Absent => disk'[d][p].at = clock
  /\ "edited" \notin excuses' => Step(d, "idle")
  /\ "overwritten" \notin excuses' => ~Overwrites(d)
  /\ "apart" \notin excuses' => ~Apart(d)
  /\ "sameSecond" \notin excuses' =>
       /\ manifest # NoManifest => ~(clock <= manifest.updated)
       /\ Step(d, "idle") \/ ~(clock <= syncing[d].updated)

LEMMA EditOutcome ==
  ASSUME BoundsOK, CopiesOK, HistoryOK, NEW d \in Installs, NEW p \in Paths,
         NEW removed \in BOOLEAN, EditFile(d, p, removed)
  PROVE  EditEffect(d, p)
<1> DEFINE what == IF removed THEN Absent ELSE edits + 1
           file == [what |-> what, at |-> IF removed THEN 0 ELSE clock]
<1>1. /\ disk' = [disk EXCEPT ![d][p] = file] /\ newest' = [newest EXCEPT ![p] = what]
      /\ syncing' = syncing /\ SameServer /\ edits' = edits + 1 /\ unsent' = unsent \cup {d}
  BY DEF EditFile, SameServer
<1>2. SameExcept(d, p) /\ disk'[d][p] = file
  <2> HIDE DEF file
  <2> QED BY <1>1, CopyBecomes DEF CopiesOK, SameExcept, SameCopies, Snapshots
<1>3. newest'[p] = what /\ \A q \in Paths \ {p} : newest'[q] = newest[q]
  <2> HIDE DEF what
  <2> QED BY <1>1 DEF HistoryOK, Files
<1>4. what \in {Absent, edits + 1} /\ file.what = what /\ (what # Absent => file.at = clock)
  OBVIOUS
<1>5. /\ "edited" \notin excuses' => Step(d, "idle")
      /\ "overwritten" \notin excuses' => ~Overwrites(d)
      /\ "apart" \notin excuses' => ~Apart(d)
  BY DEF EditFile, Excuse, When
<1>6. "sameSecond" \notin excuses' =>
       /\ manifest # NoManifest => ~(clock <= manifest.updated)
       /\ Step(d, "idle") \/ ~(clock <= syncing[d].updated)
  BY DEF EditFile, Excuse, When
<1> HIDE DEF what, file
<1> QED BY <1>1, <1>2, <1>3, <1>4, <1>5, <1>6 DEF EditEffect

UploadEffect(d, p) ==
  /\ Step(d, "transfer") /\ syncing[d].dir = "upload" /\ p \in syncing[d].todo
  /\ Others(d) /\ SameTask(d) /\ syncing'[d].todo = syncing[d].todo \ {p}
  /\ disk' = disk /\ manifest' = manifest /\ SameHistory /\ unsent' = unsent /\ excuses' = excuses
  /\ \A q \in Paths \ {p} : stored'[q] = stored[q]
  /\ syncing[d].failed => syncing'[d].failed
  /\ IF disk[d][p].what # Absent
     THEN stored'[p] = disk[d][p].what /\ syncing'[d].saved
     ELSE stored' = stored /\ syncing'[d].saved = syncing[d].saved

LEMMA UploadOutcome ==
  ASSUME SyncsOK, ServerOK, NEW d \in Installs, NEW p \in Paths, UploadFile(d, p)
  PROVE  UploadEffect(d, p)
<1>1. /\ Step(d, "transfer") /\ syncing[d].dir = "upload" /\ p \in syncing[d].todo
      /\ disk' = disk /\ manifest' = manifest /\ SameHistory /\ unsent' = unsent /\ excuses' = excuses
  BY DEF UploadFile, SameHistory
<1>2. CASE disk[d][p].what # Absent
  <2>1. Moved(d, p) /\ stored' = [stored EXCEPT ![p] = disk[d][p].what]
    BY <1>2 DEF UploadFile
  <2>2. stored'[p] = disk[d][p].what /\ \A q \in Paths \ {p} : stored'[q] = stored[q]
    BY <2>1 DEF ServerOK, Files
  <2> QED BY <1>1, <1>2, <2>1, <2>2, MovedOutcome DEF UploadEffect
<1>3. CASE disk[d][p].what = Absent
  <2>1. NotMoved(d, p) /\ stored' = stored
    BY <1>3 DEF UploadFile
  <2> QED BY <1>1, <1>3, <2>1, NotMovedOutcome DEF UploadEffect
<1> QED BY <1>2, <1>3

DownloadEffect(d, p) ==
  /\ Step(d, "transfer") /\ syncing[d].dir = "download" /\ p \in syncing[d].todo
  /\ Others(d) /\ SameTask(d) /\ syncing'[d].todo = syncing[d].todo \ {p}
  /\ SameServer /\ SameHistory /\ unsent' = unsent /\ SameExcept(d, p)
  /\ syncing[d].failed => syncing'[d].failed
  /\ IF stored[p] # Absent
     THEN disk'[d][p].what = stored[p]
     ELSE disk' = disk /\ ("skipped" \notin excuses' => syncing'[d].failed)

LEMMA DownloadOutcome ==
  ASSUME SyncsOK, CopiesOK, NEW d \in Installs, NEW p \in Paths, DownloadFile(d, p)
  PROVE  DownloadEffect(d, p)
<1>1. /\ Step(d, "transfer") /\ syncing[d].dir = "download" /\ p \in syncing[d].todo
      /\ SameServer /\ SameHistory /\ unsent' = unsent
  BY DEF DownloadFile, SameHistory, SameServer
<1>2. CASE stored[p] # Absent
  <2>1. Moved(d, p) /\ disk' = [disk EXCEPT ![d][p] = [what |-> stored[p], at |-> clock]]
    BY <1>2 DEF DownloadFile
  <2>2. SameExcept(d, p) /\ disk'[d][p].what = stored[p]
    BY <2>1, CopyBecomes DEF CopiesOK, SameExcept, SameCopies, Snapshots
  <2> QED BY <1>1, <1>2, <2>1, <2>2, MovedOutcome DEF DownloadEffect
<1>3. CASE stored[p] = Absent
  <2>1. NotMoved(d, p) /\ disk' = disk /\ ("skipped" \notin excuses' => p \in CriticalPaths)
    BY <1>3 DEF DownloadFile, Excuse, When
  <2> QED BY <1>1, <1>3, <2>1, NotMovedOutcome DEF DownloadEffect, SameExcept, SameCopies
<1> QED BY <1>2, <1>3

FailEffect(d, p) ==
  /\ Step(d, "transfer") /\ p \in syncing[d].todo
  /\ Others(d) /\ SameTask(d) /\ syncing'[d].todo = syncing[d].todo \ {p}
  /\ SameServer /\ SameHistory /\ unsent' = unsent /\ disk' = disk
  /\ syncing'[d].saved = syncing[d].saved
  /\ "skipped" \notin excuses' => syncing'[d].failed

LEMMA FailOutcome ==
  ASSUME SyncsOK, NEW d \in Installs, NEW p \in Paths, TransferFails(d, p)
  PROVE  FailEffect(d, p)
<1>1. /\ Step(d, "transfer") /\ p \in syncing[d].todo /\ NotMoved(d, p)
      /\ SameServer /\ SameHistory /\ unsent' = unsent /\ disk' = disk
      /\ "skipped" \notin excuses' => p \in CriticalPaths
  BY DEF TransferFails, Excuse, When, SameServer, SameHistory, Mishap
<1> QED BY <1>1, NotMovedOutcome DEF FailEffect

DropEffect(d, p) ==
  /\ Step(d, "publish") /\ p \in syncing[d].drop /\ Others(d)
  /\ syncing'[d].step = "publish" /\ syncing'[d].dir = syncing[d].dir
  /\ syncing'[d].hash = syncing[d].hash /\ syncing'[d].updated = syncing[d].updated
  /\ syncing'[d].bias = syncing[d].bias /\ syncing'[d].drop = syncing[d].drop \ {p}
  /\ syncing'[d].todo = syncing[d].todo
  /\ disk' = disk /\ manifest' = manifest /\ SameHistory /\ unsent' = unsent
  /\ stored'[p] \in {Absent, stored[p]} /\ \A q \in Paths \ {p} : stored'[q] = stored[q]

LEMMA DropOutcome ==
  ASSUME SyncsOK, ServerOK, NEW d \in Installs, NEW p \in Paths, DropRemote(d, p)
  PROVE  DropEffect(d, p)
<1>1. /\ Step(d, "publish") /\ p \in syncing[d].drop
      /\ disk' = disk /\ manifest' = manifest /\ SameHistory /\ unsent' = unsent
      /\ syncing' = [syncing EXCEPT ![d].drop = @ \ {p}]
  BY DEF DropRemote, SameHistory, Mishap
<1>2. stored' = [stored EXCEPT ![p] = Absent] \/ stored' = stored
  BY DEF DropRemote
<1>3. stored'[p] \in {Absent, stored[p]} /\ \A q \in Paths \ {p} : stored'[q] = stored[q]
  BY <1>2 DEF ServerOK, Files
<1>4. /\ Others(d)
      /\ syncing'[d].step = syncing[d].step /\ syncing'[d].dir = syncing[d].dir
      /\ syncing'[d].hash = syncing[d].hash /\ syncing'[d].updated = syncing[d].updated
      /\ syncing'[d].bias = syncing[d].bias /\ syncing'[d].drop = syncing[d].drop \ {p}
      /\ syncing'[d].todo = syncing[d].todo
  BY <1>1 DEF SyncsOK, Syncs, Others
<1> QED BY <1>1, <1>3, <1>4 DEF DropEffect, Step

LoseEffect(d) ==
  /\ Step(d, "idle") /\ syncing' = syncing /\ SameServer /\ SameHistory /\ unsent' = unsent
  /\ SameCopies(d) /\ \A p \in Paths : disk'[d][p].what = Absent
  /\ "apart" \notin excuses' => d \notin unsent

LEMMA LoseOutcome ==
  ASSUME CopiesOK, NEW d \in Installs, LoseFiles(d)
  PROVE  LoseEffect(d)
<1>1. /\ Step(d, "idle") /\ syncing' = syncing /\ SameServer /\ SameHistory /\ unsent' = unsent
      /\ disk' = [disk EXCEPT ![d] = [p \in Paths |-> [what |-> Absent, at |-> 0]]]
      /\ "apart" \notin excuses' => d \notin unsent
  BY DEF LoseFiles, SameServer, SameHistory, Excuse, When, Mishap
<1>2. SameCopies(d) /\ \A p \in Paths : disk'[d][p].what = Absent
  BY <1>1 DEF CopiesOK, SameCopies
<1> QED BY <1>1, <1>2 DEF LoseEffect

StopEffect(d) ==
  /\ Others(d) /\ syncing'[d].step = "idle" /\ syncing'[d].bias = "auto"
  /\ SameServer /\ SameHistory /\ unsent' = unsent /\ disk' = disk
  /\ "torn" \notin excuses' =>
       ~(syncing[d].dir = "upload" /\ (syncing[d].saved \/ Step(d, "publish")))

LEMMA BreakOutcome ==
  ASSUME SyncsOK, NEW d \in Installs, BreakOff(d)
  PROVE  StopEffect(d) /\ ~Step(d, "idle")
BY NoSyncOutcome DEF BreakOff, Interrupted, Excuse, When, StopEffect, SameServer, SameHistory,
          Mishap

EndEffect(d) ==
  /\ Step(d, "transfer") /\ Others(d)
  /\ SameServer /\ SameHistory /\ unsent' = unsent
  /\ StopEffect(d) \/ UploadDone(d) \/ DownloadDone(d)

LEMMA TransferEnds ==
  ASSUME BoundsOK, CopiesOK, SyncsOK, NEW d \in Installs, EndTransfer(d)
  PROVE  EndEffect(d)
<1>1. Step(d, "transfer") /\ SameServer /\ SameHistory /\ unsent' = unsent
  BY DEF EndTransfer, SameServer, SameHistory
<1>2. Interrupted(d) /\ disk' = disk => StopEffect(d)
  BY <1>1, NoSyncOutcome DEF Interrupted, Excuse, When, StopEffect
<1> QED BY <1>1, <1>2, EndOutcome DEF EndEffect

PutEffect(d) ==
  /\ Step(d, "publish") /\ syncing[d].drop = {} /\ Others(d)
  /\ syncing'[d].step = "idle" /\ syncing'[d].bias = "auto"
  /\ manifest' # NoManifest
  /\ manifest'.hash = syncing[d].hash /\ manifest'.updated = syncing[d].updated
  /\ stored' = stored /\ disk' = disk /\ SameHistory
  /\ unsent' = IF Holds(d, syncing[d].hash) THEN unsent \ {d} ELSE unsent
  /\ "caughtUp" \notin excuses' => syncing[d].dir # "download" \/ unsent \ {d} = {}

LEMMA PutOutcome ==
  ASSUME SyncsOK, BoundsOK, NEW d \in Installs, PutManifest(d)
  PROVE  PutEffect(d)
<1>1. /\ Step(d, "publish") /\ syncing[d].drop = {} /\ SyncEnds(d)
      /\ manifest' = [hash |-> syncing[d].hash, updated |-> syncing[d].updated]
      /\ stored' = stored /\ disk' = disk /\ SameHistory
      /\ unsent' = IF Holds(d, syncing[d].hash) THEN unsent \ {d} ELSE unsent
      /\ "caughtUp" \notin excuses' => syncing[d].dir # "download" \/ unsent \ {d} = {}
  BY DEF PutManifest, SameHistory, Excuse, When
<1>2. manifest' # NoManifest
  <2>1. syncing[d].updated \in Seconds
    BY DEF SyncsOK, Syncs
  <2>2. MaxClock + 1 \notin Seconds
    BY DEF Seconds
  <2> QED BY <1>1, <2>1, <2>2 DEF NoManifest
<1> QED BY <1>1, <1>2, NoSyncOutcome DEF PutEffect

CancelEffect(d) ==
  /\ Others(d) /\ SameTask(d) /\ syncing'[d].todo = syncing[d].todo
  /\ syncing'[d].failed = syncing[d].failed /\ syncing'[d].saved = syncing[d].saved
  /\ SameServer /\ SameHistory /\ unsent' = unsent /\ disk' = disk

LEMMA CancelOutcome ==
  ASSUME SyncsOK, NEW d \in Installs, CancelSync(d)
  PROVE  CancelEffect(d)
<1>1. /\ SameServer /\ SameHistory /\ unsent' = unsent /\ disk' = disk
      /\ syncing' = [syncing EXCEPT ![d].cancelled = TRUE]
  BY DEF CancelSync, SameServer, SameHistory, Mishap
<1>2. /\ Others(d) /\ SameTask(d) /\ syncing'[d].todo = syncing[d].todo
      /\ syncing'[d].failed = syncing[d].failed /\ syncing'[d].saved = syncing[d].saved
  BY <1>1 DEF SyncsOK, Syncs, Others, SameTask
<1> QED BY <1>1, <1>2 DEF CancelEffect

BeginEffect(d) ==
  /\ Step(d, "idle") /\ Others(d) /\ syncing'[d].step = "compare"
  /\ SameServer /\ SameHistory /\ unsent' = unsent /\ disk' = disk
  /\ "forced" \notin excuses' => syncing'[d].bias = "auto"
  /\ Scanned(d)

LEMMA SyncBegins ==
  ASSUME BoundsOK, CopiesOK, SyncsOK, NEW d \in Installs, NEW bias \in Biases,
         BeginSync(d, bias)
  PROVE  BeginEffect(d)
<1>1. SameServer /\ SameHistory /\ unsent' = unsent /\ disk' = disk
  BY DEF BeginSync, SameServer, SameHistory
<1> QED BY <1>1, BeginOutcome DEF BeginEffect

NothingDiffers(d) ==
  /\ syncing'[d].step = "idle" /\ syncing'[d].bias = "auto"
  /\ \A p \in Paths : syncing[d].hash[p] = manifest.hash[p]
  /\ unsent' = IF Holds(d, syncing[d].hash) THEN unsent \ {d} ELSE unsent
TransferBegins(d) ==
  /\ UploadBegins(d) \/ DownloadBegins(d)
  /\ syncing'[d].bias = syncing[d].bias
  /\ \A e \in Installs \ {d} : syncing[e].step \notin {"transfer", "publish"}
  /\ unsent' = unsent
CompareEffect(d) ==
  /\ Step(d, "compare") /\ Others(d) /\ SameServer /\ SameHistory /\ disk' = disk
  /\ NothingDiffers(d) \/ TransferBegins(d)

LEMMA SyncCompares ==
  ASSUME SyncsOK, ResumeOK, NEW d \in Installs, NEW valid \in BOOLEAN, CompareManifests(d, valid),
         excuses' \cap {"resumed", "overlapped"} = {}
  PROVE  CompareEffect(d)
<1>1. SameServer /\ SameHistory /\ disk' = disk
  BY DEF CompareManifests, SameServer, SameHistory
<1>2. NoSync.step = "idle" /\ NoSync.bias = "auto"
  BY DEF NoSync
<1> QED BY <1>1, <1>2, CompareOutcome DEF CompareEffect, NothingDiffers, TransferBegins

TickEffect ==
  syncing' = syncing /\ SameServer /\ SameHistory /\ unsent' = unsent /\ disk' = disk

(***************************************************************************)
(* One of these is what a step does while nothing Unsafe happens.          *)
(***************************************************************************)
AnyEffect ==
  \/ TickEffect
  \/ \E d \in Installs :
       \/ \E p \in Paths :
            EditEffect(d, p) \/ UploadEffect(d, p) \/ DownloadEffect(d, p)
            \/ FailEffect(d, p) \/ DropEffect(d, p)
       \/ LoseEffect(d) \/ BeginEffect(d) \/ CompareEffect(d) \/ EndEffect(d)
       \/ PutEffect(d) \/ CancelEffect(d) \/ StopEffect(d)
FileTypes == BoundsOK /\ CopiesOK /\ ServerOK /\ ResumeOK /\ SyncsOK /\ HistoryOK

LEMMA StepsHaveEffects ==
  ASSUME FileTypes, [FilesNext]_filesVars, excuses' \cap {"resumed", "overlapped"} = {}
  PROVE  AnyEffect
<1> USE DEF FileTypes
<1>1. CASE FilesTick
  BY <1>1 DEF FilesTick, TickEffect, SameServer, SameHistory, AnyEffect
<1>2. ASSUME NEW d \in Installs, NEW p \in Paths, NEW removed \in BOOLEAN, EditFile(d, p, removed)
      PROVE  AnyEffect
  BY <1>2, EditOutcome DEF AnyEffect
<1>3. ASSUME NEW d \in Installs, NEW p \in Paths, UploadFile(d, p) PROVE AnyEffect
  BY <1>3, UploadOutcome DEF AnyEffect
<1>4. ASSUME NEW d \in Installs, NEW p \in Paths, DownloadFile(d, p) PROVE AnyEffect
  BY <1>4, DownloadOutcome DEF AnyEffect
<1>5. ASSUME NEW d \in Installs, NEW p \in Paths, TransferFails(d, p) PROVE AnyEffect
  BY <1>5, FailOutcome DEF AnyEffect
<1>6. ASSUME NEW d \in Installs, NEW p \in Paths, DropRemote(d, p) PROVE AnyEffect
  BY <1>6, DropOutcome DEF AnyEffect
<1>7. ASSUME NEW d \in Installs, LoseFiles(d) PROVE AnyEffect
  BY <1>7, LoseOutcome DEF AnyEffect
<1>8. ASSUME NEW d \in Installs, EndTransfer(d) PROVE AnyEffect
  BY <1>8, TransferEnds DEF AnyEffect
<1>9. ASSUME NEW d \in Installs, PutManifest(d) PROVE AnyEffect
  BY <1>9, PutOutcome DEF AnyEffect
<1>10. ASSUME NEW d \in Installs, CancelSync(d) PROVE AnyEffect
  BY <1>10, CancelOutcome DEF AnyEffect
<1>11. ASSUME NEW d \in Installs, BreakOff(d) PROVE AnyEffect
  BY <1>11, BreakOutcome DEF AnyEffect
<1>12. ASSUME NEW d \in Installs, NEW bias \in Biases, BeginSync(d, bias) PROVE AnyEffect
  BY <1>12, SyncBegins DEF AnyEffect
<1>13. ASSUME NEW d \in Installs, NEW valid \in BOOLEAN, CompareManifests(d, valid) PROVE AnyEffect
  BY <1>13, SyncCompares DEF AnyEffect
<1>14. CASE UNCHANGED filesVars
  BY <1>14 DEF filesVars, TickEffect, SameServer, SameHistory, AnyEffect
<1> QED BY <1>1, <1>2, <1>3, <1>4, <1>5, <1>6, <1>7, <1>8, <1>9, <1>10, <1>11, <1>12, <1>13,
          <1>14 DEF FilesNext

(***************************************************************************)
(* CompletedAgrees: while nothing is excused, what a sync publishes is     *)
(* what the device holds and what the server has.                          *)
(***************************************************************************)
Moves(d) == syncing[d].step \in {"transfer", "publish"}
Uploads(d) == Moves(d) /\ syncing[d].dir = "upload"
Clean == excuses \cap (Unsafe \cup {"torn", "edited"}) = {}

\* One device moves files at a time.
OneMoves == \A d, e \in Installs : Moves(d) /\ Moves(e) => d = e
\* What a sync compares, uploads or publishes is what the device holds.
HoldsAt(d) == Step(d, "compare") \/ Step(d, "publish") \/ Uploads(d) => Holds(d, syncing[d].hash)
HashIsHeld == \A d \in Installs : HoldsAt(d)
\* The server has what the manifest names while nothing of an upload has reached it.
Untouched == \A d \in Installs : Uploads(d) => Step(d, "transfer") /\ ~syncing[d].saved
ServerIsWhole == Untouched => \A p \in Paths : manifest.hash[p] # Absent => stored[p] = manifest.hash[p]
\* An upload leaves on the server what its manifest is going to name.
UploadIsWhole(d) ==
  Uploads(d) =>
    \A p \in Paths :
      /\ syncing[d].hash[p] # Absent =>
           \/ Step(d, "transfer") /\ (p \in syncing[d].todo \/ syncing[d].failed)
           \/ stored[p] = syncing[d].hash[p]
      /\ p \in syncing[d].drop => syncing[d].hash[p] = Absent
\* A download leaves on the device what the manifest names.
DownloadIsWhole(d) ==
  Moves(d) /\ syncing[d].dir = "download" =>
    /\ Step(d, "publish") => \A p \in Paths : p \notin syncing[d].drop /\ syncing[d].hash[p] = manifest.hash[p]
    /\ Step(d, "transfer") => \A p \in Paths :
         /\ p \in syncing[d].drop => manifest.hash[p] = Absent
         /\ p \in syncing[d].todo => manifest.hash[p] # Absent
         /\ \/ p \in syncing[d].todo \cup syncing[d].drop \/ syncing[d].failed
            \/ disk[d][p].what = manifest.hash[p]
UploadsAreWhole == \A d \in Installs : UploadIsWhole(d)
DownloadsAreWhole == \A d \in Installs : DownloadIsWhole(d)
CleanParts == OneMoves /\ HashIsHeld /\ ServerIsWhole /\ UploadsAreWhole /\ DownloadsAreWhole

LEMMA OneMovesStep ==
  ASSUME OneMoves, AnyEffect
  PROVE  OneMoves'
<1> USE DEF OneMoves, Moves, Step, Others, SameTask
<1>1. CASE TickEffect
  BY <1>1 DEF TickEffect
<1>2. ASSUME NEW d \in Installs, NEW p \in Paths, EditEffect(d, p)
      PROVE  OneMoves'
  BY <1>2 DEF EditEffect
<1>3. ASSUME NEW d \in Installs, NEW p \in Paths, UploadEffect(d, p)
      PROVE  OneMoves'
  BY <1>3 DEF UploadEffect
<1>4. ASSUME NEW d \in Installs, NEW p \in Paths, DownloadEffect(d, p)
      PROVE  OneMoves'
  BY <1>4 DEF DownloadEffect
<1>5. ASSUME NEW d \in Installs, NEW p \in Paths, FailEffect(d, p)
      PROVE  OneMoves'
  BY <1>5 DEF FailEffect
<1>6. ASSUME NEW d \in Installs, NEW p \in Paths, DropEffect(d, p)
      PROVE  OneMoves'
  BY <1>6 DEF DropEffect
<1>7. ASSUME NEW d \in Installs, LoseEffect(d)
      PROVE  OneMoves'
  BY <1>7 DEF LoseEffect
<1>8. ASSUME NEW d \in Installs, BeginEffect(d)
      PROVE  OneMoves'
  BY <1>8 DEF BeginEffect
<1>9. ASSUME NEW d \in Installs, CompareEffect(d)
      PROVE  OneMoves'
  BY <1>9 DEF CompareEffect, TransferBegins, NothingDiffers, UploadBegins, DownloadBegins
<1>10. ASSUME NEW d \in Installs, EndEffect(d)
      PROVE  OneMoves'
  BY <1>10 DEF EndEffect, StopEffect, UploadDone, DownloadDone, TransferDone
<1>11. ASSUME NEW d \in Installs, PutEffect(d)
      PROVE  OneMoves'
  BY <1>11 DEF PutEffect
<1>12. ASSUME NEW d \in Installs, CancelEffect(d)
      PROVE  OneMoves'
  BY <1>12 DEF CancelEffect
<1>13. ASSUME NEW d \in Installs, StopEffect(d)
      PROVE  OneMoves'
  BY <1>13 DEF StopEffect
<1> QED BY <1>1, <1>2, <1>3, <1>4, <1>5, <1>6, <1>7, <1>8, <1>9, <1>10, <1>11, <1>12,
          <1>13 DEF AnyEffect

LEMMA HashIsHeldStep ==
  ASSUME FileTypes, CleanParts, Clean', AnyEffect
  PROVE  HashIsHeld'
<1> USE DEF HoldsAt, Moves, Uploads, Step, Holds, Others, SameServer, SameHistory, SameTask,
          SameCopies, SameExcept
<1> SUFFICES ASSUME NEW e \in Installs PROVE HoldsAt(e)'
  BY DEF HashIsHeld
<1>0. /\ "edited" \notin excuses' /\ "torn" \notin excuses' /\ "skipped" \notin excuses'
      /\ "sameSecond" \notin excuses' /\ "overwritten" \notin excuses'
  BY DEF Clean, Unsafe
<1>a. HoldsAt(e)
  BY DEF CleanParts, HashIsHeld
<1>1. CASE TickEffect
  BY <1>1, <1>0, <1>a DEF TickEffect
<1>2. ASSUME NEW d \in Installs, NEW p \in Paths, EditEffect(d, p)
      PROVE  HoldsAt(e)'
  BY <1>2, <1>0, <1>a DEF EditEffect, Overwrites
<1>3. ASSUME NEW d \in Installs, NEW p \in Paths, UploadEffect(d, p)
      PROVE  HoldsAt(e)'
  BY <1>3, <1>0, <1>a, <1>a DEF UploadEffect
<1>4. ASSUME NEW d \in Installs, NEW p \in Paths, DownloadEffect(d, p)
      PROVE  HoldsAt(e)'
  BY <1>4, <1>0, <1>a, <1>a DEF DownloadEffect
<1>5. ASSUME NEW d \in Installs, NEW p \in Paths, FailEffect(d, p)
      PROVE  HoldsAt(e)'
  BY <1>5, <1>0, <1>a, <1>a DEF FailEffect
<1>6. ASSUME NEW d \in Installs, NEW p \in Paths, DropEffect(d, p)
      PROVE  HoldsAt(e)'
  BY <1>6, <1>0, <1>a, <1>a DEF DropEffect
<1>7. ASSUME NEW d \in Installs, LoseEffect(d)
      PROVE  HoldsAt(e)'
  BY <1>7, <1>0, <1>a, <1>a DEF LoseEffect
<1>8. ASSUME NEW d \in Installs, BeginEffect(d)
      PROVE  HoldsAt(e)'
  BY <1>8, <1>0, <1>a DEF BeginEffect, Scanned
<1>9. ASSUME NEW d \in Installs, CompareEffect(d)
      PROVE  HoldsAt(e)'
  BY <1>9, <1>0, <1>a DEF CompareEffect, TransferBegins, NothingDiffers, UploadBegins,
          DownloadBegins
<1>10. ASSUME NEW d \in Installs, EndEffect(d)
      PROVE  HoldsAt(e)'
  BY <1>10, <1>0, <1>a DEF EndEffect, StopEffect, UploadDone, DownloadDone, TransferDone, Scanned
<1>11. ASSUME NEW d \in Installs, PutEffect(d)
      PROVE  HoldsAt(e)'
  BY <1>11, <1>0, <1>a, <1>a DEF PutEffect
<1>12. ASSUME NEW d \in Installs, CancelEffect(d)
      PROVE  HoldsAt(e)'
  BY <1>12, <1>0, <1>a, <1>a DEF CancelEffect
<1>13. ASSUME NEW d \in Installs, StopEffect(d)
      PROVE  HoldsAt(e)'
  BY <1>13, <1>0, <1>a, <1>a DEF StopEffect
<1> QED BY <1>1, <1>2, <1>3, <1>4, <1>5, <1>6, <1>7, <1>8, <1>9, <1>10, <1>11, <1>12,
          <1>13 DEF AnyEffect

LEMMA ServerIsWholeStep ==
  ASSUME FileTypes, CleanParts, Clean', AnyEffect
  PROVE  ServerIsWhole'
<1> USE DEF Moves, Uploads, Step, Others, SameServer, SameHistory, SameTask, SameCopies, SameExcept
<1> SUFFICES ASSUME Untouched', NEW q \in Paths, manifest'.hash[q] # Absent
             PROVE  stored'[q] = manifest'.hash[q]
  BY DEF ServerIsWhole
<1>0. /\ "edited" \notin excuses' /\ "torn" \notin excuses' /\ "skipped" \notin excuses'
      /\ "sameSecond" \notin excuses' /\ "overwritten" \notin excuses'
  BY DEF Clean, Unsafe
<1>a. /\ Untouched /\ manifest.hash[q] # Absent => stored[q] = manifest.hash[q]
      /\ Untouched' /\ manifest'.hash[q] # Absent
      /\ OneMoves
  BY DEF ServerIsWhole, CleanParts
<1>1. CASE TickEffect
  BY <1>1, <1>0, <1>a DEF TickEffect, Untouched
<1>2. ASSUME NEW d \in Installs, NEW p \in Paths, EditEffect(d, p)
      PROVE  stored'[q] = manifest'.hash[q]
  <2>1. Untouched
    BY <1>2, <1>0, <1>a DEF EditEffect, Untouched
  <2> QED BY <1>2, <1>0, <1>a, <2>1 DEF EditEffect
<1>3. ASSUME NEW d \in Installs, NEW p \in Paths, UploadEffect(d, p)
      PROVE  stored'[q] = manifest'.hash[q]
  <2>1. Uploads(d)' /\ Step(d, "transfer")
    BY <1>3 DEF UploadEffect
  <2>2. ~syncing'[d].saved
    BY <1>a, <2>1 DEF Untouched
  <2>3. stored' = stored /\ manifest' = manifest
    BY <1>3, <2>2 DEF UploadEffect
  <2>4. Untouched
    BY <1>3, <1>a, <2>2 DEF UploadEffect, Untouched
  <2> QED BY <1>a, <2>3, <2>4
<1>4. ASSUME NEW d \in Installs, NEW p \in Paths, DownloadEffect(d, p)
      PROVE  stored'[q] = manifest'.hash[q]
  <2>1. Untouched
    BY <1>4, <1>0, <1>a DEF DownloadEffect, Untouched
  <2> QED BY <1>4, <1>0, <1>a, <2>1 DEF DownloadEffect
<1>5. ASSUME NEW d \in Installs, NEW p \in Paths, FailEffect(d, p)
      PROVE  stored'[q] = manifest'.hash[q]
  <2>1. Untouched
    BY <1>5, <1>0, <1>a DEF FailEffect, Untouched
  <2> QED BY <1>5, <1>0, <1>a, <2>1 DEF FailEffect
<1>6. ASSUME NEW d \in Installs, NEW p \in Paths, DropEffect(d, p)
      PROVE  stored'[q] = manifest'.hash[q]
  <2>1. ~Uploads(d)
    BY <1>6, <1>a DEF DropEffect, Untouched
  <2>2. DownloadIsWhole(d)
    BY DEF CleanParts, DownloadsAreWhole
  <2>3. syncing[d].dir = "download"
    BY <1>6, <2>1 DEF DropEffect, SyncsOK, Syncs, Directions, FileTypes
  <2> QED BY <1>6, <2>2, <2>3 DEF DropEffect, DownloadIsWhole
<1>7. ASSUME NEW d \in Installs, LoseEffect(d)
      PROVE  stored'[q] = manifest'.hash[q]
  <2>1. Untouched
    BY <1>7, <1>0, <1>a DEF LoseEffect, Untouched
  <2> QED BY <1>7, <1>0, <1>a, <2>1 DEF LoseEffect
<1>8. ASSUME NEW d \in Installs, BeginEffect(d)
      PROVE  stored'[q] = manifest'.hash[q]
  <2>1. Untouched
    BY <1>8, <1>0, <1>a DEF BeginEffect, Untouched
  <2> QED BY <1>8, <1>0, <1>a, <2>1 DEF BeginEffect
<1>9. ASSUME NEW d \in Installs, CompareEffect(d)
      PROVE  stored'[q] = manifest'.hash[q]
  <2>1. Untouched
    BY <1>9, <1>0, <1>a DEF CompareEffect, TransferBegins, NothingDiffers, UploadBegins,
          DownloadBegins, Untouched
  <2> QED BY <1>9, <1>0, <1>a, <2>1 DEF CompareEffect, TransferBegins, NothingDiffers,
          UploadBegins, DownloadBegins
<1>10. ASSUME NEW d \in Installs, EndEffect(d)
      PROVE  stored'[q] = manifest'.hash[q]
  <2>1. Untouched
    BY <1>10, <1>0, <1>a DEF EndEffect, StopEffect, UploadDone, DownloadDone, TransferDone,
          Scanned, Untouched
  <2> QED BY <1>10, <1>0, <1>a, <2>1 DEF EndEffect, StopEffect, UploadDone, DownloadDone,
          TransferDone, Scanned
<1>11. ASSUME NEW d \in Installs, PutEffect(d)
      PROVE  stored'[q] = manifest'.hash[q]
  <2>1. CASE syncing[d].dir = "upload"
    <3>1. UploadIsWhole(d)
      BY DEF CleanParts, UploadsAreWhole
    <3> QED BY <1>11, <1>a, <2>1, <3>1 DEF PutEffect, UploadIsWhole
  <2>2. CASE syncing[d].dir = "download"
    <3>1. DownloadIsWhole(d)
      BY DEF CleanParts, DownloadsAreWhole
    <3>2. manifest'.hash[q] = manifest.hash[q] /\ stored' = stored
      BY <1>11, <2>2, <3>1 DEF PutEffect, DownloadIsWhole
    <3>3. Untouched
      BY <1>11, <1>a, <2>2 DEF PutEffect, Untouched, OneMoves
    <3> QED BY <1>a, <3>2, <3>3
  <2> QED BY <2>1, <2>2 DEF SyncsOK, Syncs, Directions, FileTypes
<1>12. ASSUME NEW d \in Installs, CancelEffect(d)
      PROVE  stored'[q] = manifest'.hash[q]
  <2>1. Untouched
    BY <1>12, <1>0, <1>a DEF CancelEffect, Untouched
  <2> QED BY <1>12, <1>0, <1>a, <2>1 DEF CancelEffect
<1>13. ASSUME NEW d \in Installs, StopEffect(d)
      PROVE  stored'[q] = manifest'.hash[q]
  <2>1. Untouched
    BY <1>13, <1>0, <1>a DEF StopEffect, Untouched
  <2> QED BY <1>13, <1>0, <1>a, <2>1 DEF StopEffect
<1> QED BY <1>1, <1>2, <1>3, <1>4, <1>5, <1>6, <1>7, <1>8, <1>9, <1>10, <1>11, <1>12,
          <1>13 DEF AnyEffect

LEMMA UploadsAreWholeStep ==
  ASSUME FileTypes, CleanParts, Clean', AnyEffect
  PROVE  UploadsAreWhole'
<1> USE DEF UploadIsWhole, Moves, Uploads, Step, Others, SameServer, SameHistory, SameTask,
          SameCopies, SameExcept
<1> SUFFICES ASSUME NEW e \in Installs PROVE UploadIsWhole(e)'
  BY DEF UploadsAreWhole
<1>0. /\ "edited" \notin excuses' /\ "torn" \notin excuses' /\ "skipped" \notin excuses'
      /\ "sameSecond" \notin excuses' /\ "overwritten" \notin excuses'
  BY DEF Clean, Unsafe
<1>a. UploadIsWhole(e) /\ HoldsAt(e) /\ ServerIsWhole /\ \A d \in Installs : Moves(d) /\ Moves(e) => d = e
  BY DEF CleanParts, UploadsAreWhole, HashIsHeld, OneMoves
<1>1. CASE TickEffect
  BY <1>1, <1>0, <1>a DEF TickEffect
<1>2. ASSUME NEW d \in Installs, NEW p \in Paths, EditEffect(d, p)
      PROVE  UploadIsWhole(e)'
  BY <1>2, <1>0, <1>a DEF EditEffect, Overwrites
<1>3. ASSUME NEW d \in Installs, NEW p \in Paths, UploadEffect(d, p)
      PROVE  UploadIsWhole(e)'
  <2>1. CASE e # d
    BY <1>3, <1>0, <1>a, <2>1 DEF UploadEffect
  <2>2. CASE e = d
    <3>1. disk[d][p].what = syncing[d].hash[p]
      BY <1>3, <1>a, <2>2 DEF UploadEffect, HoldsAt, Holds
    <3> QED BY <1>3, <1>0, <1>a, <2>2, <3>1 DEF UploadEffect
  <2> QED BY <2>1, <2>2
<1>4. ASSUME NEW d \in Installs, NEW p \in Paths, DownloadEffect(d, p)
      PROVE  UploadIsWhole(e)'
  BY <1>4, <1>0, <1>a, <1>a DEF DownloadEffect
<1>5. ASSUME NEW d \in Installs, NEW p \in Paths, FailEffect(d, p)
      PROVE  UploadIsWhole(e)'
  BY <1>5, <1>0, <1>a, <1>a DEF FailEffect
<1>6. ASSUME NEW d \in Installs, NEW p \in Paths, DropEffect(d, p)
      PROVE  UploadIsWhole(e)'
  BY <1>6, <1>0, <1>a, <1>a DEF DropEffect
<1>7. ASSUME NEW d \in Installs, LoseEffect(d)
      PROVE  UploadIsWhole(e)'
  BY <1>7, <1>0, <1>a, <1>a DEF LoseEffect
<1>8. ASSUME NEW d \in Installs, BeginEffect(d)
      PROVE  UploadIsWhole(e)'
  BY <1>8, <1>0, <1>a DEF BeginEffect, Scanned
<1>9. ASSUME NEW d \in Installs, CompareEffect(d)
      PROVE  UploadIsWhole(e)'
  <2>1. CASE e # d
    BY <1>9, <1>0, <1>a, <2>1 DEF CompareEffect
  <2>2. CASE e = d /\ UploadBegins(d) /\ TransferBegins(d)
    <3>1. Untouched
      BY <1>9, <2>2 DEF CompareEffect, TransferBegins, Untouched
    <3>2. \A q \in Paths : manifest.hash[q] # Absent => stored[q] = manifest.hash[q]
      BY <1>a, <3>1 DEF ServerIsWhole
    <3> QED BY <1>9, <2>2, <3>2 DEF UploadBegins, CompareEffect
  <2>3. CASE e = d /\ (DownloadBegins(d) \/ NothingDiffers(d))
    BY <1>9, <2>3 DEF DownloadBegins, NothingDiffers
  <2> QED BY <1>9, <2>1, <2>2, <2>3 DEF CompareEffect, TransferBegins
<1>10. ASSUME NEW d \in Installs, EndEffect(d)
      PROVE  UploadIsWhole(e)'
  BY <1>10, <1>0, <1>a DEF EndEffect, StopEffect, UploadDone, DownloadDone, TransferDone, Scanned
<1>11. ASSUME NEW d \in Installs, PutEffect(d)
      PROVE  UploadIsWhole(e)'
  BY <1>11, <1>0, <1>a, <1>a DEF PutEffect
<1>12. ASSUME NEW d \in Installs, CancelEffect(d)
      PROVE  UploadIsWhole(e)'
  BY <1>12, <1>0, <1>a, <1>a DEF CancelEffect
<1>13. ASSUME NEW d \in Installs, StopEffect(d)
      PROVE  UploadIsWhole(e)'
  BY <1>13, <1>0, <1>a, <1>a DEF StopEffect
<1> QED BY <1>1, <1>2, <1>3, <1>4, <1>5, <1>6, <1>7, <1>8, <1>9, <1>10, <1>11, <1>12,
          <1>13 DEF AnyEffect

LEMMA DownloadsAreWholeStep ==
  ASSUME FileTypes, CleanParts, Clean', AnyEffect
  PROVE  DownloadsAreWhole'
<1> USE DEF DownloadIsWhole, Moves, Uploads, Step, Others, SameServer, SameHistory, SameTask,
          SameCopies, SameExcept
<1> SUFFICES ASSUME NEW e \in Installs PROVE DownloadIsWhole(e)'
  BY DEF DownloadsAreWhole
<1>0. /\ "edited" \notin excuses' /\ "torn" \notin excuses' /\ "skipped" \notin excuses'
      /\ "sameSecond" \notin excuses' /\ "overwritten" \notin excuses'
  BY DEF Clean, Unsafe
<1>a. DownloadIsWhole(e) /\ HoldsAt(e) /\ ServerIsWhole /\ \A d \in Installs : Moves(d) /\ Moves(e) => d = e
  BY DEF CleanParts, DownloadsAreWhole, HashIsHeld, OneMoves
<1>1. CASE TickEffect
  BY <1>1, <1>0, <1>a DEF TickEffect
<1>2. ASSUME NEW d \in Installs, NEW p \in Paths, EditEffect(d, p)
      PROVE  DownloadIsWhole(e)'
  BY <1>2, <1>0, <1>a DEF EditEffect, Overwrites
<1>3. ASSUME NEW d \in Installs, NEW p \in Paths, UploadEffect(d, p)
      PROVE  DownloadIsWhole(e)'
  BY <1>3, <1>0, <1>a, <1>a DEF UploadEffect
<1>4. ASSUME NEW d \in Installs, NEW p \in Paths, DownloadEffect(d, p)
      PROVE  DownloadIsWhole(e)'
  <2>1. CASE e # d
    BY <1>4, <1>0, <1>a, <2>1 DEF DownloadEffect
  <2>2. CASE e = d
    <3>1. Untouched
      BY <1>4, <1>a, <2>2 DEF DownloadEffect, Untouched
    <3>2. manifest.hash[p] # Absent => stored[p] = manifest.hash[p]
      BY <1>a, <3>1 DEF ServerIsWhole
    <3> QED BY <1>4, <1>0, <1>a, <2>2, <3>2 DEF DownloadEffect
  <2> QED BY <2>1, <2>2
<1>5. ASSUME NEW d \in Installs, NEW p \in Paths, FailEffect(d, p)
      PROVE  DownloadIsWhole(e)'
  BY <1>5, <1>0, <1>a, <1>a DEF FailEffect
<1>6. ASSUME NEW d \in Installs, NEW p \in Paths, DropEffect(d, p)
      PROVE  DownloadIsWhole(e)'
  BY <1>6, <1>0, <1>a, <1>a DEF DropEffect
<1>7. ASSUME NEW d \in Installs, LoseEffect(d)
      PROVE  DownloadIsWhole(e)'
  BY <1>7, <1>0, <1>a, <1>a DEF LoseEffect
<1>8. ASSUME NEW d \in Installs, BeginEffect(d)
      PROVE  DownloadIsWhole(e)'
  BY <1>8, <1>0, <1>a DEF BeginEffect, Scanned
<1>9. ASSUME NEW d \in Installs, CompareEffect(d)
      PROVE  DownloadIsWhole(e)'
  <2>1. CASE e # d
    BY <1>9, <1>0, <1>a, <2>1 DEF CompareEffect
  <2>2. CASE e = d
    <3>1. \A q \in Paths : disk[d][q].what = syncing[d].hash[q]
      BY <1>9, <1>a, <2>2 DEF CompareEffect, HoldsAt, Holds
    <3> QED BY <1>9, <1>0, <1>a, <2>2, <3>1 DEF CompareEffect, TransferBegins, NothingDiffers,
          UploadBegins, DownloadBegins
  <2> QED BY <2>1, <2>2
<1>10. ASSUME NEW d \in Installs, EndEffect(d)
      PROVE  DownloadIsWhole(e)'
  BY <1>10, <1>0, <1>a DEF EndEffect, StopEffect, UploadDone, DownloadDone, TransferDone, Scanned
<1>11. ASSUME NEW d \in Installs, PutEffect(d)
      PROVE  DownloadIsWhole(e)'
  BY <1>11, <1>0, <1>a, <1>a DEF PutEffect
<1>12. ASSUME NEW d \in Installs, CancelEffect(d)
      PROVE  DownloadIsWhole(e)'
  BY <1>12, <1>0, <1>a, <1>a DEF CancelEffect
<1>13. ASSUME NEW d \in Installs, StopEffect(d)
      PROVE  DownloadIsWhole(e)'
  BY <1>13, <1>0, <1>a, <1>a DEF StopEffect
<1> QED BY <1>1, <1>2, <1>3, <1>4, <1>5, <1>6, <1>7, <1>8, <1>9, <1>10, <1>11, <1>12,
          <1>13 DEF AnyEffect

(***************************************************************************)
(* What is excused stays excused.                                          *)
(***************************************************************************)
LEMMA ExcusesStay ==
  ASSUME [FilesNext]_filesVars
  PROVE  excuses \subseteq excuses'
<1> USE DEF Excuse, Interrupted, filesBounds, filesLocal, filesServer, filesHistory
<1>1. CASE FilesTick BY <1>1 DEF FilesTick
<1>2. ASSUME NEW d \in Installs, NEW p \in Paths, NEW removed \in BOOLEAN,
            EditFile(d, p, removed)
     PROVE excuses \subseteq excuses'
  BY <1>2 DEF EditFile
<1>3. ASSUME NEW d \in Installs, NEW p \in Paths, UploadFile(d, p) PROVE excuses \subseteq excuses'
  BY <1>3 DEF UploadFile
<1>4. ASSUME NEW d \in Installs, NEW p \in Paths, DownloadFile(d, p) PROVE excuses \subseteq excuses'
  BY <1>4 DEF DownloadFile
<1>5. ASSUME NEW d \in Installs, NEW p \in Paths, TransferFails(d, p) PROVE excuses \subseteq excuses'
  BY <1>5 DEF TransferFails
<1>6. ASSUME NEW d \in Installs, NEW p \in Paths, DropRemote(d, p) PROVE excuses \subseteq excuses'
  BY <1>6 DEF DropRemote
<1>7. ASSUME NEW d \in Installs, LoseFiles(d) PROVE excuses \subseteq excuses'
  BY <1>7 DEF LoseFiles
<1>8. ASSUME NEW d \in Installs, EndTransfer(d) PROVE excuses \subseteq excuses'
  BY <1>8 DEF EndTransfer
<1>9. ASSUME NEW d \in Installs, PutManifest(d) PROVE excuses \subseteq excuses'
  BY <1>9 DEF PutManifest
<1>10. ASSUME NEW d \in Installs, CancelSync(d) PROVE excuses \subseteq excuses'
  BY <1>10 DEF CancelSync
<1>11. ASSUME NEW d \in Installs, BreakOff(d) PROVE excuses \subseteq excuses'
  BY <1>11 DEF BreakOff
<1>12. ASSUME NEW d \in Installs, NEW bias \in Biases, BeginSync(d, bias) PROVE excuses \subseteq excuses'
  BY <1>12 DEF BeginSync
<1>13. ASSUME NEW d \in Installs, NEW valid \in BOOLEAN, CompareManifests(d, valid) PROVE excuses \subseteq excuses'
  BY <1>13 DEF CompareManifests
<1>14. CASE UNCHANGED filesVars BY <1>14 DEF filesVars, filesBounds, filesLocal, filesServer,
          filesHistory
<1> QED BY <1>1, <1>2, <1>3, <1>4, <1>5, <1>6, <1>7, <1>8, <1>9, <1>10, <1>11, <1>12, <1>13,
          <1>14 DEF FilesNext

CleanInv == Clean => CleanParts

LEMMA CleanStarts ==
  ASSUME FilesInit
  PROVE  CleanInv
<1>1. \A d \in Installs : syncing[d] = NoSync
  BY DEF FilesInit
<1>2. NoSync.step = "idle"
  BY DEF NoSync
<1>3. \A p \in Paths : manifest.hash[p] = Absent
  BY DEF FilesInit, NoManifest
<1> QED BY <1>1, <1>2, <1>3
        DEF CleanInv, CleanParts, OneMoves, Moves, HashIsHeld, HoldsAt, Uploads, Step, ServerIsWhole,
            UploadsAreWhole, UploadIsWhole, DownloadsAreWhole, DownloadIsWhole

LEMMA TypesAreParts ==
  ASSUME FilesTypeOK
  PROVE  FileTypes
BY FilesTypeParts DEF FileTypes

LEMMA CleanStep ==
  ASSUME FilesTypeOK, CleanInv, [FilesNext]_filesVars
  PROVE  CleanInv'
<1> SUFFICES ASSUME Clean' PROVE CleanParts'
  BY DEF CleanInv
<1>1. CleanParts
  BY ExcusesStay DEF CleanInv, Clean
<1>2. FileTypes
  BY TypesAreParts
<1>3. AnyEffect
  BY <1>2, StepsHaveEffects DEF Clean, Unsafe
<1>4. OneMoves
  BY <1>1 DEF CleanParts
<1> QED BY <1>1, <1>2, <1>3, <1>4, OneMovesStep, HashIsHeldStep, ServerIsWholeStep,
          UploadsAreWholeStep,
           DownloadsAreWholeStep DEF CleanParts

\* While nothing is excused, the sync that publishes holds its manifest, and the server its files.
LEMMA PublishedIsWhole ==
  ASSUME FilesTypeOK, CleanInv, Clean, NEW d \in Installs, PutManifest(d)
  PROVE  /\ Holds(d, manifest'.hash)
         /\ \A p \in Named(manifest'.hash) : stored[p] = manifest'.hash[p]
<1>1. PutEffect(d)
  BY TypesAreParts, PutOutcome DEF FileTypes
<1>2. CleanParts
  BY DEF CleanInv
<1>3. Moves(d) /\ Step(d, "publish") /\ syncing[d].drop = {} /\ manifest'.hash = syncing[d].hash
  BY <1>1 DEF PutEffect, Moves, Step
<1>4. Holds(d, manifest'.hash)
  BY <1>2, <1>3 DEF CleanParts, HashIsHeld, HoldsAt
<1>5. syncing[d].dir \in {"upload", "download"}
  BY TypesAreParts DEF FileTypes, SyncsOK, Syncs, Directions
<1>6. CASE syncing[d].dir = "upload"
  <2>1. UploadIsWhole(d)
    BY <1>2 DEF CleanParts, UploadsAreWhole
  <2>2. Uploads(d) /\ ~Step(d, "transfer")
    BY <1>3, <1>6 DEF Uploads, Step
  <2> QED BY <1>3, <1>4, <2>1, <2>2 DEF UploadIsWhole, Named
<1>7. CASE syncing[d].dir = "download"
  <2>1. \A p \in Paths : syncing[d].hash[p] = manifest.hash[p]
    BY <1>2, <1>3, <1>7 DEF CleanParts, DownloadsAreWhole, DownloadIsWhole
  <2>2. Untouched
    BY <1>2, <1>3, <1>7 DEF CleanParts, OneMoves, Untouched, Uploads
  <2>3. \A p \in Paths : manifest.hash[p] # Absent => stored[p] = manifest.hash[p]
    BY <1>2, <2>2 DEF CleanParts, ServerIsWhole
  <2> QED BY <1>3, <1>4, <2>1, <2>3 DEF Named
<1> QED BY <1>5, <1>6, <1>7

\* A sync that completes leaves on the device what its manifest names, and the server has it.
THEOREM CompletedSyncsAgree == FilesSpec => CompletedAgrees
<1>1. FilesInit => CleanInv
  BY CleanStarts
<1>2. FilesTypeOK /\ CleanInv /\ [FilesNext]_filesVars => CleanInv'
  BY CleanStep
<1>3. FilesTypeOK /\ CleanInv /\ [FilesNext]_filesVars =>
        [\A d \in Installs :
           PutManifest(d) /\ excuses \cap (Unsafe \cup {"torn", "edited"}) = {}
             => /\ Holds(d, manifest'.hash)
                /\ \A p \in Named(manifest'.hash) : stored[p] = manifest'.hash[p]]_filesVars
  BY PublishedIsWhole DEF Clean
<1> QED BY <1>1, <1>2, <1>3, FilesTypes, PTL DEF FilesSpec, CompletedAgrees

(***************************************************************************)
(* NothingLost: while nothing is excused, the device with edits to send    *)
(* has the last edit of every file, and the others took theirs from the    *)
(* server.                                                                 *)
(***************************************************************************)
Lossless == excuses \cap (Unsafe \cup {"apart", "caughtUp", "forced", "looksNewer"}) = {}
Live(p) == newest[p] # Absent

\* A content is the number of an edit that was made.
FreshAt(d, p) ==
  /\ newest[p] <= edits /\ manifest.hash[p] <= edits /\ stored[p] <= edits
  /\ disk[d][p].what <= edits /\ (Step(d, "idle") \/ syncing[d].hash[p] <= edits)
Fresh == \A d \in Installs, p \in Paths : FreshAt(d, p)
\* One device has edits to send.
OneUnsent == \A d, e \in unsent : d = e
Plain == \A d \in Installs : syncing[d].bias = "auto"
\* The scan that is compared is the directory, and no file of it is newer.
ComparesTruth(d) ==
  Step(d, "compare") => \A p \in Paths :
    /\ syncing[d].hash[p] = disk[d][p].what
    /\ disk[d][p].what # Absent => disk[d][p].at <= syncing[d].updated
AllCompareTruth == \A d \in Installs : ComparesTruth(d)
\* With no edits to send, the manifest names the last edits.
Published == unsent = {} => \A p \in Paths : Live(p) => manifest.hash[p] = newest[p]
\* A last edit that the manifest names is on the server.
ManifestIsStored == \A p \in Paths : Live(p) /\ manifest.hash[p] = newest[p] => stored[p] = newest[p]
\* The device with edits to send has all last edits.
EditorHasAll == \A d \in unsent, p \in Paths : Live(p) => disk[d][p].what = newest[p]
\* Its edits are later than the manifest.
EditorIsNewer ==
  manifest # NoManifest => \A d \in unsent, p \in Paths :
    Live(p) /\ manifest.hash[p] # newest[p] => disk[d][p].at > manifest.updated
\* Every other device took the last edits it has from the server, or sent them.
CopiesAreStored ==
  \A d \in Installs \ unsent, p \in Paths : Live(p) /\ disk[d][p].what = newest[p] => stored[p] = newest[p]
\* An upload sends the last edits it names, and deletes none.
UploadIsSound(d) ==
  Uploads(d) => /\ d \in unsent
    /\ \A p \in Paths :
         /\ Live(p) /\ syncing[d].hash[p] = newest[p] =>
              \/ Step(d, "transfer") /\ (p \in syncing[d].todo \/ syncing[d].failed)
              \/ stored[p] = newest[p]
         /\ p \in syncing[d].drop =>
              /\ syncing[d].hash[p] = Absent /\ p \notin syncing[d].todo
              /\ manifest.hash[p] # Absent /\ manifest.hash[p] # newest[p]
              /\ Live(p) => stored[p] # newest[p]
UploadsAreSound == \A d \in Installs : UploadIsSound(d)
\* What a scan that is going to be published does not name was edited after it.
ScanIsOld(d) ==
  d \in unsent /\ (Uploads(d) \/ Step(d, "publish")) => \A p \in Paths :
    Live(p) /\ syncing[d].hash[p] # newest[p] => disk[d][p].at > syncing[d].updated
ScansAreOld == \A d \in Installs : ScanIsOld(d)
\* A download fetches the last edits that the manifest names, and overwrites none.
DownloadIsSound(d) ==
  Step(d, "transfer") /\ syncing[d].dir = "download" => \A p \in Paths :
    /\ Live(p) /\ manifest.hash[p] = newest[p] =>
         /\ p \notin syncing[d].drop
         /\ p \in syncing[d].todo \/ syncing[d].failed \/ disk[d][p].what = newest[p]
    /\ d \in unsent /\ Live(p) => manifest.hash[p] = newest[p] /\ p \notin syncing[d].todo
DownloadsAreSound == \A d \in Installs : DownloadIsSound(d)
\* A device that caught up publishes the last edits of the manifest, and what the server has.
CaughtUpIsSound(d) ==
  Step(d, "publish") /\ syncing[d].dir = "download" => \A p \in Paths :
    /\ p \notin syncing[d].drop
    /\ Live(p) /\ manifest.hash[p] = newest[p] => syncing[d].hash[p] = newest[p]
    /\ Live(p) /\ syncing[d].hash[p] = newest[p] => stored[p] = newest[p]
CaughtUpAreSound == \A d \in Installs : CaughtUpIsSound(d)

LossParts ==
  /\ OneMoves /\ Fresh /\ OneUnsent /\ Plain /\ AllCompareTruth
  /\ Published /\ ManifestIsStored /\ EditorHasAll /\ EditorIsNewer /\ CopiesAreStored
  /\ UploadsAreSound /\ ScansAreOld /\ DownloadsAreSound /\ CaughtUpAreSound

EditIsNew(d, p) ==
  /\ Live(p)' =>
       /\ newest'[p] # manifest.hash[p] /\ newest'[p] # stored[p]
       /\ \A e \in Installs : newest'[p] # disk[e][p].what /\ (syncing[e].step = "idle" \/ newest'[p] # syncing[e].hash[p])
  /\ Live(p)' /\ manifest # NoManifest => disk'[d][p].at > manifest.updated
  /\ Live(p)' /\ ~Step(d, "idle") => disk'[d][p].at > syncing[d].updated

LEMMA EditsAreNew ==
  ASSUME FileTypes, Fresh, NEW d \in Installs, NEW p \in Paths, EditEffect(d, p),
         "sameSecond" \notin excuses'
  PROVE  EditIsNew(d, p)
<1>1. edits \in Nat /\ clock \in Nat /\ newest'[p] \in {Absent, edits + 1} /\ (Live(p)' => disk'[d][p].at = clock)
  BY DEF FileTypes, BoundsOK, Seconds, EditEffect, Live
<1>2. ASSUME Live(p)'
      PROVE  /\ newest'[p] # manifest.hash[p] /\ newest'[p] # stored[p]
             /\ \A e \in Installs :
                  newest'[p] # disk[e][p].what /\ (syncing[e].step = "idle" \/ newest'[p] # syncing[e].hash[p])
  <2>1. newest'[p] = edits + 1
    BY <1>1, <1>2 DEF Live
  <2>2. \A e \in Installs : FreshAt(e, p)
    BY DEF Fresh
  <2> QED BY <1>1, <2>1, <2>2 DEF FreshAt, Step
<1>3. ASSUME Live(p)', manifest # NoManifest
      PROVE  disk'[d][p].at > manifest.updated
  <2>1. manifest.updated \in Nat
    BY <1>3 DEF FileTypes, ServerOK, Manifests, Seconds
  <2>2. ~(clock <= manifest.updated)
    BY <1>3 DEF EditEffect
  <2> QED BY <1>1, <1>3, <2>1, <2>2
<1>4. ASSUME Live(p)', ~Step(d, "idle")
      PROVE  disk'[d][p].at > syncing[d].updated
  <2>1. syncing[d].updated \in Nat
    BY DEF FileTypes, SyncsOK, Syncs, Seconds
  <2>2. ~(clock <= syncing[d].updated)
    BY <1>4 DEF EditEffect
  <2> QED BY <1>1, <1>4, <2>1, <2>2
<1> QED BY <1>2, <1>3, <1>4 DEF EditIsNew

LEMMA FreshStep ==
  ASSUME FileTypes, FileTypes', LossParts, Lossless', AnyEffect
  PROVE  Fresh'
<1> USE DEF FreshAt, Live, Moves, Uploads, Step, Others, SameServer, SameHistory, SameTask,
          SameCopies, SameExcept
<1> SUFFICES ASSUME NEW e \in Installs, NEW q \in Paths
             PROVE  FreshAt(e, q)'
  BY DEF Fresh
<1>0. /\ "skipped" \notin excuses' /\ "sameSecond" \notin excuses' /\ "overwritten" \notin excuses'
      /\ "apart" \notin excuses' /\ "caughtUp" \notin excuses' /\ "forced" \notin excuses'
      /\ "looksNewer" \notin excuses'
  BY DEF Lossless, Unsafe
<1>a. FreshAt(e, q) /\ \A d \in Installs : FreshAt(d, q)
  BY DEF LossParts, Fresh
<1>b. edits \in Nat /\ Absent <= edits
  BY DEF FileTypes, BoundsOK, Absent
<1>c. /\ newest[q] \in Nat /\ stored[q] \in Nat /\ manifest.hash[q] \in Nat
      /\ disk[e][q].what \in Nat /\ syncing[e].hash[q] \in Nat
  BY NoManifestTypes DEF FileTypes, HistoryOK, ServerOK, CopiesOK, SyncsOK, Syncs, Manifests,
          Snapshots, Files, Contents
<1>d. \A n \in Nat : n <= edits => n <= edits + 1
  BY <1>b
<1>1. CASE TickEffect
  BY <1>1, <1>a DEF TickEffect
<1>2. ASSUME NEW d \in Installs, NEW p \in Paths, EditEffect(d, p)
      PROVE  FreshAt(e, q)'
  <2>1. newest'[p] <= edits + 1 /\ edits' = edits + 1
    BY <1>2, <1>b DEF EditEffect, Absent
  <2>2. disk'[e][q].what <= edits + 1
    BY <1>2, <1>a, <1>c, <1>d, <2>1 DEF EditEffect
  <2>3. newest'[q] <= edits + 1
    BY <1>2, <1>a, <1>c, <1>d, <2>1 DEF EditEffect
  <2>4. stored'[q] <= edits + 1 /\ manifest'.hash[q] <= edits + 1
    BY <1>2, <1>a, <1>c, <1>d DEF EditEffect
  <2>5. Step(e, "idle")' \/ syncing'[e].hash[q] <= edits + 1
    BY <1>2, <1>a, <1>c, <1>d DEF EditEffect
  <2> QED BY <2>1, <2>2, <2>3, <2>4, <2>5
<1>3. ASSUME NEW d \in Installs, NEW p \in Paths, UploadEffect(d, p)
      PROVE  FreshAt(e, q)'
  BY <1>3, <1>0, <1>a, <1>b, <1>c, <1>d DEF UploadEffect
<1>4. ASSUME NEW d \in Installs, NEW p \in Paths, DownloadEffect(d, p)
      PROVE  FreshAt(e, q)'
  BY <1>4, <1>0, <1>a, <1>b, <1>c, <1>d DEF DownloadEffect
<1>5. ASSUME NEW d \in Installs, NEW p \in Paths, FailEffect(d, p)
      PROVE  FreshAt(e, q)'
  BY <1>5, <1>0, <1>a, <1>b, <1>c, <1>d DEF FailEffect
<1>6. ASSUME NEW d \in Installs, NEW p \in Paths, DropEffect(d, p)
      PROVE  FreshAt(e, q)'
  BY <1>6, <1>0, <1>a, <1>b, <1>c, <1>d DEF DropEffect
<1>7. ASSUME NEW d \in Installs, LoseEffect(d)
      PROVE  FreshAt(e, q)'
  BY <1>7, <1>0, <1>a, <1>b, <1>c, <1>d DEF LoseEffect
<1>8. ASSUME NEW d \in Installs, BeginEffect(d)
      PROVE  FreshAt(e, q)'
  BY <1>8, <1>0, <1>a, <1>b, <1>c, <1>d DEF BeginEffect, Scanned
<1>9. ASSUME NEW d \in Installs, CompareEffect(d)
      PROVE  FreshAt(e, q)'
  <2>1. CASE e # d
    BY <1>9, <1>a, <2>1 DEF CompareEffect
  <2>2. CASE e = d
    <3>1. syncing'[d].step = "idle" \/ syncing'[d].hash = syncing[d].hash
      BY <1>9 DEF CompareEffect, TransferBegins, NothingDiffers, UploadBegins, DownloadBegins
    <3> QED BY <1>9, <1>a, <2>2, <3>1 DEF CompareEffect
  <2> QED BY <2>1, <2>2
<1>10. ASSUME NEW d \in Installs, EndEffect(d)
      PROVE  FreshAt(e, q)'
  BY <1>10, <1>0, <1>a, <1>b, <1>c, <1>d DEF EndEffect, StopEffect, UploadDone, DownloadDone,
          TransferDone, Scanned
<1>11. ASSUME NEW d \in Installs, PutEffect(d)
      PROVE  FreshAt(e, q)'
  BY <1>11, <1>0, <1>a, <1>b, <1>c, <1>d DEF PutEffect, Holds
<1>12. ASSUME NEW d \in Installs, CancelEffect(d)
      PROVE  FreshAt(e, q)'
  BY <1>12, <1>0, <1>a, <1>b, <1>c, <1>d DEF CancelEffect
<1>13. ASSUME NEW d \in Installs, StopEffect(d)
      PROVE  FreshAt(e, q)'
  BY <1>13, <1>0, <1>a, <1>b, <1>c, <1>d DEF StopEffect
<1> QED BY <1>1, <1>2, <1>3, <1>4, <1>5, <1>6, <1>7, <1>8, <1>9, <1>10, <1>11, <1>12,
          <1>13 DEF AnyEffect

LEMMA OneUnsentStep ==
  ASSUME FileTypes, FileTypes', LossParts, Lossless', AnyEffect
  PROVE  OneUnsent'
<1> USE DEF OneUnsent, Live, Moves, Uploads, Step, Others, SameServer, SameHistory, SameTask,
          SameCopies, SameExcept
<1>0. /\ "skipped" \notin excuses' /\ "sameSecond" \notin excuses' /\ "overwritten" \notin excuses'
      /\ "apart" \notin excuses' /\ "caughtUp" \notin excuses' /\ "forced" \notin excuses'
      /\ "looksNewer" \notin excuses'
  BY DEF Lossless, Unsafe
<1>a. OneUnsent
  BY DEF LossParts, OneUnsent
<1>1. CASE TickEffect
  BY <1>1, <1>a DEF TickEffect
<1>2. ASSUME NEW d \in Installs, NEW p \in Paths, EditEffect(d, p)
      PROVE  OneUnsent'
  <2>0. EditIsNew(d, p)
    BY <1>2, <1>0, EditsAreNew DEF LossParts
  <2> QED BY <1>2, <1>0, <1>a, <2>0 DEF EditEffect, EditIsNew, Apart, Overwrites
<1>3. ASSUME NEW d \in Installs, NEW p \in Paths, UploadEffect(d, p)
      PROVE  OneUnsent'
  BY <1>3, <1>0, <1>a DEF UploadEffect
<1>4. ASSUME NEW d \in Installs, NEW p \in Paths, DownloadEffect(d, p)
      PROVE  OneUnsent'
  BY <1>4, <1>0, <1>a DEF DownloadEffect
<1>5. ASSUME NEW d \in Installs, NEW p \in Paths, FailEffect(d, p)
      PROVE  OneUnsent'
  BY <1>5, <1>0, <1>a DEF FailEffect
<1>6. ASSUME NEW d \in Installs, NEW p \in Paths, DropEffect(d, p)
      PROVE  OneUnsent'
  BY <1>6, <1>0, <1>a DEF DropEffect
<1>7. ASSUME NEW d \in Installs, LoseEffect(d)
      PROVE  OneUnsent'
  BY <1>7, <1>0, <1>a DEF LoseEffect
<1>8. ASSUME NEW d \in Installs, BeginEffect(d)
      PROVE  OneUnsent'
  BY <1>8, <1>0, <1>a DEF BeginEffect, Scanned
<1>9. ASSUME NEW d \in Installs, CompareEffect(d)
      PROVE  OneUnsent'
  BY <1>9, <1>0, <1>a DEF CompareEffect, TransferBegins, NothingDiffers, UploadBegins,
          DownloadBegins
<1>10. ASSUME NEW d \in Installs, EndEffect(d)
      PROVE  OneUnsent'
  BY <1>10, <1>0, <1>a DEF EndEffect, StopEffect, UploadDone, DownloadDone, TransferDone, Scanned
<1>11. ASSUME NEW d \in Installs, PutEffect(d)
      PROVE  OneUnsent'
  BY <1>11, <1>0, <1>a DEF PutEffect, Holds
<1>12. ASSUME NEW d \in Installs, CancelEffect(d)
      PROVE  OneUnsent'
  BY <1>12, <1>0, <1>a DEF CancelEffect
<1>13. ASSUME NEW d \in Installs, StopEffect(d)
      PROVE  OneUnsent'
  BY <1>13, <1>0, <1>a DEF StopEffect
<1> QED BY <1>1, <1>2, <1>3, <1>4, <1>5, <1>6, <1>7, <1>8, <1>9, <1>10, <1>11, <1>12,
          <1>13 DEF AnyEffect

LEMMA PlainStep ==
  ASSUME FileTypes, FileTypes', LossParts, Lossless', AnyEffect
  PROVE  Plain'
<1> USE DEF Live, Moves, Uploads, Step, Others, SameServer, SameHistory, SameTask, SameCopies,
          SameExcept
<1> SUFFICES ASSUME NEW e \in Installs PROVE syncing'[e].bias = "auto"
  BY DEF Plain
<1>0. /\ "skipped" \notin excuses' /\ "sameSecond" \notin excuses' /\ "overwritten" \notin excuses'
      /\ "apart" \notin excuses' /\ "caughtUp" \notin excuses' /\ "forced" \notin excuses'
      /\ "looksNewer" \notin excuses'
  BY DEF Lossless, Unsafe
<1>a. syncing[e].bias = "auto"
  BY DEF LossParts, Plain
<1>1. CASE TickEffect
  BY <1>1, <1>a DEF TickEffect
<1>2. ASSUME NEW d \in Installs, NEW p \in Paths, EditEffect(d, p)
      PROVE  syncing'[e].bias = "auto"
  <2>0. EditIsNew(d, p)
    BY <1>2, <1>0, EditsAreNew DEF LossParts
  <2> QED BY <1>2, <1>0, <1>a, <2>0 DEF EditEffect, EditIsNew, Apart, Overwrites
<1>3. ASSUME NEW d \in Installs, NEW p \in Paths, UploadEffect(d, p)
      PROVE  syncing'[e].bias = "auto"
  BY <1>3, <1>0, <1>a DEF UploadEffect
<1>4. ASSUME NEW d \in Installs, NEW p \in Paths, DownloadEffect(d, p)
      PROVE  syncing'[e].bias = "auto"
  BY <1>4, <1>0, <1>a DEF DownloadEffect
<1>5. ASSUME NEW d \in Installs, NEW p \in Paths, FailEffect(d, p)
      PROVE  syncing'[e].bias = "auto"
  BY <1>5, <1>0, <1>a DEF FailEffect
<1>6. ASSUME NEW d \in Installs, NEW p \in Paths, DropEffect(d, p)
      PROVE  syncing'[e].bias = "auto"
  BY <1>6, <1>0, <1>a DEF DropEffect
<1>7. ASSUME NEW d \in Installs, LoseEffect(d)
      PROVE  syncing'[e].bias = "auto"
  BY <1>7, <1>0, <1>a DEF LoseEffect
<1>8. ASSUME NEW d \in Installs, BeginEffect(d)
      PROVE  syncing'[e].bias = "auto"
  BY <1>8, <1>0, <1>a DEF BeginEffect, Scanned
<1>9. ASSUME NEW d \in Installs, CompareEffect(d)
      PROVE  syncing'[e].bias = "auto"
  BY <1>9, <1>0, <1>a DEF CompareEffect, TransferBegins, NothingDiffers, UploadBegins,
          DownloadBegins
<1>10. ASSUME NEW d \in Installs, EndEffect(d)
      PROVE  syncing'[e].bias = "auto"
  BY <1>10, <1>0, <1>a DEF EndEffect, StopEffect, UploadDone, DownloadDone, TransferDone, Scanned
<1>11. ASSUME NEW d \in Installs, PutEffect(d)
      PROVE  syncing'[e].bias = "auto"
  BY <1>11, <1>0, <1>a DEF PutEffect, Holds
<1>12. ASSUME NEW d \in Installs, CancelEffect(d)
      PROVE  syncing'[e].bias = "auto"
  BY <1>12, <1>0, <1>a DEF CancelEffect
<1>13. ASSUME NEW d \in Installs, StopEffect(d)
      PROVE  syncing'[e].bias = "auto"
  BY <1>13, <1>0, <1>a DEF StopEffect
<1> QED BY <1>1, <1>2, <1>3, <1>4, <1>5, <1>6, <1>7, <1>8, <1>9, <1>10, <1>11, <1>12,
          <1>13 DEF AnyEffect

LEMMA ComparesTruthStep ==
  ASSUME FileTypes, FileTypes', LossParts, Lossless', AnyEffect
  PROVE  AllCompareTruth'
<1> USE DEF ComparesTruth, Live, Moves, Uploads, Step, Others, SameServer, SameHistory, SameTask,
          SameCopies, SameExcept
<1> SUFFICES ASSUME NEW e \in Installs PROVE ComparesTruth(e)'
  BY DEF AllCompareTruth
<1>0. /\ "skipped" \notin excuses' /\ "sameSecond" \notin excuses' /\ "overwritten" \notin excuses'
      /\ "apart" \notin excuses' /\ "caughtUp" \notin excuses' /\ "forced" \notin excuses'
      /\ "looksNewer" \notin excuses'
  BY DEF Lossless, Unsafe
<1>a. ComparesTruth(e)
  BY DEF LossParts, AllCompareTruth
<1>1. CASE TickEffect
  BY <1>1, <1>a DEF TickEffect
<1>2. ASSUME NEW d \in Installs, NEW p \in Paths, EditEffect(d, p)
      PROVE  ComparesTruth(e)'
  <2>0. EditIsNew(d, p)
    BY <1>2, <1>0, EditsAreNew DEF LossParts
  <2> QED BY <1>2, <1>0, <1>a, <2>0 DEF EditEffect, EditIsNew, Apart, Overwrites
<1>3. ASSUME NEW d \in Installs, NEW p \in Paths, UploadEffect(d, p)
      PROVE  ComparesTruth(e)'
  BY <1>3, <1>0, <1>a DEF UploadEffect
<1>4. ASSUME NEW d \in Installs, NEW p \in Paths, DownloadEffect(d, p)
      PROVE  ComparesTruth(e)'
  BY <1>4, <1>0, <1>a DEF DownloadEffect
<1>5. ASSUME NEW d \in Installs, NEW p \in Paths, FailEffect(d, p)
      PROVE  ComparesTruth(e)'
  BY <1>5, <1>0, <1>a DEF FailEffect
<1>6. ASSUME NEW d \in Installs, NEW p \in Paths, DropEffect(d, p)
      PROVE  ComparesTruth(e)'
  BY <1>6, <1>0, <1>a DEF DropEffect
<1>7. ASSUME NEW d \in Installs, LoseEffect(d)
      PROVE  ComparesTruth(e)'
  BY <1>7, <1>0, <1>a DEF LoseEffect
<1>8. ASSUME NEW d \in Installs, BeginEffect(d)
      PROVE  ComparesTruth(e)'
  BY <1>8, <1>0, <1>a DEF BeginEffect, Scanned
<1>9. ASSUME NEW d \in Installs, CompareEffect(d)
      PROVE  ComparesTruth(e)'
  BY <1>9, <1>0, <1>a DEF CompareEffect, TransferBegins, NothingDiffers, UploadBegins,
          DownloadBegins
<1>10. ASSUME NEW d \in Installs, EndEffect(d)
      PROVE  ComparesTruth(e)'
  BY <1>10, <1>0, <1>a DEF EndEffect, StopEffect, UploadDone, DownloadDone, TransferDone, Scanned
<1>11. ASSUME NEW d \in Installs, PutEffect(d)
      PROVE  ComparesTruth(e)'
  BY <1>11, <1>0, <1>a DEF PutEffect, Holds
<1>12. ASSUME NEW d \in Installs, CancelEffect(d)
      PROVE  ComparesTruth(e)'
  BY <1>12, <1>0, <1>a DEF CancelEffect
<1>13. ASSUME NEW d \in Installs, StopEffect(d)
      PROVE  ComparesTruth(e)'
  BY <1>13, <1>0, <1>a DEF StopEffect
<1> QED BY <1>1, <1>2, <1>3, <1>4, <1>5, <1>6, <1>7, <1>8, <1>9, <1>10, <1>11, <1>12,
          <1>13 DEF AnyEffect

LEMMA PublishedStep ==
  ASSUME FileTypes, FileTypes', LossParts, Lossless', AnyEffect
  PROVE  Published'
<1> USE DEF Live, Moves, Uploads, Step, Others, SameServer, SameHistory, SameTask, SameCopies,
          SameExcept
<1> SUFFICES ASSUME unsent' = {}, NEW q \in Paths, Live(q)' PROVE manifest'.hash[q] = newest'[q]
  BY DEF Published
<1>0. /\ "skipped" \notin excuses' /\ "sameSecond" \notin excuses' /\ "overwritten" \notin excuses'
      /\ "apart" \notin excuses' /\ "caughtUp" \notin excuses' /\ "forced" \notin excuses'
      /\ "looksNewer" \notin excuses'
  BY DEF Lossless, Unsafe
<1>a. /\ unsent = {} /\ Live(q) => manifest.hash[q] = newest[q]
      /\ Published /\ EditorHasAll /\ unsent' = {} /\ Live(q)'
      /\ \A d \in Installs : UploadIsSound(d) /\ CaughtUpIsSound(d)
  BY DEF LossParts, UploadsAreSound, CaughtUpAreSound, Published
<1>1. CASE TickEffect
  BY <1>1, <1>a DEF TickEffect
<1>2. ASSUME NEW d \in Installs, NEW p \in Paths, EditEffect(d, p)
      PROVE  manifest'.hash[q] = newest'[q]
  BY <1>2, <1>a DEF EditEffect
<1>3. ASSUME NEW d \in Installs, NEW p \in Paths, UploadEffect(d, p)
      PROVE  manifest'.hash[q] = newest'[q]
  BY <1>3, <1>0, <1>a DEF UploadEffect
<1>4. ASSUME NEW d \in Installs, NEW p \in Paths, DownloadEffect(d, p)
      PROVE  manifest'.hash[q] = newest'[q]
  BY <1>4, <1>0, <1>a DEF DownloadEffect
<1>5. ASSUME NEW d \in Installs, NEW p \in Paths, FailEffect(d, p)
      PROVE  manifest'.hash[q] = newest'[q]
  BY <1>5, <1>0, <1>a DEF FailEffect
<1>6. ASSUME NEW d \in Installs, NEW p \in Paths, DropEffect(d, p)
      PROVE  manifest'.hash[q] = newest'[q]
  BY <1>6, <1>0, <1>a DEF DropEffect
<1>7. ASSUME NEW d \in Installs, LoseEffect(d)
      PROVE  manifest'.hash[q] = newest'[q]
  BY <1>7, <1>0, <1>a DEF LoseEffect
<1>8. ASSUME NEW d \in Installs, BeginEffect(d)
      PROVE  manifest'.hash[q] = newest'[q]
  BY <1>8, <1>0, <1>a DEF BeginEffect, Scanned
<1>9. ASSUME NEW d \in Installs, CompareEffect(d)
      PROVE  manifest'.hash[q] = newest'[q]
  <2>1. CASE unsent = {}
    BY <1>9, <1>a, <2>1 DEF CompareEffect, Published
  <2>2. CASE unsent # {}
    <3>1. NothingDiffers(d) /\ d \in unsent /\ Holds(d, syncing[d].hash)
      BY <1>9, <1>a, <2>2 DEF CompareEffect, NothingDiffers, TransferBegins
    <3> QED BY <1>9, <1>a, <3>1 DEF CompareEffect, NothingDiffers, EditorHasAll, Holds
  <2> QED BY <2>1, <2>2
<1>10. ASSUME NEW d \in Installs, EndEffect(d)
      PROVE  manifest'.hash[q] = newest'[q]
  BY <1>10, <1>0, <1>a DEF EndEffect, StopEffect, UploadDone, DownloadDone, TransferDone, Scanned
<1>11. ASSUME NEW d \in Installs, PutEffect(d)
      PROVE  manifest'.hash[q] = newest'[q]
  <2>0. Moves(d) /\ syncing[d].dir \in {"upload", "download"}
    BY <1>11 DEF PutEffect, FileTypes, SyncsOK, Syncs, Directions
  <2>1. CASE d \notin unsent
    <3>1. unsent = {} /\ manifest.hash[q] = newest[q]
      BY <1>11, <1>a, <2>1 DEF PutEffect, Published
    <3>2. syncing[d].dir = "download"
      BY <1>a, <2>0, <2>1 DEF UploadIsSound
    <3> QED BY <1>11, <1>a, <3>1, <3>2 DEF PutEffect, CaughtUpIsSound
  <2>2. CASE d \in unsent
    <3>1. Holds(d, syncing[d].hash)
      BY <1>11, <1>a, <2>2 DEF PutEffect
    <3> QED BY <1>11, <1>a, <2>2, <3>1 DEF PutEffect, EditorHasAll, Holds
  <2> QED BY <2>1, <2>2
<1>12. ASSUME NEW d \in Installs, CancelEffect(d)
      PROVE  manifest'.hash[q] = newest'[q]
  BY <1>12, <1>0, <1>a DEF CancelEffect
<1>13. ASSUME NEW d \in Installs, StopEffect(d)
      PROVE  manifest'.hash[q] = newest'[q]
  BY <1>13, <1>0, <1>a DEF StopEffect
<1> QED BY <1>1, <1>2, <1>3, <1>4, <1>5, <1>6, <1>7, <1>8, <1>9, <1>10, <1>11, <1>12,
          <1>13 DEF AnyEffect

LEMMA ManifestIsStoredStep ==
  ASSUME FileTypes, FileTypes', LossParts, Lossless', AnyEffect
  PROVE  ManifestIsStored'
<1> USE DEF Live, Moves, Uploads, Step, Others, SameServer, SameHistory, SameTask, SameCopies,
          SameExcept
<1> SUFFICES ASSUME NEW q \in Paths, Live(q)', manifest'.hash[q] = newest'[q] PROVE stored'[q] = newest'[q]
  BY DEF ManifestIsStored
<1>0. /\ "skipped" \notin excuses' /\ "sameSecond" \notin excuses' /\ "overwritten" \notin excuses'
      /\ "apart" \notin excuses' /\ "caughtUp" \notin excuses' /\ "forced" \notin excuses'
      /\ "looksNewer" \notin excuses'
  BY DEF Lossless, Unsafe
<1>a. /\ Live(q) /\ manifest.hash[q] = newest[q] => stored[q] = newest[q]
      /\ Live(q)' /\ manifest'.hash[q] = newest'[q] /\ EditorHasAll
      /\ \A d \in Installs : UploadIsSound(d) /\ CaughtUpIsSound(d)
  BY DEF LossParts, UploadsAreSound, CaughtUpAreSound, ManifestIsStored
<1>1. CASE TickEffect
  BY <1>1, <1>a DEF TickEffect
<1>2. ASSUME NEW d \in Installs, NEW p \in Paths, EditEffect(d, p)
      PROVE  stored'[q] = newest'[q]
  <2>0. EditIsNew(d, p)
    BY <1>2, <1>0, EditsAreNew DEF LossParts
  <2> QED BY <1>2, <1>0, <1>a, <2>0 DEF EditEffect, EditIsNew, Apart, Overwrites
<1>3. ASSUME NEW d \in Installs, NEW p \in Paths, UploadEffect(d, p)
      PROVE  stored'[q] = newest'[q]
  <2>1. CASE q # p
    BY <1>3, <1>a, <2>1 DEF UploadEffect
  <2>2. CASE q = p
    <3>1. d \in unsent
      BY <1>3, <1>a DEF UploadEffect, UploadIsSound
    <3>2. disk[d][q].what = newest[q]
      BY <1>3, <1>a, <3>1 DEF UploadEffect, EditorHasAll
    <3> QED BY <1>3, <1>a, <2>2, <3>2 DEF UploadEffect
  <2> QED BY <2>1, <2>2
<1>4. ASSUME NEW d \in Installs, NEW p \in Paths, DownloadEffect(d, p)
      PROVE  stored'[q] = newest'[q]
  BY <1>4, <1>0, <1>a DEF DownloadEffect
<1>5. ASSUME NEW d \in Installs, NEW p \in Paths, FailEffect(d, p)
      PROVE  stored'[q] = newest'[q]
  BY <1>5, <1>0, <1>a DEF FailEffect
<1>6. ASSUME NEW d \in Installs, NEW p \in Paths, DropEffect(d, p)
      PROVE  stored'[q] = newest'[q]
  <2>1. CASE q # p
    BY <1>6, <1>a, <2>1 DEF DropEffect
  <2>2. CASE q = p
    <3>1. Moves(d) /\ syncing[d].dir \in {"upload", "download"}
      BY <1>6 DEF DropEffect, FileTypes, SyncsOK, Syncs, Directions
    <3>2. CASE syncing[d].dir = "upload"
      BY <1>6, <1>a, <2>2, <3>1, <3>2 DEF DropEffect, UploadIsSound
    <3>3. CASE syncing[d].dir = "download"
      BY <1>6, <1>a, <2>2, <3>3 DEF DropEffect, CaughtUpIsSound
    <3> QED BY <3>1, <3>2, <3>3
  <2> QED BY <2>1, <2>2
<1>7. ASSUME NEW d \in Installs, LoseEffect(d)
      PROVE  stored'[q] = newest'[q]
  BY <1>7, <1>0, <1>a DEF LoseEffect
<1>8. ASSUME NEW d \in Installs, BeginEffect(d)
      PROVE  stored'[q] = newest'[q]
  BY <1>8, <1>0, <1>a DEF BeginEffect, Scanned
<1>9. ASSUME NEW d \in Installs, CompareEffect(d)
      PROVE  stored'[q] = newest'[q]
  BY <1>9, <1>0, <1>a DEF CompareEffect, TransferBegins, NothingDiffers, UploadBegins,
          DownloadBegins
<1>10. ASSUME NEW d \in Installs, EndEffect(d)
      PROVE  stored'[q] = newest'[q]
  BY <1>10, <1>0, <1>a DEF EndEffect, StopEffect, UploadDone, DownloadDone, TransferDone, Scanned
<1>11. ASSUME NEW d \in Installs, PutEffect(d)
      PROVE  stored'[q] = newest'[q]
  <2>1. Moves(d) /\ syncing[d].dir \in {"upload", "download"}
    BY <1>11 DEF PutEffect, FileTypes, SyncsOK, Syncs, Directions
  <2>2. CASE syncing[d].dir = "upload"
    BY <1>11, <1>a, <2>1, <2>2 DEF PutEffect, UploadIsSound
  <2>3. CASE syncing[d].dir = "download"
    BY <1>11, <1>a, <2>3 DEF PutEffect, CaughtUpIsSound
  <2> QED BY <2>1, <2>2, <2>3
<1>12. ASSUME NEW d \in Installs, CancelEffect(d)
      PROVE  stored'[q] = newest'[q]
  BY <1>12, <1>0, <1>a DEF CancelEffect
<1>13. ASSUME NEW d \in Installs, StopEffect(d)
      PROVE  stored'[q] = newest'[q]
  BY <1>13, <1>0, <1>a DEF StopEffect
<1> QED BY <1>1, <1>2, <1>3, <1>4, <1>5, <1>6, <1>7, <1>8, <1>9, <1>10, <1>11, <1>12,
          <1>13 DEF AnyEffect

LEMMA EditorHasAllStep ==
  ASSUME FileTypes, FileTypes', LossParts, Lossless', AnyEffect
  PROVE  EditorHasAll'
<1> USE DEF Live, Moves, Uploads, Step, Others, SameServer, SameHistory, SameTask, SameCopies,
          SameExcept
<1> SUFFICES ASSUME NEW e \in unsent', NEW q \in Paths, Live(q)'
             PROVE  disk'[e][q].what = newest'[q]
  BY DEF EditorHasAll
<1>0. /\ "skipped" \notin excuses' /\ "sameSecond" \notin excuses' /\ "overwritten" \notin excuses'
      /\ "apart" \notin excuses' /\ "caughtUp" \notin excuses' /\ "forced" \notin excuses'
      /\ "looksNewer" \notin excuses'
  BY DEF Lossless, Unsafe
<1>e. e \in Installs
  BY DEF FileTypes, HistoryOK
<1>a. /\ e \in unsent' /\ e \in Installs /\ Live(q)' /\ Published
      /\ e \in unsent /\ Live(q) => disk[e][q].what = newest[q]
      /\ DownloadIsSound(e)
  BY <1>e DEF LossParts, DownloadsAreSound, EditorHasAll
<1>1. CASE TickEffect
  BY <1>1, <1>a DEF TickEffect
<1>2. ASSUME NEW d \in Installs, NEW p \in Paths, EditEffect(d, p)
      PROVE  disk'[e][q].what = newest'[q]
  <2>1. e = d /\ unsent \subseteq {d} /\ (d \in unsent \/ Holds(d, manifest.hash))
    BY <1>2, <1>0, <1>a DEF EditEffect, Apart
  <2>2. CASE q = p
    BY <1>2, <2>1, <2>2 DEF EditEffect
  <2>3. CASE q # p /\ d \in unsent
    BY <1>2, <1>a, <2>1, <2>3 DEF EditEffect
  <2>4. CASE q # p /\ d \notin unsent
    <3>1. Live(q) /\ manifest.hash[q] = newest[q]
      BY <1>2, <1>a, <2>1, <2>4 DEF EditEffect, Published
    <3> QED BY <1>2, <2>1, <2>4, <3>1 DEF EditEffect, Holds
  <2> QED BY <2>2, <2>3, <2>4
<1>3. ASSUME NEW d \in Installs, NEW p \in Paths, UploadEffect(d, p)
      PROVE  disk'[e][q].what = newest'[q]
  BY <1>3, <1>0, <1>a DEF UploadEffect
<1>4. ASSUME NEW d \in Installs, NEW p \in Paths, DownloadEffect(d, p)
      PROVE  disk'[e][q].what = newest'[q]
  <2>1. CASE e = d
    <3>1. q # p
      BY <1>4, <1>a, <2>1 DEF DownloadEffect, DownloadIsSound
    <3> QED BY <1>4, <1>a, <2>1, <3>1 DEF DownloadEffect
  <2>2. CASE e # d
    BY <1>4, <1>a, <2>2 DEF DownloadEffect
  <2> QED BY <2>1, <2>2
<1>5. ASSUME NEW d \in Installs, NEW p \in Paths, FailEffect(d, p)
      PROVE  disk'[e][q].what = newest'[q]
  BY <1>5, <1>0, <1>a DEF FailEffect
<1>6. ASSUME NEW d \in Installs, NEW p \in Paths, DropEffect(d, p)
      PROVE  disk'[e][q].what = newest'[q]
  BY <1>6, <1>0, <1>a DEF DropEffect
<1>7. ASSUME NEW d \in Installs, LoseEffect(d)
      PROVE  disk'[e][q].what = newest'[q]
  BY <1>7, <1>0, <1>a DEF LoseEffect
<1>8. ASSUME NEW d \in Installs, BeginEffect(d)
      PROVE  disk'[e][q].what = newest'[q]
  BY <1>8, <1>0, <1>a DEF BeginEffect, Scanned
<1>9. ASSUME NEW d \in Installs, CompareEffect(d)
      PROVE  disk'[e][q].what = newest'[q]
  BY <1>9, <1>0, <1>a DEF CompareEffect, TransferBegins, NothingDiffers, UploadBegins,
          DownloadBegins
<1>10. ASSUME NEW d \in Installs, EndEffect(d)
      PROVE  disk'[e][q].what = newest'[q]
  <2>1. CASE disk' = disk
    BY <1>10, <1>a, <2>1 DEF EndEffect
  <2>2. CASE DownloadDone(d) /\ e # d
    BY <1>10, <1>a, <2>2 DEF EndEffect, DownloadDone
  <2>3. CASE DownloadDone(d) /\ e = d
    <3>1. q \notin syncing[d].drop
      BY <1>10, <1>a, <2>3 DEF EndEffect, DownloadDone, DownloadIsSound
    <3> QED BY <1>10, <1>a, <2>3, <3>1 DEF EndEffect, DownloadDone
  <2> QED BY <1>10, <2>1, <2>2, <2>3 DEF EndEffect, StopEffect, UploadDone
<1>11. ASSUME NEW d \in Installs, PutEffect(d)
      PROVE  disk'[e][q].what = newest'[q]
  BY <1>11, <1>0, <1>a DEF PutEffect, Holds
<1>12. ASSUME NEW d \in Installs, CancelEffect(d)
      PROVE  disk'[e][q].what = newest'[q]
  BY <1>12, <1>0, <1>a DEF CancelEffect
<1>13. ASSUME NEW d \in Installs, StopEffect(d)
      PROVE  disk'[e][q].what = newest'[q]
  BY <1>13, <1>0, <1>a DEF StopEffect
<1> QED BY <1>1, <1>2, <1>3, <1>4, <1>5, <1>6, <1>7, <1>8, <1>9, <1>10, <1>11, <1>12,
          <1>13 DEF AnyEffect

LEMMA EditorIsNewerStep ==
  ASSUME FileTypes, FileTypes', LossParts, Lossless', AnyEffect
  PROVE  EditorIsNewer'
<1> USE DEF Live, Moves, Uploads, Step, Others, SameServer, SameHistory, SameTask, SameCopies,
          SameExcept
<1> SUFFICES ASSUME manifest' # NoManifest, NEW e \in unsent', NEW q \in Paths, Live(q)', manifest'.hash[q] # newest'[q]
             PROVE  disk'[e][q].at > manifest'.updated
  BY DEF EditorIsNewer
<1>0. /\ "skipped" \notin excuses' /\ "sameSecond" \notin excuses' /\ "overwritten" \notin excuses'
      /\ "apart" \notin excuses' /\ "caughtUp" \notin excuses' /\ "forced" \notin excuses'
      /\ "looksNewer" \notin excuses'
  BY DEF Lossless, Unsafe
<1>e. e \in Installs
  BY DEF FileTypes, HistoryOK
<1>a. /\ e \in unsent' /\ e \in Installs /\ Live(q)' /\ manifest' # NoManifest /\ manifest'.hash[q] # newest'[q]
      /\ Published
      /\ e \in unsent /\ Live(q) /\ manifest # NoManifest /\ manifest.hash[q] # newest[q] => disk[e][q].at > manifest.updated
      /\ DownloadIsSound(e) /\ ScanIsOld(e) /\ OneUnsent /\ \A d \in Installs : UploadIsSound(d)
  BY <1>e DEF LossParts, UploadsAreSound, ScansAreOld, DownloadsAreSound, EditorIsNewer
<1>1. CASE TickEffect
  BY <1>1, <1>a DEF TickEffect
<1>2. ASSUME NEW d \in Installs, NEW p \in Paths, EditEffect(d, p)
      PROVE  disk'[e][q].at > manifest'.updated
  <2>0. EditIsNew(d, p)
    BY <1>2, <1>0, EditsAreNew DEF LossParts
  <2>1. e = d /\ unsent \subseteq {d} /\ (d \in unsent \/ Holds(d, manifest.hash))
    BY <1>2, <1>0, <1>a DEF EditEffect, Apart
  <2>2. CASE q = p
    BY <1>2, <1>a, <2>0, <2>1, <2>2 DEF EditEffect, EditIsNew
  <2>3. CASE q # p /\ d \in unsent
    BY <1>2, <1>a, <2>1, <2>3 DEF EditEffect
  <2>4. CASE q # p /\ d \notin unsent
    <3>1. Live(q) /\ manifest.hash[q] = newest[q]
      BY <1>2, <1>a, <2>1, <2>4 DEF EditEffect, Published
    <3> QED BY <1>2, <1>a, <2>4, <3>1 DEF EditEffect
  <2> QED BY <2>2, <2>3, <2>4
<1>3. ASSUME NEW d \in Installs, NEW p \in Paths, UploadEffect(d, p)
      PROVE  disk'[e][q].at > manifest'.updated
  BY <1>3, <1>0, <1>a DEF UploadEffect
<1>4. ASSUME NEW d \in Installs, NEW p \in Paths, DownloadEffect(d, p)
      PROVE  disk'[e][q].at > manifest'.updated
  <2>1. CASE e = d
    <3>1. q # p
      BY <1>4, <1>a, <2>1 DEF DownloadEffect, DownloadIsSound
    <3> QED BY <1>4, <1>a, <2>1, <3>1 DEF DownloadEffect
  <2>2. CASE e # d
    BY <1>4, <1>a, <2>2 DEF DownloadEffect
  <2> QED BY <2>1, <2>2
<1>5. ASSUME NEW d \in Installs, NEW p \in Paths, FailEffect(d, p)
      PROVE  disk'[e][q].at > manifest'.updated
  BY <1>5, <1>0, <1>a DEF FailEffect
<1>6. ASSUME NEW d \in Installs, NEW p \in Paths, DropEffect(d, p)
      PROVE  disk'[e][q].at > manifest'.updated
  BY <1>6, <1>0, <1>a DEF DropEffect
<1>7. ASSUME NEW d \in Installs, LoseEffect(d)
      PROVE  disk'[e][q].at > manifest'.updated
  BY <1>7, <1>0, <1>a DEF LoseEffect
<1>8. ASSUME NEW d \in Installs, BeginEffect(d)
      PROVE  disk'[e][q].at > manifest'.updated
  BY <1>8, <1>0, <1>a DEF BeginEffect, Scanned
<1>9. ASSUME NEW d \in Installs, CompareEffect(d)
      PROVE  disk'[e][q].at > manifest'.updated
  BY <1>9, <1>0, <1>a DEF CompareEffect, TransferBegins, NothingDiffers, UploadBegins,
          DownloadBegins
<1>10. ASSUME NEW d \in Installs, EndEffect(d)
      PROVE  disk'[e][q].at > manifest'.updated
  <2>1. CASE disk' = disk
    BY <1>10, <1>a, <2>1 DEF EndEffect
  <2>2. CASE DownloadDone(d) /\ e # d
    BY <1>10, <1>a, <2>2 DEF EndEffect, DownloadDone
  <2>3. CASE DownloadDone(d) /\ e = d
    <3>1. q \notin syncing[d].drop
      BY <1>10, <1>a, <2>3 DEF EndEffect, DownloadDone, DownloadIsSound
    <3> QED BY <1>10, <1>a, <2>3, <3>1 DEF EndEffect, DownloadDone
  <2> QED BY <1>10, <2>1, <2>2, <2>3 DEF EndEffect, StopEffect, UploadDone
<1>11. ASSUME NEW d \in Installs, PutEffect(d)
      PROVE  disk'[e][q].at > manifest'.updated
  <2>0. Moves(d) /\ syncing[d].dir \in {"upload", "download"} /\ e \in unsent
    BY <1>11, <1>a DEF PutEffect, FileTypes, SyncsOK, Syncs, Directions
  <2>1. e = d
    BY <1>11, <1>0, <1>a, <2>0 DEF PutEffect, UploadIsSound, OneUnsent
  <2> QED BY <1>11, <1>a, <2>0, <2>1 DEF PutEffect, ScanIsOld
<1>12. ASSUME NEW d \in Installs, CancelEffect(d)
      PROVE  disk'[e][q].at > manifest'.updated
  BY <1>12, <1>0, <1>a DEF CancelEffect
<1>13. ASSUME NEW d \in Installs, StopEffect(d)
      PROVE  disk'[e][q].at > manifest'.updated
  BY <1>13, <1>0, <1>a DEF StopEffect
<1> QED BY <1>1, <1>2, <1>3, <1>4, <1>5, <1>6, <1>7, <1>8, <1>9, <1>10, <1>11, <1>12,
          <1>13 DEF AnyEffect

LEMMA CopiesAreStoredStep ==
  ASSUME FileTypes, FileTypes', LossParts, Lossless', AnyEffect
  PROVE  CopiesAreStored'
<1> USE DEF Live, Moves, Uploads, Step, Others, SameServer, SameHistory, SameTask, SameCopies,
          SameExcept
<1> SUFFICES ASSUME NEW e \in Installs \ unsent', NEW q \in Paths, Live(q)', disk'[e][q].what = newest'[q]
             PROVE  stored'[q] = newest'[q]
  BY DEF CopiesAreStored
<1>0. /\ "skipped" \notin excuses' /\ "sameSecond" \notin excuses' /\ "overwritten" \notin excuses'
      /\ "apart" \notin excuses' /\ "caughtUp" \notin excuses' /\ "forced" \notin excuses'
      /\ "looksNewer" \notin excuses'
  BY DEF Lossless, Unsafe
<1>e. e \in Installs
  BY DEF FileTypes, HistoryOK
<1>a. /\ e \in Installs /\ e \notin unsent' /\ Live(q)' /\ disk'[e][q].what = newest'[q]
      /\ EditorHasAll /\ ManifestIsStored
      /\ e \notin unsent /\ Live(q) /\ disk[e][q].what = newest[q] => stored[q] = newest[q]
      /\ \A d \in Installs : UploadIsSound(d) /\ CaughtUpIsSound(d)
  BY <1>e DEF LossParts, UploadsAreSound, CaughtUpAreSound, CopiesAreStored
<1>1. CASE TickEffect
  BY <1>1, <1>a DEF TickEffect
<1>2. ASSUME NEW d \in Installs, NEW p \in Paths, EditEffect(d, p)
      PROVE  stored'[q] = newest'[q]
  <2>0. EditIsNew(d, p)
    BY <1>2, <1>0, EditsAreNew DEF LossParts
  <2> QED BY <1>2, <1>0, <1>a, <2>0 DEF EditEffect, EditIsNew, Apart, Overwrites
<1>3. ASSUME NEW d \in Installs, NEW p \in Paths, UploadEffect(d, p)
      PROVE  stored'[q] = newest'[q]
  <2>1. CASE q # p
    BY <1>3, <1>a, <2>1 DEF UploadEffect
  <2>2. CASE q = p
    <3>1. d \in unsent
      BY <1>3, <1>a DEF UploadEffect, UploadIsSound
    <3>2. disk[d][q].what = newest[q]
      BY <1>3, <1>a, <3>1 DEF UploadEffect, EditorHasAll
    <3> QED BY <1>3, <1>a, <2>2, <3>2 DEF UploadEffect
  <2> QED BY <2>1, <2>2
<1>4. ASSUME NEW d \in Installs, NEW p \in Paths, DownloadEffect(d, p)
      PROVE  stored'[q] = newest'[q]
  BY <1>4, <1>0, <1>a DEF DownloadEffect
<1>5. ASSUME NEW d \in Installs, NEW p \in Paths, FailEffect(d, p)
      PROVE  stored'[q] = newest'[q]
  BY <1>5, <1>0, <1>a DEF FailEffect
<1>6. ASSUME NEW d \in Installs, NEW p \in Paths, DropEffect(d, p)
      PROVE  stored'[q] = newest'[q]
  <2>1. CASE q # p
    BY <1>6, <1>a, <2>1 DEF DropEffect
  <2>2. CASE q = p
    <3>1. Moves(d) /\ syncing[d].dir \in {"upload", "download"}
      BY <1>6 DEF DropEffect, FileTypes, SyncsOK, Syncs, Directions
    <3>2. CASE syncing[d].dir = "upload"
      BY <1>6, <1>a, <2>2, <3>1, <3>2 DEF DropEffect, UploadIsSound
    <3>3. CASE syncing[d].dir = "download"
      BY <1>6, <1>a, <2>2, <3>3 DEF DropEffect, CaughtUpIsSound
    <3> QED BY <3>1, <3>2, <3>3
  <2> QED BY <2>1, <2>2
<1>7. ASSUME NEW d \in Installs, LoseEffect(d)
      PROVE  stored'[q] = newest'[q]
  BY <1>7, <1>0, <1>a DEF LoseEffect
<1>8. ASSUME NEW d \in Installs, BeginEffect(d)
      PROVE  stored'[q] = newest'[q]
  BY <1>8, <1>0, <1>a DEF BeginEffect, Scanned
<1>9. ASSUME NEW d \in Installs, CompareEffect(d)
      PROVE  stored'[q] = newest'[q]
  <2>1. CASE e \notin unsent
    BY <1>9, <1>a, <2>1 DEF CompareEffect
  <2>2. CASE e \in unsent
    <3>1. e = d /\ NothingDiffers(d) /\ Holds(d, syncing[d].hash)
      BY <1>9, <1>a, <2>2 DEF CompareEffect, NothingDiffers, TransferBegins
    <3>2. manifest.hash[q] = newest[q]
      BY <1>9, <1>a, <3>1 DEF CompareEffect, NothingDiffers, Holds
    <3> QED BY <1>9, <1>a, <3>2 DEF CompareEffect, ManifestIsStored
  <2> QED BY <2>1, <2>2
<1>10. ASSUME NEW d \in Installs, EndEffect(d)
      PROVE  stored'[q] = newest'[q]
  BY <1>10, <1>0, <1>a DEF EndEffect, StopEffect, UploadDone, DownloadDone, TransferDone, Scanned
<1>11. ASSUME NEW d \in Installs, PutEffect(d)
      PROVE  stored'[q] = newest'[q]
  <2>1. CASE e \notin unsent
    BY <1>11, <1>a, <2>1 DEF PutEffect
  <2>2. CASE e \in unsent
    <3>1. e = d /\ Holds(d, syncing[d].hash)
      BY <1>11, <1>a, <2>2 DEF PutEffect
    <3>2. syncing[d].hash[q] = newest[q] /\ Live(q) /\ stored' = stored /\ newest' = newest
      BY <1>11, <1>a, <3>1 DEF PutEffect, Holds
    <3>3. Moves(d) /\ syncing[d].dir \in {"upload", "download"}
      BY <1>11 DEF PutEffect, FileTypes, SyncsOK, Syncs, Directions
    <3>4. CASE syncing[d].dir = "upload"
      BY <1>11, <1>a, <3>2, <3>3, <3>4 DEF PutEffect, UploadIsSound
    <3>5. CASE syncing[d].dir = "download"
      BY <1>11, <1>a, <3>2, <3>5 DEF PutEffect, CaughtUpIsSound
    <3> QED BY <3>3, <3>4, <3>5
  <2> QED BY <2>1, <2>2
<1>12. ASSUME NEW d \in Installs, CancelEffect(d)
      PROVE  stored'[q] = newest'[q]
  BY <1>12, <1>0, <1>a DEF CancelEffect
<1>13. ASSUME NEW d \in Installs, StopEffect(d)
      PROVE  stored'[q] = newest'[q]
  BY <1>13, <1>0, <1>a DEF StopEffect
<1> QED BY <1>1, <1>2, <1>3, <1>4, <1>5, <1>6, <1>7, <1>8, <1>9, <1>10, <1>11, <1>12,
          <1>13 DEF AnyEffect

LEMMA UploadsAreSoundStep ==
  ASSUME FileTypes, FileTypes', LossParts, Lossless', AnyEffect
  PROVE  UploadsAreSound'
<1> USE DEF UploadIsSound, Live, Moves, Uploads, Step, Others, SameServer, SameHistory, SameTask,
          SameCopies, SameExcept
<1> SUFFICES ASSUME NEW e \in Installs PROVE UploadIsSound(e)'
  BY DEF UploadsAreSound
<1>0. /\ "skipped" \notin excuses' /\ "sameSecond" \notin excuses' /\ "overwritten" \notin excuses'
      /\ "apart" \notin excuses' /\ "caughtUp" \notin excuses' /\ "forced" \notin excuses'
      /\ "looksNewer" \notin excuses'
  BY DEF Lossless, Unsafe
<1>a. /\ UploadIsSound(e) /\ syncing[e].bias = "auto" /\ ManifestIsStored /\ EditorHasAll /\ ComparesTruth(e)
      /\ \A d \in Installs : Moves(d) /\ Moves(e) => d = e
  BY DEF LossParts, UploadsAreSound, AllCompareTruth, OneMoves, Plain
<1>1. CASE TickEffect
  BY <1>1, <1>a DEF TickEffect
<1>2. ASSUME NEW d \in Installs, NEW p \in Paths, EditEffect(d, p)
      PROVE  UploadIsSound(e)'
  <2>0. EditIsNew(d, p)
    BY <1>2, <1>0, EditsAreNew DEF LossParts
  <2>1. CASE e # d
    BY <1>2, <1>0, <1>a, <2>1 DEF EditEffect, Apart
  <2>2. CASE e = d
    <3>1. newest'[p] = Absent \/ (newest'[p] # manifest.hash[p] /\ newest'[p] # stored[p])
      BY <2>0 DEF EditIsNew
    <3>2. Uploads(e) => newest'[p] = Absent \/ newest'[p] # syncing[e].hash[p]
      BY <2>0 DEF EditIsNew
    <3> QED BY <1>2, <1>a, <2>2, <3>1, <3>2 DEF EditEffect
  <2> QED BY <2>1, <2>2
<1>3. ASSUME NEW d \in Installs, NEW p \in Paths, UploadEffect(d, p)
      PROVE  UploadIsSound(e)'
  <2>1. CASE e # d
    BY <1>3, <1>a, <2>1 DEF UploadEffect
  <2>2. CASE e = d
    <3>1. Live(p) => disk[d][p].what = newest[p]
      BY <1>3, <1>a, <2>2 DEF UploadEffect, EditorHasAll
    <3> QED BY <1>3, <1>a, <2>2, <3>1 DEF UploadEffect
  <2> QED BY <2>1, <2>2
<1>4. ASSUME NEW d \in Installs, NEW p \in Paths, DownloadEffect(d, p)
      PROVE  UploadIsSound(e)'
  BY <1>4, <1>0, <1>a DEF DownloadEffect
<1>5. ASSUME NEW d \in Installs, NEW p \in Paths, FailEffect(d, p)
      PROVE  UploadIsSound(e)'
  BY <1>5, <1>0, <1>a DEF FailEffect
<1>6. ASSUME NEW d \in Installs, NEW p \in Paths, DropEffect(d, p)
      PROVE  UploadIsSound(e)'
  <2>1. CASE e # d
    BY <1>6, <1>a, <2>1 DEF DropEffect
  <2>2. CASE e = d
    <3>1. Uploads(d) => syncing[d].hash[p] = Absent
      BY <1>6, <1>a, <2>2 DEF DropEffect
    <3>2. ASSUME Uploads(d), NEW q \in Paths
          PROVE  /\ Live(q) /\ syncing[d].hash[q] = newest[q] => stored'[q] = newest[q]
                 /\ Live(q) /\ stored[q] # newest[q] => stored'[q] # newest[q]
      <4>1. CASE q # p
        BY <1>6, <1>a, <2>2, <3>2, <4>1 DEF DropEffect
      <4>2. CASE q = p
        BY <1>6, <3>1, <3>2, <4>2 DEF DropEffect
      <4> QED BY <4>1, <4>2
    <3> QED BY <1>6, <1>a, <2>2, <3>2 DEF DropEffect
  <2> QED BY <2>1, <2>2
<1>7. ASSUME NEW d \in Installs, LoseEffect(d)
      PROVE  UploadIsSound(e)'
  BY <1>7, <1>0, <1>a DEF LoseEffect
<1>8. ASSUME NEW d \in Installs, BeginEffect(d)
      PROVE  UploadIsSound(e)'
  BY <1>8, <1>0, <1>a DEF BeginEffect, Scanned
<1>9. ASSUME NEW d \in Installs, CompareEffect(d)
      PROVE  UploadIsSound(e)'
  <2>1. CASE e # d
    BY <1>9, <1>a, <2>1 DEF CompareEffect, NothingDiffers, TransferBegins
  <2>2. CASE e = d /\ UploadBegins(d) /\ TransferBegins(d)
    <3>1. d \in unsent /\ unsent' = unsent
      BY <1>0, <1>a, <2>2 DEF UploadBegins, TransferBegins
    <3>2. \A q \in Paths : Live(q) => syncing[d].hash[q] = newest[q]
      BY <1>9, <1>a, <2>2, <3>1 DEF CompareEffect, ComparesTruth, EditorHasAll
    <3>3. \A q \in Paths : Live(q) /\ manifest.hash[q] = newest[q] => stored[q] = newest[q]
      BY <1>a DEF ManifestIsStored
    <3> QED BY <1>9, <2>2, <3>1, <3>2, <3>3 DEF UploadBegins, CompareEffect
  <2>3. CASE e = d /\ (DownloadBegins(d) \/ NothingDiffers(d))
    BY <1>9, <2>3 DEF DownloadBegins, NothingDiffers
  <2> QED BY <1>9, <2>1, <2>2, <2>3 DEF CompareEffect, TransferBegins
<1>10. ASSUME NEW d \in Installs, EndEffect(d)
      PROVE  UploadIsSound(e)'
  <2>1. CASE e # d
    BY <1>10, <1>a, <2>1 DEF EndEffect
  <2>2. CASE e = d /\ StopEffect(d)
    BY <2>2 DEF StopEffect
  <2>3. CASE e = d /\ DownloadDone(d)
    BY <2>3 DEF DownloadDone, TransferDone
  <2>4. CASE e = d /\ UploadDone(d)
    <3>1. \A q \in Paths : Live(q) /\ syncing[d].hash[q] = newest[q] => stored[q] = newest[q]
      BY <1>a, <2>4 DEF UploadDone, TransferDone
    <3> QED BY <1>10, <1>a, <2>4, <3>1 DEF EndEffect, UploadDone, TransferDone
  <2> QED BY <1>10, <2>1, <2>2, <2>3, <2>4 DEF EndEffect
<1>11. ASSUME NEW d \in Installs, PutEffect(d)
      PROVE  UploadIsSound(e)'
  BY <1>11, <1>0, <1>a DEF PutEffect, Holds
<1>12. ASSUME NEW d \in Installs, CancelEffect(d)
      PROVE  UploadIsSound(e)'
  BY <1>12, <1>0, <1>a DEF CancelEffect
<1>13. ASSUME NEW d \in Installs, StopEffect(d)
      PROVE  UploadIsSound(e)'
  BY <1>13, <1>0, <1>a DEF StopEffect
<1> QED BY <1>1, <1>2, <1>3, <1>4, <1>5, <1>6, <1>7, <1>8, <1>9, <1>10, <1>11, <1>12,
          <1>13 DEF AnyEffect

LEMMA ScansAreOldStep ==
  ASSUME FileTypes, FileTypes', LossParts, Lossless', AnyEffect
  PROVE  ScansAreOld'
<1> USE DEF ScanIsOld, Live, Moves, Uploads, Step, Others, SameServer, SameHistory, SameTask,
          SameCopies, SameExcept
<1> SUFFICES ASSUME NEW e \in Installs PROVE ScanIsOld(e)'
  BY DEF ScansAreOld
<1>0. /\ "skipped" \notin excuses' /\ "sameSecond" \notin excuses' /\ "overwritten" \notin excuses'
      /\ "apart" \notin excuses' /\ "caughtUp" \notin excuses' /\ "forced" \notin excuses'
      /\ "looksNewer" \notin excuses'
  BY DEF Lossless, Unsafe
<1>a. /\ ScanIsOld(e) /\ UploadIsSound(e) /\ EditorHasAll /\ ComparesTruth(e) /\ Published /\ CaughtUpIsSound(e) /\ DownloadIsSound(e)
  BY DEF LossParts, UploadsAreSound, ScansAreOld, DownloadsAreSound, CaughtUpAreSound,
          AllCompareTruth
<1>1. CASE TickEffect
  BY <1>1, <1>a DEF TickEffect
<1>2. ASSUME NEW d \in Installs, NEW p \in Paths, EditEffect(d, p)
      PROVE  ScanIsOld(e)'
  <2>0. EditIsNew(d, p)
    BY <1>2, <1>0, EditsAreNew DEF LossParts
  <2>1. CASE e # d
    BY <1>2, <1>0, <1>a, <2>1 DEF EditEffect, Apart
  <2>2. CASE e = d /\ d \in unsent
    BY <1>2, <1>a, <2>0, <2>2 DEF EditEffect, EditIsNew
  <2>3. CASE e = d /\ d \notin unsent
    <3> SUFFICES ASSUME Step(e, "publish"), NEW q \in Paths, Live(q)', syncing[e].hash[q] # newest'[q]
                 PROVE  disk'[e][q].at > syncing[e].updated
      BY <1>2, <1>a, <2>3 DEF EditEffect, UploadIsSound
    <3>1. CASE q = p
      BY <1>2, <2>0, <2>3, <3>1 DEF EditEffect, EditIsNew
    <3>2. CASE q # p
      <4>1. unsent = {} /\ Live(q) /\ newest'[q] = newest[q]
        BY <1>2, <1>0, <2>3, <3>2 DEF EditEffect, Apart
      <4>2. syncing[e].dir = "download"
        BY <1>a, <4>1 DEF UploadIsSound, FileTypes, SyncsOK, Syncs, Directions
      <4>3. syncing[e].hash[q] = newest[q]
        BY <1>a, <4>1, <4>2 DEF Published, CaughtUpIsSound
      <4> QED BY <4>1, <4>3
    <3> QED BY <3>1, <3>2
  <2> QED BY <2>1, <2>2, <2>3
<1>3. ASSUME NEW d \in Installs, NEW p \in Paths, UploadEffect(d, p)
      PROVE  ScanIsOld(e)'
  BY <1>3, <1>0, <1>a DEF UploadEffect
<1>4. ASSUME NEW d \in Installs, NEW p \in Paths, DownloadEffect(d, p)
      PROVE  ScanIsOld(e)'
  <2>1. CASE e # d
    BY <1>4, <1>a, <2>1 DEF DownloadEffect
  <2>2. CASE e = d
    BY <1>4, <2>2 DEF DownloadEffect
  <2> QED BY <2>1, <2>2
<1>5. ASSUME NEW d \in Installs, NEW p \in Paths, FailEffect(d, p)
      PROVE  ScanIsOld(e)'
  BY <1>5, <1>0, <1>a DEF FailEffect
<1>6. ASSUME NEW d \in Installs, NEW p \in Paths, DropEffect(d, p)
      PROVE  ScanIsOld(e)'
  BY <1>6, <1>0, <1>a DEF DropEffect
<1>7. ASSUME NEW d \in Installs, LoseEffect(d)
      PROVE  ScanIsOld(e)'
  BY <1>7, <1>0, <1>a DEF LoseEffect
<1>8. ASSUME NEW d \in Installs, BeginEffect(d)
      PROVE  ScanIsOld(e)'
  BY <1>8, <1>0, <1>a DEF BeginEffect, Scanned
<1>9. ASSUME NEW d \in Installs, CompareEffect(d)
      PROVE  ScanIsOld(e)'
  <2>1. CASE e # d
    BY <1>9, <1>a, <2>1 DEF CompareEffect, NothingDiffers, TransferBegins
  <2>2. CASE e = d /\ UploadBegins(d) /\ d \in unsent
    <3>1. \A q \in Paths : Live(q) => syncing[d].hash[q] = newest[q]
      BY <1>9, <1>a, <2>2 DEF CompareEffect, ComparesTruth, EditorHasAll
    <3> QED BY <1>9, <2>2, <3>1 DEF UploadBegins, CompareEffect
  <2>3. CASE e = d /\ (DownloadBegins(d) \/ NothingDiffers(d) \/ d \notin unsent')
    BY <1>9, <2>3 DEF DownloadBegins, NothingDiffers
  <2> QED BY <1>9, <2>1, <2>2, <2>3 DEF CompareEffect, TransferBegins
<1>10. ASSUME NEW d \in Installs, EndEffect(d)
      PROVE  ScanIsOld(e)'
  <2>1. CASE e # d
    BY <1>10, <1>a, <2>1 DEF EndEffect, StopEffect, UploadDone, DownloadDone
  <2>2. CASE e = d /\ (StopEffect(d) \/ UploadDone(d))
    BY <1>10, <1>a, <2>2 DEF EndEffect, StopEffect, UploadDone, TransferDone
  <2>3. CASE e = d /\ DownloadDone(d) /\ d \in unsent
    <3>1. \A q \in Paths : Live(q) => q \notin syncing[d].drop
      BY <1>a, <2>3 DEF DownloadDone, TransferDone, DownloadIsSound
    <3>2. \A q \in Paths : Live(q) => disk'[d][q].what = newest[q]
      BY <1>a, <2>3, <3>1 DEF DownloadDone, EditorHasAll
    <3> QED BY <1>10, <1>0, <2>3, <3>2 DEF EndEffect, DownloadDone, Scanned
  <2> QED BY <1>10, <2>1, <2>2, <2>3 DEF EndEffect
<1>11. ASSUME NEW d \in Installs, PutEffect(d)
      PROVE  ScanIsOld(e)'
  BY <1>11, <1>0, <1>a DEF PutEffect, Holds
<1>12. ASSUME NEW d \in Installs, CancelEffect(d)
      PROVE  ScanIsOld(e)'
  BY <1>12, <1>0, <1>a DEF CancelEffect
<1>13. ASSUME NEW d \in Installs, StopEffect(d)
      PROVE  ScanIsOld(e)'
  BY <1>13, <1>0, <1>a DEF StopEffect
<1> QED BY <1>1, <1>2, <1>3, <1>4, <1>5, <1>6, <1>7, <1>8, <1>9, <1>10, <1>11, <1>12,
          <1>13 DEF AnyEffect

LEMMA DownloadsAreSoundStep ==
  ASSUME FileTypes, FileTypes', LossParts, Lossless', AnyEffect
  PROVE  DownloadsAreSound'
<1> USE DEF DownloadIsSound, Live, Moves, Uploads, Step, Others, SameServer, SameHistory, SameTask,
          SameCopies, SameExcept
<1> SUFFICES ASSUME NEW e \in Installs PROVE DownloadIsSound(e)'
  BY DEF DownloadsAreSound
<1>0. /\ "skipped" \notin excuses' /\ "sameSecond" \notin excuses' /\ "overwritten" \notin excuses'
      /\ "apart" \notin excuses' /\ "caughtUp" \notin excuses' /\ "forced" \notin excuses'
      /\ "looksNewer" \notin excuses'
  BY DEF Lossless, Unsafe
<1>a. /\ DownloadIsSound(e) /\ ManifestIsStored /\ EditorHasAll /\ ComparesTruth(e) /\ EditorIsNewer /\ syncing[e].bias = "auto"
      /\ \A d \in Installs : Moves(d) /\ Moves(e) => d = e
  BY DEF LossParts, DownloadsAreSound, AllCompareTruth, OneMoves, Plain
<1>1. CASE TickEffect
  BY <1>1, <1>a DEF TickEffect
<1>2. ASSUME NEW d \in Installs, NEW p \in Paths, EditEffect(d, p)
      PROVE  DownloadIsSound(e)'
  <2>0. EditIsNew(d, p)
    BY <1>2, <1>0, EditsAreNew DEF LossParts
  <2>1. CASE e # d
    <3>1. e \notin unsent'
      BY <1>2, <1>0, <2>1 DEF EditEffect, Apart
    <3> QED BY <1>2, <1>a, <2>0, <2>1, <3>1 DEF EditEffect, EditIsNew
  <2>2. CASE e = d
    BY <1>2, <1>0, <1>a, <2>2 DEF EditEffect, Overwrites
  <2> QED BY <2>1, <2>2
<1>3. ASSUME NEW d \in Installs, NEW p \in Paths, UploadEffect(d, p)
      PROVE  DownloadIsSound(e)'
  BY <1>3, <1>0, <1>a DEF UploadEffect
<1>4. ASSUME NEW d \in Installs, NEW p \in Paths, DownloadEffect(d, p)
      PROVE  DownloadIsSound(e)'
  <2>1. CASE e # d
    BY <1>4, <1>a, <2>1 DEF DownloadEffect
  <2>2. CASE e = d
    <3>1. Live(p) /\ manifest.hash[p] = newest[p] => stored[p] = newest[p]
      BY <1>a DEF ManifestIsStored
    <3> QED BY <1>4, <1>0, <1>a, <2>2, <3>1 DEF DownloadEffect
  <2> QED BY <2>1, <2>2
<1>5. ASSUME NEW d \in Installs, NEW p \in Paths, FailEffect(d, p)
      PROVE  DownloadIsSound(e)'
  BY <1>5, <1>0, <1>a DEF FailEffect
<1>6. ASSUME NEW d \in Installs, NEW p \in Paths, DropEffect(d, p)
      PROVE  DownloadIsSound(e)'
  BY <1>6, <1>0, <1>a DEF DropEffect
<1>7. ASSUME NEW d \in Installs, LoseEffect(d)
      PROVE  DownloadIsSound(e)'
  BY <1>7, <1>0, <1>a DEF LoseEffect
<1>8. ASSUME NEW d \in Installs, BeginEffect(d)
      PROVE  DownloadIsSound(e)'
  BY <1>8, <1>0, <1>a DEF BeginEffect, Scanned
<1>9. ASSUME NEW d \in Installs, CompareEffect(d)
      PROVE  DownloadIsSound(e)'
  <2>1. CASE e # d
    BY <1>9, <1>a, <2>1 DEF CompareEffect, NothingDiffers, TransferBegins
  <2>2. CASE e = d /\ DownloadBegins(d) /\ TransferBegins(d)
    <3>1. \A q \in Paths : syncing[d].hash[q] = disk[d][q].what
                            /\ (disk[d][q].what # Absent => disk[d][q].at <= syncing[d].updated)
      BY <1>9, <1>a, <2>2 DEF CompareEffect, ComparesTruth
    <3>2. ASSUME d \in unsent, NEW q \in Paths, Live(q)
          PROVE  manifest.hash[q] = newest[q] /\ q \notin syncing'[d].todo
      <4>1. syncing[d].hash[q] = newest[q] /\ disk[d][q].at <= syncing[d].updated
        BY <1>a, <3>1, <3>2 DEF EditorHasAll
      <4>2. ~(syncing[d].updated > manifest.updated) /\ manifest # NoManifest
        BY <1>a, <2>2, <3>2, <4>1 DEF DownloadBegins
      <4>3. disk[d][q].at \in Nat /\ syncing[d].updated \in Nat /\ manifest.updated \in Nat
        BY <4>2 DEF FileTypes, CopiesOK, Snapshots, SyncsOK, Syncs, ServerOK, Manifests, Seconds
      <4>4. ~(disk[d][q].at > manifest.updated)
        BY <4>1, <4>2, <4>3
      <4>5. manifest.hash[q] = newest[q]
        BY <1>a, <3>2, <4>2, <4>4 DEF EditorIsNewer
      <4> QED BY <2>2, <4>1, <4>5 DEF DownloadBegins
    <3> QED BY <1>9, <2>2, <3>1, <3>2 DEF DownloadBegins, CompareEffect, TransferBegins
  <2>3. CASE e = d /\ (UploadBegins(d) \/ NothingDiffers(d))
    BY <1>9, <2>3 DEF UploadBegins, NothingDiffers
  <2> QED BY <1>9, <2>1, <2>2, <2>3 DEF CompareEffect, TransferBegins
<1>10. ASSUME NEW d \in Installs, EndEffect(d)
      PROVE  DownloadIsSound(e)'
  BY <1>10, <1>0, <1>a DEF EndEffect, StopEffect, UploadDone, DownloadDone, TransferDone, Scanned
<1>11. ASSUME NEW d \in Installs, PutEffect(d)
      PROVE  DownloadIsSound(e)'
  BY <1>11, <1>0, <1>a DEF PutEffect, Holds
<1>12. ASSUME NEW d \in Installs, CancelEffect(d)
      PROVE  DownloadIsSound(e)'
  BY <1>12, <1>0, <1>a DEF CancelEffect
<1>13. ASSUME NEW d \in Installs, StopEffect(d)
      PROVE  DownloadIsSound(e)'
  BY <1>13, <1>0, <1>a DEF StopEffect
<1> QED BY <1>1, <1>2, <1>3, <1>4, <1>5, <1>6, <1>7, <1>8, <1>9, <1>10, <1>11, <1>12,
          <1>13 DEF AnyEffect

LEMMA CaughtUpAreSoundStep ==
  ASSUME FileTypes, FileTypes', LossParts, Lossless', AnyEffect
  PROVE  CaughtUpAreSound'
<1> USE DEF CaughtUpIsSound, Live, Moves, Uploads, Step, Others, SameServer, SameHistory, SameTask,
          SameCopies, SameExcept
<1> SUFFICES ASSUME NEW e \in Installs PROVE CaughtUpIsSound(e)'
  BY DEF CaughtUpAreSound
<1>0. /\ "skipped" \notin excuses' /\ "sameSecond" \notin excuses' /\ "overwritten" \notin excuses'
      /\ "apart" \notin excuses' /\ "caughtUp" \notin excuses' /\ "forced" \notin excuses'
      /\ "looksNewer" \notin excuses'
  BY DEF Lossless, Unsafe
<1>a. /\ CaughtUpIsSound(e) /\ ManifestIsStored /\ CopiesAreStored /\ DownloadIsSound(e)
      /\ \A d \in Installs : Moves(d) /\ Moves(e) => d = e
  BY DEF LossParts, DownloadsAreSound, CaughtUpAreSound, OneMoves
<1>1. CASE TickEffect
  BY <1>1, <1>a DEF TickEffect
<1>2. ASSUME NEW d \in Installs, NEW p \in Paths, EditEffect(d, p)
      PROVE  CaughtUpIsSound(e)'
  <2>0. EditIsNew(d, p)
    BY <1>2, <1>0, EditsAreNew DEF LossParts
  <2> QED BY <1>2, <1>a, <2>0 DEF EditEffect, EditIsNew
<1>3. ASSUME NEW d \in Installs, NEW p \in Paths, UploadEffect(d, p)
      PROVE  CaughtUpIsSound(e)'
  BY <1>3, <1>0, <1>a DEF UploadEffect
<1>4. ASSUME NEW d \in Installs, NEW p \in Paths, DownloadEffect(d, p)
      PROVE  CaughtUpIsSound(e)'
  BY <1>4, <1>0, <1>a DEF DownloadEffect
<1>5. ASSUME NEW d \in Installs, NEW p \in Paths, FailEffect(d, p)
      PROVE  CaughtUpIsSound(e)'
  BY <1>5, <1>0, <1>a DEF FailEffect
<1>6. ASSUME NEW d \in Installs, NEW p \in Paths, DropEffect(d, p)
      PROVE  CaughtUpIsSound(e)'
  BY <1>6, <1>0, <1>a DEF DropEffect
<1>7. ASSUME NEW d \in Installs, LoseEffect(d)
      PROVE  CaughtUpIsSound(e)'
  BY <1>7, <1>0, <1>a DEF LoseEffect
<1>8. ASSUME NEW d \in Installs, BeginEffect(d)
      PROVE  CaughtUpIsSound(e)'
  BY <1>8, <1>0, <1>a DEF BeginEffect, Scanned
<1>9. ASSUME NEW d \in Installs, CompareEffect(d)
      PROVE  CaughtUpIsSound(e)'
  BY <1>9, <1>0, <1>a DEF CompareEffect, TransferBegins, NothingDiffers, UploadBegins,
          DownloadBegins
<1>10. ASSUME NEW d \in Installs, EndEffect(d)
      PROVE  CaughtUpIsSound(e)'
  <2>1. CASE e # d
    BY <1>10, <1>a, <2>1 DEF EndEffect
  <2>2. CASE e = d /\ (StopEffect(d) \/ UploadDone(d))
    BY <1>10, <1>a, <2>2 DEF EndEffect, StopEffect, UploadDone, TransferDone
  <2>3. CASE e = d /\ DownloadDone(d)
    <3>1. \A q \in Paths : syncing'[d].hash[q] = disk'[d][q].what /\ q \notin syncing'[d].drop
      BY <1>0, <2>3 DEF DownloadDone, Scanned
    <3>2. ASSUME NEW q \in Paths, Live(q), manifest.hash[q] = newest[q]
          PROVE  disk'[d][q].what = newest[q]
      BY <1>a, <2>3, <3>2 DEF DownloadIsSound, DownloadDone, TransferDone
    <3>3. ASSUME NEW q \in Paths, Live(q), disk'[d][q].what = newest[q]
          PROVE  stored[q] = newest[q]
      <4>1. disk[d][q].what = newest[q]
        BY <2>3, <3>3 DEF DownloadDone
      <4>2. d \in unsent => manifest.hash[q] = newest[q]
        BY <1>a, <2>3, <3>3 DEF DownloadIsSound, DownloadDone, TransferDone
      <4> QED BY <1>a, <3>3, <4>1, <4>2 DEF CopiesAreStored, ManifestIsStored
    <3> QED BY <1>10, <2>3, <3>1, <3>2, <3>3 DEF EndEffect
  <2> QED BY <1>10, <2>1, <2>2, <2>3 DEF EndEffect
<1>11. ASSUME NEW d \in Installs, PutEffect(d)
      PROVE  CaughtUpIsSound(e)'
  BY <1>11, <1>0, <1>a DEF PutEffect, Holds
<1>12. ASSUME NEW d \in Installs, CancelEffect(d)
      PROVE  CaughtUpIsSound(e)'
  BY <1>12, <1>0, <1>a DEF CancelEffect
<1>13. ASSUME NEW d \in Installs, StopEffect(d)
      PROVE  CaughtUpIsSound(e)'
  BY <1>13, <1>0, <1>a DEF StopEffect
<1> QED BY <1>1, <1>2, <1>3, <1>4, <1>5, <1>6, <1>7, <1>8, <1>9, <1>10, <1>11, <1>12,
          <1>13 DEF AnyEffect

LossInv == Lossless => LossParts

LEMMA LossStarts ==
  ASSUME FilesInit
  PROVE  LossInv
<1>1. /\ unsent = {} /\ edits = 0 /\ manifest = NoManifest
      /\ \A p \in Paths : newest[p] = Absent /\ stored[p] = Absent /\ manifest.hash[p] = Absent
      /\ \A d \in Installs : syncing[d] = NoSync /\ \A p \in Paths : disk[d][p].what = Absent
  BY DEF FilesInit, NoManifest
<1>2. NoSync.step = "idle" /\ NoSync.bias = "auto"
  BY DEF NoSync
<1>3. Fresh
  BY <1>1, <1>2 DEF Fresh, FreshAt, Step, Absent
<1>4. OneMoves /\ OneUnsent /\ Plain /\ AllCompareTruth
  BY <1>1, <1>2 DEF OneMoves, Moves, OneUnsent, Plain, AllCompareTruth, ComparesTruth, Step
<1>5. Published /\ ManifestIsStored /\ EditorHasAll /\ EditorIsNewer /\ CopiesAreStored
  BY <1>1 DEF Published, ManifestIsStored, EditorHasAll, EditorIsNewer, CopiesAreStored, Live
<1>6. UploadsAreSound /\ ScansAreOld /\ DownloadsAreSound /\ CaughtUpAreSound
  BY <1>1, <1>2 DEF UploadsAreSound, UploadIsSound, ScansAreOld, ScanIsOld, DownloadsAreSound,
                    DownloadIsSound, CaughtUpAreSound, CaughtUpIsSound, Uploads, Moves, Step
<1> QED BY <1>3, <1>4, <1>5, <1>6 DEF LossInv, LossParts

LEMMA LossStep ==
  ASSUME FilesTypeOK, FilesTypeOK', LossInv, [FilesNext]_filesVars
  PROVE  LossInv'
<1> SUFFICES ASSUME Lossless' PROVE LossParts'
  BY DEF LossInv
<1>1. LossParts
  BY ExcusesStay DEF LossInv, Lossless
<1>2. FileTypes /\ FileTypes'
  BY TypesAreParts, PTL
<1>3. AnyEffect
  BY <1>2, StepsHaveEffects DEF Lossless, Unsafe
<1>4. OneMoves'
  BY <1>1, <1>3, OneMovesStep DEF LossParts
<1>5. Fresh' /\ OneUnsent' /\ Plain' /\ AllCompareTruth'
  BY <1>1, <1>2, <1>3, FreshStep, OneUnsentStep, PlainStep, ComparesTruthStep
<1>6. Published' /\ ManifestIsStored' /\ EditorHasAll' /\ EditorIsNewer' /\ CopiesAreStored'
  BY <1>1, <1>2, <1>3, PublishedStep, ManifestIsStoredStep, EditorHasAllStep, EditorIsNewerStep,
     CopiesAreStoredStep
<1>7. UploadsAreSound' /\ ScansAreOld' /\ DownloadsAreSound' /\ CaughtUpAreSound'
  BY <1>1, <1>2, <1>3, UploadsAreSoundStep, ScansAreOldStep, DownloadsAreSoundStep,
          CaughtUpAreSoundStep
<1> QED BY <1>4, <1>5, <1>6, <1>7 DEF LossParts

\* The last edit of a file is on the device with edits to send, else on the server.
LEMMA LastEditsAreKept ==
  ASSUME FilesTypeOK, LossInv
  PROVE  NothingLost
<1> SUFFICES ASSUME Lossless, NEW p \in Paths, newest[p] # Absent
             PROVE  stored[p] = newest[p] \/ \E d \in Installs : disk[d][p].what = newest[p]
  BY DEF NothingLost, Lossless
<1>1. CASE unsent = {}
  BY <1>1 DEF LossInv, LossParts, Published, ManifestIsStored, Live
<1>2. CASE unsent # {}
  BY <1>2 DEF LossInv, LossParts, EditorHasAll, Live, FilesTypeOK
<1> QED BY <1>1, <1>2

\* No edit of a browser file is lost: by uploads under edits, interrupted syncs or failed requests.
THEOREM EditsAreKept == FilesSpec => []NothingLost
<1>1. FilesInit => LossInv
  BY LossStarts
<1>2. FilesTypeOK /\ FilesTypeOK' /\ LossInv /\ [FilesNext]_filesVars => LossInv'
  BY LossStep
<1>3. FilesTypeOK /\ LossInv => NothingLost
  BY LastEditsAreKept
<1> QED BY <1>1, <1>2, <1>3, FilesTypes, PTL DEF FilesSpec

================================================================================
