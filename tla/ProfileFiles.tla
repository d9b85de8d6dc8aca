----------------------------- MODULE ProfileFiles -----------------------------
(***************************************************************************)
(* The sync of one profile's browser files (sync/engine.rs, manifest.rs):  *)
(* a device scans its directory, compares the scan with the manifest on    *)
(* the server, moves the files that differ one by one in the direction the *)
(* time stamps say, and publishes a manifest last.  Files change under it, *)
(* requests fail, the user cancels, the application crashes; what was      *)
(* moved before is remembered in a resume file.                            *)
(*                                                                         *)
(* A file's content is the number of the edit that wrote it: contents are  *)
(* equal exactly when their hashes are.  The contents of one path have one *)
(* size, so that the hash cache tells them apart by their second alone.    *)
(* A device runs one sync of the profile at a time, and clocks agree.      *)
(***************************************************************************)
EXTENDS Naturals, FiniteSetsExt

CONSTANTS
  Installs,      \* the devices that hold the profile
  Paths,         \* its browser files
  CriticalPaths, \* those whose failure aborts a sync: CRITICAL_FILE_PATTERNS
  Biases,        \* how a sync is started: auto, preferRemote, reencrypt
  MaxClock,      \* bound: seconds
  MaxEdits,      \* bound: edits of files
  MaxMishaps     \* bound: failed requests, cancellations, crashes, lost directories

ASSUME PathAssumption == CriticalPaths \subseteq Paths
ASSUME BiasAssumption == Biases \subseteq {"auto", "preferRemote", "reencrypt"}
ASSUME FilesBoundAssumption == MaxClock \in Nat /\ MaxEdits \in Nat /\ MaxMishaps \in Nat

Absent == 0
Contents == 0 .. MaxEdits
Seconds == 0 .. MaxClock
Files == [Paths -> Contents]
Manifests == [hash : Files, updated : Seconds]
NoManifest == [hash |-> [p \in Paths |-> Absent], updated |-> MaxClock + 1]
Directions == {"upload", "download"}

VARIABLES
  clock,     \* the second it is
  disk,      \* each device's files: content and time of modification
  cache,     \* its hash cache: the content hashed, and the time it had
  stored,    \* the files on the server
  manifest,  \* the manifest on the server
  resume,    \* each device's resume file
  syncing,   \* each device's sync
  edits, mishaps,  \* counters of the bounds
  newest,    \* history: what the last edit of each file left
  unsent,    \* history: devices with edits that no sync of theirs has published
  cut,       \* history: devices whose last download was cut short, not edited since
  excuses    \* history: what happened that a property is not about

filesServer == <<stored, manifest>>
filesLocal == <<disk, cache, resume>>
filesBounds == <<clock, edits, mishaps>>
filesHistory == <<newest, unsent, cut, excuses>>
filesVars == <<filesBounds, filesLocal, filesServer, syncing, filesHistory>>

NoSync == [step |-> "idle", bias |-> "auto", dir |-> "upload", hash |-> NoManifest.hash,
           updated |-> 0, todo |-> {}, done |-> {}, drop |-> {}, moves |-> FALSE,
           saved |-> FALSE, failed |-> FALSE, cancelled |-> FALSE]
NoResume == [dir |-> "none", done |-> {}]

FilesTypeOK ==
  /\ clock \in Seconds /\ edits \in 0 .. MaxEdits /\ mishaps \in 0 .. MaxMishaps
  /\ disk \in [Installs -> [Paths -> [what : Contents, at : Seconds]]]
  /\ cache \in [Installs -> [Paths -> [what : Contents, at : Seconds]]]
  /\ stored \in Files
  /\ manifest \in Manifests \cup {NoManifest}
  /\ resume \in [Installs -> [dir : Directions \cup {"none"}, done : SUBSET Paths]]
  /\ syncing \in [Installs ->
       [step : {"idle", "compare", "transfer", "publish"},
        bias : {"auto", "preferRemote", "reencrypt"}, dir : Directions, hash : Files,
        updated : Seconds, todo : SUBSET Paths, done : SUBSET Paths, drop : SUBSET Paths,
        moves : BOOLEAN, saved : BOOLEAN, failed : BOOLEAN, cancelled : BOOLEAN]]
  /\ newest \in Files /\ unsent \subseteq Installs /\ cut \subseteq Installs
  /\ excuses \subseteq {"apart", "caughtUp", "edited", "overwritten", "overlapped", "resumed",
                        "skipped", "torn", "cut", "forced", "sameSecond", "looksNewer"}

FilesInit ==
  /\ clock = 0 /\ edits = 0 /\ mishaps = 0
  /\ disk = [d \in Installs |-> [p \in Paths |-> [what |-> Absent, at |-> 0]]]
  /\ cache = disk
  /\ stored = NoManifest.hash
  /\ manifest = NoManifest
  /\ resume = [d \in Installs |-> NoResume]
  /\ syncing = [d \in Installs |-> NoSync]
  /\ newest = NoManifest.hash
  /\ unsent = {} /\ cut = {} /\ excuses = {}

Excuse(names) == excuses' = excuses \cup names
When(condition, name) == IF condition THEN {name} ELSE {}
Holds(d, hash) == \A p \in Paths : disk[d][p].what = hash[p]
Mishap == mishaps < MaxMishaps /\ mishaps' = mishaps + 1
Step(d, name) == syncing[d].step = name
SyncEnds(d) == syncing' = [syncing EXCEPT ![d] = NoSync]

FilesTick ==
  /\ clock < MaxClock
  /\ clock' = clock + 1
  /\ UNCHANGED <<edits, mishaps, filesLocal, filesServer, syncing, filesHistory>>

(***************************************************************************)
(* The browser, and the directory.                                         *)
(***************************************************************************)
\* The device is not at the state the manifest names, or another one has edits to send.
Apart(d) ==
  \/ unsent \ {d} # {}
  \/ d \notin unsent /\ ~Holds(d, manifest.hash)

\* The sync has compared, or may come to move, what is about to be edited the other way.
Overwrites(d) == Step(d, "compare") \/ (Step(d, "transfer") /\ syncing[d].dir = "download")

\* A session writes or removes a file.  Nothing keeps a browser from being launched
\* while its profile is synced.
EditFile(d, p, removed) ==
  /\ edits < MaxEdits
  /\ removed => disk[d][p].what # Absent
  /\ edits' = edits + 1
  /\ LET what == IF removed THEN Absent ELSE edits + 1 IN
       /\ disk' = [disk EXCEPT ![d][p] = [what |-> what, at |-> IF removed THEN 0 ELSE clock]]
       /\ newest' = [newest EXCEPT ![p] = what]
  /\ unsent' = unsent \cup {d}
  /\ cut' = cut \ {d}
  /\ Excuse(When(Apart(d), "apart") \cup When(~Step(d, "idle"), "edited")
            \cup When(Overwrites(d), "overwritten")
            \cup When(manifest # NoManifest /\ clock <= manifest.updated, "sameSecond")
            \cup When(~Step(d, "idle") /\ clock <= syncing[d].updated, "sameSecond"))
  /\ UNCHANGED <<clock, mishaps, cache, resume, filesServer, syncing>>

\* The data files are lost and the profile stays: what compute_diff guards against.
LoseFiles(d) ==
  /\ Step(d, "idle")
  /\ \E p \in Paths : disk[d][p].what # Absent
  /\ Mishap
  /\ disk' = [disk EXCEPT ![d] = [p \in Paths |-> [what |-> Absent, at |-> 0]]]
  /\ Excuse(When(d \in unsent, "apart"))
  /\ cut' = cut \ {d}
  /\ UNCHANGED <<clock, edits, cache, resume, filesServer, syncing, newest, unsent>>

(***************************************************************************)
(* The scan and the comparison.                                            *)
(***************************************************************************)
Present(files) == {p \in Paths : files[p].what # Absent}
\* generate_manifest over the files of a directory: cached hashes where the time stands.
ScanHash(files, cached) ==
  [p \in Paths |-> IF files[p].what # Absent /\ cached[p].what # Absent /\ cached[p].at = files[p].at
                   THEN cached[p].what ELSE files[p].what]
\* Mutant: an empty directory is stamped ahead of the clock.
ScanUpdatedAhead(files) ==
  IF Present(files) = {} THEN clock + 1 ELSE Max({files[p].at : p \in Present(files)})

ScanUpdated(files) ==
  IF Present(files) = {} THEN clock ELSE Max({files[p].at : p \in Present(files)})
ScanCache(files, cached) ==
  [p \in Paths |-> IF files[p].what = Absent THEN cached[p]
                   ELSE [what |-> ScanHash(files, cached)[p], at |-> files[p].at]]
Misread(files, cached) == \E p \in Paths : ScanHash(files, cached)[p] # files[p].what

\* sync_profile_inner up to the manifest of the local directory.
BeginSync(d, bias) ==
  /\ Step(d, "idle")
  /\ syncing' = [syncing EXCEPT ![d] = [NoSync EXCEPT
       !.step = "compare", !.bias = bias,
       !.hash = ScanHash(disk[d], cache[d]), !.updated = ScanUpdated(disk[d])]]
  /\ cache' = [cache EXCEPT ![d] = ScanCache(disk[d], cache[d])]
  /\ Excuse(When(Misread(disk[d], cache[d]), "sameSecond")
            \cup When(bias # "auto", "forced"))
  /\ UNCHANGED <<filesBounds, disk, resume, filesServer, newest, unsent, cut>>

Named(hash) == {p \in Paths : hash[p] # Absent}
LocalIsNewer(sync) == sync.bias = "auto" /\ sync.updated > manifest.updated

\* Mutant: no guard for a directory that lost its files.
DiffTrustsEmpty(sync) ==
  LET differ == {p \in Paths : sync.hash[p] # manifest.hash[p]}
      here == Named(sync.hash)
      there == Named(manifest.hash)
  IN IF manifest = NoManifest \/ sync.bias = "reencrypt"
     THEN [dir |-> "upload", move |-> here, drop |-> {}]
     ELSE IF LocalIsNewer(sync)
     THEN [dir |-> "upload", move |-> here \cap differ, drop |-> there \ here]
     ELSE [dir |-> "download", move |-> there \cap differ, drop |-> here \ there]

\* compute_diff_with_bias: the direction, the files to move, and those to delete over there.
Diff(sync) ==
  LET differ == {p \in Paths : sync.hash[p] # manifest.hash[p]}
      here == Named(sync.hash)
      there == Named(manifest.hash)
  IN IF manifest = NoManifest \/ sync.bias = "reencrypt"
     THEN [dir |-> "upload", move |-> here, drop |-> {}]
     ELSE IF here = {} /\ there # {}
     THEN [dir |-> "download", move |-> there, drop |-> {}]
     ELSE IF LocalIsNewer(sync)
     THEN [dir |-> "upload", move |-> here \cap differ, drop |-> there \ here]
     ELSE [dir |-> "download", move |-> there \cap differ, drop |-> here \ there]

Before(d, dir, valid) ==
  IF valid /\ resume[d].dir = dir THEN resume[d].done ELSE {}

\* The remote manifest is fetched and compared; an empty difference completes the sync,
\* otherwise the files that the resume file does not name are to be moved.  A resume
\* file older than twelve hours is not valid any more.
CompareManifests(d, valid) ==
  /\ Step(d, "compare")
  /\ ~valid => resume[d] # NoResume
  /\ LET sync == syncing[d]
         diff == Diff(sync)
         nothing == diff.move = {} /\ diff.drop = {} /\ sync.bias # "reencrypt"
         before == Before(d, diff.dir, valid)
     IN /\ ~valid => diff.move # {}
        /\ syncing' = [syncing EXCEPT ![d] =
             IF nothing THEN NoSync
             ELSE [sync EXCEPT !.step = "transfer", !.dir = diff.dir,
                     !.todo = diff.move \ before, !.done = before, !.drop = diff.drop,
                     !.moves = diff.move \ before # {}]]
        /\ resume' = IF valid THEN resume ELSE [resume EXCEPT ![d] = NoResume]
        /\ unsent' = IF nothing /\ Holds(d, sync.hash) THEN unsent \ {d} ELSE unsent
        /\ cut' = IF nothing THEN cut \ {d} ELSE cut
        /\ Excuse(When(\E p \in diff.move \cap before :
                            stored[p] # sync.hash[p] \/ diff.dir = "download", "resumed")
                  \cup When(~nothing /\ \E e \in Installs \ {d} :
                               syncing[e].step \in {"transfer", "publish"}, "overlapped")
                  \cup When(~nothing /\ diff.dir = "upload" /\ d \notin unsent
                            /\ Named(sync.hash) # {}, "looksNewer"))
  /\ UNCHANGED <<filesBounds, disk, cache, filesServer, newest>>

(***************************************************************************)
(* The transfer.  Its requests run side by side, in any order.             *)
(***************************************************************************)
Moved(d, p) ==
  LET done == syncing[d].done \cup {p} IN
    /\ syncing' = [syncing EXCEPT ![d].todo = @ \ {p}, ![d].done = done, ![d].saved = TRUE]
    /\ resume' = IF syncing[d].saved THEN resume
                 ELSE [resume EXCEPT ![d] = [dir |-> syncing[d].dir, done |-> done]]
\* Mutant: a critical file that fails does not abort the sync.
NotMovedGoesOn(d, p) ==
  /\ syncing' = [syncing EXCEPT ![d].todo = @ \ {p}]
  /\ UNCHANGED resume
NotMoved(d, p) ==
  /\ syncing' = [syncing EXCEPT ![d].todo = @ \ {p},
                   ![d].failed = @ \/ p \in CriticalPaths]
  /\ UNCHANGED resume

\* What is on disk now is uploaded; a file that disappeared is passed over.
UploadFile(d, p) ==
  /\ Step(d, "transfer") /\ syncing[d].dir = "upload" /\ p \in syncing[d].todo
  /\ IF disk[d][p].what # Absent
     THEN Moved(d, p) /\ stored' = [stored EXCEPT ![p] = disk[d][p].what]
     ELSE NotMoved(d, p) /\ UNCHANGED stored
  /\ UNCHANGED <<filesBounds, disk, cache, manifest, filesHistory>>

\* The file is written with the present time; one the server does not have is a failure.
DownloadFile(d, p) ==
  /\ Step(d, "transfer") /\ syncing[d].dir = "download" /\ p \in syncing[d].todo
  /\ IF stored[p] # Absent
     THEN /\ Moved(d, p)
          /\ disk' = [disk EXCEPT ![d][p] = [what |-> stored[p], at |-> clock]]
          /\ UNCHANGED excuses
     ELSE NotMoved(d, p) /\ Excuse(When(p \notin CriticalPaths, "skipped")) /\ UNCHANGED disk
  /\ UNCHANGED <<filesBounds, cache, filesServer, newest, unsent, cut>>

\* A transfer that fails three times: fatal for a critical file, else passed over.
TransferFails(d, p) ==
  /\ Step(d, "transfer") /\ p \in syncing[d].todo
  /\ Mishap
  /\ NotMoved(d, p)
  /\ Excuse(When(p \notin CriticalPaths, "skipped"))
  /\ UNCHANGED <<clock, edits, disk, cache, filesServer, newest, unsent, cut>>

CancelSync(d) ==
  /\ ~Step(d, "idle") /\ ~syncing[d].cancelled
  /\ Mishap
  /\ syncing' = [syncing EXCEPT ![d].cancelled = TRUE]
  /\ UNCHANGED <<clock, edits, filesLocal, filesServer, filesHistory>>

\* What an interruption leaves behind.
Interrupted(d) ==
  /\ SyncEnds(d)
  /\ cut' = IF syncing[d].dir = "download" /\ syncing[d].saved THEN cut \cup {d} ELSE cut
  /\ Excuse(When(syncing[d].dir = "upload" /\ (syncing[d].saved \/ Step(d, "publish")), "torn")
            \cup When(syncing[d].dir = "download" /\ syncing[d].saved, "cut"))

\* Everything is moved, or the rest cancelled.  The resume file is saved; after a
\* download the files to go are deleted and the directory is scanned again.
EndTransfer(d) ==
  /\ Step(d, "transfer")
  /\ LET sync == syncing[d]
         kept == [p \in Paths |-> IF p \in sync.drop THEN [what |-> Absent, at |-> 0]
                                  ELSE disk[d][p]]
     IN /\ sync.todo = {} \/ sync.cancelled
        /\ resume' = IF sync.moves
                     THEN [resume EXCEPT ![d] = [dir |-> sync.dir, done |-> sync.done]]
                     ELSE resume
        /\ \/ /\ sync.failed \/ sync.cancelled
              /\ Interrupted(d)
              /\ UNCHANGED <<disk, cache>>
           \/ /\ ~sync.failed /\ ~sync.cancelled /\ sync.dir = "upload"
              /\ syncing' = [syncing EXCEPT ![d].step = "publish"]
              /\ UNCHANGED <<disk, cache, cut, excuses>>
           \/ /\ ~sync.failed /\ ~sync.cancelled /\ sync.dir = "download"
              /\ disk' = [disk EXCEPT ![d] = kept]
              /\ cache' = [cache EXCEPT ![d] = ScanCache(kept, cache[d])]
              /\ syncing' = [syncing EXCEPT ![d].step = "publish", ![d].drop = {},
                   ![d].hash = ScanHash(kept, cache[d]), ![d].updated = ScanUpdated(kept)]
              /\ Excuse(When(Misread(kept, cache[d]), "sameSecond"))
              /\ UNCHANGED cut
  /\ UNCHANGED <<filesBounds, filesServer, newest, unsent>>

(***************************************************************************)
(* The end of a sync.                                                      *)
(***************************************************************************)
\* A file that is gone here is deleted there; whether that worked is not looked at.
DropRemote(d, p) ==
  /\ Step(d, "publish") /\ p \in syncing[d].drop
  /\ syncing' = [syncing EXCEPT ![d].drop = @ \ {p}]
  /\ \/ stored' = [stored EXCEPT ![p] = Absent] /\ UNCHANGED mishaps
     \/ Mishap /\ UNCHANGED stored
  /\ UNCHANGED <<clock, edits, filesLocal, manifest, filesHistory>>

\* upload_manifest, last of all.
PutManifest(d) ==
  /\ Step(d, "publish") /\ syncing[d].drop = {}
  /\ manifest' = [hash |-> syncing[d].hash, updated |-> syncing[d].updated]
  /\ resume' = [resume EXCEPT ![d] = NoResume]
  /\ SyncEnds(d)
  /\ unsent' = IF Holds(d, syncing[d].hash) THEN unsent \ {d} ELSE unsent
  /\ cut' = cut \ {d}
  /\ Excuse(When(syncing[d].dir = "download" /\ unsent \ {d} # {}, "caughtUp"))
  /\ UNCHANGED <<filesBounds, disk, cache, stored, newest>>

\* A request outside the files fails, or the application goes down.
BreakOff(d) ==
  /\ ~Step(d, "idle")
  /\ Mishap
  /\ Interrupted(d)
  /\ UNCHANGED <<clock, edits, filesLocal, filesServer, newest, unsent>>

FilesNext ==
  \/ FilesTick
  \/ \E d \in Installs :
       \/ \E p \in Paths :
            \/ \E removed \in BOOLEAN : EditFile(d, p, removed)
            \/ UploadFile(d, p) \/ DownloadFile(d, p) \/ TransferFails(d, p)
            \/ DropRemote(d, p)
       \/ LoseFiles(d)
       \/ \E bias \in Biases : BeginSync(d, bias)
       \/ \E valid \in BOOLEAN : CompareManifests(d, valid)
       \/ EndTransfer(d) \/ PutManifest(d)
       \/ CancelSync(d) \/ BreakOff(d)

FilesSpec == FilesInit /\ [][FilesNext]_filesVars

(***************************************************************************)
(* Properties.                                                             *)
(***************************************************************************)
\* What NothingLost and CompletedAgrees both leave out: edits under a sync that may yet
\* download over them, edits in the second of the last manifest, two syncs that move files
\* at once, failed transfers of files that are not critical, and files a resumed sync
\* passes over though they changed.
Unsafe == {"overwritten", "sameSecond", "overlapped", "skipped", "resumed"}

\* The last edit of a file is on the server or on a device: edits under an upload,
\* interrupted uploads, failures of critical files and lost directories destroy nothing
\* (compute_diff's "prevents data loss when profile data files are deleted").  Besides
\* Unsafe it leaves out devices that were edited apart, a device that catches up and so
\* looks newer than one with edits to send, syncs started with a bias, and uploads of a
\* device that has no edits to send: what is left of its files looks newer, as after a
\* download cut short.
NothingLost ==
  excuses \cap (Unsafe \cup {"apart", "caughtUp", "forced", "looksNewer"}) = {} =>
    \A p \in Paths : newest[p] # Absent =>
      stored[p] = newest[p] \/ \E d \in Installs : disk[d][p].what = newest[p]

\* A sync that completes leaves on the device what the manifest names, and on the server
\* the files it names (ProfileSyncOutcome::Completed), whatever was interrupted on the
\* way; after an upload broken off, or with a browser launched under the sync, the files
\* are not those of the manifest.
CompletedAgrees ==
  [][\A d \in Installs :
       PutManifest(d) /\ excuses \cap (Unsafe \cup {"torn", "edited"}) = {}
         => /\ Holds(d, manifest'.hash)
            /\ \A p \in Named(manifest'.hash) : stored[p] = manifest'.hash[p]]_filesVars

\* The resume file lets an interrupted sync continue: a download that was cut short, with
\* no edit since, is not followed by a sync of the device that changes the server's files.
CutDownloadContinues ==
  [][\A d \in cut, p \in Paths :
       excuses \subseteq {"cut", "looksNewer"} /\ (UploadFile(d, p) \/ DropRemote(d, p))
         => stored'[p] = stored[p]]_filesVars

===============================================================================
