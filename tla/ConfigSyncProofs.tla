--------------------------- MODULE ConfigSyncProofs ---------------------------
(***************************************************************************)
(* What holds of one config entity for any number of devices, however      *)
(* often it is edited, deleted and switched, however long the clock runs   *)
(* and whatever requests fail: the type invariant, and the three promises  *)
(* of the config sync that MCConfigSync.cfg checks on two devices.         *)
(***************************************************************************)
EXTENDS ConfigSync, TLAPS

USE BoundAssumption
USE DEF local, server, requests, feed, work, vars

(***************************************************************************)
(* Types.                                                                  *)
(***************************************************************************)
LEMMA CopyTypes ==
  /\ Nothing \in Copies /\ Nothing.at = 0 /\ Nothing.on = FALSE
  /\ \A c \in Copies : /\ c.at \in Nat /\ c.on \in BOOLEAN
                       /\ (c = Nothing <=> c.at = 0)
  /\ \A t \in Times, on \in BOOLEAN : [at |-> t, on |-> on] \in Copies \ {Nothing}
<1>1. Nothing \in Copies /\ Nothing.at = 0 /\ Nothing.on = FALSE
  BY DEF Copies, Nothing
<1>2. ASSUME NEW t \in Times, NEW on \in BOOLEAN
      PROVE  [at |-> t, on |-> on] \in Copies \ {Nothing}
  <2>1. [at |-> t, on |-> on] \in [at : Times, on : BOOLEAN]
    OBVIOUS
  <2>2. [at |-> t, on |-> on].at # Nothing.at
    BY <1>1 DEF Times
  <2> QED
    BY <2>1, <2>2 DEF Copies
<1>3. ASSUME NEW c \in Copies
      PROVE  c.at \in Nat /\ c.on \in BOOLEAN /\ (c = Nothing <=> c.at = 0)
  <2>1. CASE c = Nothing
    <3>1. c.on \in BOOLEAN
      BY <2>1, <1>1, Zenon
    <3>2. c.at = 0
      BY <2>1, <1>1
    <3> QED
      BY <2>1, <3>1, <3>2
  <2>2. CASE c \in [at : Times, on : BOOLEAN]
    BY <2>2, <1>1 DEF Times
  <2> QED
    BY <2>1, <2>2 DEF Copies
<1> QED
  BY <1>1, <1>2, <1>3

LEMMA ObjectTypes ==
  /\ NoObject \in Objects /\ NoObject.copy = Nothing /\ NoObject.written = 0
  /\ \A o \in Objects : /\ o.copy \in Copies /\ o.written \in Nat
                        /\ o.written \in Times \cup {0}
                        /\ (o = NoObject <=> o.copy.at = 0)
                        /\ (o = NoObject <=> o.written = 0)
  /\ \A c \in Copies \ {Nothing}, t \in Times : [copy |-> c, written |-> t] \in Objects
<1>1. NoObject \in Objects /\ NoObject.copy = Nothing /\ NoObject.written = 0
  BY DEF Objects, NoObject
<1>2. ASSUME NEW o \in Objects
      PROVE  /\ o.copy \in Copies /\ o.written \in Nat
             /\ o.written \in Times \cup {0}
             /\ (o = NoObject <=> o.copy.at = 0)
             /\ (o = NoObject <=> o.written = 0)
  <2>1. CASE o = NoObject
    BY <2>1, <1>1, CopyTypes DEF Times
  <2>2. CASE o \in [copy : Copies \ {Nothing}, written : Times]
    BY <2>2, <1>1, CopyTypes DEF Times
  <2> QED
    BY <2>1, <2>2 DEF Objects
<1>3. \A c \in Copies \ {Nothing}, t \in Times : [copy |-> c, written |-> t] \in Objects
  BY DEF Objects
<1> QED
  BY <1>1, <1>2, <1>3

LEMMA TypeInit == Init => TypeOK
<1> SUFFICES ASSUME Init PROVE TypeOK
  OBVIOUS
<1>1. 1 \in Times /\ clock \in Times /\ 1 .. clock \subseteq Times
  BY DEF Init, Times
<1>2. mem \in [Devices -> Copies]
  <2>1. CASE \E d \in Devices, on \in BOOLEAN :
               mem = [e \in Devices |-> IF e = d THEN [at |-> 1, on |-> on] ELSE Nothing]
    BY <2>1, <1>1, CopyTypes
  <2>2. CASE mem \in [Devices -> [at : 1 .. clock, on : {TRUE}]]
    <3>1. ASSUME NEW d \in Devices PROVE mem[d] \in Copies
      BY <2>2, <1>1 DEF Copies
    <3> QED
      BY <2>2, <3>1
  <2> QED
    BY <2>1, <2>2 DEF Init
<1>3. object \in Objects
  <2>1. [at |-> 1, on |-> TRUE] \in Copies \ {Nothing}
    BY <1>1, CopyTypes
  <2> QED
    BY <1>1, <2>1, ObjectTypes DEF Init
<1>4. queued \in [Devices -> BOOLEAN]
  BY <1>2, CopyTypes DEF Init
<1> QED
  BY <1>1, <1>2, <1>3, <1>4, CopyTypes DEF Init, TypeOK, Idle, SyncSteps, NoKey

LEMMA GotoTypes ==
  ASSUME TypeOK, NEW d \in Devices, NEW pc \in SyncSteps, NEW copy \in Copies,
         Goto(d, pc, copy)
  PROVE  sync' \in [Devices -> [pc : SyncSteps, copy : Copies]]
<1>1. Idle \in [pc : SyncSteps, copy : Copies] /\ "idle" \in SyncSteps
  BY CopyTypes DEF Idle, SyncSteps
<1> QED
  BY <1>1 DEF Goto, TypeOK

\* What is uploaded is a copy, never the lack of one.
UploadInv ==
  \A d \in Devices : sync[d].pc \in {"presign", "put", "writeFile"} => sync[d].copy # Nothing

LEMMA TypeStep == TypeOK /\ UploadInv /\ [Next]_vars => TypeOK'
<1> SUFFICES ASSUME TypeOK, UploadInv, [Next]_vars PROVE TypeOK'
  OBVIOUS
<1> USE CopyTypes, ObjectTypes DEF TypeOK
<1>1. CASE Tick
  BY <1>1 DEF Tick, Times
<1>2. CASE UNCHANGED vars
  BY <1>2
<1>3. ASSUME NEW d \in Devices, UserStep(d) \/ RequestStep(d) \/ LoopStep(d) \/ Poll(d) \/ Mishap(d)
      PROVE  TypeOK'
  <2>1. CASE Edit(d)
    BY <2>1 DEF Edit, Call, Fault, Saved, Faults
  <2>2. CASE Delete(d)
    BY <2>2 DEF Delete, Call, Saved
  <2>3. CASE SetSyncEnabled(d)
    <3>1. mem[d] \in [at : Times, on : BOOLEAN]
      BY <2>3 DEF SetSyncEnabled, Copies
    <3>2. [mem[d] EXCEPT !.on = ~@] \in Copies
      BY <3>1 DEF Copies
    <3> QED
      BY <2>3, <3>2 DEF SetSyncEnabled, Call, Saved
  <2>4. CASE DeleteObject(d)
    <3>1. object' \in Objects
      BY <2>4 DEF DeleteObject
    <3>2. deleting' \in [Devices -> {"idle", "object", "tombstone"}]
      <4>1. CASE deleting' = [deleting EXCEPT ![d] = "tombstone"]
        BY <4>1
      <4>2. CASE deleting' = [deleting EXCEPT ![d] = "idle"]
        BY <4>2
      <4> QED
        BY <2>4, <4>1, <4>2 DEF DeleteObject
    <3>3. troubles' \in Nat
      BY <2>4 DEF DeleteObject, Trouble
    <3> QED
      BY <2>4, <3>1, <3>2, <3>3 DEF DeleteObject
  <2>5. CASE PutTombstone(d)
    <3>1. tombstone' \in Times \cup {0} /\ bumped' \in [Devices -> BOOLEAN]
      BY <2>5 DEF PutTombstone, BumpManifest
    <3>2. faults' \subseteq Faults
      BY <2>5 DEF PutTombstone, Fault, SameSecond, Faults
    <3>3. troubles' \in Nat
      BY <2>5 DEF PutTombstone, Trouble
    <3> QED
      BY <2>5, <3>1, <3>2, <3>3 DEF PutTombstone
  <2>6. CASE ClearTombstone(d)
    <3>1. tombstone' \in Times \cup {0} /\ bumped' \in [Devices -> BOOLEAN]
      BY <2>6 DEF ClearTombstone, BumpManifest
    <3>2. faults' \subseteq Faults
      BY <2>6 DEF ClearTombstone, Fails, Fault, Faults
    <3>3. troubles' \in Nat
      BY <2>6 DEF ClearTombstone, Fails, Trouble
    <3> QED
      BY <2>6, <3>1, <3>2, <3>3 DEF ClearTombstone
  <2>7. CASE EnablingQueues(d)
    BY <2>7 DEF EnablingQueues
  <2>8. CASE ApplyTombstone(d)
    BY <2>8 DEF ApplyTombstone, Saved
  <2>9. CASE SyncBegins(d)
    BY <2>9 DEF SyncBegins, Goto, SyncSteps
  <2>10. CASE TombstoneBlocks(d)
    <3>1. sync' \in [Devices -> [pc : SyncSteps, copy : Copies]]
      BY <2>10, GotoTypes DEF TombstoneBlocks, SyncSteps
    <3> QED
      BY <2>10, <3>1 DEF TombstoneBlocks
  <2>11. CASE StatObject(d)
    BY <2>11 DEF StatObject, Goto, Idle, Reconciled, SyncSteps
  <2>12. CASE PresignUpload(d)
    BY <2>12 DEF PresignUpload, Goto, BumpManifest, SyncSteps
  <2>13. CASE PutObject(d)
    <3>1. sync' \in [Devices -> [pc : SyncSteps, copy : Copies]]
      BY <2>13, GotoTypes DEF PutObject, SyncSteps
    <3>2. faults' \subseteq Faults
      BY <2>13 DEF PutObject, Fault, SameSecond, Faults
    <3>3. object' \in Objects
      BY <2>13 DEF PutObject, UploadInv
    <3> QED
      BY <2>13, <3>1, <3>2, <3>3 DEF PutObject
  <2>14. CASE WriteFile(d)
    BY <2>14 DEF WriteFile, Goto, Idle, SyncSteps
  <2>15. CASE GetObject(d)
    <3>1. sync' \in [Devices -> [pc : SyncSteps, copy : Copies]]
      BY <2>15, GotoTypes DEF GetObject, SyncSteps
    <3>2. faults' \subseteq Faults
      BY <2>15 DEF GetObject, Fault, Faults
    <3> QED
      BY <2>15, <3>1, <3>2 DEF GetObject
  <2>16. CASE DownloadSaves(d)
    BY <2>16 DEF DownloadSaves, Goto, Saved, Idle, SyncSteps
  <2>17. CASE Poll(d)
    BY <2>17 DEF Poll, Lists, Listing, Reported
  <2>18. CASE PollOvertaken(d)
    BY <2>18 DEF PollOvertaken, Lists, Listing, Fails, Trouble, Fault, Faults
  <2>19. CASE Reconnect(d)
    BY <2>19 DEF Reconnect, Trouble, NoKey
  <2>20. CASE Restart(d)
    BY <2>20 DEF Restart, Trouble, Fault, NoKey, Idle, Faults, SyncSteps
  <2>21. CASE SyncFails(d)
    BY <2>21 DEF SyncFails, Goto, Idle, Fails, Trouble, Fault, Faults, SyncSteps
  <2>22. ASSUME NEW item \in Items, Receive(d, item) PROVE TypeOK'
    BY <2>22 DEF Receive, Items
  <2> QED
    BY <1>3, <2>1, <2>2, <2>3, <2>4, <2>5, <2>6, <2>7, <2>8, <2>9, <2>10, <2>11, <2>12, <2>13, <2>14, <2>15, <2>16, <2>17, <2>18, <2>19, <2>20, <2>21, <2>22 DEF UserStep, RequestStep, LoopStep, Mishap
<1> QED
  BY <1>1, <1>2, <1>3 DEF Next

(***************************************************************************)
(* What the steps have in common.                                          *)
(***************************************************************************)
DeviceStep(d) == UserStep(d) \/ RequestStep(d) \/ LoopStep(d) \/ Poll(d) \/ Mishap(d)

LEMMA Ats ==
  ASSUME TypeOK
  PROVE  /\ clock \in Nat /\ object.copy.at \in Nat
         /\ \A d \in Devices : /\ mem[d].at \in Nat /\ file[d].at \in Nat
                               /\ sync[d].copy.at \in Nat
BY CopyTypes, ObjectTypes DEF TypeOK, Times

\* Goto moves the sync of one device.
LEMMA GotoMoves ==
  ASSUME TypeOK, NEW d \in Devices, NEW pc, NEW copy, Goto(d, pc, copy)
  PROVE  /\ \A e \in Devices \ {d} : sync'[e] = sync[e]
         /\ sync'[d].pc = pc
         /\ pc # "idle" => sync'[d].copy = copy
         /\ pc = "idle" => sync'[d].copy = Nothing
BY DEF Goto, TypeOK, Idle

\* Saved replaces the copy and the file of one device.
LEMMA SavedMoves ==
  ASSUME TypeOK, NEW d \in Devices, NEW copy, Saved(d, copy)
  PROVE  /\ mem'[d] = copy /\ file'[d] = copy
         /\ \A e \in Devices \ {d} : mem'[e] = mem[e] /\ file'[e] = file[e]
BY DEF Saved, TypeOK

\* The ways a sync ends.
Ends(d) ==
  \/ SyncFails(d) \/ Restart(d) \/ WriteFile(d) \/ DownloadSaves(d)
  \/ TombstoneBlocks(d) /\ TombstoneOutranksLocal(sync[d].copy)
  \/ StatObject(d) /\ sync[d].copy.at = object.copy.at
  \/ GetObject(d) /\ object = NoObject

\* How the sync of one device may move in a step.
LEMMA SyncMoves ==
  ASSUME TypeOK, [Next]_vars, NEW d \in Devices
  PROVE  \/ sync'[d] = sync[d]
         \/ sync'[d].pc = "idle" /\ sync'[d].copy = Nothing /\ Ends(d)
         \/ sync'[d].pc = "tombstone" /\ SyncBegins(d) /\ sync'[d].copy = mem[d]
         \/ sync'[d].pc = "object" /\ TombstoneBlocks(d) /\ sync'[d].copy = sync[d].copy
         \/ /\ sync'[d].pc = "presign" /\ StatObject(d) /\ sync'[d].copy = sync[d].copy
            /\ sync[d].copy.at > object.copy.at
         \/ /\ sync'[d].pc = "get" /\ StatObject(d) /\ sync'[d].copy = sync[d].copy
            /\ object.copy.at > sync[d].copy.at
         \/ sync'[d].pc = "put" /\ PresignUpload(d) /\ sync'[d].copy = sync[d].copy
         \/ sync'[d].pc = "writeFile" /\ PutObject(d) /\ sync'[d].copy = sync[d].copy
         \/ /\ sync'[d].pc = "save" /\ GetObject(d) /\ sync'[d].copy = object.copy
            /\ object # NoObject
<1> DEFINE Moves ==
         \/ sync'[d] = sync[d]
         \/ sync'[d].pc = "idle" /\ sync'[d].copy = Nothing /\ Ends(d)
         \/ sync'[d].pc = "tombstone" /\ SyncBegins(d) /\ sync'[d].copy = mem[d]
         \/ sync'[d].pc = "object" /\ TombstoneBlocks(d) /\ sync'[d].copy = sync[d].copy
         \/ /\ sync'[d].pc = "presign" /\ StatObject(d) /\ sync'[d].copy = sync[d].copy
            /\ sync[d].copy.at > object.copy.at
         \/ /\ sync'[d].pc = "get" /\ StatObject(d) /\ sync'[d].copy = sync[d].copy
            /\ object.copy.at > sync[d].copy.at
         \/ sync'[d].pc = "put" /\ PresignUpload(d) /\ sync'[d].copy = sync[d].copy
         \/ sync'[d].pc = "writeFile" /\ PutObject(d) /\ sync'[d].copy = sync[d].copy
         \/ /\ sync'[d].pc = "save" /\ GetObject(d) /\ sync'[d].copy = object.copy
            /\ object # NoObject
<1> SUFFICES Moves
  OBVIOUS
<1>1. CASE Tick \/ UNCHANGED vars
  BY <1>1 DEF Tick
<1>2. ASSUME NEW e \in Devices, DeviceStep(e) PROVE Moves
  <2>1. CASE UserStep(e) \/ RequestStep(e) \/ Poll(e) \/ PollOvertaken(e) \/ Reconnect(e)
    BY <2>1 DEF UserStep, RequestStep, Edit, Delete, SetSyncEnabled, DeleteObject,
      PutTombstone, ClearTombstone, EnablingQueues, Poll, PollOvertaken, Reconnect
  <2>2. CASE ApplyTombstone(e) \/ \E item \in Items : Receive(e, item)
    BY <2>2 DEF ApplyTombstone, Receive
  <2>3. CASE Restart(e)
    BY <2>3 DEF Restart, Idle, TypeOK, Ends
  <2>4. CASE SyncFails(e) \/ WriteFile(e) \/ DownloadSaves(e)
    <3>1. Goto(e, "idle", Nothing)
      BY <2>4 DEF SyncFails, WriteFile, DownloadSaves
    <3> QED
      BY <2>4, <3>1, GotoMoves DEF Ends
  <2>5. CASE SyncBegins(e)
    BY <2>5, GotoMoves DEF SyncBegins
  <2>6. CASE TombstoneBlocks(e)
    <3>1. \/ TombstoneOutranksLocal(sync[e].copy) /\ Goto(e, "idle", Nothing)
          \/ Goto(e, "object", sync[e].copy)
      BY <2>6 DEF TombstoneBlocks
    <3> QED
      BY <2>6, <3>1, GotoMoves DEF Ends
  <2>7. CASE StatObject(e)
    <3>1. Goto(e, Reconciled(sync[e].copy), sync[e].copy)
      BY <2>7 DEF StatObject
    <3>2. \/ Reconciled(sync[e].copy) = "idle" /\ sync[e].copy.at = object.copy.at
          \/ Reconciled(sync[e].copy) = "presign" /\ sync[e].copy.at > object.copy.at
          \/ Reconciled(sync[e].copy) = "get" /\ object.copy.at > sync[e].copy.at
      BY Ats DEF Reconciled
    <3> QED
      BY <2>7, <3>1, <3>2, GotoMoves DEF Ends
  <2>8. CASE PresignUpload(e)
    BY <2>8, GotoMoves DEF PresignUpload
  <2>9. CASE PutObject(e)
    BY <2>9, GotoMoves DEF PutObject
  <2>10. CASE GetObject(e)
    <3>1. \/ object = NoObject /\ Goto(e, "idle", Nothing)
          \/ object # NoObject /\ Goto(e, "save", object.copy)
      BY <2>10 DEF GetObject
    <3> QED
      BY <2>10, <3>1, GotoMoves DEF Ends
  <2> QED
    BY <1>2, <2>1, <2>2, <2>3, <2>4, <2>5, <2>6, <2>7, <2>8, <2>9, <2>10
    DEF DeviceStep, LoopStep, Mishap
<1> QED
  BY <1>1, <1>2 DEF Next, DeviceStep

LEMMA UploadStep == TypeOK /\ UploadInv /\ [Next]_vars => UploadInv'
<1> SUFFICES ASSUME TypeOK, UploadInv, [Next]_vars, NEW d \in Devices,
                    sync'[d].pc \in {"presign", "put", "writeFile"}
             PROVE  sync'[d].copy # Nothing
  BY DEF UploadInv
<1>1. sync[d].copy \in Copies /\ object.copy \in Copies
  BY ObjectTypes DEF TypeOK
<1>2. sync[d].copy.at > object.copy.at => sync[d].copy # Nothing
  BY <1>1, CopyTypes
<1> QED
  BY <1>2, SyncMoves DEF UploadInv, PresignUpload, PutObject

\* The history only grows.
LEMMA HistoryGrows ==
  ASSUME [Next]_vars
  PROVE  faults \subseteq faults' /\ (deleted => deleted')
<1>1. CASE Tick \/ UNCHANGED vars
  BY <1>1 DEF Tick
<1>2. ASSUME NEW d \in Devices, DeviceStep(d)
      PROVE  faults \subseteq faults' /\ (deleted => deleted')
  <2>1. CASE UserStep(d)
    BY <2>1 DEF UserStep, Edit, Delete, SetSyncEnabled, Fault
  <2>2. CASE RequestStep(d)
    BY <2>2 DEF RequestStep, DeleteObject, PutTombstone, ClearTombstone, EnablingQueues,
      Fails, Fault
  <2>3. CASE Poll(d) \/ Mishap(d)
    BY <2>3 DEF Poll, Mishap, PollOvertaken, Reconnect, Restart, SyncFails, Fails, Fault
  <2>4. CASE LoopStep(d)
    BY <2>4 DEF LoopStep, Receive, ApplyTombstone, SyncBegins, TombstoneBlocks, StatObject,
      PresignUpload, PutObject, WriteFile, GetObject, DownloadSaves, Fault
  <2> QED
    BY <1>2, <2>1, <2>2, <2>3, <2>4 DEF DeviceStep
<1> QED
  BY <1>1, <1>2 DEF Next, DeviceStep

\* In every state everything has the type its declaration gives it.
THEOREM TypeCorrect == Spec => []TypeOK
<1>1. Init => TypeOK /\ UploadInv
  <2>1. Init => UploadInv
    BY DEF Init, UploadInv, Idle
  <2> QED
    BY <2>1, TypeInit
<1>2. TypeOK /\ UploadInv /\ [Next]_vars => (TypeOK /\ UploadInv)'
  BY TypeStep, UploadStep
<1> QED
  BY <1>1, <1>2, PTL DEF Spec

(***************************************************************************)
(* The newest edit is kept.                                                *)
(***************************************************************************)
\* How the copy of one device may change in a step.
LEMMA CopyMoves ==
  ASSUME TypeOK, [Next]_vars, NEW d \in Devices
  PROVE  \/ mem'[d] = mem[d] /\ file'[d] = file[d]
         \/ SetSyncEnabled(d) /\ mem'[d].at = mem[d].at /\ file'[d] = mem'[d]
         \/ Edit(d) /\ mem'[d].at = clock /\ file'[d] = mem'[d]
         \/ Delete(d) /\ mem'[d] = Nothing /\ file'[d] = mem'[d]
         \/ ApplyTombstone(d) /\ mem'[d] = Nothing /\ file'[d] = mem'[d]
         \/ DownloadSaves(d) /\ mem'[d] = sync[d].copy /\ file'[d] = mem'[d]
         \/ WriteFile(d) /\ mem'[d] = mem[d] /\ file'[d] = sync[d].copy
         \/ Restart(d) /\ mem'[d] = file[d] /\ file'[d] = file[d]
<1> DEFINE Moves ==
         \/ mem'[d] = mem[d] /\ file'[d] = file[d]
         \/ SetSyncEnabled(d) /\ mem'[d].at = mem[d].at /\ file'[d] = mem'[d]
         \/ Edit(d) /\ mem'[d].at = clock /\ file'[d] = mem'[d]
         \/ Delete(d) /\ mem'[d] = Nothing /\ file'[d] = mem'[d]
         \/ ApplyTombstone(d) /\ mem'[d] = Nothing /\ file'[d] = mem'[d]
         \/ DownloadSaves(d) /\ mem'[d] = sync[d].copy /\ file'[d] = mem'[d]
         \/ WriteFile(d) /\ mem'[d] = mem[d] /\ file'[d] = sync[d].copy
         \/ Restart(d) /\ mem'[d] = file[d] /\ file'[d] = file[d]
<1> SUFFICES Moves
  OBVIOUS
<1>1. CASE Tick \/ UNCHANGED vars
  BY <1>1 DEF Tick
<1>2. ASSUME NEW e \in Devices, DeviceStep(e) PROVE Moves
  <2>1. CASE RequestStep(e) \/ Poll(e) \/ PollOvertaken(e) \/ Reconnect(e) \/ SyncFails(e)
    BY <2>1 DEF RequestStep, DeleteObject, PutTombstone, ClearTombstone, EnablingQueues,
      Poll, PollOvertaken, Reconnect, SyncFails
  <2>2. CASE \/ SyncBegins(e) \/ TombstoneBlocks(e) \/ StatObject(e) \/ PresignUpload(e)
             \/ PutObject(e) \/ GetObject(e) \/ \E item \in Items : Receive(e, item)
    BY <2>2 DEF SyncBegins, TombstoneBlocks, StatObject, PresignUpload, PutObject,
      GetObject, Receive
  <2>3. CASE Edit(e)
    <3>1. Saved(e, [at |-> clock, on |-> mem[e].on])
      BY <2>3 DEF Edit
    <3>2. [at |-> clock, on |-> mem[e].on].at = clock
      OBVIOUS
    <3> QED
      BY <2>3, <3>1, <3>2, SavedMoves
  <2>4. CASE Delete(e)
    BY <2>4, SavedMoves DEF Delete
  <2>5. CASE SetSyncEnabled(e)
    <3>1. Saved(e, [mem[e] EXCEPT !.on = ~@])
      BY <2>5 DEF SetSyncEnabled
    <3>2. mem[e] \in [at : Times, on : BOOLEAN]
      BY <2>5 DEF SetSyncEnabled, TypeOK, Copies
    <3>3. [mem[e] EXCEPT !.on = ~@].at = mem[e].at
      BY <3>2
    <3> QED
      BY <2>5, <3>1, <3>3, SavedMoves
  <2>6. CASE ApplyTombstone(e)
    BY <2>6, SavedMoves DEF ApplyTombstone
  <2>7. CASE WriteFile(e)
    BY <2>7 DEF WriteFile, TypeOK
  <2>8. CASE DownloadSaves(e)
    BY <2>8, SavedMoves DEF DownloadSaves
  <2>9. CASE Restart(e)
    BY <2>9 DEF Restart, TypeOK
  <2> QED
    BY <1>2, <2>1, <2>2, <2>3, <2>4, <2>5, <2>6, <2>7, <2>8, <2>9
    DEF DeviceStep, UserStep, LoopStep, Mishap
<1> QED
  BY <1>1, <1>2 DEF Next, DeviceStep

\* How the object may change in a step.
LEMMA ObjectMoves ==
  ASSUME [Next]_vars
  PROVE  \/ object' = object
         \/ object' = NoObject /\ \E d \in Devices : DeleteObject(d)
         \/ \E d \in Devices : /\ PutObject(d)
                               /\ object' = [copy |-> sync[d].copy, written |-> clock]
<1> DEFINE Moves ==
         \/ object' = object
         \/ object' = NoObject /\ \E d \in Devices : DeleteObject(d)
         \/ \E d \in Devices : /\ PutObject(d)
                               /\ object' = [copy |-> sync[d].copy, written |-> clock]
<1>1. CASE Tick \/ UNCHANGED vars
  BY <1>1 DEF Tick
<1>2. ASSUME NEW d \in Devices, DeviceStep(d) PROVE Moves
  <2>1. CASE UserStep(d) \/ Poll(d) \/ Mishap(d)
    BY <2>1 DEF UserStep, Edit, Delete, SetSyncEnabled, Poll, Mishap, PollOvertaken,
      Reconnect, Restart, SyncFails
  <2>2. CASE RequestStep(d)
    BY <2>2 DEF RequestStep, DeleteObject, PutTombstone, ClearTombstone, EnablingQueues
  <2>3. CASE LoopStep(d)
    BY <2>3 DEF LoopStep, Receive, ApplyTombstone, SyncBegins, TombstoneBlocks, StatObject,
      PresignUpload, PutObject, WriteFile, GetObject, DownloadSaves
  <2> QED
    BY <1>2, <2>1, <2>2, <2>3 DEF DeviceStep
<1> QED
  BY <1>1, <1>2 DEF Next, DeviceStep

\* The clock moves in a step of its own.
LEMMA ClockMoves ==
  ASSUME TypeOK, [Next]_vars
  PROVE  clock <= clock' /\ (clock' = clock \/ Tick)
<1>1. CASE Tick \/ UNCHANGED vars
  BY <1>1 DEF Tick, TypeOK, Times
<1>2. ASSUME NEW d \in Devices, DeviceStep(d) PROVE clock' = clock
  <2>1. CASE UserStep(d) \/ RequestStep(d) \/ Poll(d) \/ Mishap(d)
    BY <2>1 DEF UserStep, Edit, Delete, SetSyncEnabled, Poll, Mishap, PollOvertaken,
      Reconnect, Restart, SyncFails, RequestStep, DeleteObject, PutTombstone,
      ClearTombstone, EnablingQueues
  <2>2. CASE LoopStep(d)
    BY <2>2 DEF LoopStep, Receive, ApplyTombstone, SyncBegins, TombstoneBlocks, StatObject,
      PresignUpload, PutObject, WriteFile, GetObject, DownloadSaves
  <2> QED
    BY <1>2, <2>1, <2>2 DEF DeviceStep
<1>3. clock \in Nat
  BY DEF TypeOK, Times
<1> QED
  BY <1>1, <1>2, <1>3 DEF Next, DeviceStep

\* Nothing is stamped later than now.
ClockInv ==
  /\ object.copy.at <= clock
  /\ \A d \in Devices : mem[d].at <= clock /\ file[d].at <= clock /\ sync[d].copy.at <= clock

LEMMA ClockStep == TypeOK /\ UploadInv /\ ClockInv /\ [Next]_vars => ClockInv'
<1> SUFFICES ASSUME TypeOK, UploadInv, ClockInv, [Next]_vars PROVE ClockInv'
  OBVIOUS
<1> USE DEF ClockInv
<1>1. TypeOK'
  BY TypeStep
<1>2. clock <= clock' /\ clock \in Nat /\ clock' \in Nat
  BY <1>1, ClockMoves, Ats DEF TypeOK, Times
<1>3. object'.copy.at <= clock'
  <2>1. CASE object' = object
    BY <2>1, <1>2, Ats
  <2>2. CASE object' = NoObject
    BY <2>2, <1>2, ObjectTypes, CopyTypes
  <2>3. ASSUME NEW d \in Devices, object' = [copy |-> sync[d].copy, written |-> clock]
        PROVE  object'.copy.at <= clock'
    BY <2>3, <1>2, Ats
  <2> QED
    BY <2>1, <2>2, <2>3, ObjectMoves
<1>4. ASSUME NEW d \in Devices
      PROVE  mem'[d].at <= clock' /\ file'[d].at <= clock'
  BY <1>2, CopyMoves, Ats, CopyTypes
<1>5. ASSUME NEW d \in Devices PROVE sync'[d].copy.at <= clock'
  BY <1>2, SyncMoves, Ats, CopyTypes
<1> QED
  BY <1>3, <1>4, <1>5

\* Before somebody deletes the entity there is no tombstone, and no word of one.
UndeletedInv ==
  ~deleted =>
    /\ tombstone = 0
    /\ \A d \in Devices : /\ deleting[d] = "idle" /\ ~heard[d]
                          /\ known[d].tombstone = 0 /\ "tombstone" \notin inbox[d]

LEMMA UndeletedStep == TypeOK /\ UndeletedInv /\ [Next]_vars => UndeletedInv'
<1> SUFFICES ASSUME TypeOK, UndeletedInv, [Next]_vars, ~deleted' PROVE UndeletedInv'
  BY DEF UndeletedInv
<1>1. ~deleted
  BY HistoryGrows
<1> USE <1>1 DEF UndeletedInv, TypeOK
<1>2. CASE Tick \/ UNCHANGED vars
  BY <1>2 DEF Tick
<1>3. ASSUME NEW d \in Devices, DeviceStep(d) PROVE UndeletedInv'
  <2>1. CASE Edit(d) \/ SetSyncEnabled(d) \/ EnablingQueues(d)
    BY <2>1 DEF Edit, SetSyncEnabled, EnablingQueues
  <2>2. CASE Delete(d)
    BY <2>2 DEF Delete
  <2>3. CASE DeleteObject(d) \/ PutTombstone(d)
    BY <2>3 DEF DeleteObject, PutTombstone
  <2>4. CASE ClearTombstone(d)
    BY <2>4 DEF ClearTombstone
  <2>5. CASE Poll(d)
    BY <2>5 DEF Poll, Lists, Listing, Reported
  <2>6. CASE PollOvertaken(d)
    BY <2>6 DEF PollOvertaken, Lists, Listing
  <2>7. CASE Reconnect(d)
    BY <2>7 DEF Reconnect, NoKey
  <2>8. CASE Restart(d)
    BY <2>8 DEF Restart, NoKey
  <2>9. CASE SyncFails(d) \/ SyncBegins(d) \/ TombstoneBlocks(d) \/ StatObject(d)
    BY <2>9 DEF SyncFails, SyncBegins, TombstoneBlocks, StatObject
  <2>10. CASE \/ PresignUpload(d) \/ PutObject(d) \/ WriteFile(d) \/ GetObject(d)
              \/ DownloadSaves(d)
    BY <2>10 DEF PresignUpload, PutObject, WriteFile, GetObject, DownloadSaves
  <2>11. CASE ApplyTombstone(d)
    BY <2>11 DEF ApplyTombstone
  <2>12. ASSUME NEW item \in Items, Receive(d, item) PROVE UndeletedInv'
    <3>1. item = "object"
      BY <2>12 DEF Receive, Items
    <3> QED
      BY <2>12, <3>1 DEF Receive
  <2> QED
    BY <1>3, <2>1, <2>2, <2>3, <2>4, <2>5, <2>6, <2>7, <2>8, <2>9, <2>10, <2>11, <2>12
    DEF DeviceStep, UserStep, RequestStep, LoopStep, Mishap
<1> QED
  BY <1>2, <1>3 DEF Next, DeviceStep

\* What the newest copy may have met with.
Excused == deleted \/ faults \cap {"meanwhile", "stale"} # {}

\* Some device holds a copy as new as the object; what a device uploads is no newer
\* than its copy; and a device that downloads does not hold the newest copy.
NewestInv ==
  ~Excused =>
    /\ \E e \in Devices : mem[e].at >= object.copy.at
    /\ \A d \in Devices :
         /\ sync[d].pc \in {"tombstone", "object"} => sync[d].copy.at = mem[d].at
         /\ sync[d].pc \in {"presign", "put", "writeFile"} => sync[d].copy.at <= mem[d].at
         /\ sync[d].pc \in {"get", "save"} => \E e \in Devices : mem[e].at > mem[d].at

\* How the time of the copy of one device may change while nothing excuses its loss.
LEMMA AtMoves ==
  ASSUME TypeOK, UndeletedInv, ClockInv, [Next]_vars, ~Excused', NEW d \in Devices
  PROVE  \/ mem'[d].at = mem[d].at
         \/ Edit(d) /\ mem'[d].at = clock /\ mem[d].at <= clock /\ ~Deciding(d)
         \/ DownloadSaves(d) /\ mem'[d] = sync[d].copy
<1>1. ~deleted' /\ ~deleted
  BY HistoryGrows DEF Excused
<1>2. ~Delete(d)
  BY <1>1 DEF Delete
<1>3. ~ApplyTombstone(d)
  BY <1>1 DEF ApplyTombstone, UndeletedInv
<1>4. Restart(d) => file[d] = mem[d]
  BY DEF Restart, Fault, Excused
<1>5. Edit(d) => ~Deciding(d)
  BY DEF Edit, Fault, Excused
<1>6. mem[d].at <= clock
  BY DEF ClockInv
<1> QED
  BY <1>2, <1>3, <1>4, <1>5, <1>6, CopyMoves

LEMMA NewestStep ==
  ASSUME TypeOK, UploadInv, ClockInv, UndeletedInv, NewestInv, [Next]_vars, ~Excused'
  PROVE  /\ NewestInv'
         /\ \E e \in Devices : mem'[e].at >= object.copy.at
         /\ \A d \in Devices : \E e \in Devices : mem'[e].at >= mem[d].at
<1>1. TypeOK' /\ ~Excused
  BY TypeStep, HistoryGrows DEF Excused
<1>2. \A d \in Devices : mem[d].at \in Nat /\ mem'[d].at \in Nat /\ sync[d].copy.at \in Nat
  BY <1>1, CopyTypes DEF TypeOK
<1>3. object.copy.at \in Nat /\ object'.copy.at \in Nat
  BY <1>1, CopyTypes, ObjectTypes DEF TypeOK
\* A copy gets older only by a download, and then another one is newer.
<1>4. ASSUME NEW d \in Devices, mem'[d].at < mem[d].at
      PROVE  /\ DownloadSaves(d) /\ sync[d].pc = "save"
             /\ \E e \in Devices \ {d} : mem[e].at > mem[d].at /\ mem'[e].at >= mem[e].at
  <2>1. DownloadSaves(d)
    BY <1>2, <1>4, AtMoves, Ats
  <2>2. sync[d].pc = "save"
    BY <2>1 DEF DownloadSaves
  <2>3. PICK e \in Devices : mem[e].at > mem[d].at
    BY <2>2, <1>1 DEF NewestInv
  <2>4. e # d
    BY <2>3, <1>2
  <2>5. mem'[e] = mem[e]
    BY <2>1, <2>4, SavedMoves DEF DownloadSaves
  <2> QED
    BY <2>1, <2>2, <2>3, <2>4, <2>5, <1>2
<1>5. ASSUME NEW d \in Devices PROVE \E e \in Devices : mem'[e].at >= mem[d].at
  BY <1>2, <1>4
<1>6. \E e \in Devices : mem'[e].at >= object.copy.at
  <2>1. PICK d \in Devices : mem[d].at >= object.copy.at
    BY <1>1 DEF NewestInv
  <2>2. PICK e \in Devices : mem'[e].at >= mem[d].at
    BY <1>5
  <2> QED
    BY <2>1, <2>2, <1>2, <1>3
<1>7. \E e \in Devices : mem'[e].at >= object'.copy.at
  <2>1. CASE object' = object
    BY <2>1, <1>6
  <2>2. CASE \E d \in Devices : DeleteObject(d)
    BY <2>2, <1>1 DEF DeleteObject, UndeletedInv, Excused
  <2>3. ASSUME NEW d \in Devices, PutObject(d),
               object' = [copy |-> sync[d].copy, written |-> clock]
        PROVE  \E e \in Devices : mem'[e].at >= object'.copy.at
    <3>1. sync[d].copy.at <= mem[d].at
      BY <2>3, <1>1 DEF PutObject, NewestInv
    <3>2. PICK e \in Devices : mem'[e].at >= mem[d].at
      BY <1>5
    <3> QED
      BY <2>3, <3>1, <3>2, <1>2
  <2> QED
    BY <2>1, <2>2, <2>3, ObjectMoves
<1>8. ASSUME NEW d \in Devices
      PROVE  /\ sync'[d].pc \in {"tombstone", "object"} => sync'[d].copy.at = mem'[d].at
             /\ sync'[d].pc \in {"presign", "put", "writeFile"} => sync'[d].copy.at <= mem'[d].at
             /\ sync'[d].pc \in {"get", "save"} => \E e \in Devices : mem'[e].at > mem'[d].at
  <2>1. mem'[d].at = mem[d].at => 
           \A e \in Devices : mem[e].at > mem[d].at => \E f \in Devices : mem'[f].at > mem'[d].at
    BY <1>2, <1>5
  <2>2. CASE sync'[d] = sync[d]
    <3>1. CASE mem'[d].at = mem[d].at
      BY <2>1, <2>2, <3>1, <1>1 DEF NewestInv
    <3>2. CASE Edit(d) /\ mem'[d].at = clock /\ mem[d].at <= clock /\ ~Deciding(d)
      <4>1. sync[d].copy.at <= clock /\ clock \in Nat
        BY Ats DEF ClockInv
      <4> QED
        BY <2>2, <3>2, <4>1 DEF Deciding
    <3>3. CASE DownloadSaves(d)
      BY <2>2, <3>3, GotoMoves DEF DownloadSaves
    <3> QED
      BY <3>1, <3>2, <3>3, AtMoves
  <2>3. CASE sync'[d].pc = "idle"
    BY <2>3
  <2>4. CASE sync'[d].pc = "tombstone" /\ SyncBegins(d) /\ sync'[d].copy = mem[d]
    BY <2>4 DEF SyncBegins
  <2>5. CASE sync'[d].pc = "object" /\ TombstoneBlocks(d) /\ sync'[d].copy = sync[d].copy
    BY <2>5, <1>1 DEF TombstoneBlocks, NewestInv
  <2>6. CASE sync'[d].pc = "presign" /\ StatObject(d) /\ sync'[d].copy = sync[d].copy
    <3>1. sync[d].copy.at = mem[d].at /\ mem' = mem
      BY <2>6, <1>1 DEF StatObject, NewestInv
    <3> QED
      BY <2>6, <3>1, <1>2
  <2>7. CASE /\ sync'[d].pc = "get" /\ StatObject(d) /\ sync'[d].copy = sync[d].copy
             /\ object.copy.at > sync[d].copy.at
    <3>1. sync[d].copy.at = mem[d].at /\ mem' = mem
      BY <2>7, <1>1 DEF StatObject, NewestInv
    <3>2. PICK e \in Devices : mem[e].at >= object.copy.at
      BY <1>1 DEF NewestInv
    <3>3. mem[e].at > mem[d].at
      BY <2>7, <3>1, <3>2, <1>2, <1>3
    <3> QED
      BY <2>7, <3>1, <3>3
  <2>8. CASE sync'[d].pc = "put" /\ PresignUpload(d) /\ sync'[d].copy = sync[d].copy
    BY <2>8, <1>1 DEF PresignUpload, NewestInv
  <2>9. CASE sync'[d].pc = "writeFile" /\ PutObject(d) /\ sync'[d].copy = sync[d].copy
    BY <2>9, <1>1 DEF PutObject, NewestInv
  <2>10. CASE sync'[d].pc = "save" /\ GetObject(d)
    <3>1. sync[d].pc = "get" /\ mem' = mem
      BY <2>10 DEF GetObject
    <3> QED
      BY <2>10, <3>1, <1>1 DEF NewestInv
  <2> QED
    BY <2>2, <2>3, <2>4, <2>5, <2>6, <2>7, <2>8, <2>9, <2>10, SyncMoves
<1> QED
  BY <1>5, <1>6, <1>7, <1>8 DEF NewestInv

LEMMA OthersInit == Init => UploadInv /\ ClockInv /\ UndeletedInv /\ NewestInv
<1> SUFFICES ASSUME Init PROVE UploadInv /\ ClockInv /\ UndeletedInv /\ NewestInv
  OBVIOUS
<1>1. UploadInv /\ UndeletedInv
  BY DEF Init, UploadInv, UndeletedInv, Idle, NoKey
<1>2. /\ clock \in Nat /\ 1 <= clock /\ file = mem
      /\ \A d \in Devices : sync[d].pc = "idle" /\ sync[d].copy = Nothing
  BY DEF Init, Times, Idle
<1>3. /\ object.copy.at <= clock
      /\ \A d \in Devices : mem[d].at <= clock
      /\ \E d \in Devices : mem[d].at >= object.copy.at
  <2>1. CASE /\ object = NoObject
             /\ \E d \in Devices, on \in BOOLEAN :
                  mem = [e \in Devices |-> IF e = d THEN [at |-> 1, on |-> on] ELSE Nothing]
    <3>1. object.copy.at = 0
      BY <2>1, ObjectTypes, CopyTypes
    <3>2. PICK d \in Devices, on \in BOOLEAN :
            mem = [e \in Devices |-> IF e = d THEN [at |-> 1, on |-> on] ELSE Nothing]
      BY <2>1
    <3>3. mem[d].at = 1
      BY <3>2
    <3>4. ASSUME NEW e \in Devices PROVE mem[e].at \in {0, 1}
      BY <3>2, CopyTypes
    <3>5. mem[d].at >= object.copy.at /\ object.copy.at <= clock
      BY <3>1, <3>3, <1>2
    <3>6. \A e \in Devices : mem[e].at <= clock
      BY <3>4, <1>2
    <3> QED
      BY <3>5, <3>6
  <2>2. CASE /\ object = [copy |-> [at |-> 1, on |-> TRUE], written |-> 1]
             /\ mem \in [Devices -> [at : 1 .. clock, on : {TRUE}]]
    <3>1. object.copy.at = 1
      BY <2>2
    <3>2. ASSUME NEW d \in Devices PROVE mem[d].at \in 1 .. clock
      BY <2>2
    <3>3. PICK d \in Devices : TRUE
      BY DevicesAssumption
    <3>4. mem[d].at >= object.copy.at
      BY <3>1, <3>2, <1>2
    <3> QED
      BY <3>1, <3>2, <3>4, <1>2
  <2> QED
    BY <2>1, <2>2 DEF Init
<1>4. ClockInv /\ NewestInv
  BY <1>2, <1>3, CopyTypes DEF ClockInv, NewestInv
<1> QED
  BY <1>1, <1>4

\* "Resolve by user-edit timestamp (last-write-wins)": the newest edit held anywhere
\* is not lost to an older one, for any number of devices and whatever fails.
THEOREM NewestIsKept == Spec => NewestKept
<1> DEFINE Inv == TypeOK /\ UploadInv /\ ClockInv /\ UndeletedInv /\ NewestInv
<1>1. Init => Inv
  BY TypeInit, OthersInit
<1>2. Inv /\ [Next]_vars => Inv'
  <2> SUFFICES ASSUME Inv, [Next]_vars PROVE Inv'
    OBVIOUS
  <2>1. (TypeOK /\ UploadInv /\ ClockInv /\ UndeletedInv)'
    BY TypeStep, UploadStep, ClockStep, UndeletedStep
  <2>2. CASE ~Excused'
    BY <2>1, <2>2, NewestStep
  <2>3. CASE Excused'
    BY <2>1, <2>3 DEF NewestInv
  <2> QED
    BY <2>2, <2>3
<1>3. Inv /\ [Next]_vars =>
        [\/ deleted'
         \/ faults' \cap {"meanwhile", "stale"} # {}
         \/ \A t \in Held : \E u \in Held' : u >= t]_vars
  <2> SUFFICES ASSUME Inv, [Next]_vars, ~Excused', NEW t \in Held
               PROVE  \E u \in Held' : u >= t
    BY DEF Excused
  <2>1. \/ t = object.copy.at
        \/ \E d \in Devices : t = mem[d].at
    BY DEF Held
  <2>2. \E e \in Devices : mem'[e].at >= t
    BY <2>1, NewestStep
  <2> QED
    BY <2>2 DEF Held
<1> QED
  BY <1>1, <1>2, <1>3, PTL DEF Spec, NewestKept

(***************************************************************************)
(* Deletions reach the devices that sync.                                  *)
(***************************************************************************)
\* The tombstone is news to d, or on its way to it.
Pending(d) ==
  \/ bumped[d] /\ known[d].tombstone # tombstone
  \/ "tombstone" \in inbox[d]
  \/ heard[d]

Missed == faults \cap {"overtaken", "sameSecond", "uncleared", "older"} # {}

\* A device whose copy the tombstone outranks has yet to hear of it, or is about to
\* clear it; so has one that is about to replace its copy by one the tombstone outranks.
ToldInv ==
  ~Missed =>
    \A d \in Devices :
      /\ mem[d].on /\ TombstoneOutranksLocal(mem[d]) => Pending(d) \/ enabling[d] = "clear"
      /\ sync[d].pc \in {"object", "get", "save"} /\ TombstoneOutranksLocal(sync[d].copy)
           => Pending(d)

\* A tombstone that is news stays news until it is applied.
LEMMA NewsMoves ==
  ASSUME TypeOK, [Next]_vars, ~Missed', NEW d \in Devices
  PROVE  \/ tombstone' = 0 \/ Pending(d)'
         \/ tombstone' = tombstone /\ (Pending(d) => ApplyTombstone(d))
<1> DEFINE Moves == \/ tombstone' = 0 \/ Pending(d)'
                    \/ tombstone' = tombstone /\ (Pending(d) => ApplyTombstone(d))
<1> SUFFICES Moves
  OBVIOUS
<1> USE DEF Pending, TypeOK
<1>1. CASE Tick \/ UNCHANGED vars
  BY <1>1 DEF Tick
<1>2. ASSUME NEW e \in Devices, DeviceStep(e) PROVE Moves
  <2>1. CASE UserStep(e) \/ SyncFails(e)
    BY <2>1 DEF UserStep, Edit, Delete, SetSyncEnabled, SyncFails
  <2>2. CASE DeleteObject(e) \/ EnablingQueues(e)
    BY <2>2 DEF DeleteObject, EnablingQueues
  <2>3. CASE PutTombstone(e)
    <3>1. CASE tombstone' = tombstone /\ UNCHANGED <<bumped, known, inbox, heard>>
      BY <3>1
    <3>2. CASE tombstone' = clock /\ BumpManifest /\ Fault(SameSecond("tombstone"))
      <4>1. known[d].tombstone # clock
        BY <3>2 DEF Fault, SameSecond, Missed
      <4> QED
        BY <2>3, <3>2, <4>1 DEF PutTombstone, BumpManifest
    <3> QED
      BY <2>3, <3>1, <3>2 DEF PutTombstone
  <2>4. CASE ClearTombstone(e)
    <3>1. ~Fails("uncleared")
      BY DEF Fails, Fault, Missed
    <3> QED
      BY <2>4, <3>1 DEF ClearTombstone
  <2>5. CASE Poll(e)
    BY <2>5 DEF Poll, Lists, Listing, Reported, Items
  <2>6. CASE PollOvertaken(e)
    BY <2>6 DEF PollOvertaken, Fails, Fault, Missed
  <2>7. CASE Reconnect(e)
    BY <2>7 DEF Reconnect, NoKey
  <2>8. CASE Restart(e)
    BY <2>8 DEF Restart, NoKey
  <2>9. CASE SyncBegins(e) \/ TombstoneBlocks(e) \/ StatObject(e)
    BY <2>9 DEF SyncBegins, TombstoneBlocks, StatObject
  <2>10. CASE PresignUpload(e)
    BY <2>10 DEF PresignUpload, BumpManifest
  <2>11. CASE PutObject(e) \/ WriteFile(e) \/ GetObject(e) \/ DownloadSaves(e)
    BY <2>11 DEF PutObject, WriteFile, GetObject, DownloadSaves
  <2>12. CASE ApplyTombstone(e)
    BY <2>12 DEF ApplyTombstone
  <2>13. ASSUME NEW item \in Items, Receive(e, item) PROVE Moves
    BY <2>13 DEF Receive, Items
  <2> QED
    BY <1>2, <2>1, <2>2, <2>3, <2>4, <2>5, <2>6, <2>7, <2>8, <2>9, <2>10, <2>11, <2>12, <2>13
    DEF DeviceStep, RequestStep, LoopStep, Mishap
<1> QED
  BY <1>1, <1>2 DEF Next, DeviceStep


\* The switch of a copy is turned on by its user, by a download or by a restart, and
\* what follows when the user turns it on is cut short by a restart only.
LEMMA SwitchMoves ==
  ASSUME TypeOK, [Next]_vars, NEW d \in Devices
  PROVE  /\ \/ enabling'[d] = enabling[d]
            \/ SetSyncEnabled(d) \/ ClearTombstone(d) \/ EnablingQueues(d) \/ Restart(d)
         /\ \/ mem'[d] = Nothing \/ mem'[d].on = mem[d].on
            \/ SetSyncEnabled(d) \/ DownloadSaves(d) \/ Restart(d)
         /\ SetSyncEnabled(d) /\ mem'[d].on => enabling'[d] = "clear"
<1> DEFINE Moves ==
         /\ \/ enabling'[d] = enabling[d]
            \/ SetSyncEnabled(d) \/ ClearTombstone(d) \/ EnablingQueues(d) \/ Restart(d)
         /\ \/ mem'[d] = Nothing \/ mem'[d].on = mem[d].on
            \/ SetSyncEnabled(d) \/ DownloadSaves(d) \/ Restart(d)
<1>1. ASSUME SetSyncEnabled(d), mem'[d].on PROVE enabling'[d] = "clear"
  <2>1. mem[d] \in [at : Times, on : BOOLEAN]
    BY <1>1 DEF SetSyncEnabled, TypeOK, Copies
  <2>2. mem'[d] = [mem[d] EXCEPT !.on = ~@]
    BY <1>1 DEF SetSyncEnabled, Saved, TypeOK
  <2>3. ~mem[d].on
    BY <1>1, <2>1, <2>2
  <2> QED
    BY <1>1, <2>3 DEF SetSyncEnabled, TypeOK
<1>2. ASSUME Tick \/ UNCHANGED vars PROVE Moves
  BY <1>2 DEF Tick
<1>3. ASSUME NEW e \in Devices, DeviceStep(e) PROVE Moves
  <2>1. CASE Edit(e)
    <3>1. Saved(e, [at |-> clock, on |-> mem[e].on]) /\ UNCHANGED enabling
      BY <2>1 DEF Edit
    <3>2. [at |-> clock, on |-> mem[e].on].on = mem[e].on
      BY Zenon
    <3>3. mem'[d].on = mem[d].on
      BY <3>1, <3>2, SavedMoves
    <3> QED
      BY <3>1, <3>3
  <2>2. CASE SetSyncEnabled(e)
    <3>1. e # d => mem'[d] = mem[d]
      BY <2>2, SavedMoves DEF SetSyncEnabled
    <3>2. e # d => enabling'[d] = enabling[d]
      BY <2>2 DEF SetSyncEnabled, TypeOK
    <3> QED
      BY <2>2, <3>1, <3>2
  <2>3. CASE Delete(e)
    BY <2>3, SavedMoves DEF Delete
  <2>4. CASE ClearTombstone(e) \/ EnablingQueues(e)
    <3>1. mem' = mem /\ (e # d => enabling'[d] = enabling[d])
      BY <2>4 DEF ClearTombstone, EnablingQueues, TypeOK
    <3> QED
      BY <2>4, <3>1
  <2>5. CASE DownloadSaves(e)
    <3>1. enabling' = enabling /\ (e # d => mem'[d] = mem[d])
      BY <2>5, SavedMoves DEF DownloadSaves
    <3> QED
      BY <2>5, <3>1
  <2>6. CASE Restart(e)
    <3>1. e # d => mem'[d] = mem[d] /\ enabling'[d] = enabling[d]
      BY <2>6 DEF Restart, TypeOK
    <3> QED
      BY <2>6, <3>1
  <2>7. CASE ApplyTombstone(e)
    BY <2>7, SavedMoves DEF ApplyTombstone
  <2>8. CASE \/ DeleteObject(e) \/ PutTombstone(e) \/ Poll(e) \/ PollOvertaken(e)
             \/ Reconnect(e) \/ SyncFails(e) \/ \E item \in Items : Receive(e, item)
    BY <2>8 DEF DeleteObject, PutTombstone, Poll, PollOvertaken, Reconnect, SyncFails, Receive
  <2>9. CASE \/ SyncBegins(e) \/ TombstoneBlocks(e) \/ StatObject(e) \/ PresignUpload(e)
             \/ PutObject(e) \/ WriteFile(e) \/ GetObject(e)
    BY <2>9 DEF SyncBegins, TombstoneBlocks, StatObject, PresignUpload, PutObject,
      WriteFile, GetObject
  <2> QED
    BY <1>3, <2>1, <2>2, <2>3, <2>4, <2>5, <2>6, <2>7, <2>8, <2>9
    DEF DeviceStep, UserStep, RequestStep, LoopStep, Mishap
<1>4. Moves
  BY <1>2, <1>3 DEF Next, DeviceStep
<1> QED
  BY <1>1, <1>4

LEMMA ToldStep == TypeOK /\ UploadInv /\ ClockInv /\ ToldInv /\ [Next]_vars => ToldInv'
<1> SUFFICES ASSUME TypeOK, UploadInv, ClockInv, ToldInv, [Next]_vars, ~Missed',
                    NEW d \in Devices, tombstone' # 0, ~Pending(d)'
             PROVE  /\ mem'[d].on /\ TombstoneOutranksLocal(mem[d])' => enabling'[d] = "clear"
                    /\ sync'[d].pc \in {"object", "get", "save"} =>
                         ~TombstoneOutranksLocal(sync[d].copy)'
  BY DEF ToldInv, TombstoneOutranksLocal
<1>1. ~Missed
  BY HistoryGrows DEF Missed
<1>2. tombstone' = tombstone /\ (Pending(d) => ApplyTombstone(d))
  BY NewsMoves
<1>3. /\ tombstone \in Nat /\ mem[d].at \in Nat /\ sync[d].copy.at \in Nat
      /\ object.copy.at \in Nat /\ mem[d].at <= clock /\ clock \in Nat
  BY Ats DEF TypeOK, Times, ClockInv
<1>4. CASE ApplyTombstone(d)
  <2>1. sync'[d].pc = "idle"
    BY <1>4 DEF ApplyTombstone
  <2>2. ~mem'[d].on
    BY <1>4, SavedMoves, CopyTypes DEF ApplyTombstone
  <2> QED
    BY <2>1, <2>2
<1>5. CASE ~Pending(d)
  <2>1. mem[d].on /\ TombstoneOutranksLocal(mem[d]) => enabling[d] = "clear"
    BY <1>1, <1>5 DEF ToldInv
  <2>2. sync[d].pc \in {"object", "get", "save"} => ~TombstoneOutranksLocal(sync[d].copy)
    BY <1>1, <1>5 DEF ToldInv
  <2>3. ~Restart(d)
    BY <1>2 DEF Restart, Pending, NoKey, TypeOK
  <2>4. ~ClearTombstone(d) \/ enabling[d] # "clear"
    <3>1. ~Fails("uncleared")
      BY DEF Fails, Fault, Missed
    <3> QED
      BY <1>2, <3>1 DEF ClearTombstone
  <2>5. ASSUME mem'[d].on, TombstoneOutranksLocal(mem[d])' PROVE enabling'[d] = "clear"
    <3>1. mem'[d].at <= tombstone
      BY <1>2, <2>5 DEF TombstoneOutranksLocal
    <3>2. CASE SetSyncEnabled(d)
      BY <2>5, <3>2, SwitchMoves
    <3>3. CASE DownloadSaves(d)
      <4>1. sync[d].pc = "save" /\ mem'[d] = sync[d].copy
        BY <3>3, SavedMoves DEF DownloadSaves
      <4> QED
        BY <4>1, <2>2, <3>1, <1>2 DEF TombstoneOutranksLocal
    <3>4. CASE ~SetSyncEnabled(d) /\ ~DownloadSaves(d)
      <4>1. mem'[d] # Nothing
        BY <2>5, CopyTypes
      <4>2. mem[d].on
        BY <4>1, <3>4, <2>3, <2>5, SwitchMoves
      <4>3. mem[d].at <= tombstone
        BY <4>1, <3>1, <3>4, <2>3, <1>3, CopyMoves
      <4>4. enabling[d] = "clear"
        BY <4>2, <4>3, <2>1, <1>2 DEF TombstoneOutranksLocal
      <4>5. ~EnablingQueues(d)
        BY <4>4 DEF EnablingQueues
      <4> QED
        BY <4>4, <4>5, <3>4, <2>3, <2>4, SwitchMoves
    <3> QED
      BY <3>2, <3>3, <3>4
  <2>6. ASSUME sync'[d].pc \in {"object", "get", "save"}
        PROVE  ~TombstoneOutranksLocal(sync[d].copy)'
    <3>1. CASE sync'[d] = sync[d]
      BY <3>1, <2>2, <2>6, <1>2 DEF TombstoneOutranksLocal
    <3>2. CASE TombstoneBlocks(d) /\ sync'[d].copy = sync[d].copy
      <4>1. ~TombstoneOutranksLocal(sync[d].copy)
        BY <3>2, <2>6, GotoMoves DEF TombstoneBlocks
      <4> QED
        BY <3>2, <4>1, <1>2 DEF TombstoneOutranksLocal
    <3>3. CASE StatObject(d) /\ sync'[d].copy = sync[d].copy
      BY <3>3, <2>2, <1>2 DEF TombstoneOutranksLocal, StatObject
    <3>4. CASE GetObject(d) /\ sync'[d].copy = object.copy
      <4>1. sync[d].copy.at <= object.copy.at
        BY <3>4, <1>3 DEF GetObject, Fault, Missed
      <4>2. ~TombstoneOutranksLocal(sync[d].copy)
        BY <3>4, <2>2 DEF GetObject
      <4> QED
        BY <3>4, <4>1, <4>2, <1>2, <1>3 DEF TombstoneOutranksLocal
    <3> QED
      BY <2>6, <3>1, <3>2, <3>3, <3>4, SyncMoves
  <2> QED
    BY <2>5, <2>6
<1> QED
  BY <1>2, <1>4, <1>5

\* A device that has settled holds no copy the tombstone outranks, for any number of
\* devices and whatever fails: one that was away when the entity was deleted is told
\* when it connects (process_pending_tombstones).
THEOREM SettledAreToldOfDeletions == Spec => []SettledDeleted
<1> DEFINE Inv == TypeOK /\ UploadInv /\ ClockInv /\ ToldInv
<1>1. Init => Inv
  <2> SUFFICES ASSUME Init PROVE Inv
    OBVIOUS
  <2>1. ToldInv
    BY DEF Init, ToldInv, TombstoneOutranksLocal
  <2> QED
    BY <2>1, TypeInit, OthersInit
<1>2. Inv /\ [Next]_vars => Inv'
  BY TypeStep, UploadStep, ClockStep, ToldStep
<1>3. Inv => SettledDeleted
  <2> SUFFICES ASSUME Inv, ~Missed, NEW d \in Devices, Settled(d), mem[d].on,
                      tombstone >= mem[d].at
               PROVE  FALSE
    BY DEF SettledDeleted, Missed
  <2>1. tombstone # 0
    BY CopyTypes DEF TypeOK, Times
  <2> QED
    BY <2>1 DEF ToldInv, Settled, Pending, TombstoneOutranksLocal
<1> QED
  BY <1>1, <1>2, <1>3, PTL DEF Spec

(***************************************************************************)
(* Devices agree.                                                          *)
(***************************************************************************)
\* d has heard of the object as it is.
Fresh(d) ==
  known[d].object = object.written /\ "object" \notin inbox[d] /\ ~queued[d]

\* d syncs the copy it has, and no switching on of it is under way.
Syncs(d) == enabling[d] = "idle" /\ (mem[d] = Nothing \/ mem[d].on)

Spoilt == deleted \/ faults \cap {"failed", "overtaken", "sameSecond", "forgotten"} # {}

\* A device that has heard of the object as it is holds what the object holds, or is
\* about to find out that it does not.
AgreeInv ==
  ~Spoilt =>
    \A d \in Devices :
      /\ object = NoObject => known[d].object = 0 /\ sync[d].pc # "get"
      /\ Fresh(d) =>
           /\ sync[d].pc \in {"idle", "writeFile"} /\ Syncs(d) => mem[d].at = object.copy.at
           /\ sync[d].pc \in {"tombstone", "object"} /\ Syncs(d) => sync[d].copy.at = mem[d].at
           /\ sync[d].pc = "save" => sync[d].copy.at = object.copy.at

\* Whoever has heard of the object as it is after a step had before, or has just begun
\* the sync it owed.
LEMMA FreshMoves ==
  ASSUME TypeOK, UndeletedInv, AgreeInv, [Next]_vars, ~Spoilt',
         NEW d \in Devices, Fresh(d)'
  PROVE  object' = object /\ (Fresh(d) \/ SyncBegins(d))
<1> DEFINE Moves == object' = object /\ (Fresh(d) \/ SyncBegins(d))
<1> SUFFICES Moves
  OBVIOUS
<1>1. ~Spoilt /\ ~deleted
  BY HistoryGrows DEF Spoilt
<1>2. /\ known'[d].object = object'.written
      /\ "object" \notin inbox'[d] /\ ~queued'[d]
  BY DEF Fresh
<1> USE DEF TypeOK
<1>3. CASE Tick \/ UNCHANGED vars
  BY <1>2, <1>3 DEF Tick, Fresh
<1>4. ASSUME NEW e \in Devices, DeviceStep(e) PROVE Moves
  <2>1. CASE Edit(e)
    BY <1>2, <2>1 DEF Edit, Fresh
  <2>2. CASE SetSyncEnabled(e) \/ Delete(e) \/ SyncFails(e)
    BY <1>2, <2>2 DEF SetSyncEnabled, Delete, SyncFails, Fresh
  <2>3. CASE DeleteObject(e) \/ PutTombstone(e)
    BY <1>1, <2>3 DEF DeleteObject, PutTombstone, UndeletedInv
  <2>4. CASE ClearTombstone(e)
    BY <1>2, <2>4 DEF ClearTombstone, Fresh
  <2>5. CASE EnablingQueues(e)
    BY <1>2, <2>5 DEF EnablingQueues, Fresh
  <2>6. CASE Poll(e)
    BY <1>2, <2>6 DEF Poll, Lists, Listing, Reported, Items, Fresh
  <2>7. CASE PollOvertaken(e)
    BY <2>7 DEF PollOvertaken, Fails, Fault, Spoilt
  <2>8. CASE Reconnect(e)
    <3>1. CASE e # d
      BY <1>2, <2>8, <3>1 DEF Reconnect, Fresh
    <3>2. CASE e = d
      <4>1. known'[d].object = 0 /\ object' = object
        BY <2>8, <3>2 DEF Reconnect, NoKey
      <4>2. object = NoObject
        BY <1>2, <4>1, ObjectTypes
      <4>3. known[d].object = 0 /\ object.written = 0
        BY <1>1, <4>2, ObjectTypes DEF AgreeInv
      <4> QED
        BY <1>2, <2>8, <4>1, <4>3 DEF Reconnect, Fresh
    <3> QED
      BY <3>1, <3>2
  <2>9. CASE Restart(e)
    <3>1. CASE e # d
      BY <1>2, <2>9, <3>1 DEF Restart, Fresh
    <3>2. CASE e = d
      <4>1. known'[d].object = 0 /\ object' = object
        BY <2>9, <3>2 DEF Restart, NoKey
      <4>2. object # NoObject
        BY <2>9 DEF Restart, Fault, Spoilt
      <4> QED
        BY <1>2, <4>1, <4>2, ObjectTypes
    <3> QED
      BY <3>1, <3>2
  <2>10. CASE SyncBegins(e)
    BY <1>2, <2>10 DEF SyncBegins, Fresh
  <2>11. CASE TombstoneBlocks(e) \/ StatObject(e) \/ PresignUpload(e)
    BY <1>2, <2>11 DEF TombstoneBlocks, StatObject, PresignUpload, Fresh
  <2>12. CASE PutObject(e)
    <3>1. known[d].object # clock
      BY <2>12 DEF PutObject, Fault, SameSecond, Spoilt
    <3>2. known' = known /\ object'.written = clock
      BY <2>12 DEF PutObject
    <3> QED
      BY <1>2, <3>1, <3>2
  <2>13. CASE WriteFile(e) \/ GetObject(e) \/ DownloadSaves(e)
    BY <1>2, <2>13 DEF WriteFile, GetObject, DownloadSaves, Fresh
  <2>14. CASE ApplyTombstone(e)
    BY <1>1, <2>14 DEF ApplyTombstone, UndeletedInv
  <2>15. ASSUME NEW item \in Items, Receive(e, item) PROVE Moves
    <3>1. item = "object"
      BY <1>1, <2>15 DEF Receive, Items, UndeletedInv
    <3> QED
      BY <1>2, <2>15, <3>1 DEF Receive, Fresh
  <2> QED
    BY <1>4, <2>1, <2>2, <2>3, <2>4, <2>5, <2>6, <2>7, <2>8, <2>9, <2>10, <2>11, <2>12,
       <2>13, <2>14, <2>15 DEF DeviceStep, UserStep, RequestStep, LoopStep, Mishap
<1> QED
  BY <1>3, <1>4 DEF Next, DeviceStep

\* A copy that syncs after a step, of a device that has heard of the object, did so
\* before and is as old as it was, unless it was just downloaded.
LEMMA SyncsMoves ==
  ASSUME TypeOK, UndeletedInv, AgreeInv, [Next]_vars, ~Spoilt',
         NEW d \in Devices, Fresh(d)', Syncs(d)'
  PROVE  DownloadSaves(d) \/ (Syncs(d) /\ mem'[d].at = mem[d].at)
<1> SUFFICES ASSUME ~DownloadSaves(d) PROVE Syncs(d) /\ mem'[d].at = mem[d].at
  OBVIOUS
<1>1. ~deleted /\ ~deleted' /\ ~Spoilt
  BY HistoryGrows DEF Spoilt
<1>2. ~Delete(d) /\ ~ApplyTombstone(d)
  BY <1>1 DEF Delete, ApplyTombstone, UndeletedInv
<1>3. ~Restart(d)
  <2>1. SUFFICES ASSUME Restart(d) PROVE FALSE
    OBVIOUS
  <2>2. known'[d].object = 0 /\ object' = object /\ object # NoObject
    BY <2>1 DEF Restart, NoKey, TypeOK, Fault, Spoilt
  <2> QED
    BY <2>2, ObjectTypes DEF Fresh, TypeOK
<1>4. ~SetSyncEnabled(d)
  <2>1. SUFFICES ASSUME SetSyncEnabled(d) PROVE FALSE
    OBVIOUS
  <2>2. mem'[d] # Nothing
    <3>1. mem[d] \in [at : Times, on : BOOLEAN]
      BY <2>1 DEF SetSyncEnabled, TypeOK, Copies
    <3>2. mem'[d] = [mem[d] EXCEPT !.on = ~@]
      BY <2>1, SavedMoves DEF SetSyncEnabled
    <3>3. mem'[d].at # 0
      BY <3>1, <3>2 DEF Times
    <3> QED
      BY <3>3, CopyTypes
  <2> QED
    BY <2>1, <2>2, SwitchMoves DEF Syncs
<1>5. ~EnablingQueues(d) /\ ~ClearTombstone(d)
  BY DEF EnablingQueues, ClearTombstone, Syncs, Fresh, TypeOK
<1>6. enabling'[d] = enabling[d] /\ (mem'[d] = Nothing \/ mem'[d].on = mem[d].on)
  BY <1>3, <1>4, <1>5, SwitchMoves
<1>7. ~Edit(d)
  <2>1. SUFFICES ASSUME Edit(d) PROVE FALSE
    OBVIOUS
  <2>2. queued'[d] = (queued[d] \/ mem[d].on)
    BY <2>1 DEF Edit, TypeOK
  <2>3. ~mem[d].on
    BY <2>2, Zenon DEF Fresh
  <2>4. mem'[d] # Nothing
    <3>1. mem'[d] = [at |-> clock, on |-> mem[d].on]
      BY <2>1, SavedMoves DEF Edit
    <3>2. mem'[d].at = clock /\ clock # 0
      BY <3>1 DEF TypeOK, Times
    <3> QED
      BY <3>2, CopyTypes
  <2> QED
    BY <1>6, <2>3, <2>4 DEF Syncs
<1>8. mem'[d] = mem[d]
  BY <1>2, <1>3, <1>4, <1>7, CopyMoves
<1> QED
  BY <1>6, <1>8 DEF Syncs

\* What a subscriber knows is a listing, or nothing.
LEMMA KnownMoves ==
  ASSUME TypeOK, [Next]_vars, NEW d \in Devices
  PROVE  known'[d] = known[d] \/ known'[d] = NoKey \/ known'[d].object = object.written
<1> DEFINE Moves ==
      known'[d] = known[d] \/ known'[d] = NoKey \/ known'[d].object = object.written
<1> SUFFICES Moves
  OBVIOUS
<1>1. CASE Tick \/ UNCHANGED vars
  BY <1>1 DEF Tick
<1>2. ASSUME NEW e \in Devices, DeviceStep(e) PROVE Moves
  <2>1. CASE UserStep(e) \/ RequestStep(e)
    BY <2>1 DEF UserStep, Edit, Delete, SetSyncEnabled, RequestStep, DeleteObject,
      PutTombstone, ClearTombstone, EnablingQueues
  <2>2. CASE LoopStep(e)
    BY <2>2 DEF LoopStep, Receive, ApplyTombstone, SyncBegins, TombstoneBlocks, StatObject,
      PresignUpload, PutObject, WriteFile, GetObject, DownloadSaves
  <2>3. CASE Poll(e) \/ Mishap(e)
    BY <2>3 DEF Poll, Mishap, PollOvertaken, Lists, Listing, Reconnect, Restart, SyncFails,
      TypeOK
  <2> QED
    BY <1>2, <2>1, <2>2, <2>3 DEF DeviceStep
<1> QED
  BY <1>1, <1>2 DEF Next, DeviceStep

LEMMA AgreeStep == TypeOK /\ UploadInv /\ UndeletedInv /\ AgreeInv /\ [Next]_vars => AgreeInv'
<1> SUFFICES ASSUME TypeOK, UploadInv, UndeletedInv, AgreeInv, [Next]_vars, ~Spoilt',
                    NEW d \in Devices
             PROVE  /\ object' = NoObject => known'[d].object = 0 /\ sync'[d].pc # "get"
                    /\ Fresh(d)' =>
                         /\ sync'[d].pc \in {"idle", "writeFile"} /\ Syncs(d)' =>
                              mem'[d].at = object'.copy.at
                         /\ sync'[d].pc \in {"tombstone", "object"} /\ Syncs(d)' =>
                              sync'[d].copy.at = mem'[d].at
                         /\ sync'[d].pc = "save" => sync'[d].copy.at = object'.copy.at
  BY DEF AgreeInv
<1>1. ~Spoilt /\ ~deleted /\ TypeOK'
  BY HistoryGrows, TypeStep DEF Spoilt
<1>2. ASSUME object' = NoObject PROVE known'[d].object = 0 /\ sync'[d].pc # "get"
  <2>1. object = NoObject
    <3>1. ASSUME NEW e \in Devices, PutObject(e) PROVE FALSE
      BY <1>2, <3>1, ObjectTypes DEF PutObject, TypeOK, Times
    <3>2. ASSUME NEW e \in Devices, DeleteObject(e) PROVE FALSE
      BY <1>1, <3>2 DEF DeleteObject, UndeletedInv
    <3> QED
      BY <1>2, <3>1, <3>2, ObjectMoves
  <2>2. known[d].object = 0 /\ sync[d].pc # "get"
    BY <1>1, <2>1 DEF AgreeInv
  <2>3. sync'[d].pc # "get"
    BY <2>1, <2>2, SyncMoves, Ats, ObjectTypes, CopyTypes
  <2>4. known'[d] = known[d] \/ known'[d].object = 0
    BY <2>1, KnownMoves, ObjectTypes DEF NoKey
  <2> QED
    BY <2>2, <2>3, <2>4
<1>3. ASSUME Fresh(d)'
      PROVE  /\ sync'[d].pc \in {"idle", "writeFile"} /\ Syncs(d)' =>
                  mem'[d].at = object'.copy.at
             /\ sync'[d].pc \in {"tombstone", "object"} /\ Syncs(d)' =>
                  sync'[d].copy.at = mem'[d].at
             /\ sync'[d].pc = "save" => sync'[d].copy.at = object'.copy.at
  <2>1. object' = object
    BY <1>3, FreshMoves
  <2>2. CASE SyncBegins(d)
    <3>1. sync'[d].pc = "tombstone" /\ sync'[d].copy = mem[d] /\ mem' = mem
      BY <2>2, GotoMoves DEF SyncBegins
    <3> QED
      BY <3>1
  <2>3. CASE ~SyncBegins(d)
    <3>1. Fresh(d)
      BY <1>3, <2>3, FreshMoves
    <3>2. /\ sync[d].pc \in {"idle", "writeFile"} /\ Syncs(d) => mem[d].at = object.copy.at
          /\ sync[d].pc \in {"tombstone", "object"} /\ Syncs(d) => sync[d].copy.at = mem[d].at
          /\ sync[d].pc = "save" => sync[d].copy.at = object.copy.at
      BY <1>1, <3>1 DEF AgreeInv
    <3>3. Syncs(d)' => DownloadSaves(d) \/ (Syncs(d) /\ mem'[d].at = mem[d].at)
      BY <1>3, SyncsMoves
    <3>4. DownloadSaves(d) => /\ sync'[d].pc = "idle" /\ mem'[d] = sync[d].copy
                              /\ sync[d].pc = "save"
      BY GotoMoves, SavedMoves DEF DownloadSaves
    <3>5. CASE sync'[d] = sync[d]
      BY <2>1, <3>2, <3>3, <3>4, <3>5
    <3>6. CASE sync'[d].pc = "idle" /\ Ends(d)
      <4>1. ~SyncFails(d)
        BY DEF SyncFails, Fails, Fault, Spoilt
      <4>2. ~Restart(d)
        <5>1. SUFFICES ASSUME Restart(d) PROVE FALSE
          OBVIOUS
        <5>2. known'[d].object = 0 /\ object' = object /\ object # NoObject
          BY <5>1 DEF Restart, NoKey, TypeOK, Fault, Spoilt
        <5> QED
          BY <1>3, <5>2, ObjectTypes DEF Fresh, TypeOK
      <4>3. ~(TombstoneBlocks(d) /\ TombstoneOutranksLocal(sync[d].copy))
        BY <1>1 DEF UndeletedInv, TombstoneOutranksLocal
      <4>4. ~(GetObject(d) /\ object = NoObject)
        BY <1>1 DEF AgreeInv, GetObject
      <4>5. CASE WriteFile(d)
        <5>1. sync[d].pc = "writeFile"
          BY <4>5 DEF WriteFile
        <5> QED
          BY <2>1, <3>2, <3>3, <3>4, <3>6, <5>1
      <4>6. CASE DownloadSaves(d)
        BY <2>1, <3>2, <3>4, <3>6, <4>6
      <4>7. CASE StatObject(d) /\ sync[d].copy.at = object.copy.at
        <5>1. sync[d].pc = "object"
          BY <4>7 DEF StatObject
        <5> QED
          BY <2>1, <3>2, <3>3, <3>4, <3>6, <4>7, <5>1
      <4> QED
        BY <3>6, <4>1, <4>2, <4>3, <4>4, <4>5, <4>6, <4>7 DEF Ends
    <3>7. CASE sync'[d].pc = "object" /\ TombstoneBlocks(d) /\ sync'[d].copy = sync[d].copy
      <4>1. sync[d].pc = "tombstone"
        BY <3>7 DEF TombstoneBlocks
      <4> QED
        BY <3>2, <3>3, <3>4, <3>7, <4>1
    <3>8. CASE sync'[d].pc \in {"presign", "get", "put"}
      BY <3>8
    <3>9. CASE sync'[d].pc = "writeFile" /\ PutObject(d)
      <4>1. known[d].object # clock
        BY <3>9 DEF PutObject, Fault, SameSecond, Spoilt
      <4>2. known' = known /\ object'.written = clock
        BY <3>9 DEF PutObject
      <4> QED
        BY <1>3, <4>1, <4>2 DEF Fresh
    <3>10. CASE sync'[d].pc = "save" /\ sync'[d].copy = object.copy
      BY <2>1, <3>10
    <3> QED
      BY <2>3, <3>5, <3>6, <3>7, <3>8, <3>9, <3>10, SyncMoves
  <2> QED
    BY <2>2, <2>3
<1> QED
  BY <1>2, <1>3

\* When all devices have settled they hold copies of the same time, for any number of
\* devices, edits and switches, but for the exceptions SettledAgree names
\* (sync_proxy, subscribe).
THEOREM SettledDevicesAgree == Spec => []SettledAgree
<1> DEFINE Inv == TypeOK /\ UploadInv /\ UndeletedInv /\ AgreeInv
<1>1. Init => Inv
  <2> SUFFICES ASSUME Init PROVE AgreeInv
    BY TypeInit, OthersInit
  <2> SUFFICES ASSUME NEW d \in Devices
               PROVE  /\ known[d].object = 0 /\ sync[d].pc = "idle"
                      /\ Fresh(d) /\ Syncs(d) => mem[d].at = object.copy.at
    BY DEF AgreeInv
  <2>1. known[d].object = 0 /\ sync[d].pc = "idle" /\ queued[d] = mem[d].on
    BY DEF Init, NoKey, Idle
  <2>2. object \in Objects
    BY TypeInit DEF TypeOK
  <2>3. ASSUME Fresh(d), Syncs(d) PROVE mem[d].at = object.copy.at
    <3>1. object = NoObject
      BY <2>1, <2>2, <2>3, ObjectTypes DEF Fresh
    <3>2. mem[d] = Nothing
      BY <2>1, <2>3, Zenon DEF Fresh, Syncs
    <3> QED
      BY <3>1, <3>2, ObjectTypes
  <2> QED
    BY <2>1, <2>3
<1>2. Inv /\ [Next]_vars => Inv'
  BY TypeStep, UploadStep, UndeletedStep, AgreeStep
<1>3. Inv => SettledAgree
  <2> SUFFICES ASSUME Inv, ~Spoilt, \A d \in Devices : Settled(d),
                      \A d \in Devices : mem[d] = Nothing \/ mem[d].on,
                      \A d \in Devices : ~Unannounced(d), NEW d \in Devices
               PROVE  mem[d].at = object.copy.at
    BY DEF SettledAgree, Spoilt
  <2>1. known[d] = Listing
    BY DEF Settled, Unannounced
  <2>2. Fresh(d) /\ Syncs(d) /\ sync[d].pc = "idle"
    BY <2>1 DEF Listing, Settled, Fresh, Syncs
  <2> QED
    BY <2>2 DEF AgreeInv
<1> QED
  BY <1>1, <1>2, <1>3, PTL DEF Spec

=============================================================================
