# bwbrowser: formal models of its concurrent parts

bwbrowser is a desktop application (Tauri: Rust under `src-tauri/src`, a React UI under `src`) that runs many isolated browser profiles and keeps them in step between devices through a small object-store server (`bwbrowser-sync`, NestJS). This directory holds TLA+ models of the parts of it whose correctness depends on interleavings, failures and ordering, the TLC configurations that check them, and TLAPS proofs.

## 1. Inventory

### 1.1 The parts and their state

| Part | Source | State | Operations | What makes it hard |
|---|---|---|---|---|
| Sync scheduler | `sync/scheduler.rs` | pending queues (profiles, five config kinds, tombstones), running profiles, in-flight profiles, one mutex each | queue, mark running or stopped, tick, drain | lock order, gaps between two mutexes, panicking tasks |
| Sync pipeline | `sync/mod.rs`, `sync/subscription.rs` | the global scheduler and subscription, the build lock, the one-shot flags | start, stop, restart | handles taken before a restart, work split over generations |
| Sync engine, configs | `sync/engine.rs` 500-620, 1722-2570 | per entity: local copy with `updated_at`, remote object, tombstone | sync, upload, download, delete | last-writer-wins over stale reads, deletes against edits |
| Sync engine, profiles | `sync/engine.rs` 628-1718, `sync/manifest.rs` | files, manifest, resume state, cancel flag | diff, upload, download, cancel, resume | a torn snapshot, resume after the content changed |
| Sync server | `bwbrowser-sync/src/sync` | objects, tombstones, one manifest marker per scope | presign, delete, list, subscribe | delete then tombstone is two steps |
| Remote hand-off | `remote_handoff.rs`, `remote_session.rs` | per profile: running elsewhere or owed a pull, on disk | note, pull, clear, reconcile | an answer of an old session, restart, retries |
| Team lock | `team_lock.rs` | lock cache, heartbeat | acquire, release, refresh | a snapshot that overwrites a newer acquire |
| Browser lifecycle | `browser_runner.rs`, `profile/manager.rs`, `lib.rs` 3360-3530 | process ids, the launch lock, the status checker | launch, kill, natural exit, unwind | the checker and the launch share no lock |
| Launch gate | `launch_gate.rs` | consent tokens | mint, redeem, expire | single use against a race |
| Rate limiter | `automation_rate_limiter.rs` | per identity a window of call times | allow | boundary of the window |
| Profile trash | `profile/trash.rs`, `profile/manager.rs` | trash entries on disk, TRASH_MUTATION | trash, restore, purge, expire | who looks before the lock; saves that know nothing of the trash; the tombstone of the deletion |
| Password protection | `profile/password.rs`, `profile/encryption.rs` | plaintext copy, ciphertext | prepare, complete after quit | crash and late writes |
| VPN workers | `vpn_worker_runner.rs`, `vpn_worker_storage.rs`, `vpn/socks5_server.rs` | worker processes and their records, the start lock, claims of launches | start, adopt, stop, sweep | a worker shared by launches that fail; two writers of a record |
| Proxies, tunnels | `proxy_*.rs`, `xray_worker_runner.rs`, `socks5_local.rs` | worker processes and their config files | start, stop, reap | process ids reused, orphans |
| Video downloads | `video_downloader.rs` | task table, pids of children, runs | add, start, pause, resume, cancel, delete | a run that acts on a status it read before |
| Synchronizer | `synchronizer.rs` | leader and followers | mirror input | ordering over CDP |
| Downloads, updates | `downloader.rs`, `downloaded_browsers_registry.rs`, `auto_updater.rs`, `app_auto_updater.rs`, `extraction.rs` | files, registry | download, verify, install | resumed downloads |
| Cloud session | `cloud_auth.rs` | tokens on disk, state in memory, the refresh lock | sign in, sign out, refresh, retry | a refresh token works once; answers that arrive after a sign-out |
| Cookies | `cookie_*.rs`, `bwbrowser_cloud.rs` | databases, enrolments | import, visit, sync | page content |
| Front ends | `api_server.rs`, `mcp_server.rs`, `src/` (React), `remote_agent/` | sessions | REST, MCP, UI | mostly translation to the parts above |

### 1.2 How they interact

The UI, the REST and MCP servers and the cookie bot call the browser lifecycle and the stores. A change of a synced entity queues it with the scheduler through the global handle. The subscription turns server events into work items for the scheduler's loop. The loop calls the engine, which talks to the server and writes the local stores. The browser lifecycle tells the scheduler when a profile's browser runs, takes and gives back the team lock, and asks the hand-off whether a local launch would run over work done elsewhere. A remote session's end makes the hand-off pull the profile through the engine. A launch also takes the profile's VPN worker, which others may share, and the team lock of a shared profile; both outlive a launch that fails unless it gives them back. Deleting a profile moves it to the trash and tells the cloud, which tells this device in turn.

The parts meet at these places, and most of what can go wrong does so there:

- **launch and scheduler**: `mark_profile_running` keeps a profile's sync back while its browser runs, `mark_profile_stopped` releases it. `BrowserSession` models the browser's side with the scheduler reduced to two flags and a task, `SyncScheduler` the scheduler's side with the browsers reduced to two calls.
- **scheduler and engine**: the tick drains queues into `sync_profile` and `sync_proxy`. `SyncScheduler` ends where the engine begins; `ConfigSync` begins there.
- **engine and server**: every sync is several requests, and nothing makes them one. `ConfigSync` has one action per request.
- **remote hosts and this machine**: four sources of news that nothing orders (`RemoteHandoff`).
- **launch and team lock**: `BrowserSession` has the lock as one flag of one device; `TeamLock` has the cache, the heartbeat and the server behind it, and several devices.
- **launch and VPN**: `BrowserSession` leaves the VPN out; `VpnTunnel` has the launches as what starts, shares and gives back workers.
- **trash and sync**: `ProfileTrash` has the deletion on the server, its tombstone and the report of it as actions of their own.

### 1.3 What makes each part correct

| Part | Properties |
|---|---|
| Sync scheduler | no request is forgotten; deletions are applied before the drain; a ready profile is taken; no lock cycle |
| Sync engine, configs | last writer wins; devices that have settled agree; what was deleted stays deleted; a device is told of deletions only while there are any |
| Remote hand-off | no local launch over work that is still elsewhere; an owed pull is attended; the index names the live session; an ended session is noticed |
| Browser lifecycle, passwords, clear on close | one browser per profile; a running browser holds the team lock and defers sync; work is on disk or in the copy it will be encrypted from; sync is released after the end was dealt with; the lock does not outlive the browser |
| Sync engine, profiles | no edit of a file is lost; a sync that completes leaves what the manifest names; an interrupted sync continues |
| Team lock | two users never have a profile open at once; the lock of a running browser is renewed; a lock nobody uses lapses |
| VPN workers | one worker per VPN; a worker that runs is known unless it was lost track of in a named way; a launch that fails stops nobody else's |
| Video downloads | a pause holds; no task is done without its file; the limit is kept; no task is stranded |
| Cloud session | the session of somebody signed in can be renewed; signing out leaves nothing behind |
| Profile trash | data that was deleted by accident can be restored until it is purged or expires |

## 2. Plan

The modules in the order they were written, the most important behaviour first; all are done.

| Module | Composes with |
|---|---|
| `SyncScheduler` (+ `Proofs`) | |
| `RemoteHandoff` (+ `Proofs`) | |
| `BrowserSession` (+ `Proofs`) | abstracts the scheduler, the team lock and the key store |
| `ConfigSync` (+ `Proofs`) | scheduler's loop, subscription, server |
| `ProfileFiles` (+ `ProfileProofs`) | engine, manifest, hash cache and resume file of one profile on several devices |
| `TeamLock` (+ `AccountProofs`) | refines what `BrowserSession` has as one flag into cache, heartbeat and server |
| `VpnTunnel` (+ `Proofs`) | workers, launches, checks, the sweep |
| `DownloadTasks`, `DownloadQueue` (+ `Proofs`) | the abstract promise, and the queue that implements it |
| `CloudSession` (+ `AccountProofs`) | calls, the refresh loop, the rotating server |
| `ProfileTrash` (+ `ProfileProofs`) | trash, late saves, deletion on the server and its report |
| `MCParts` | one run over small instances of the last six |

What would be worth doing next: that only a download cut short makes a device with nothing to send look newer (`looksNewer`); that `BrowserSession`'s scheduler flags are a refinement of `SyncScheduler`; an abstract register that `ConfigSync` refines while nothing is deleted; the hash queue of `video_matcher_queue.rs`; the proxy workers, which lack the VPN workers' start lock.

## 3. The modules

Each module's VARIABLES name the Rust or TypeScript item they stand for. `PROJECT.json` maps each definition to its lines.

### 3.1 SyncScheduler

One process's `SyncScheduler`. The loop, the sync tasks it spawns and the callers (UI commands, launches, the subscription) interleave at every await. A step between two lock acquisitions is one action. `pending_profiles` and `running_profiles` are the only mutexes held across an await, so they have holders (`pHolder`, `rHolder`); a critical section of any other mutex is one action. The five config queues are one set, `pendingConfigs`, and `KindOf` says in which of the five drains a config is taken. `stopped_at` is written and never read and is left out.

`StartCall` .. `CheckPending` are the calls, `Receive*` the work items of the loop, `TakeTombstones` .. `EndTick` the tick in its order, `LookUpProfile`, `FinishSync` and `PanicSync` a sync task.

### 3.2 RemoteHandoff

A remote session runs a profile on another host; the host pushes the profile back when the session closes. `store` is the gate (`remote_handoff.rs` STORE) and `disk` its file; the file is truncated and rewritten in place (`app_dirs.rs:570`), so a crash while `writing` loses it. News of a session arrives by the event stream (`frames`: a snapshot at each connect, then transitions), by the replies to this machine's own start and stop, and by a listing. Each is an action; nothing orders the sources, and the replies of the backend are snapshots of a `backend` that has moved on. Pull tasks read the gate, transfer, and clear the gate by profile.

Four history variables say what the properties need: which sessions were noted here, whose work is in the local copy, and which profiles lost or got a gate, or were left without a pull, in one of the ways the code has for it (section 6). A property then says that there is no other way.

### 3.3 BrowserSession

One local profile, plain, password-protected or clear-on-close, with launches and stops (of the UI and of the API), opened URLs, the natural exit of the browser, the status checker (`lib.rs` 3360-3530) and the sync task. Launches and stops hold the profile's launch lock; the checker holds nothing. The plaintext copy of a protected profile and the profile directory are sets of sessions: whose work they hold.

The end of a session is dealt with in the code's order: clear the record, re-encrypt or wipe, drop the copy, mark stopped, release the team lock. The checker does the same in parallel with whatever the user does next. `overlapped` records that a launch was under way meanwhile; `faults` names the other ways the code loses track of an end.

### 3.4 ConfigSync

One proxy on several devices and on the server. Groups, VPNs, extensions and extension groups go through the same reconcile (`engine.rs` 1722-2570), but the server announces only `profiles/`, `proxies/`, `groups/` and `tombstones/`.

- The entity's content is reduced to its `updated_at`: two edits with the same time are the same copy. That is how `sync_proxy` sees them as well.
- Memory (`mem`) and file (`file`) are apart, because `upload_proxy` writes the file only and downloads write both.
- The loop of a device is sequential: it receives items, applies tombstones, then reconciles. Each request of the reconcile is an action: tombstone stat, object stat, presign, PUT, file write; or GET and save.
- A deletion is a detached task of two requests, and switching the sync on is a task that clears the tombstone and then queues.
- The server bumps its manifest when an upload is *presigned*, and after a deletion. Each subscriber's poll lists when the manifest changed and reports every key whose time is not the one it last listed; `switchMap` drops the reports of a poll that the next one overtakes.
- Clocks agree and count whole seconds. A restart empties the queues and reads the files; a new connection is told of all there is. `check_for_missing_synced_entities`, which runs before the loop starts, is the same as a sync without a copy and is left out.
- Bounds of the model: one deletion task and one switching-on per device at a time.

`faults` names what the properties excuse: `failed` (a request of a sync; it is not queued again), `overtaken` (a poll), `sameSecond` (two writes of a key in one second look alike to a subscriber), `uncleared` (the tombstone could not be cleared), `meanwhile` (an edit while its device was deciding or downloading), `stale` (a restart reads a file that is not the memory), `forgotten` (a queued sync of something never uploaded does not survive a restart), `older` (the object was rewritten by an older upload between stat and download).

### 3.5 ProfileFiles

The browser files of one profile on several devices and on the server (`engine.rs` 628-1718, `manifest.rs`). A file's content is the number of the edit that wrote it, so that contents are equal exactly when their hashes are. A device scans its directory, with a hash cache keyed by the time of modification, compares the scan with the remote manifest, and moves files one by one in the direction the two `updated` times say; the manifest is published last. What was moved is remembered in `resume`, which the next sync consults if its direction is the same. Edits of the browser, failed requests, cancellation, crashes and lost directories happen between any two of these steps. Biases are the ways a sync is started: by time, preferring the remote (a pull of the hand-off) or re-encrypting everything.

`excuses` names what the two properties leave out; `NothingLost` leaves out more than `CompletedAgrees`. Each is a behaviour of the code (section 6). One is not an accident but a decision of the code: `looksNewer`, an upload by a device that has no edits to send and some files, which the finding `profile_files_cut` brings about. `NothingLost` therefore speaks of downloads that were cut short until such an upload begins. An empty directory never counts as newer, so what `compute_diff` does about one is not excused. Metadata, encryption of the files and the parallelism of the transfers (a file is moved or not) are left out.

### 3.6 TeamLock

The lock of one shared profile on several devices of several users. `holder` and `age` are the server's side, known from how the client uses it: the holder is a user, whichever device asks, and a lock that is not renewed for more than `Grace` rounds lapses. On the device there is the cache (`known`), the heartbeat (`beat`: renew what the cache says is ours, ask for the list, replace the cache by the `answer`), the connection that starts it, and the launch or stop of the profile (`use`), step by step. A round is the thirty seconds of the loop, and every loop gets through one round in it: `Round` waits for them. `losses` bounds lost requests, sign-outs and restarts; `mishap` names those no lock helps against: a manager that is not connected (`parted`), one user's two devices (`shared`), a release that was lost (`unreleased`), a request whose outcome is unclear.

### 3.7 VpnTunnel

The worker processes that carry one VPN. A worker is detached and known by its record alone, which the application writes (`pid`, `pid_start_time`) and the worker itself rewrites (`local_url`, `local_port`) after reading it: `read` is what it read. Launches and validity checks take `VPN_START_LOCK`, adopt a live worker or spawn one, and a launch holds a claim from before the start until its browser is recorded or it has unwound. The user's `connect_vpn` is a check that leaves the worker up: it, too, drops its claim at once. Those who stop workers without that lock (the user, a check, the sweep at the start of the application) signal first and delete the record afterwards (`stopping`). The cleanup of dead proxies deletes the records of workers that died.

Whether a record names a live worker has two answers in the code. Those who start ask `vpn_worker_alive` (`Alive`): a record without a pid is dead, one with a pid and without a start time (`unpinned`, from before an update or because the start time could not be read) is alive if the process exists. Those who stop signal only what `process_identity_matches` pins (`Pinned`) and delete the record of the rest. A start may fail at any of its `?`: before the spawn (`FindFails`, `SpawnFails`), and after it, when the pid cannot be saved (`SavePidFails`): the lock is then free while the worker runs with a record that has no pid, or cut short.

`lapses` names what the properties leave out. `LosesTrack` are the six ways in which the application loses track of a running worker: it gave up waiting for it (`timedOut`); application and worker wrote the record over each other (`overwritten`); one of them failed to write it (`unwritten`); the application restarted meanwhile (`restarted`); a stop without the start lock read a record that had no pid yet and deleted the one with it (`forgotten`); a stop could not pin the pid (`unpinned`). A stop is recorded only when the worker it forgets runs, a failed write only when the worker runs or its record is damaged. Assumed of the system: a signal that is sent ends the worker, no other process gets the pid of a worker while its record is there, the start time of a process reads the same whenever it is asked for, and a record is not read half written.

### 3.8 DownloadTasks and DownloadQueue

`DownloadTasks` is the abstract specification: what becomes of a task, without runs, children and mutex. A task starts when there is room, is done only with its file, fails only while it is under way, and stays paused until the user says otherwise unless its file came in all the same. `DownloadQueue` is `video_downloader.rs`: calls change statuses under the mutex, `try_start_next` spawns a run, and a run prepares, registers its child's pid, works, looks at the status again, and settles, each an acquisition of its own. A pause kills the child by the pid that is registered, if one is. `Promise == INSTANCE DownloadTasks WITH ...` maps the seven statuses to what is shown; the refinement holds until a task is resumed or cancelled before the run it was paused under is over (`early`), or paused after its last try was found to fail (`late`). Restarts and the number of tries per site are left out.

### 3.9 CloudSession

The signed-in session (`cloud_auth.rs`). Tokens are files that calls, the refresh loop, sign-in and sign-out read and write; a token is the session it belongs to and its number in it. The server rotates: a refresh token works once. A caller that failed compares the token it failed with and the one on disk before it takes `refresh_lock` (`cloud_auth.rs:1101`); the lock covers the refresh and its storing, and nothing else. A call that gets a 401 refreshes and tries once more; a refresh that is rejected signs out. `flaws` names what the properties leave out: a request in flight over a sign-out, a lost response to a rotation, a crash.

### 3.10 ProfileTrash

What becomes of a profile that is deleted. `live` and `entry` are the two directories as sets of what matters in them (`metadata`, `profile`, `manifest`, `data`), and each file operation of `trash_profile`, `restore_profile` and `purge_expired` is an action: the rename or the copy and the removal of `move_dir`, the dropping of an older entry, the two JSON files. `Hands` are the calls and the sweep; `mutating` is `TRASH_MUTATION`, which a deletion takes only after `find_profile`. A task that read the profile before saves it at its end (`saver`); `save_profile` makes the directory if there is none. The deletion on the server is two steps of a detached task, and its report comes back to this device. `excused` names the four ways in which the data is lost all the same.

### 3.11 MCParts

The last six components share no state with one another. `MCParts` checks small instances of them in one run: in a behaviour one of them, `moving`, moves and the others rest, so the run's states are the sum and not the product of theirs. Interchangeable members of different components bear the same model values, which is sound because only one component moves. Its constraint `Undecided` stops where a component's exceptions have happened: from there the properties say no more. Of the VPN it leaves out three kinds of interleavings, to stay small: checks while the sweep of the start is still to come, two records being deleted at once, and all three of launches and check under way after the fault; the theorems have them.

## 4. The runs

All runs set `CHECK_DEADLOCK FALSE`: in each model the calls, sessions or time run out and the system rests. A lock cycle is therefore looked for by a liveness property (`sync_scheduler_deadlock`), not by TLC's deadlock check.

| Run | Properties | What it shows | Bounds |
|---|---|---|---|
| `sync_scheduler` | `TypeOK`, `RequestsHeld`, `DoomedNotDrained`, `ReadyIsTaken` | no interleaving of two callers, the subscription, a panic and the tick loses a request, or drains a config whose deletion the tick applied; a queued profile is taken, but for the lock cycle and a leaked in-flight id | 1 profile, 1 config, 2 callers, 2 calls, 1 item, 1 panic |
| `sync_scheduler_deadlock` | `StoppedProfileSyncs` | **violated**: the two mutexes are taken in opposite order | 3 calls, no items, no panics |
| `remote_handoff` | `TypeOK`, `OpenOnlyWhenPulled` | a local launch is let through over work that is elsewhere only in the ways `excused` names | 2 sessions of 1 profile, 2 pull tasks of 2 attempts, 1 listing |
| `remote_handoff_stream` | `PendingIsAttended`, `IndexIsTrue`, `EndedIsNoticed` | with a dropped stream, a restart and a failed write: owed pulls are attended, the index is true, ended sessions are noticed | 2 sessions, 1 pull task, 1 drop, 1 restart, 1 failure |
| `remote_handoff_overtaken` | `RunningGateStays` | **violated**: a pull that began before a new session of the profile clears the new session's gate | 2 sessions, 1 pull task |
| `browser_session` | `TypeOK`, `RunningHoldsLock`, `RunningDefersSync`, `WorkKept`, `OneBrowser`, `ReleasedWhenDealtWith` | the safety of launch, stop and end for the three kinds of profile | 2 callers, 2 sessions, 2 calls, 1 failure |
| `browser_session_live` | `LockIsReleased`, `EndedIsUploaded` | the team lock is given back and the queued sync runs | clear-on-close profile, 2 calls, no failures |
| `browser_session_purge` | `PurgedWhenSaved` | **violated**: the second session's work is purged without being encrypted | 1 caller, protected profile |
| `config_sync` | `TypeOK`, `SettledAgree`, `SettledDeleted`, `NewestKept` | last writer wins, settled devices agree, deletions arrive | 2 devices, 2 seconds, 1 call of the user, 1 trouble |
| `config_sync_reenabled` | `ToldOfDeletions` | **violated**: clearing a tombstone is reported as a deletion | 2 devices, 3 calls |
| `parts` | of the files: `FilesTypeOK`, `NothingLost`, `CompletedAgrees` | no edit is lost, and what completes agrees with its manifest | 2 devices, 2 files of which 1 is critical, 2 edits, 2 seconds, 1 mishap |
| | of the team lock: `LeaseTypeOK`, `OneUserAtATime`, `RenewedInTime`, `NoLeftoverLock` | the lease excludes, is renewed and lapses | 2 devices of 2 users, 3 rounds of grace, 1 loss |
| | of the VPN: `TunnelTypeOK`, `FailedLaunchSparesOthers`, `WorkersAreKnown`, `OneTunnel` | one worker, known but for the six named ways to lose it, and stopped by no failed launch it does not concern | 2 launches, 1 check, 2 workers, of which 1 may be from before an update, 1 fault |
| | of the downloads: `QueueTypeOK`, `CompletedIsDownloaded`, `NobodyStranded`, `QueueKeepsPromise` | the queue implements `DownloadTasks` and strands nobody | 2 downloads, room for 1, 2 tries, 2 runs, 4 calls |
| | of the session: `SessionTypeOK`, `SessionRenewable`, `NothingLeftBehind` | refreshes do not race, and sign-outs are clean | 1 client and the loop, 2 sign-ins, 1 rotation, 1 trouble |
| | of the trash: `TrashKeeps` | what was deleted is live or can be restored | 2 hands, 3 deletions, 1 error or crash |
| `profile_files_cut` | `CutDownloadContinues` | **violated**: the sync after a download that was cut short uploads, and removes files from the server | 2 devices, 2 files, 2 edits |

Why these bounds. The hazards of section 1 are races of two actors about one thing, so two callers, two sessions, two devices and one profile or entity are the smallest instances in which each can happen; TLC reaches every action in them, and each property fails in them when the code is changed in the way its mutant changes it. In `config_sync` the initial states already hold edits made apart (the copies' times differ, the entity may be unknown to one device), so that one further call is enough for a conflict with a sync that is under way. Its `CONSTRAINT` stops at states in which the entity was deleted and a report of the deletion was lost: from there on `NewestKept`, `SettledAgree` and `SettledDeleted` are excused for good (the histories never shrink), and `TypeOK` is proved. In `parts`, two files suffice because one is critical and one is not; three rounds of grace are what the lease needs for one loss (`2 + losses <= Grace`); two launches and a check share a worker, adopt it and stop it, and the second worker is what `OneTunnel` forbids; one fault lets a worker die, a save fail or a start time be missing, and as a worker may be unpinned from the beginning, something else may fail beside it; two downloads with room for one make each wait for the other; two sign-ins are what a late answer needs to meet a session that is not its own; the third deletion of a profile is the one that finds both a live directory and an entry. What small bounds cannot show, the theorems of section 5 do: every safety property of the passing runs is proved without them.

### Fairness

- `SyncScheduler`: tokio's mutexes are FIFO, so whoever waits for one that is released again and again gets it (strong fairness of the acquisitions); the ticker fires without end; a sync task ends. No caller has to call, no subscription to send.
- `RemoteHandoff`: the stream's task reconnects in an endless loop and dispatches what arrived, a file write returns, an attempt of a pull ends. No session has to start or end, no user to launch.
- `BrowserSession`: a launch or a stop that has begun goes on, the checker loops, a sync task ends. Nobody has to launch, stop, open a URL, close the browser or unlock the profile. Fairness is over `modelled`, the variables without one history variable.
- `TeamLock` has no fairness either: that every loop gets through one round in thirty seconds is a guard of the clock, so that what is renewed in time is a safety property.
- The other components state safety only. That no download is stranded (`NobodyStranded`) is the invariant liveness would rest on.
- `ConfigSync` states no liveness. Its convergence is stated as an invariant of the states in which all devices have settled, which needs no fairness and can be proved.

## 5. The theorems

| Module | Theorem | Says |
|---|---|---|
| `SyncSchedulerProofs` | `TypeCorrect`, `RequestsAreHeld`, `DeletionsFirst` | `TypeOK`, `RequestsHeld`, `DoomedNotDrained` for any number of profiles, configs, callers, calls and panics |
| `RemoteHandoffProofs` | `TypeCorrect`, `GateLiftsOnlyOverPulledWork`, `PendingWorkIsAttended`, `StreamFillsIndex` | `TypeOK`, `OpenOnlyWhenPulled`, `PendingIsAttended`, `IndexIsTrue` for any number of profiles, sessions, pull tasks, attempts and drops |
| `BrowserSessionProofs` | `TypeCorrect`, `OneBrowserAtATime`, `RunningBrowserHoldsLock`, `RunningBrowserDefersSync`, `WorkIsKept`, `ReleasedInTime` | the six safety properties of `browser_session` for any number of callers, sessions, calls and failures |
| `ConfigSyncProofs` | `TypeCorrect`, `NewestIsKept`, `SettledDevicesAgree`, `SettledAreToldOfDeletions` | the four properties of `config_sync` for any number of devices, edits, seconds, restarts and failures |
| `AccountProofs` | `LeaseTypes`, `LockExcludes`, `LockIsRenewed`, `NoLockStays` | the four properties of the team lock for any number of devices, users, rounds of grace and losses |
| | `SessionTypes`, `TokensStayHome`, `SessionStaysRenewable` | the three properties of the cloud session for any number of clients, sign-ins and rotations |
| `VpnTunnelProofs` | `TunnelTypes`, `FailuresStayAlone`, `WorkersStayKnown`, `TunnelIsShared` | the four properties of the VPN workers for any number of launches, checks, workers and faults |
| `DownloadQueueProofs` | `QueueTypes`, `QueueMovesOn`, `CompletedHasFile`, `QueueImplementsTasks` | the four properties of the downloads, the refinement of `DownloadTasks` among them, for any number of downloads, runs, tries and calls |
| `ProfileProofs` | `FilesTypes`, `EditsAreKept`, `CompletedSyncsAgree` | `FilesTypeOK`, `NothingLost`, `CompletedAgrees` for any number of devices, files, edits, seconds and mishaps |
| | `TrashTypes`, `TrashStands`, `DeletedIsRestorable` | the types of the trash, who may touch its files and where the data are meanwhile, and `TrashKeeps`, for any number of hands, deletions and broken moves |

The assumptions are the named `ASSUME`s of the modules (bounds are natural numbers, the loop is no caller, there is a device, ...), which TLC evaluates in every run. How each argument goes:

- **Scheduler.** `RequestsHeld` is not inductive: a profile that leaves `pending` must be in the loop's hands, and the loop must not select one that is in flight. The invariant adds where each phase of the tick keeps what it took, and that ready, spawned and executing profiles are disjoint from what may be selected. `DoomedNotDrained` adds that between the drop and the drain a doomed config is in no queue unless it was queued again.
- **Hand-off.** The gate of a profile is sound as long as each watched session whose work is not here is *covered*: by a running or pending entry, and by the pull task that began after its end. `GateInv` says that sessions of a profile are born one after the other, that reports on their way are old but true (`ReportsSound`), that what a pull task covers was over when it began (`CoversSound`), and that whatever is owed is gated unless excused.
- **Browser.** `SessionInv` is a conjunction of nine parts: who holds the launch lock, what each phase of a launch and a stop knows, what the checker has seen, which phase of the end a session is in, where its work is, and what still has to happen before the queued sync may run. The proof has one step per action for each part.
- **Config sync.** Each variable gets a lemma of the ways it may change (`SyncMoves`, `CopyMoves`, `ObjectMoves`, `NewsMoves`, `SwitchMoves`, `FreshMoves`). `NewestKept` is inductive with three facts: the copy of some device is at least as new as the object; what a device uploads is no newer than its own copy; and a device that downloads does not hold the newest copy, hence losing its copy loses nothing. `SettledAgree` follows from `AgreeInv`: a device that has been told of the object as it is, and has nothing queued, holds what the object holds or is about to compare them. `SettledDeleted` follows from `ToldInv`: a device whose copy the tombstone outranks has yet to hear of it.

- **Index of the hand-off.** `IndexInv` says of the frames on the wire that the last word about a session is true (`LastWordIsTrue`), that a later session of a profile is mentioned after a frame that shows an earlier one open (`LaterIsMentioned`), and that a session they do not mention is as the index says, or, before the snapshot of the connection, does not exist (`SilentIsKnown`). With no frames left every session is silent. `IndexIsTrue` leaves out connections of a process that asked for a listing: its answer may arrive late and be older.
- **Team lock.** `LeaseInv`: while the loops keep up, one device at most holds the lock (a browser runs there, or a launch or a stop has it), that device is connected, and the age of the lock plus what its loop may still take (`Lag`, from where the loop stands in its round and whether the cache knows the lock) stays within `2 + losses`. The lease then cannot lapse, and nobody else is given it.
- **VPN.** `LockInv`: whoever is between the search for a worker and its end holds the start lock. `GuardInv`: a launch under way has its claim, a running browser is recorded unless its save failed, and a failed launch that goes on to stop a worker has seen neither claims nor recorded browsers. `TraceInv` says that a worker is spawned once and before its pid is saved, and that of the workers whose stop is under way none runs that had a pid to be signalled by. `WorkersAreKnown` is inductive with these three, and `OneInv` adds that who is about to spawn does so while no worker runs.
- **Downloads.** `SoundInv`: before anybody goes astray, a task has one run at most, a run past its child's success has the file, and a completed task too. `StrictInv` adds in which statuses a task may be while its run is where it is. The refinement has one lemma per kind of step: which step of `DownloadTasks` it is, or that it is none.
- **Cloud session.** `HomeInv`: all tokens, on disk and in the actors' hands, belong to the session that is signed in to or being signed in to. `HoldInv`: who is renewing holds `refresh_lock`; `FreshInv`: sessions not opened yet have not rotated. `RenewInv` then says that the refresh token of the session is valid on disk, or in the hands of whoever got the answer to the last rotation.
- **Profile files.** `FilesTypes` rests on a fact about the scan: the newest time of a nonempty set of files is the time of one of them, and none is later (`ScanIsLatest`, by well-founded descent and not by induction over data). Each action is then reduced to what it does file by file (`EditEffect`, `UploadEffect`, ...; `StepsHaveEffects`), and the invariants are proved from these effects. `CompletedAgrees` follows from `CleanParts`: one device moves files at a time; what a sync uploads or publishes is what the device holds; while nothing of an upload has reached the server, the server has what its manifest names; what an upload names is sent, still to be sent, or failed; what a download names has arrived, is still to come, or failed. `NothingLost` follows from `LossParts`: at most one device has edits to send, it has the last edit of every file (`EditorHasAll`), and those the manifest does not name are later than the manifest (`EditorIsNewer`), so its comparison never chooses the download that would overwrite them; with no edits to send the manifest names all last edits (`Published`), and what it names is stored (`ManifestIsStored`). The rest of `LossParts` says what a running upload, download or scan owes these. The hypotheses are the excuses in the properties and nothing else.
- **Trash.** A call is inside its file operations exactly when it holds `TRASH_MUTATION`, and what a sweep is about to remove is past its time and cannot be renewed meanwhile (`HeldInv`). `KeepInv` says of each point between two file operations where the data are: in place, in an entry that can be restored, or already copied to where they go (`HandKeeps`); it needs `ListedHasData`, that a profile the list shows has its data.

Model-checked only: the liveness properties (`ReadyIsTaken`, `EndedIsNoticed`, `LockIsReleased`, `EndedIsUploaded`), because the prover has neither fairness of actions nor ENABLED; and the five violated properties, which are refuted.

## 6. Findings and known gaps

Five disagreements have a run of their own:

1. `sync_scheduler_deadlock`: `mark_profile_stopped` and `process_pending_profiles` deadlock (`scheduler.rs:178`, `471`).
2. `remote_handoff_overtaken`: a pull clears the gate of a session that started after it began.
3. `browser_session_purge`: a profile relaunched from its plaintext copy is taken for unchanged and purged.
4. `config_sync_reenabled`: switching the sync of a kept copy on again gets the copy deleted. The same holds for profiles, whose directory is deleted (`scheduler.rs:890`), and with it for a synced profile that is restored from the trash, against `profile/trash.rs:18`.
5. `profile_files_cut`: a download that was cut short makes the device look newer, so its next sync uploads what it has and removes from the server what it had not downloaded yet (`engine.rs:834`).

The properties name the following as exceptions, or they are visible in the models. None has a run of its own; each is a behaviour of the code worth a decision.

*Scheduler.* `is_profile_sync_in_progress` reads two sets one after the other and can miss a profile that is moved between them (`scheduler.rs:113`). A panicked sync task leaves its id in `in_flight` for good (`575`).

*Hand-off.* A reconcile from an old snapshot ends the gate of a session accepted after the snapshot (`remote_session.rs:696`). A profile moved to pending by a listing gets no pull (`755`), and a listing that is older than the index replaces it. After a burst of attempts gave up, neither a stream event nor a manual sync retries, whatever `remote_handoff.rs:42` says; only the next start does. A crash during the rewrite of the file loses every gate. A start reply that is late sets Running for good, one that is lost leaves the profile ungated.

*Browser.* The checker deals with the end of a session while a relaunch is under way (`lib.rs:3488`). A session shorter than a round of the checker is not seen to end (`3418`). A refused launch of the API keeps the team lock (`api_server.rs:2922`). `lock_profile` purges a plaintext copy that was not re-encrypted (`password.rs:410`), and a failed re-encryption drops it (`701`). Browsers opened by a URL are neither marked nor queued. A failed sync is not queued again (`scheduler.rs:555`).

*Config sync.* The application of a tombstone ignores `updated_at`, so an edit made after the deletion is deleted, against `engine.rs:207`. An upload whose PUT comes after the listing its presign caused is not announced. A poll that is overtaken loses its reports. A download replaces an edit made meanwhile; an upload leaves its own, by then older, copy in the file. A failed sync is not queued again; one queued for an entity never uploaded does not survive a restart. Edits of one second are not told apart. A sync that is queued uploads a copy whose sync was switched off since, and with it the switch.

*Profile files.* A resumed sync skips paths it moved before though their content changed since. An upload whose non-critical files failed publishes its manifest all the same. A device that downloaded to catch up has newer times than one with edits to send, and two edits of one second are not told apart. Removing a file does not raise `updated`. A re-encrypting sync uploads whatever the device has, however old. An edit under a download is overwritten. The profile's metadata is saved at the end as it was read at the start (`engine.rs:945`).

*Team lock.* The list of a fetch that was answered before a lock was taken drops it from the cache for a round, so it is renewed one round late. A user's second device takes the same lock, and its release frees it under the first. A release that is lost leaves the lock to its lapse. Users without a subscription launch without a lock.

*VPN.* Application and worker write the record over each other (`socks5_server.rs:506`). A validity check (`lib.rs:1787`) and the sweep of the start (`lib.rs:3112`) may stop a worker that was adopted since they looked. A start that times out leaves its worker behind. So does one that cannot save the pid of the worker it spawned (`vpn_worker_runner.rs:345`, `388`): the next start takes the record for a dead worker's and spawns another beside it. A stop forgets a live worker it cannot pin (`431`), which those who start take for alive (`51`); the comment there accepts that it lingers until reboot. A stop that reads the record before the pid is in it deletes the pid (`443`). `connect_vpn` keeps no claim, so a failed launch that created the worker the user then connected to stops it.

*Downloads.* A task resumed or cancelled while the run it was paused under is still ending is completed without its file, or gets a second run beside the first, with two children on one file. Cancelling a task that downloads kills the child and leaves the status to the run. `add_task` does not save the table; `retry_all` asks for one start however many tasks it resets. A comment of `load_from_disk` (`video_downloader.rs:320`) says tasks under way are reset to waiting; the code sets them to paused.

*Cloud session.* The answer of a request that was under way over a sign-out is stored whoever is signed in by then. A response to a rotation that is lost, or a crash before it is stored, leaves a refresh token that does not work.

*Trash.* Two deletions of a profile may both find it before either takes the lock (`manager.rs:676`): the second drops the first one's entry as an older one (`trash.rs:214`) and leaves an empty one, where the comment at `trash.rs:199` takes the profile being trashed for the newer copy. A task that saves a profile after its deletion revives it without its data (`manager.rs:432`), and deleting that ghost drops the entry with the data. The report of a cleared or late tombstone deletes the restored profile (`scheduler.rs:890`). An error or a crash between the move and the two JSON files leaves an entry that no list shows, and a removal that fails after a copy leaves two partial directories.

*Elsewhere.* A stop saves the whole profile it was called with, over what was edited meanwhile (`browser_runner.rs:1360`). Sync start, stop and restart run under one lock from end to end. `video_matcher_queue.rs:143` calls an addition idempotent that is not.

## 7. Not modelled

`PROJECT.json` lists every part with its status. Left out for good: byte forwarding and streaming (`proxy_server.rs`, `remote_agent/`, `synchronizer.rs`), pages driven over CDP (`recorder.rs`, `ai_agent.rs`, ...), the building of command lines and fingerprints (`wayfern_manager.rs`), cryptography, archive and network I/O of downloads, the translation of requests (`mcp_server.rs`, most of `api_server.rs`), clients of services whose code is not here (`bwbrowser_cloud.rs`, `ai_rewrite.rs`, `commercial_license.rs`), and the React UI, whose calls are the inputs of the models. These are most of the repository's lines, and what they do is one critical section at a time or depends on the content of pages and answers.

Left out because there is no interleaving to check: the sync pipeline (`sync/mod.rs`: start, stop and restart hold one lock from end to end), the launch gate and the rate limiter (each operation is one critical section). Left for later: section 2.

Partly modelled: the components `PROJECT.json` marks so, with what is left out of each; of the trash, the arithmetic of retention, the names and groups of restored profiles and the pruning of caches.

## 8. Running

In this directory: `tlc -config MCSyncScheduler.cfg MCSyncScheduler.tla` (likewise for the other configurations), `tlapm ConfigSyncProofs.tla` (likewise for the other `*Proofs` modules). The longest runs take two to three minutes with two workers, the proofs about as long.
