# MTT File Manager: a TLA+ verification project

MTT File Manager is a Windows file manager written in Rust: one desktop
application, of which several instances may run, and a search service that
indexes volumes. Most of its 1300 files draw windows, decode media or call
the Windows shell. What is modelled here is what moves the user's files
without being watched, and what several threads or processes share:

* the **organizer**, which moves files that match a rule out of a watched
  folder, keeps a journal, survives crashes, and can retry and undo
  (`OrganizerMove`); the commands by which the interface governs it
  (`OrganizerCommands`); the watching by which it comes to know of files
  (`OrganizerWatch`); and the files that are in each other's way, about which
  it asks the user (`OrganizerConflicts`);
* the **search service**: the volume lifecycle in which discovery, indexers,
  client requests and PnP callbacks meet (`VolumeLifecycle`), and the index of
  one volume with the two caches it is restored from (`SearchIndex`);
* the **end of the application**, when several windows, each a process, save
  their sessions and leave together (`SessionExit`).

All paths below are relative to the repository (`src/…` is the application's
source directory, `crates/…` the workspace's crates).

Contents: [inventory](#1-inventory) · [modules](#2-modules) ·
[OrganizerMove](#3-organizermove-and-operationledger) ·
[OrganizerCommands](#4-organizercommands) ·
[OrganizerWatch](#5-organizerwatch) ·
[OrganizerConflicts](#6-organizerconflicts) ·
[VolumeLifecycle](#7-volumelifecycle) · [SearchIndex](#8-searchindex) ·
[SessionExit](#9-sessionexit) · [runs](#10-runs) · [proofs](#11-proofs) ·
[findings](#12-findings) · [limits](#13-what-the-models-leave-out) ·
[not modelled](#14-not-modelled)

## 1. Inventory

### Organizer

| part | state | operations | talks to |
|---|---|---|---|
| command channel (`src/infrastructure/organizer.rs`, `organizer/protocol.rs`) | pending command ids and a `running` flag under one mutex, an mpsc queue, the shutdown flag | allocate an id, register and send, answer, stop, drop | UI thread → organizer thread; events back |
| organizer thread (`organizer/watcher.rs`, `watcher/queue.rs`, `watcher/commands.rs`) | rules and their activation flags, pending files with snapshot and time, exemptions, in-flight registry | notice a file, wait two seconds, check the exemption, insert a row, send the request; set/pause/resume rules, retry, undo, resolve a conflict | database, worker queue, the registries it shares with the worker |
| watcher supervision (`watcher/supervisor.rs`, `src/infrastructure/removal_aware_watcher/`) | watcher, watched folders, retry time and backoff, bounded event queue with an overflow flag | configure, reset, retry, rescan, release a folder on device removal | file system notifications, organizer thread |
| file operation worker (`src/workers/file_operation_worker.rs`, `file_operation_worker/handlers.rs`) | its current request | `handle_organizer_move`, catch a panic and recover; copy, delete and rename requests of the UI | shell operations, database, result channel |
| guarded move (`src/infrastructure/windows/shell_operations/organizer_move.rs`) | file handles that deny writing and deleting | open and compare, journal, rename without replacing, copy to another volume, publish, delete the source, roll back | file system, the journal callback |
| operation store (`src/infrastructure/app_state_db/organizer_operation*.rs`) | tables `organizer_operations`, `organizer_operation_completions`, `organizer_undo_exemptions` | insert, start retry, start undo, journal, finish, reconcile, clean orphans, list | all instances (SQLite, one immediate transaction per operation) |
| conflicts (`organizer_conflict_*.rs`, `organizer_conflicts.rs`) | table of conflicts with a claim and its owner | register, claim, resolve by renaming, cancel, reconcile | organizer thread, UI, other instances |
| rules (`src/domain/organizer_rule.rs`) | none | match a file, validate a rule set, find cycles | organizer thread, settings UI |

What is hard: two threads per process and several processes share the
database and the disk; a process can die between any two steps, also while it
repairs what an earlier one left behind; the file that was matched can be
replaced before it is moved; writes can fail, and the worker can panic in the
middle of a move. Correct means: no document is lost, no operation stays open
for good or is closed with the wrong status, an undo happens once and is not
reversed by the organizer itself.

### Search service

| part | state | operations | talks to |
|---|---|---|---|
| volume lifecycle (`crates/mtt-search-service/src/volume_lifecycle.rs` and `volume_lifecycle/`) | runtime per letter: identity, `VolumeUsageState`, worker; published indices | ensure, retire and disconnect a runtime, claim a worker, acquire a lease or search access, prepare and end a removal | all threads of the service |
| device notifications (`device_notifications/`) | a PnP registration per volume | ensure and reconcile registrations; query remove, remove failed, pending, complete; lock, unlock, dismount, mount | Windows callbacks → lifecycle |
| indexers (`volume_indexers/`, `mft_reader/`) | scan state, journal position, checkpoints | full scan, journal catch-up, live updates, save, rescan | index database, publisher |
| index database (`index_db/`, `file_index/`) | entries and checkpoint of every volume | load, write batch, replace, prune | indexers |
| IPC server and protocol (`ipc_server/`, `crates/mtt-search-protocol`) | running requests, limits | query, status, cancellation | client, leases |
| drive health (`drive_health/`) | none | read SMART data | device I/O |

What is hard: a removal query must let go of everything within five seconds
and must not let anybody in again; a letter can be taken by another volume
while the old one is still in use; a late indexer must not publish. Correct
means: what was let go of stays let go of, a search sees the volume it asked
for, and the volume that stays is served in the end.

### Application

| part | state | operations | hard behaviour |
|---|---|---|---|
| instances, tray, session exit (`src/app/instance_sessions*`, `src/infrastructure/windows/app_instances*`, `src/infrastructure/windows/system_tray/`) | per process: session-exit state, queue of tray actions, the tray mutex; shared: window properties, the preference `instance_sessions` | start and restore a group, own the tray, close one window, exit all | several processes elect a tray owner and end together over window messages that time out |
| tabs and tab transfer (`src/tabs/`, `src/app/tab_transfer*`) | a window's tabs | open, close, move to a new process | a child that does not acknowledge is killed |
| search client (`src/infrastructure/global_search.rs`, `src/workers/global_search_worker.rs`, `src/app/global_search_state.rs`) | one request and its generation | ask, show | answers of older queries arrive late |
| thumbnail pipeline (`src/workers/thumbnail/`), folder previews | a queue, caches of images | request, promote, cancel | many workers, deduplication |
| folder loading, directory caches, dirty registry (`src/app/operations/folder_loading/`, `src/infrastructure/directory_*.rs`) | the listing shown and cached | load, refresh, invalidate | loading races navigation and watcher events |
| duplicates (`src/app/disk_analysis_duplicates/`) | groups of equal files | analyse, delete | files change between the analysis and the deletion |
| folder size, export, archives, updater | one job each | start, cancel | a cancelled job has no result |
| preferences, tags, locks, covers, pins | SQLite tables | one SQL statement per call | direct unit tests |
| viewers, UI, OneDrive, drive health, Explorer command, installer, `mpv_ui` | none that outlives a call | rendering, device or COM calls, third-party code | out of a model checker's reach |

What is hard about the end of the application: messages between windows may
time out and still be handled later, a window may close by itself in the middle
of a common exit, a start may still be opening the windows of a saved group,
and the writes of two closes may arrive in another order than the closes.
Correct means: no window leaves unsaved because it trusted a group that was
not saved, what is restored is the latest close, and no window stays behind
without an icon to reach it.

`PROJECT.json` lists the components with their source files, what is
modelled of each, and, under `hazards`, the places in the code where these
behaviours bite, with the property that covers each or the reason why none
does.

## 2. Modules

```
OperationLedger <--- implemented by --- OrganizerMove --- MCOrganizerMove
      |                                      |     \--- OrganizerEnds --- MCOrganizerEnds
      |                                      |
      |                           OrganizerMoveInvariants
      |                     (inductive invariants, effects of the steps)
      |                                      |
OperationLedgerProofs --- cited by --- OrganizerMoveProofs
       (types, refinement, ownership, journal, claims, files, outcome, exemptions)

OrganizerCommands --- MCOrganizerCommands    OrganizerWatch
      |                                           |
OrganizerCommandsProofs                      OrganizerWatchProofs

OrganizerConflicts --- MCOrganizerConflicts
      |
OrganizerConflictsProofs

VolumeLifecycle --- MCVolumeLifecycle        SearchIndex        SessionExit
      |                                           |                  |
VolumeLifecycleProofs                        SearchIndexProofs  SessionExitProofs
```

How the modules meet. The organizer's thread runs one loop in three modules,
each with the other parts reduced to what they do to its own state:
`OrganizerWatch` ends when a file is stable, `OrganizerCommands` takes stable
files, commands and activation flags up to the worker's last look at a flag,
and `OrganizerMove` begins with a noticed file and takes both looks at the flag
as an input: every outcome that `OrganizerCommands` allows is one that
`OrganizerMove` explores. `OrganizerConflicts` replaces the moves by what matters
to a conflict, whether the source and the target name are taken, and models
the registration whose outcome is an input of `OrganizerMove`. Likewise `VolumeLifecycle` has one `Publish` for all
that `SearchIndex` does before an index is served, and its end of an indexer
is `Halt` or `Shutdown` there.

## 3. OrganizerMove and OperationLedger

One rule moves files from the `Watched` paths to `Home[x]`. Files are
`[doc, id]` pairs: `doc` stands for the contents, `id` for the identity that
`OrganizerFileSnapshot` records; a copy has the same `doc` and a new `id`.

| variable | code |
|---|---|
| `disk`, `serial` | the file system; every new file gets a new identity |
| `ops` | table `organizer_operations`; `owner` is `process_owner_id`, reset to `NONE` when that process dies (what `process_owner_is_active` finds out) |
| `journal` | `organizer_operation_completions`: target and identity, written before the file appears there |
| `exemptDb`, `exempt` | `organizer_undo_exemptions` and the in-memory `OrganizerUndoExemptionRegistry` |
| `inFlight` | `OrganizerInFlightRegistry` |
| `pending`, `checked` | the organizer thread's pending files, and the one it is about to start |
| `queue`, `work` | requests sent to the worker, and the one it handles |
| `rec` | a reconciliation, at a start or after a panic |
| `placed` | ghost: what an operation really did on the disk |

| action | code |
|---|---|
| `Notice`, `TakeStable`, `Dispatch` | `queue_matching_path` and `process_stable_files` (`watcher/queue.rs`); the exemption check and the claim are two steps, as in the code |
| `RetryOperation`, `UndoOperation` | `watcher/commands.rs` with the transactions of `organizer_operation_actions.rs` |
| `TakeRequest` … `Release` | `handle_organizer_move` (`handlers.rs`) with `organizer_move.rs`: check, activation, lock and journal, rename or copy/publish/delete, exemption, finish, release of the claims |
| `Divert` | what the conflict policy does when the target is occupied, at each of the three places where the code finds out |
| `Panic` | `catch_unwind` in `file_operation_worker.rs`: handles and claims go, the row is reconciled |
| `Start`, `PickInterrupted`, `Look`, `RemoveCopy`, `CloseReconciled`, `Ready` | reconciliation at a start, row by row, then loading of the exemptions and the first scan |
| `Crash`, `UserWrite`, `UserDelete` | the environment; a file that is open for a move cannot be touched |

`OperationLedger` is the abstract specification: ids are opened once, closed
once, an operation is undone by exactly one completed undo. The refinement
mapping reads `status`, `kind`, `parent` and `undone` off the rows; files,
journal, processes and crashes are stuttering. It is checked by TLC
(`ImplementsLedger`) and proved (`MoveImplementsLedger`).

Properties:

* `JournalAheadOfMove` — whenever a started operation's file has appeared at a
  target, its journal row names this target and this identity. Without it a
  crash loses track of a file.
* `CompletedIsReal` — a completed row names a file that a move really put
  there, with the recorded identity.
* `MovedIsNotFailed` — with one fault at most, a move that has taken its source
  away is never closed as anything but completed while the file is where it was
  put, unless another operation has put the same file there again (`MovedAgain`).
* `MovesKeepDocuments`, `NoLastingDuplicate` — no step but the user's takes
  the last copy of a document off the disk; before any fault, a document is in two
  places only while its operation is open.
* `ClaimsMatchRequests` — the in-flight paths are exactly those of live
  requests, whose paths do not overlap.
* `RestoredIsExempt`, `UndoneFileStays` — before any fault, a restored file is
  exempted durably, unless another undo has just restored it and exempts it next
  (`BeingRestored`), and is not organized again while it is the same file.
* `UndoneExactlyOnce`, `ImplementsLedger` — see above.
* `OperationsEnd` (`OrganizerEnds`, which adds a history of the operations that a
  failing step has left started) — a started operation reaches a terminal status,
  or is given up: its worker cannot write the result in three attempts, a start
  cannot remove the copy (`organizer_operation_actions.rs:689`), or cannot write
  the row. When a later start takes such a row up it is due again.

A process has four workers (`FILE_OPERATION_WORKERS`,
`workers/file_operation_worker.rs:652`) that take requests from one channel; the
module has one. The claims of a process keep the paths of its requests apart,
which `ClaimsMatchRequests` says of queued requests too, and what else two workers
share, the disk and the table, the workers of two processes share as well.

## 4. OrganizerCommands

The manager of one instance with its thread and one rule: a switch and a
version that stands for the other fields.

| variable | code |
|---|---|
| `manager`, `shutdown` | `OrganizerManager` and its drop in three steps; the shared shutdown flag |
| `counter`, `running`, `registered` | `NEXT_COMMAND_ID` and `PendingCommandState` (`src/infrastructure/organizer.rs`) |
| `channel`, `events` | the two mpsc channels |
| `ui` | rules, status and unanswered sets as `organizer_state.rs` keeps them |
| `thread` | where `run_organizer` stands, the command and the stable files it has in hand |
| `rule`, `paused`, `flag`, `raised` | rules, `paused_rules`, `activation_flags` and the flags that are up; flags are numbered as they are made |
| `pending`, `inFlight`, `queue`, `worker` | pending files with the flag and version they were noticed with, claims, requests, and the worker between its two looks at the flag |
| `sent`, `accepted`, `stray` | ghosts |

| action | code |
|---|---|
| `Enqueue`, `ReadEvents` | `allocate_command_id`, `register_and_send`; the interface's reading of events (`command_succeeded`) |
| `DropFlag`, `DropStop`, `DropEnd` | the drop of the manager (`organizer.rs:309`): flag, stop, join only a thread that has ended |
| `HealthCheck`, `Receive`, `Respond`, `LeaveBatch` | the loop of `run_organizer` and its batches of commands |
| `SetRules`, `RejectRules`, `PauseRule`, `ResumeRule`, `CreateFolder`, `RetryOperation` | `watcher/commands.rs` |
| `StableFile`, `FilesDone` | `process_stable_files` |
| `Panic`, `Hang`, `Unwind` | a panic, a file call that never returns, the guard that answers what is still registered |
| `WorkerTakes`, `WorkerRechecks`, `WorkerMoves` | the two looks at flag and shutdown in `handle_organizer_move` (`handlers.rs`), and the move |

Properties: `AnsweredOnce` and `AnsweredInTheEnd` (a command is answered once,
by the thread or by the guard of a thread that ends or panics), `ShownIsInForce` (with nothing under way the settings show
the rule in force, whatever was refused), `RevokedIsNotStarted` (no request
passes the worker's last look after a pause, a rule change or the shutdown),
`DropEnds` (the drop returns, also when the thread hangs). `TypeOK` bounds the
counter: it wraps to zero, and then nothing is accepted.

## 5. OrganizerWatch

How a file in a source folder becomes pending: by a watch event or by a scan.
The source folder is on a removable volume, the destination on a fixed one.

| variable | code |
|---|---|
| `device`, `dest`, `there`, `moved` | the volume, the destination folder, and files |
| `suspended`, `epoch`, `retired` | the process-wide registry of the removal-aware watcher (`src/infrastructure/removal_aware_watcher/`) |
| `native`, `reg`, `dropping`, `releasing` | the native watcher, its PnP registration, and those about to be unregistered by the thread or by the worker of `retired.rs` |
| `runtime`, `due`, `retry`, `reported` | `WatcherRuntime`, `next_health_check`, `next_retry`, `reported_statuses` (`watcher/supervisor.rs`) |
| `queue`, `overflowed` | the bounded channel of watch events and its overflow flag |
| `pending`, `pc`, `seen` | pending files, where the loop stands |
| `unseen`, `raced`, `deaf` | ghosts: which files arrived while nothing watched, and two windows that the properties leave out |

| action | code |
|---|---|
| `Check`, `Configure`, `Unregister`, `Report`, `ScanRecovered` | the health check (`watcher.rs:86`, `supervisor.rs`): signature, configuration, status, scan after an outage |
| `Events`, `Overflow` | up to `MAX_WATCH_EVENTS_PER_TICK` events, then the rescan if the flag is up |
| `SetRules`, `PauseRule`, `ResumeRule`, `CreateFolder` | what commands do to watcher and files |
| `StableFiles`, `Tick`, `RetryTick` | `process_stable_files`; the clock |
| `Arrive`, `WatchError` | the handler of the watch (`supervisor.rs:168`) |
| `QueryRemove`, `RemoveFailed`, `RemoveComplete`, `Returns`, `ReleaseRetired`, `Released` | PnP notifications and `retired.rs` |

Properties: `FilesAreTaken` (once monitoring can work for good, every file that
a watch or a scan could see is taken in the end), `ShownActive` (the rule is
then shown active for good), `FailureIsRepaired` (a failed watch is replaced),
`SuspensionEnds` (no volume that is there stays suspended, whoever drops its
watcher during a removal).

## 6. OrganizerConflicts

The collisions of one rule with the policy "ask". A file of the source folder
is to go to the destination folder under its own name; if that is taken, a row
asks the user, who has one of the two files renamed, or cancels. Files are
snapshots, which every write changes.

| variable | code |
|---|---|
| `disk`, `events` | the two folders, and what the watcher of each instance has reported of them |
| `conflicts` | table `organizer_conflicts`: status, file name, the two snapshots |
| `claims` | table `organizer_conflict_resolutions`: owner, the file to rename, its new name and its snapshot |
| `phase` | an instance that is not there yet, starts (`OrganizerState::new`), runs, or is dead |
| `pending`, `thread` | pending files and the organizer thread, in the middle of a registration or a resolution |
| `listed` | the claims a start has read and not yet settled |
| `moves`, `open` | what the worker does with each name, and moves that are done and whose rows are not closed |
| `placed` | ghost: where the file of a claimed conflict went, or was seen by a start |

| action | code |
|---|---|
| `TakeEvent`, `TakeStable`, `SeeDestination`, `Ask` | `process_watcher_event` and `process_stable_files` (`watcher/queue.rs`) with `record_terminal_organizer_conflict` |
| `TakeMove`, `SeeCollision`, `AskInstead`, `Move`, `CloseMove` | `handle_organizer_move` with `create_organizer_conflict`; a completed move makes the open conflicts of its source obsolete |
| `Resolve`, `TakeClaim`, `Check`, `Guard`, `Rename`, `Finish`, `MarkObsolete`, `Release`, `Cancel` | `resolve_conflict` (`watcher/commands.rs`): claim, look at both files, rename one, close the row |
| `Look`, `ApplyOwn` | the reconciliation of the thread's own claim after an error (`commands.rs:900`) |
| `Start`, `LookAtRow`, `ApplyRow`, `Begin` | the reconciliation of the claims of dead instances at a start, row by row (`organizer_conflict_resolutions.rs:97`), then of their moves |
| `UserWrite`, `UserDelete`, `UserMove`, `Crash` | the environment |

Properties: `AskedOnce` (a file has one open conflict, whichever threads and
instances find it in the way, and none that is equal to one the user has
cancelled), `OneResolver` (whoever works on the files of a conflict holds its
claim, whatever else is registered, closed or reconciled meanwhile),
`RenameIsRecorded` (a row is resolved only when the file it was about was seen
at the new name; while it is where its resolution put it, the row is not
cancelled and not open to another resolution).

## 7. VolumeLifecycle

The service as seen from one drive letter. Runtimes, worker tickets and index
handles are reference counted in the code; here they are names that are used
again when nothing refers to them (`FreeRt`, `FreeTicket`, `FreeHandle`).

| variable | code |
|---|---|
| `media` | the volume that Windows has mounted at the letter |
| `current`, `rt` | `VolumeLifecycle::runtimes` and `VolumeRuntime` (`removing`, `replacing` of `VolumeUsageState`, the claimed worker) |
| `ticket` | `VolumeWorkerTicket` and its completion: running, dropped, finished |
| `index`, `owner` | `VolumeIndices` at the letter: one handle, overwritten in place |
| `use` | a client's lease (`VolumeUseGuard`) or search access |
| `disc` | program counter of the discovery thread (`usn_journal.rs`, `reconcile_discovered_volumes`, `ensure_runtime`, `VolumeHandleNotifications`) |
| `reg`, `call` | the PnP registration of a volume, and the callback that runs |
| `asked` | for each kind of request: whether it runs, and whether the service has answered it and the volume is held for it (ghost) |

Clients find a runtime and acquire its lease in two steps (`acquire_volume`
gives the registry lock back in between) but a search does both under the
lock. An indexer publishes, ends, drops its ticket (clearing only its own
generation) and then tells whoever waits. The discovery pass is cut where it
holds no lock: look at the letter, retire an idle replacement, ensure a
runtime (insert, match, or replace: close, drain, join, swap), list and
disconnect what was not found, reconcile and unregister notifications, ensure
the registration, claim a worker. A callback begins, drains leases, joins the
indexer, or runs out of time.

Properties: `IndexOfCurrent` (the published index is of the registered
volume), `SearchReadsItsVolume` (the index a search holds is never overwritten
by another volume's), `OneWriter`, `GrantedIsReleased` (a volume that was let
go of for a removal stays registered and closed, under whatever object, with no
lease and no indexer), `LockSuspends` (a locked volume stays registered and closed,
also when letting go of it took too long), `Settles` (the volume that stays is
registered in the end). The first two are about the volume: a new runtime that
discovery made for it would break them. Requests may overlap. There is one flag for
all of them, so a volume is held until Windows ends any operation on it, a removal
query runs out of time, a dismount drops it, or it is gone; what the code does with
the other requests then is a [finding](#12-findings).

## 8. SearchIndex

The USN indexer of one volume (`crates/mtt-search-service/src/volume_indexers/usn.rs`
and `usn/`), with its index in memory and two caches: the binary snapshot,
which is replaced by a rename, and SQLite rows with a checkpoint. Each carries
the journal position from which it is to be caught up. A file is a record
number, its place stands for name and parent.

| variable | code |
|---|---|
| `disk`, `journal`, `first`, `jid` | the volume: files, journal records, how many have expired, the journal's id |
| `rows`, `state`, `binary` | `file_records`, `volume_state`, `index_<drive>.bin` |
| `phase`, `skip`, `info`, `todo`, `leaving` | where the indexer's thread stands, `MTT_SEARCH_SKIP_SQLITE_DATA`, the journal as it was queried, files or rows still to do |
| `index` | `VolumeIndex`: records, position, sets of pending rows, dirty and size flags |
| `worker` | the background size refresh, a thread of its own |
| `drift` | ghost: how the rows and their checkpoint stand: as the index has them, with a gap it has forgotten (`Forgets`, `Orphans`), under a checkpoint that is not theirs (`LeavesRows`), or served from such rows |

| action | code |
|---|---|
| `Start`, `Query`, `Choose` | `index_volume`: query the journal, choose rows, snapshot or a full scan |
| `CatchUp` | reading of the journal from the cache's position, one buffer |
| `ReadRecord`, `SaveBinary`, `SaveState`, `DeleteRows`, `InsertRows`, `PublishCheckpoint`, `Ready`, `ScanFails` | `usn/full_scan.rs` and the transactions of `index_db/sync.rs` |
| `Read`, `RefreshSizes` | the loop of `usn/incremental.rs` |
| `PersistRows`, `PersistBinary`, `PersistState`, `Flush` | the persist every five minutes, in both modes (`usn/persistence.rs`) |
| `SizePass`, `SizeFlush` | `usn/size_refresh.rs` |
| `Change`, `Expire`, `NewJournal`, `Spoil`, `Shutdown`, `Halt` | the environment: files, journal, a damaged snapshot, the end of the service anywhere |

Properties: `IndexFollows` (what is served differs from the disk only in files
whose records the journal still holds after the index's position, until an index
is loaded from rows under a checkpoint that is not theirs; a crash between
checkpoint and batches of one scan over an empty table is not among the
exceptions, and is caught by the count of rows alone),
`SnapshotFollows` (the same of the snapshot on disk, whichever thread wrote
it), `PendingIsKnown` (no pending row is of a file that is gone, or both added
and removed), `IndexCatchesUp` (a served index comes to the journal's end).

## 9. SessionExit

Several windows, each a process. `Window` holds all that may ever be started.

| variable | code |
|---|---|
| `life` | a window's process: it takes messages, is in `handle_exit` before or after it has let go of the tray, has saved its session or not, is gone |
| `ui` | the `State` of `system_tray/session_exit.rs`, the `Exiting` property, a close on its way, and `PENDING_ACTIONS` |
| `inbox` | window messages that were sent and are handled later |
| `worker` | the session-exit thread (`session_exit/worker.rs`) |
| `restore` | the restore-instances thread (`instance_sessions/startup.rs`) |
| `tray`, `icon` | the named mutex and the `TrayOwner` property |
| `record` | the preference `instance_sessions`: the order of its close and its sessions; ghost: order and windows of the last group that was saved |
| `saved`, `token` | ghost: whose sessions were saved for which exit; exits so far |

| action | code |
|---|---|
| `Launch`, `Confirm`, `ConfirmFails`, `RestoreChild`, `ChildReady`, `RestoreFails` | a start under the startup mutex, the restore of a saved group, a child's acknowledgement and what follows without it (`startup.rs`, `tab_transfer.rs`) |
| `Tick` | `coordinator::tick`: the first to get the mutex shows the icon |
| `RequestClose`, `CancelClose`, `HandleExit`, `Release`, `SaveIndividual`, `End` | one window's close: its order, hiding in the tray instead, `handle_exit`, the record |
| `TrayExit`, `RequestAll`, `Begin` | the tray's menu, and the begin of a common exit |
| `Identify`, `Ask`, `Collect`, `WaitTimesOut`, `SaveGroup`, `CloseWindow`, `CloseOwner`, `Fail` | the session-exit thread, one message a step |
| `Reply`, `Deliver` | the windows that are asked, and late messages |
| `Crash` | a process dies |

A message whose answer the sender looks at (`Send`) is handled at once and
answered, or times out, and then is handled later or never; one whose answer
nobody looks at (`Post`) arrives later or is lost.

Properties: `ClosedIsSaved` (a window that leaves with a group without saving
its own session is in a group that was saved), `RestartPolicy` (the record is the
window closed last by itself, in the order of the closes and not of the writes, or
the whole group of a global exit, which neither an earlier close nor a window that
leaves with the group replaces), `OwnerLeavesLast` (when the
owner of the tray leaves with its group, no window of the group and none that
was being restored for it stays), `ExitEnds` (a common exit leaves or can be
asked for again).

## 10. Runs

The passing runs are exhaustive for their bounds, which are constants:
`MaxOps`, `MaxEdits`, `MaxCrashes` bound rows, user edits and deaths,
`MaxFaults` failing calls, `MaxMishaps` edits and failing calls together, `MaxEvents`, `MaxCommands`, `MaxRemovals`,
`MaxChanges` and `MaxExits` what the environment and the user do.

| run | instance | shows |
|---|---|---|
| TwoInstances | 2 processes, rename, "skip", 3 ops, 1 edit, 1 crash, 1 fault | `ClaimsMatchRequests`, `UndoneExactlyOnce`, `ImplementsLedger`, `MovedIsNotFailed`: two instances race over files and rows, and one repairs what the other has left |
| Conflicts | 2 interchangeable processes, 1 name the rule matches and 1 to rename to, both files there at first, 2 rows, 2 commands, 1 edit or failing call | `AskedOnce`, `OneResolver`, `RenameIsRecorded` |
| OneInstance | 1 process, copy to another volume, auto rename, 3 ops, 2 edits, 2 crashes, 1 fault | `JournalAheadOfMove`, `NoLastingDuplicate`, `CompletedIsReal`, `RestoredIsExempt`, `UndoneFileStays`, `MovesKeepDocuments`: a crash in a move or undo and another one in its repair |
| OperationsEnd | copy to another volume and rename to the conflict folder, 2 edits, 2 crashes, 1 fault; 1 process with 2 ops or 2 processes with 1; fairness | `OperationsEnd`: a move whose target is taken, by another file or by the copy of an interrupted move, an undo or a retry, and a start that finds them and may fail |
| Commands | 1 file, 2 rule versions, ids up to 3, batches of 2, 1 panic or hang, fairness | `AnsweredOnce`, `ShownIsInForce`, `RevokedIsNotStarted`, `AnsweredInTheEnd`, `DropEnds` |
| Watch | 1 file, a queue of 1, 1 event per tick, 1 fault, 1 command, 1 removal or change of the destination, fairness | `SuspensionEnds`, `FilesAreTaken`, `ShownActive`, `FailureIsRepaired` |
| VolumeRequests | 1 volume, removals, locks and dismounts in any order, 3 events | `GrantedIsReleased`, `OneWriter`, `LockSuspends` |
| VolumeReplaced | 2 volumes, 2 events, fairness | `IndexOfCurrent`, `SearchReadsItsVolume`, `Settles` |
| Index | 2 files, 1 place, both modes, 2 changes, 1 fault, fairness | `IndexFollows`, `SnapshotFollows`, `PendingIsKnown`, `IndexCatchesUp` |
| Exit | 2 windows, one of which hides in the tray, 2 sessions to restore, 2 exits, 1 fault, fairness | `ClosedIsSaved`, `RestartPolicy`, `OwnerLeavesLast`, `ExitEnds` |
| UndoTwoInstances, StaleRows | see [findings](#12-findings) | one property each, violated |

`TypeOK` is [proved](#11-proofs) of every module that has one; the runs of
`OrganizerCommands`, `OrganizerWatch` and `SessionExit` check it too.

Why the bounds are enough. *Organizer moves*: one watched path, its
destination and one spare name reach every branch of the move: source and
target collide, are diverted, restored and reused; three operations are a
move, its undo or retry, and a competitor; two crashes are a crash and one in
its repair. In OperationsEnd the destination is on another volume, so every move
to it is a copy, two files compete for it, and a move that is diverted is a rename;
two operations by two processes are beyond TLC there, so `MCOrganizerEnds` has
either two of one or one of two, and every action of the module fires. *Commands*: three ids are a command, one that overtakes it, and the
wrap of the counter; a batch of two is cut in the middle. *Conflicts*: two commands are a resolution
against a cancel or another resolution, by the same instance or the other; the
one edit or failure falls anywhere, while instances die at no charge, as long as
one is left; the two rows are the first conflict and the one after the edit.
*Watch*: a queue of
one is full with the first event, and since a file and an error compete for it
both kinds of overflow happen. *Volumes*: three events are a removal or lock,
an indexer that ends by itself or a volume that does not answer, and the next
request; two volumes and two events are a replacement and one more change
during it; three runtimes, two tickets and two handles never run out in
a way that hides a behaviour, because an object still referred to is held by a
client, the discovery thread, a callback or an indexer. *Index*: two changes
and two files are a change before and one after any step, of the same file
or of another; a second place is only needed for StaleRows, where a file must be
moved behind a checkpoint. *Exit*: two windows are the
owner and one other, which may be restored by it, asked, late, or close by
itself; a third one is beyond TLC, and the exit asks the windows one
after the other without comparing them. One fault in each of
them is a failure anywhere; what two of them break is named under
[findings](#12-findings).

`CHECK_DEADLOCK FALSE` in all runs but those of the volumes: when the bounds are
used up and everything is answered nothing is left to do. The volume runs
check for deadlock. `MCVolumeLifecycle` gives a `VIEW` that forgets the old
contents of free objects, which no action reads before it writes them;
`VolumeReplaced` checks a liveness property and does without it.
`TwoInstances` and `Conflicts` take the two processes to be interchangeable
(`SYMMETRY`): nothing in the modules tells one from the other, and the runs check
no liveness.

Fairness.

* `OrganizerEnds!EndsSpec`: a worker, a starting process and the start of an
  application that is not running go on. The worker is a loop over a channel
  whose steps do not wait for each other, and a start is a sequence. Nothing
  is assumed of the organizer thread or the user, and crashes are bounded,
  since an operation whose owner dies again and again cannot be promised an
  end.
* `OrganizerCommands!FairSpec`: the thread's loop and a drop that has begun go
  on. The thread receives with a timeout; hanging in a file call is a state of
  its own, out of which nothing leads. The worker may be busy for ever.
* `OrganizerWatch!FairSpec`: the loop goes on, and time passes (the next health
  check, the next retry). Nothing is assumed of Windows or the user.
* `VolumeLifecycle!FairSpec`: the discovery thread and every callback go on
  (all their waits have time limits), a client that has found a volume
  acquires it and then ends its request, and an indexer that was told to stop
  does so, drops its ticket and finishes. An indexer need not end by itself,
  nor Windows an operation.
* `SearchIndex!FairSpec`: a start and a persist go on to their end. Reading is
  strongly fair because every pass of the loop reads before it looks at the
  time to persist: persisting again and again cannot keep it from reading.
* `SessionExit!FairSpec`: each process goes on with what its UI thread or its
  session-exit thread has to do. Frames run while messages and actions wait,
  and the session-exit thread's waits are bounded. This is weaker than fairness
  of each thread.

## 11. Proofs

All theorems hold for every value of the constants that satisfies the module's
named assumption: any number of processes, paths, operations, files, volumes,
clients, commands, crashes and faults, every conflict policy, and every set of
requests, overlapping ones included. Three theorems need more and say so: they are
about one instance, because they are false of two (section 12).

* `LedgerUndoneExactlyOnce` (`OperationLedgerProofs`). `LedgerInv` adds to
  the property that a retried operation has one running retry at most, and
  `UndoOfCompleted`: an undo that runs or has completed belongs to a completed move
  or retry. Opening an undo keeps it because the transaction looks at the
  children of the original, and closing one because a terminal row is never
  closed again.
* `MoveTypeOK` (`OrganizerMoveProofs`; the invariants are defined in
  `OrganizerMoveInvariants`). `TypeOK` alone is not inductive,
  because a worker uses the row its request names. `TypeInv` adds `Filled`:
  what each record in use has been filled with, and that a process that is not
  running has no thread, worker or requests.
* `MoveImplementsLedger`, `MoveUndoneExactlyOnce` (`OrganizerMoveProofs`).
  Each action maps to opening a move, retry or undo, to closing a row, or to a
  stutter; the ledger's invariant is carried over through the same mapping.
* `MoveOwnedOnce`, `MoveJournalAhead` (`OrganizerMoveProofs`). `Owned`: a live
  request is in one place of one process, the one its row names as owner, and
  a reconciliation holds only a row whose owner is gone or the one its own
  worker panicked on. `JournalInv`: nothing is placed before the row is
  journaled, and the journal is current at every step in between. Ownership is
  needed because otherwise another process could close or journal the row
  between the two steps.
* `MoveClaims`. `ClaimsInv` adds to the property that an undo goes to the path
  its row names, never to a diverted one (`UndoTarget`): the paths a request has
  claimed are those its row and target name, so a request gives back exactly
  what it took, and two requests of a process cannot meet.
* `MoveCompletedIsReal`, `MoveFilesHeld`, `MoveKeepsDocuments`. `FilesInv` is
  about every identity at once. `DiskInv`: a path holds at most one file, a file
  that a worker has opened stays where it was and is opened once, a copy that is
  not published yet is on no path and was never seen there. `RecordInv`: what a
  worker has renamed or published, what a recovery is about to close as
  completed, and what a closed row says, is what the ghost `placed` saw on the
  disk, with the journal's target and identity. It needs `Owned` and
  `JournalInv`: a recovery trusts the journal, and may because the row it closes
  was journaled for the file that appeared and is in nobody else's hands.
* `MoveMovedIsNotFailed`, for any number of processes. `OutcomeInv`: nobody
  knows an identity that does not exist yet or that of a copy which is not
  published (`SnapsKnown`, `CopiesUnknown`), a source that is gone is nowhere
  unless it was renamed (`SourceGone`), how far a request is tells what has become
  of its source (`WorkGone`), and a reconciliation does not roll back a move whose
  source is gone, nor fails it after one fault (`Verdicts`). The exception
  `MovedAgain` is needed: when another operation, such as a retry by another
  instance, has moved the very file to the very place, the file that stands there
  is that operation's. The bound of one fault is that of the code: the panic is the
  first, a write that fails in its recovery would be the second.
* `MoveNoLastingDuplicate`, for one instance, however often it dies. `CalmInv`:
  before any fault, an operation that has placed a file is looked after until it is
  closed, by the worker or by the start that has listed it (`Tended`), no row has
  an owner while the instance is down or starting (`OwnersGone`), two files of a
  document are the two ends of one started copy (`DuplicatesKnown`), and what a
  start has read of a row and its files is still so when it acts on it
  (`LookedAt`).
* `MoveRestoredIsExempt`, for one instance, also where moves are slow. `ExemptInv`:
  who is about to close an undo's row has just written, or will write with the row,
  the exemption of its file (`RestoresFile`, `CompletesFile`), and the organizer's
  registry is that of the database (`Registered`): it is the registry that decides
  when an entry of the database is deleted as stale. It rests on `UndoPaths`: only
  undos put a file on a watched path.
* `MoveUndoneFileStays`, for one instance and `~SlowMoves`. `CheckedInv`: a file that
  has passed the exemption check was not restored and will not be by any
  undo that is queued or under way (`CheckedFresh`), because the file of such an undo
  is still at its source and nowhere else (`UndoAtSource`), so it is not the file
  that was checked. With slow moves a file may be checked
  between the rename and the exemption; the code checks the exemption before the
  claim (`watcher/queue.rs:176`), which is why the hypothesis is needed.
* `ConflictsTypes`, `ConflictsAskedOnce` (`OrganizerConflictsProofs`). The table
  of what each place in a thread must hold is `ThreadFits`. `AskedOnce` is
  inductive with the types: rows only close, and a registration compares inside
  its transaction before it opens one.
* `ConflictsOneResolver`. `ClaimInv`: a thread of a running instance that is
  inside a resolution works under the claim in the table, which names it, and a
  start that settles a claim does so for an instance that is dead. Claims are
  compared when they are closed, so that a start which has read an old claim
  does not take away a new one.
* `ConflictsRenameIsRecorded`. `RecordInv`: while a claim stands, its row is
  neither gone nor cancelled, and the file placed for it is where its row or its
  thread will say (`RowKept`); and a thread between its look and its step knows
  what the table held (`ThreadKept`).
* `CommandsAnsweredOnce`, `CommandsRevoked` (`OrganizerCommandsProofs`). `IdInv`:
  an id that is registered, waits in the channel or is in the thread's hands
  has not been answered, the ids of channel and hand ascend, and the counter is
  ahead of all of them until it wraps. `FlagInv` follows flags: one that
  is up is the rule's current one or stray, and a request or pending file
  carries the version its flag was made for.
* `CommandsTypeOK`, `CommandsShown`. `ShownInv` follows a set of rules from the
  settings to the thread and back: the interface remembers the set of every
  command that waits or is in hand (`SetsKept`), an event that it has not read
  answers a command that was answered (`EventsAnswered`), and the last of the
  events that confirm a set, or without one what is shown already, names the
  rule in force (`ShownThen`). A new command cannot disturb this because its id
  was never answered, which is what `IdInv` says.
* `WatchSuspensionEnds` (`OrganizerWatchProofs`). `SuspensionInv`: while the
  volume is suspended, a registration of the current epoch hears the
  outcome, as the thread's own, a retired one, or one about to be
  unregistered that `raced` names.
* `WatchTypeOK`. The types, the queue within its capacity, and a watch that is
  none or closed while the volume is suspended, in four parts that are each
  inductive.
* `VolumeTypeOK`, `VolumeIndexOfCurrent`, `VolumeSearchReads`
  (`VolumeLifecycleProofs`). `IndexInv` adds to the two properties that a
  runtime under replacement has no index (`ReplacedHasNoIndex`) and that a
  client between finding and acquiring a volume holds none (`ReferenceOnly`).
* `VolumeOneWriter`. `WriterInv`: an indexer that runs is the worker of its
  runtime, and one that holds the published index runs for the registered
  runtime. Publishing keeps it because a fresh handle is held by no other
  indexer, detaching because it waits for the worker of the runtime it removes.
* `VolumeGrantedReleased`, `VolumeLockSuspends`. `RequestInv` says, volume by
  volume: one that is held is registered, its runtime is closed, discovery has not
  listed it as gone, and no callback is about to open or drop it (`Held`); what a
  callback has closed by the line it is at stays closed (`Called`); and nobody is
  inside a volume that is held for a removal (`Released`). The lemmas about
  `KeptShut` and `StaysHeld` show that a step of anybody else lets nobody back in
  and neither replaces nor drops a volume that is held: replacing waits for its own
  flag, and discovery lists no volume that is closed.
* `IndexTypes`, `IndexIsFollowed`, `SnapshotIsFollowed` (`SearchIndexProofs`).
  The inductive invariant is `TypeOK`, `Told` (the last record on a file tells
  where the file is), `Positions` (no position is ahead of the journal it
  belongs to), `Scanned` (what a scan has read lacks only what the journal holds
  after the position before the scan), `Loaded` (the same of the index in
  every phase that holds one, not only when it is served), `SnapshotFollows`, and
  three about the rows. `RowsVouched`: while the checkpoint is theirs, the rows
  are part of a copy that the journal catches up from it, and the checkpoint has
  counted the whole copy.
  `Tracked`: where the rows differ from the index, a pending row says so.
  `Inserting`: the batches of a scan are put beside nothing else. They are what
  makes the count of rows a sufficient test, and where they fail is what `drift`
  records.
* `PendingRowsAreKnown`. `PInv` adds to the property that no row waits before the
  index is caught up (`NoneBefore`), so that applying a record is the only step that
  adds one, and it keeps the two sets apart.
* `SessionTypeOK` (`SessionExitProofs`). `TypeInv` adds to the types that some
  number bounds all orders (`OrdersBounded`, so that there is a next one), what
  a window holds in each phase of its life (`Phase`), that a process has one
  global exit at a time, in its actions, with its thread or as a failure on the
  way back (`OneExit`), and that only the owner of the tray restores windows
  (`TrayKept`, `RestoreKept`).
* `SessionRestartPolicy`, from `SessionLastClose` and `SessionGroupIsKept`.
  `OrderInv`: no two closes have the same order, and that of
  a group is no window's (`GroupApart`). Every order given out is beyond all others,
  and a window keeps its own until it ends (`OrdersStep`). A window that leaves with
  the group writes nothing, and one that writes has an order other than the group's.
* `SessionClosedIsSaved`, `SessionOwnerLeavesLast`. `LeaveInv` follows the words
  of an exit: what is saved for it is written once, by its own thread
  (`ExitsApart`); the group holds its owner, windows that have restored no others,
  and all that were restored for the owner, unless they have left (`Closed`),
  because the windows are looked at while the owner has the tray and restores
  nothing; every window the thread has passed over has left (`ExitSaved`). So a
  close on its way, however late, tells a window that its session is saved, and
  the owner's that all others have left (`Sound`). `Steady` says what no step
  takes back, which is why a late message is still true.

Every type invariant and every safety property of the passing runs is stated by
a theorem. Out of the prover's reach and only model-checked: all liveness
(`OperationsEnd`, `AnsweredInTheEnd`, `DropEnds`, `FilesAreTaken`,
`ShownActive`, `FailureIsRepaired`, `Settles`, `IndexCatchesUp`, `ExitEnds`).

`MoveAssumption` says, for the proofs, that the model value `NONE` is no journal
row and no recovery's finding: tlapm has no other way to know that a record is not
that value.

## 12. Findings

With a run:

* **An undo is reversed by another instance** (UndoTwoInstances). The
  exemptions are read once, when a process starts
  (`src/infrastructure/organizer/watcher.rs:70`); another running instance
  does not learn of an undo and moves the restored file away again.
* **Stale rows are served** (StaleRows). An index loaded from a snapshot that is
  ahead of the rows forgets which of them are missing (`usn.rs:222`); the next
  persist moves the rows' checkpoint past them, and a later start that prefers
  the rows does not read the journal for them again. The other properties
  leave out what is served after that (`drift`).

Met while modelling, without a run of their own:

* Rules that the thread refuses when it starts are switched off there, all of them,
  and an `Error` event is sent that names none (`watcher.rs:51-58`). The settings go
  on showing the stored rules as enabled (`organizer_state.rs:139-146`); the status
  of each tells that it is disabled. `ShownIsInForce` says exactly that of the time
  until a set of rules is accepted (`stored`).
* More ways in which stale rows are served, left out by `drift` as well. Without
  SQLite data (`MTT_SEARCH_SKIP_SQLITE_DATA`) the checkpoint is written on top of
  the rows of an earlier run (`persistence.rs:100-118`); if one file was deleted and
  another created, the counts agree, and a start that has lost the snapshot serves
  the old rows (`usn.rs:191` compares nothing else). The full scan writes the
  checkpoint before it has deleted the old rows (`full_scan.rs:138`), with the same
  outcome after a crash or a failing deletion. And rows inserted while the checkpoint
  is an older one, because writing the new one failed, can be as many as that one says.

* A new file can be missed. A file that arrives while no watch is in place and no
  scan is due is seen by nobody: between the first scan and the first watch,
  between the reset of the watcher for a command and the next health check, and
  between the failure of a watch and its replacement. A new watcher is followed
  by a scan only if the status before was one of the outages
  (`watcher/supervisor.rs:77`, `:102-111`), while `README.md:155` says that the
  organizer recovers from watcher failures. `FilesAreTaken` leaves such files
  out (`unseen`).
* A start may settle a claim it has not read: it lists the claims, looks at the
  owner and the files, and then closes or releases whatever claim that owner has
  on the conflict (`organizer_conflict_resolutions.rs:176-207` compares conflict
  and owner). If the owner has released its claim and taken another one since the list
  was read, and has died after renaming, the old verdict is applied to the
  new claim: the conflict is open again although its file was renamed.
  `RenameIsRecorded` leaves this out (`placed`, `ours`).
* A claim whose release fails (`commands.rs:726`, `:906`) locks the conflict
  until the instance ends and another one starts, or one of its files changes:
  it can be neither resolved nor cancelled.
* A conflict that is found stale when it is to be resolved is closed as
  obsolete (`commands.rs:865`). Nobody looks at the file again until it or its
  folders change, or the organizer starts: it stays where it is without a
  question.
* A rollback can delete the last copy: `organizer_operation_actions.rs:631`
  compares the source with its snapshot and then deletes the copy without
  holding the source open. `MovesKeepDocuments` leaves this step out.
* A panic after the rename, followed by a failing write in the worker's
  recovery, closes a moved file as failed
  (`src/workers/file_operation_worker.rs:928`): `MovedIsNotFailed` is about
  one fault, and two break it. Such a row can no longer be undone.
* With two instances a duplicate can last. One dies in the middle of a move to
  another volume, between publishing the copy and deleting the source; the other
  organizes the source, which is still there, to another place; then a start
  reconciles the first row, finds the copy and no source, and completes it
  (`organizer_operation_actions.rs:630`): the document is on two paths and both
  rows are closed. `README.md:157` only says that copies are verified before
  their sources are removed. `NoLastingDuplicate` is a property of one instance.
* A panic can make the organizer reverse an undo of its own instance. Only
  `handlers.rs:910` tells the running organizer of a restored file. A worker that
  panics between the rename and that line has its row completed by the recovery
  (`file_operation_worker.rs:928`), which writes the exemption to the database but
  not to the registry in memory, so the restored file is moved away again.
* After a fault an exemption can be lost for good: the organizer deletes the
  database's entry when its own registry holds another identity for the path
  (`watcher/queue.rs:176-181`), and the registry misses the entry that a recovery has
  written. The next start then does not know that the file was restored.
  `RestoredIsExempt` therefore is about what happens before any fault, and
  about one instance: the entry that one deletes may be the other's.
* A completed row may owe its file to a later operation: the reconciliation
  (`organizer_operation_actions.rs:630`) asks whether a file with the journaled
  identity is at the target, not who put it there. `CompletedIsReal` therefore
  speaks of some operation.
* A second resume of a rule replaces its activation flag without lowering the
  old one (`watcher/commands.rs:145`): what was dispatched under it is no
  longer revoked. The interface offers resume only while the rule is shown
  paused, but two clicks before the answer arrive both (`stray`).
* A watcher whose registration was found releasable may still be unregistered
  after a removal query has begun (`removal_aware_watcher/mod.rs:19`, against
  `notifications.rs:113`): the outcome is heard by nobody, contrary to the
  comment at `retired.rs:7` (`raced`).
* An error event that meets a full queue is not handled: only the overflow
  flag is kept (`supervisor.rs:168-176`, `deaf`).
* A refused removal opens a locked volume: one flag stands for a removal query
  and for a lock, and whichever ends first clears it
  (`volume_lifecycle.rs:190` and `:202`). In the same way the end of a lock opens a
  volume that a removal was granted for. `handles/tests.rs:76-179` treats a lock
  followed by a dismount as normal, and there it is: the dismount drops the runtime.
  `GrantedIsReleased` and `LockSuspends` end where the flag is taken back
  (`Lifted`).
* A volume may be opened under a new runtime while a removal or a lock of it stands.
  `reconcile_discovered_volumes` lists the volumes that were not found, and those
  that are closed are left out (`volume_lifecycle.rs:96-102`); a volume that is
  closed after that is disconnected all the same (`:104`, `:252-263` do not look at
  `is_removing`), its registration goes with it, and the next pass that finds it
  registers and indexes it again. The two properties leave out a volume that was
  listed before it was closed (`Granted`).
* A volume can stay closed after a failed removal:
  `VolumeHandleNotifications::reconcile` may unregister a volume that a query
  has just closed (`handles.rs:80`), and nobody hears the end of that removal.
* A removal query that finds no runtime is granted (`volume_lifecycle.rs:160`),
  also when an indexer of a disconnected runtime has not ended yet.
* A dismount disconnects the runtime whose flag kept discovery away
  (`handles/custom_events.rs:32`, `usn_journal.rs:106`): discovery may open the
  volume before the operation has ended.
* The full scan saves the checkpoint before `save_volume` writes the rows
  (`full_scan.rs:138`), contrary to the comment at `index_db/sync.rs:143-144`.
  The count of rows in the checkpoint catches the crash in between if there were no
  rows before, or not as many.
* A file that was updated and then deleted between two persists may come back as
  a row (`file_index.rs:513`) until the next change of it: it is in the set of
  additions, so its deletion is taken for that of a record that "never reached DB".
* A journal that expires while it is followed is only logged and read again
  (`incremental.rs:152`): the index stays behind until the service starts
  again. `IndexCatchesUp` leaves this out.
* A catch-up that ends after one buffer marks the refresh as done
  (`usn.rs:233`) although more is to be read.
* A window of a group that is closed by itself after the group was saved and
  before its `ExitSessionGroup` arrives has the later order and replaces the
  group by its own session (`record.rs:109`); so does a window that was started
  after the windows were enumerated. `README.md:44` says that exiting all
  instances together preserves their separate sessions, and the comment in
  `session_exit.rs:255` that individual teardown must not overwrite the saved
  group. `RestartPolicy` says nothing against either: it names a window that leaves by
  itself and was closed after the group as the one exception to the group's being
  kept, and asks of a window of the group no place of its own in the record.
* The notice of a failed exit goes to the own window with a timeout
  (`session_exit/worker.rs:22`). If the window does not answer for two seconds,
  `busy` stays set, and every later "exit all" is accepted and does nothing
  (`session_exit.rs:91`). `ExitEnds` leaves this out.
* A close button that finds the tray without an owner, just after the owner has
  taken its property off and before it has released the mutex, remembers the
  order of the close (`app/operations/system_tray.rs:17`); if the tray is back
  in the next frame the window is hidden instead, and keeps the old order
  for its real close, which an earlier close of another window then supersedes.

## 13. What the models leave out

**OrganizerMove**: one rule with one source folder; its activation flag and
the shutdown flag are inputs (the worker may find either of them down wherever
it reads them), and so is the way a conflict's registration ends. Hashing,
stream copying and the temporary file are one step; the temporary file is on
no path. `UndoneFileStays` assumes that a file is not two seconds old before
the worker has released the claims of the undo that placed it (`SlowMoves =
FALSE` in OneInstance), and that nothing fails: the exemption check comes
before the claim (`watcher/queue.rs:176`), so an undo that ends later could
slip in between, and a worker that panics after it has put the file back and
before it has exempted it leaves the running organizer without the exemption
(section 12). A registry that cannot be read at a start is a fault, after which
`UndoneFileStays` and `RestoredIsExempt` say nothing. History listing, retention, schema migration
and the deduplication of skipped rows are left out. One of the four workers of a
process is modelled, here and in `OrganizerConflicts` (section 3).

**OrganizerCommands**: one rule; undo and conflict commands, which use no flag of
a rule (the latter are in `OrganizerConflicts`); drafts of rules and notices of the interface.

**OrganizerConflicts**: one rule, its switch and flags; the operation rows but
for what their end does to conflicts, retry and undo; a row for a move that
cannot be inserted; the validation of names, folders that are not there,
directories in a file's place, retention and the list in the interface. The
files are looked at in one step where the code makes two or three calls in a
row (`Check`, `Look`); the guard on the file that stays is a step of its own,
because its handle asks for attributes only and so keeps nobody from it.

**OrganizerWatch**: the buffer of the file system's notifications, whose
handler is called at once; an error may or may not mean that the watch has
stopped. A volume stays away until a health check has seen it gone
(`OutageSeen`). The growing delay between retries is one step of the clock.
Changes of a file that is already pending, the destination's own events, lock
and dismount notifications, and drives that take no registration are left out.

**VolumeLifecycle**: one letter, served by one discovery thread; the callbacks
of one registration are serialized and unregistering waits for them, as the
Windows documentation has it; a registration's handle belongs to the volume it
was opened on. Waking the discovery thread is left out because it runs by
timeout as well, and so are global shutdown and indexing progress. What an
index holds is the identity of its volume.

**SearchIndex**: one volume; hardlinks, names, sizes (only whether they are
known), the volume's identity and a record that does not fit into memory; one
journal record is one buffer. Once the indexer falls back to walking the file
system it is not followed. A lock that cannot be taken at once
(`try_write`) is a fault.

**SessionExit**: multiple instances are allowed and the start is that of the
previous session. A session is the window it belongs to: what changes in a
window between the capture of its tabs and its close is not in the group's
record. The clock does not go back, and two closes have different orders (the
code recovers from a clock that was reset, and breaks ties by process id).
Window handles and process ids are not used again. Failures of the icon, its
timer and the registration of a window, more than 128 windows and records over
the size limit are left out. The `Exit` action and the `WM_CLOSE` that was
posted with it are one close; message boxes do not wait; the window exists
until its process ends.

## 14. Not modelled

* *Rules*: pure functions over strings and paths with direct unit tests.
* *Tabs and tab transfer*: a window's tabs change on its own thread; the
  start of the child is the one that `SessionExit` models for restored sessions.
* *Thumbnails, folder previews, folder loading, directory caches, folder
  size*: what is lost or late is asked for again by the next frame or the next
  look at the folder, and every cache is rebuilt from the files.
* *Search client, IPC server*: one request at a time with a generation that is
  compared when the answer comes; beyond the lease, which `VolumeLifecycle`
  models, pipe I/O, encoding and limits.
* *Duplicates*: a sequential analysis and a deletion that compares every file
  again.
* *Export, archives, updater*: one job each with cancellation, over external
  libraries.
* *Preferences, tags, locks, covers, pins*: one SQL statement per call.
* *User interface, viewers, media, OneDrive, drive health, Explorer command,
  installer, `mpv_ui`*: rendering, decoding, device and COM calls, third-party
  code.

The user interface, viewers, decoders and thumbnails are most of the program's
lines, so the modelled code is a small share of them, though it is the larger
part of the code in which threads or processes share state that survives a
frame.
