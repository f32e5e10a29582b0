# JianArtifact in TLA+

JianArtifact is a self-hosted artifact repository server: one Go process, one
SQLite database and one content-addressed blob directory per node. This
directory holds a TLA+ model of the parts of the server where concurrency,
failure and ordering decide whether artifacts survive, the TLC configurations
that check it on small instances, and proofs, checked by TLAPS, of facts that
hold for every instance.

Paths below are relative to `apps/server/internal/` unless they say otherwise.
`PROJECT.json` maps every definition to its lines.

## 1. The system

### Components

| component | state | operations | how it interacts | module |
|---|---|---|---|---|
| Asset mutation coordinator `domain/asset_mutation.go`, `repository/asset_mutation_repo.go` | rows of `asset`, `asset_mutation`, `asset_mutation_item`, `blob_quarantine`; the read-write gate | Put, Delete, Apply (batch), RemoveIfUnreferenced, Recover | the only writer of blob references; calls the blob store under the gate | `AssetMutation`, `AtomicAssets` |
| Blob store `blobstore/store.go` | `blobs/<hash>`, `quarantine/<op>/<hash>`, `rollback.tar`; `staged` counts and removal reservations | PutStaged, ReleaseStaged, Stage, Restore, Finalize, snapshots, Remove | called by uploads without the gate and by the coordinator with it | `AssetMutation` |
| Asset service and operations `domain/asset_service.go`, `domain/asset_operations.go` | none of their own | put, publish, delete, batch delete, move, proxy and group reads; blob-gc | stage bytes, plan a batch, hand it to the coordinator, release | `AssetMutation`, `NegativeCache` |
| Directed cleanup and trash `domain/cleanup_service.go`, `domain/trash_service.go`, `repository/clean_task_repo.go` | task and `trash_entry` rows, the trash directory | preview, execute, restore, purge, expire | moves directories by path | `CleanupTrash` |
| Proxy health `domain/proxy_health.go` | per repository: state, probe slot, probe threads | beginUpstream, recordFailure, recordSuccess, recheck, reset, checkStatus | wraps every upstream fetch | `ProxyHealth` |
| Negative cache and group resolution `domain/negative_cache.go` | keys with expiry, flights | hit, add, remove, groupGet, proxyGet | filled by reads, cleared by publishes | `NegativeCache` |
| Restore `domain/restore_service.go`, `domain/restore_boot.go`, `domain/backup_import_service.go` | staged database, merged blobs, `restore.pending`, import rows | stage, cancel, apply at start-up, import | replaces the database before it is opened; blobs are merged while the server runs | `RestoreBoot`, `PackageImports` |
| Backup packages `domain/backup_service.go`, `backup_retention.go`, `backup_adopt_service.go`, `backup_orphan_cleanup.go` | rows of `backup_package`, `backups/` | generate, delete, retain, adopt, remove orphans | one directory and one table, no lock | `BackupStore` |
| Backup upload `domain/backup_upload_service.go` | session row, chunk files | create, put chunk, complete, abort, expire | concurrent handlers on one session; hands over to the adoption | `BackupUpload` |
| Scheduler `scheduler/scheduler.go` | per job: a running flag | run loop, manual run | runs blob-gc, cleanups, retention, probes | `JobScheduler` |
| OCI uploads `protocol/oci.go`, `domain/oci.go` | upload sessions, pending blobs, timers | POST, PATCH, PUT, put manifest, expire | a manifest takes its blobs and puts them back on failure | `OCIUploads`, `OCIPush` |
| Write gates `domain/freeze_service.go`, `domain/storage_quota.go`, `domain/publish_policy_service.go` | freeze window, use of the quota, reservations | freeze, admit, recheck in the commit, begin, settle | consulted by every publication | `PublishGates` |
| Migrations `domain/migration_service.go`, `migration/runner/runner.go`, `migration/offindex/scanner.go` | task row, checkpoint, created repositories, offline index | start, run, cancel, resume, finalize, scan | writes artifacts through the asset service | `MigrationTasks`, `OfflineIndex` |
| Format documents `protocol/npm.go`, `domain/format_metadata_service.go`, `domain/cargo.go` | packument, index rows, sparse index | publish, tag, unpublish, yank, proxy reads | documents are assets, changed by read and commit | `NpmPackage`, `PackageIndex`, `CargoCrate` |
| Repository administration `domain/repository_service.go`, `repository/repo_repo.go` | repositories, aliases | create, rename, update, delete | names are checked before they are written | `RepositoryNames` |
| Access control `repository/acl_repo.go`, `domain/user_group_service.go` | grants, groups, members, visibility | set list, add and remove members, delete group, check | asked by every request | `AccessControl` |
| Search index `domain/search_index_service.go`, `repository/search_index_state_repo.go` | full-text table, watermark, state | backfill, rebuild, search | follows the asset rows | `SearchIndex` |
| Counters `domain/upstream_health.go`, `domain/asset_download.go`, `domain/operations_observability.go` | counters in memory and their rows | record, flush | requests add, a loop writes | `ObservationBuffers` |
| HTTP handlers, accounts, tokens, settings, web interface | tables of their own | single-row reads and writes | go through the services above | not modelled |

### What is hard

- **No common transaction.** Asset rows are in SQLite, bytes are files. Every
  mutation is a protocol of renames, rows, an archive and a commit, and a crash
  may fall between any two steps.
- **Two locks with different scopes.** The gate serialises reference changes;
  the store's own mutex guards staged counts and reservations. Uploads hold only
  the second, a delete only the first, and the unlink of an orphan neither.
- **Images read early.** Publishes and planned operations read rows or documents
  and commit what they made of them later.
- **Counters shared by strangers.** Two uploads of the same content share one
  staged count; two publications share a day's volume.
- **Paths used later.** The cleanup, the retention and the orphan job list files
  and act on them afterwards; the trash checks a path and renames onto it.
- **Timers that have fired.** A pending blob, an upload session and a breaker
  window end by timers that cannot be stopped once they wait for the lock.
- **Check, then write.** Names, quotas, markers and immutable versions are
  looked up in one step and written in another.
- **Start-up work.** Recover and the pending restore run before the server
  serves and may themselves be interrupted.

`PROJECT.json` lists every such hazard at its line, with the properties that
cover it.

### What makes each component correct

- Coordinator and store: a visible row has its bytes; a crash at any instant
  leaves them where start-up looks; batches are atomic over the images they
  read; counts equal the uploads in progress; orphans, and only orphans, are
  removed; the gate is always given back.
- Cleanup and trash: every file in the trash has a row; a restore never
  overwrites; what is past its retention goes.
- Proxy health: one upstream probe per half-open round; a blocked repository
  has a probing thread that will look again; a reset ends the old round.
- Negative cache: only a certain 404 is kept, and what is published is seen.
- Restore: after a start the database is the old one or the whole new one, with
  its own log; a restore is applied once; merged blobs are still there; one
  import at a time, and none ends in silence.
- Backup packages and uploads: what is listed as done is whole; the slot of the
  generator comes back; an acknowledged chunk stays.
- Scheduler: a job never overlaps itself and an idle job can always be claimed.
- OCI: an image that is listed can be pulled; a session ends once, and is
  charged with the blob it brought.
- Gates: quotas hold whatever is admitted side by side; the books balance.
- Migrations: completed means complete; no failure deletes an older repository.
- Documents: lists, rows and bytes agree although requests overlap.
- Names, access, search, counters: no half creation, one answer to one question,
  no row left out of a search, no count lost or doubled while a process runs.

## 2. How the project is laid out

| modules | role |
|---|---|
| `AssetMutation`, `ProxyHealth` | the two components with the most interleaving, each with an `MC` module and runs of its own |
| `AtomicAssets` | the abstract specification that `AssetMutation` implements |
| the nineteen service modules of section 3 | one service each, with its own variables |
| `MCNode` | the services side by side, for the runs `node` and `node_live` |
| `AssetMutationProofs`, `AssetFilesProofs`, `ProxyHealthProofs` | theorems about the module of that name; `AssetFilesProofs` goes on from `AssetMutationProofs` |
| `BackupProofs` | theorems about `PackageImports`, `BackupUpload`, `BackupStore`, `RestoreBoot` |
| `PublishingProofs` | about `OCIUploads`, `OCIPush`, `PublishGates` |
| `LookupProofs` | about `SearchIndex`, `NegativeCache`, `NpmPackage`, `PackageIndex`, `CargoCrate` |
| `AdministrationProofs` | about `JobScheduler`, `AccessControl`, `RepositoryNames`, `ObservationBuffers`, `CleanupTrash`, `MigrationTasks`, `OfflineIndex` |
| `NodeProofs` | that `MCNode` composes its services: what each keeps alone it keeps in the node |

The services are modelled apart from each other. Where one relies on another, the
other's effect is an action of the module: blob-gc in `RestoreBoot` and
`OCIPush`, a purge of the cache in `PackageIndex` and `NegativeCache`, a rename
of a repository in `RepositoryNames`, an adoption in `BackupUpload`. They share
no variable in the model, so `MCNode` lets a behaviour choose one service
(`focus`) and keeps the others at their beginning: the product of their states
would only repeat what each does alone, and one run with one type invariant
stands for nineteen. `NodeProofs` proves it: a behaviour of the node is one of each
service.

Besides the code's definitions, modules hold a few named mistakes ("A mistake:
..."): a guard dropped, an order swapped, a look too early. They are no part of
a specification. For every property that is checked, `PROJECT.json` names one
that TLC finds when it takes the place of the real definition.

## 3. The model

### AssetMutation

One node. `Requests` are client requests; a request runs at most one operation,
so its name also names the operation, its quarantine directory and its archive.
`Paths` are `(repository, path)` keys, `Blobs` are contents named by their hash.

State:

- rows: `asset` (path to hash), `intent` (`asset_mutation.status`), `row`
  (`blob_quarantine.status`). The items of an intent are `items`; the commit and
  recovery need nothing else of them. `committing` is set and overwritten inside
  the commit transaction and is never visible, so it is not a value of `intent`.
- files: `active`, `quarantine`, `snapshot` (the complete entries of
  `rollback.tar`), `torn` (an archive that ends inside an entry).
- memory, lost by a crash: `gate` with the holder's loop state `todo` and
  `entries`, `held` (`Store.staged`), `reclaim` (reservations), `listed` (what a
  cleanup has picked), and `pc` with the data of each request.

Actions, in the order of the code:

| code | actions |
|---|---|
| `putWithCommitHook`, `publishAssets`, `Store.put` | `Upload`, `Land`, `PlanPublish` |
| `planDelete`, `planMavenMetadata`, `putPlannedBlob`, `planRawMove` | `PlanPrune`, `PlanRewrite`, `StorePlanned`, `PlanFails`, `PlanMove` |
| gate, `begin`, `stageUnreferenced` | `BeginPlanned`, `BeginDelete`, `StageBlob`, `StageFails` |
| `MarkStaged`, `restore` | `MarkStaged`, `MarkStagedFails`, `Undo`, `UndoDone` |
| `CreateRollbackSnapshot` | `OpenSnapshot`, `Archive`, `SnapshotFails` |
| removal of the originals | `MarkPending`, `Finalize`, `FinalizeFails` |
| `complete`, `FinalizeRollbackSnapshot` | `Complete`, `CompleteFails`, `Discard`, `DiscardFails`, `Seal` |
| `rollbackBeforeCompletion` | `RestoreSnapshot`, `RestoreEntries`, `RestoreFails`, `MarkRolledBack` |
| release and clean-up of a request | `Settle`, `Abandon` |
| `RemoveIfUnreferenced` (blob-gc and failed writes) | `Reserve`, `CountReferences`, `RemoveOrphan` |
| `collectQuarantine`, `moveToTrash` | `ListQuarantine`, `TrashQuarantine` |
| process death and `Recover` | `Crash`, `RecoverFiles`, `RecoverRows`, `RecoverCompleted`, `Resume` |

A step is what one transaction, one rename or one critical section does. Loops
over blobs take one step per blob, in any order, because the code iterates over
a Go map or a slice built from one. A failed write calls `RemoveIfUnreferenced`
for its content; the model lets that happen at any time, as blob-gc does.

`exposed` is a history variable: the blobs that have been hit by a window which
the protocol leaves open. There are six, each set in one action: a blob is
quarantined under a publish that has found it (`StageBlob`), a release takes
another upload's protection (`Release`), planning forgets its blobs
(`PlanFails`), a crash falls between rename and row or into the archiving
(`Crash`), a cleanup takes the directory of an unfinished operation
(`TrashQuarantine`). `ServedBytes`, `CrashSafe`, `OrphanStaysOrphan` and
`HoldAccounting` speak of all other blobs, so they say that these windows are
the only ones. The properties without the exception, `RowsResolve`,
`RestoresWholeBatch` and `OrphansReclaimed`, are what the documents promise;
the code does not keep them and the violation runs show it.

### AtomicAssets

The coordinator's promise about rows alone: an operation is opened with the
images it expects and leaves, and is then applied once and whole, only while
every expected image still holds, or rejected without a trace.
`AssetMutation` instantiates it with `view <- asset` and a change and an outcome
computed from `items` and `intent`; `AppliedAtomically` is its specification.

### ProxyHealth

The circuit breaker of one proxy repository; repositories share only the mutex.
`Requests` are goroutines that fetch from the upstream or run a manual recheck,
`Threads` are goroutines that can be running `checkStatus`.

State: `status`, `windowOver` (`blockedUntil` has passed), `slot`
(`probeInFlight`, by the name of the call that set it), `round` and `stopCh`
(the channel is open), `caller` and `thread` (where each goroutine is). A status
of `READY` means that the repository has no entry. A thread in its `select` is
`waiting` for the timer of the current window, `outdated` if that window was
restarted, or `stopped` if the channel it waits on was closed; the channels
themselves need no identity, because only the current one is ever open. `tries`
and `robbed` are history: the tries of this half-open round that are in flight,
and whether a call gave back this round's slot without owning it.

| code | actions |
|---|---|
| `beginUpstream` | `PassThrough`, `TryUpstream` |
| replies in `fetchProxyAsset` and `ResolveOCIProxy`, `settleUpstreamFailure` | `ReplyInconclusive`, `ReplyFails`, `ReplySucceeds` |
| the body's transfer | `TransferEnds`, `TransferAborts` |
| `recheck` | `Recheck`, `RecheckFails`, `RecheckSucceeds` |
| the `go` statement of `recordFailure` | `StartThread` |
| `checkStatus` | `ReadWindow`, `TimerFires`, `Interrupted`, `Enter`, `StayOut`, `Rejudge`, `ProbeFails`, `ProbeSucceeds`, `ProbeDiscarded` |
| time | `WindowPasses` |

One action is one critical section. `shouldBlock` is not an action: it only
makes more calls fail fast, and the NuGet fallback calls `fetchProxyAsset`
without it. There is no clock, so any length of a fetch or a transfer against
any window is covered, and the lengths of the windows are left out.

### The services

One section each: what a state is, which code the actions stand for, and what
its property spares. A step is one statement or transaction on the database, one
file operation, or one critical section of a mutex; what a goroutine has read
and not yet used is part of its state. History variables are named after what
has happened, and are used by properties only.

#### CleanupTrash

Candidates are directories: shards under `blobs/`, collected while they are
empty, and leavings (quarantine, upload and pre-restore directories). A
directory is at its path, in a task's trash, or gone.

| code | actions |
|---|---|
| `Execute` with `Create`, `MarkRunning`, `MarkSucceeded` | `CleanList`, `CleanCreate`, `CleanStart`, `CleanFinish`, `CleanJams` |
| `moveToTrash`, `InsertTrashEntries`, `rollbackMoved`, `undoMove` | `CleanMove`, `CleanRecord`, `CleanMoveFails`, `CleanRecordFails`, `CleanUndo`, `CleanUndoMark`, `CleanUndoFails` |
| `Restore` | `RestoreCheck`, `RestoreRename`, `RestoreFails`, `RestoreMark` |
| `Purge`, `ReconcileExpired` | `PurgeRead`, `PurgeOpen`, `PurgeUnlink`, `PurgeRmdir`, `PurgeMark` |
| the blob store beside it, and restarts | `MakeShard`, `LandBlob`, `TrashCrash` |

`TrashSound`: what is in the trash is listed, a rename never displaces a
directory with files in it, and the guard of one running cleanup is held only by
a goroutine that will give it back. Two windows leave a directory in the trash
without a row (`stray`): a crash between rename and row, and an undo that fails.

#### RestoreBoot

The database is its owner (this server's own, or the package of an import) and
the import records in it, kept in a file and in a write-ahead log.

| code | actions |
|---|---|
| `Stage`, `writePendingFile`, `stageAndFinish` | `StageBegin`, `StageClear`, `StageMerge`, `StageFails`, `StageOpensMarker`, `StageMark`, `StageMarkFails`, `StageFinish` |
| `ApplyPendingRestore`, `restoreImportHistory` | `BootSkip`, `BootCopy`, `BootCopyFails`, `BootSwap`, `BootUnlog`, `BootMoveRecords`, `BootDone`, `BootCrash` |
| blob-gc, deletes, checkpoints | `DeleteOwned`, `CollectUnowned`, `Checkpoint` |
| shutdown and restart | `StopServer`, `ReplaceSelf` |

`RestoreSound` and `AppliedOnce`. They spare what happened after the command
line staged while the server was staging too (`stomped`: two processes, two
mutexes), a rollback copy that a start repeated within the second has
overwritten (`lostCopy`), and records that were still in the old log when the
copy was made (`unlogged`). A torn `restore.pending` stops every start until
somebody removes it, and `StartsUp` says so.

#### PackageImports

The requests that bring a package to `Stage`: the flag `importing`, the marker
as it is seen by a request, by `Stage` and by the command line, the row, the
fetched file, and the log `restore-failures.log`.

| code | actions |
|---|---|
| `StartURLImport`, `StartLocalImport`, `beginImport`, `Create` | `ImportChecks`, `ImportFlags`, `ImportCreates` |
| `process`, `download` | `DownloadBegins`, `DownloadWrites`, `DownloadFails`, `DownloadEnds`, `ImportEnds` |
| `stageAndFinish`, `Stage`, `Finish` | `StageBegins`, `StageAdmits`, `StageRefuses`, `StageUndone`, `StageMarks`, `ImportFinishes` |
| `failImport`, `failStage`, `appendRestoreFailureRecord` | `RowFails`, `TraceFailure` |
| the command line, restarts | `CliMarks`, `ImportsRestart` |

`ImportsSound` gives the flag an owner, shows every marker as pending, and
leaves no failure untold unless the writes that tell of it fail themselves: of
a failed stage there are two, of a failed fetch one.

#### BackupStore and BackupUpload

`BackupStore` numbers packages as they are created; a package has a row, a base,
an archive (none, partial, whole) and an index file. `BackupUpload` is one
session with its chunk files, `.tmp` files, joined file and row; an open file is
followed through a rename, as the operating system does.

| code | actions |
|---|---|
| `Generate`, `run`, `writeSidecar`, `endGenerate` | `GenBegin`, `GenClaim`, `GenRecord`, `GenRecordFails`, `GenPack`, `GenWrite`, `GenIndex`, `GenFinish`, `GenFails`, `GenClean`, `GenEnds` |
| `Delete`, retention `Run` | `RetentionList`, `RemoveBegin`, `RemoveFile`, `RemoveIndex`, `RemoveRow` |
| `Scan`, `Adopt`, `AdoptUploaded` | `AdoptBegin`, `AdoptRegister`, `AdoptIndex`, `UploadBegin`, `UploadMove`, `UploadRegister` |
| orphan cleanup `Run` | `SweepRead`, `SweepDiff`, `SweepRemove`, `SweepEnd`, `Age` |
| `ReconcileStartup` | `StoreCrash` |
| `PutChunk` | `PutBegin`, `PutCreate`, `PutWrite`, `PutWriteFails`, `PutClear`, `PutRename`, `PutSettle` |
| `Complete`, `assemble`, `moveFile` | `CompleteBegin`, `CompleteCreate`, `CompleteAppend`, `CompleteClose`, `CompleteCheck`, `CompleteStore`, `CompleteRegister`, `CompleteSettle`, `CompleteFails` |
| `Abort`, `ReconcileExpired` | `UploadAbort`, `UploadRemove`, `Sweep`, `UploadCrash` |

`DoneIsWhole` spares packages that were adopted while being written or removed
(`exposed`) and those whose generation or deletion a crash cut off (`cutOff`): a
crash inside `WriteBundle` leaves an archive whose manifest can be read, which
start-up marks as done. `RegisteredWhole` spares two `Complete` requests at
once. Limits on sessions and bytes are not modelled as numbers: two chunks in
flight can each pass the check of the quota, and the `.tmp` files of a crash
count towards it.

#### JobScheduler

Loops and manual triggers, the claim and every way it is given back, a panic
included (`LoopWakes`, `LoopClaims`, `LoopInvokes`, `LoopReleases`,
`TriggerClaims`, `TriggerInvokes`, `TriggerReleases`,
`SchedulerStart`, `Cancel`). `OneRunPerJob` has no exception.

#### NegativeCache

One path, a group with a hosted member and proxies. `entry` is the age of each
repository's 404; reads look at all local copies, ask all proxies, and settle.

| code | actions |
|---|---|
| `resolve`, `groupGet` | `ReadBegin`, `ReadDirect`, `ReadLook`, `ReadGivesUp`, `ReadFork`, `ReadSettle` |
| `proxyGet`, `fetchProxyAsset` | `AskEntry`, `AskLocal`, `AskAgain`, `FlightAsks`, `FlightFails`, `FlightMisses`, `FlightStores`, `FlightEnds` |
| `cacheNuGetProxyPackage` | `PackagerBegins`, `PackagerAsks`, `PackagerEnds` |
| publishes, deletes, time | `Published`, `Withdrawn`, `CopyDeleted`, `EntryAges`, `EntryGoes` |

`NothingHidden` spares one thing the comment of `negative_cache.go` excludes and
the code does: a local read of a hosted member that fails makes the group sure
of a 404 (`misreads`).

#### OCIPush and OCIUploads

`OCIPush`: pending entries (numbered, as the code compares pointers), timers that
have fired, holds, rows and bytes. `OCIUploads`: sessions, their mutex, their
file, reservation and timer, and what a closer has still to clean up.

| code | actions |
|---|---|
| `Post`, `putBlob`, `closeUploadLocked` | `SessionOpen`, `PushStage`, `PushMismatch`, `PushStored` |
| `storePending`, `takePending`, `expirePending` | `TimerFires`, `Expire`, and the operators `StorePending`, `TakeBlob`, `RestoreBlob` |
| `putManifest` | `ManifestBegin`, `FindBlob`, `ManifestStage`, `ManifestRefused`, `ManifestCommit`, `ManifestFails`, `ManifestRelease`, `ManifestEnds` |
| blob-gc, restart | `GarbageJob`, `PushRestart` |
| `Post`, `storeUpload` | `PostReserves`, `PostMakesFile`, `PostFails`, `PostStores` |
| `Patch`, `completeUpload`, `copyUploadChunk` | `LookUp`, `LockOpen`, `LockClosed`, `ChunkAppends`, `ChunkEnds`, `ChunkRefused`, `PutRead`, `PutAdmitted`, `PutMismatch`, `PutStores` |
| `closeUploadLocked`, `expireUpload` | `CloseLocked`, `CleanUp`, `TimerExpires`, `TimerCloses`, `SessionsRestart` |

`HoldsCover` bounds holds from below only: an entry that is replaced leaks its
hold until a restart. `ChargedForBlob` spares a crash between storing the blob
and settling.

#### PublishGates

One account with a daily volume and one repository with a quota.

| code | actions |
|---|---|
| `Admission`, `Begin`, `BeginStreaming`, `Reserve` | `Admission`, `BeginKnown`, `MeasureRest`, `ReserveRest` |
| `copyUploadChunk`, `ValidateUnresolvedPublish` | `Spool`, `ValidateUnresolved`, `PublishBroken` |
| `putWithPrimaryOperation`, `CheckCommit` | `PublishPlanned`, `PublishCommit`, `ReadBack` |
| `SettleBytes`, `SettleSize`, `ReleaseExpired` | `SettlePublished`, `SettleFailed`, `SettleRefused`, `GatesRestart` |
| the rest of the world | `FreezeOrThaw`, `NextDay`, `ArtifactDeleted` |

`BooksBalance` spares what a restart separates from its settlement. A
settlement that the freeze window refuses keeps its reservation until a restart
expires it.

#### MigrationTasks and OfflineIndex

`MigrationTasks`: the row of each task, its checkpoint, the goroutine that holds
its lock, and what each administrator has read. `OfflineIndex`: the properties
files under a root, the rows of the index, the scan with its batch in memory.

| code | actions |
|---|---|
| `Start`, `Resume`, `Cancel`, `Finalize` | `StartReads`, `ResumeReads`, `CancelReads`, `CancelPlanned`, `CancelForces`, `CancelSignals`, `FinalizeBegins`, `FinalizeItem`, `FinalizeEnds`, `RunningSet` |
| `run`, `importItem`, `topology` | `RunLocks`, `RunRegisters`, `RunLoads`, `RunCreates`, `RunCreateFails`, `RunReadsPaths`, `RunSkips`, `RunConflicts`, `RunDecides`, `RunWrites`, `RunWriteFails`, `RunCancelled`, `RunStops`, `RunLeaves`, `RunCompletes` |
| `failWithRollback` | `RunFails`, `RunRollsBack` |
| other writers, restart | `LocalPublish`, `MigrationRestart` |
| `StartScan`, `run`, `fail`, `Cancel` of the scanner | `ScanStarts`, `ScanAnnounces`, `ScanClears`, `ScanMeets`, `ScanPasses`, `ScanFlushes`, `ScanReports`, `ScanWalked`, `ScanPrunes`, `ScanReady`, `ScanFails`, `ScanCancelled`, `ScanStops`, `ScanEnds` |
| `enumerateFromOfflineIndex` | `ListerLooks`, `ListerLists` |

`CompletedWhole` and `CheckpointTrue` spare what a rollback has deleted
(`rolledBack`): the checkpoint keeps the items, and a resumed run skips them.
`OfflineSound` spares writes of the index that fail, since the scanner ignores
them.

#### NpmPackage, PackageIndex and CargoCrate

Contents are named by the request that brings them. In all three a request
builds on what it has read and commits with images of a later reading.

| code | actions |
|---|---|
| npm `publish`, `publishAssets` | `PublishReads`, `PublishStages`, `PublishPlans`, `PublishCommits`, `PublishConflicts` |
| `distTagPut`, `distTagDelete`, unpublish | `TagReads`, `TagPlans`, `TagCommits`, `UnpublishPlans`, `UnpublishCommits` |
| `publishPyPI`, `publishNuGet` | `UploadChecks`, `UploadPlans`, `UploadCommits` |
| `pypiFiles`, `NuGetPackages`, `cachePyPIProxyFile`, `ResolveNuGet` | `FetchLists`, `IndexJoins`, `IndexLoads`, `IndexFails`, `FileWanted`, `FileJoins`, `FileFetched`, `FileCached`, `FileServed` |
| retention, upstream | `FilePurged`, `OriginChanges` |
| `publishCargo`, `SetYanked` | `CrateChecks`, `CrateReads`, `CratePlans`, `CrateCommits`, `CrateRefused`, `YankReads`, `YankCommits` |

What lies between the two readings is not noticed, so a version that changed
there is spared (`overtaken`, `overlaid`, `lapsed`): the second of two
overlapping publishes takes the first one's version off the list, or replaces
its file. The properties say that nothing else can come apart.

#### SearchIndex, RepositoryNames, AccessControl, ObservationBuffers

| code | actions |
|---|---|
| `Start`, `Rebuild`, `backfill`, `FetchBatch`, `WriteBatch`, `MarkCompleted` | `StartFill`, `Rebuild`, `Clear`, `LoadState`, `FetchBatch`, `WriteBatch`, `BatchFails`, `FillGivesUp`, `Compare`, `MarkCompleted`, `DemoteOnMissing`, `IndexRestart` |
| writers and readers of assets | `InsertAsset`, `DeleteAsset`, `MoveAsset`, `CascadeDelete`, `SlipIn`, `SearchBegins`, `SearchQueries` |
| `Create`, `Rename`, `Update`, `Delete` of repositories | `CreateChecks`, `CreateInserts`, `CreateFinishes`, `CreateFails`, `CreateUndoes`, `CreateUndoFails`, `RenameReads`, `RenameWrites`, `UpdateReads`, `UpdateWrites`, `DeleteReads`, `DeleteWrites` |
| grants, groups, visibility | `SetAcl`, `CreateGroup`, `AddMember`, `RemoveMember`, `DeleteByGroup`, `DeleteGroup`, `SetVisibility`, `SetAnonymousAccess` |
| the three kinds of counters | `RecordProtocol`, `RecordDownload`, `RecordSample`, `TakeOut`, `AddOne`, `AddAll`, `PutBack`, `Signal`, `ProcessEnds`, `RepositoryGoes` |

`SlipIn` is a row that something else than the server inserts, which the code
provides for by its comparison. `FailedCreateGone` spares a creation whose row
was renamed in the middle, because the compensation goes by name, and one whose
deletion fails. `AccessAgrees`
compares operators over the same rows (one repository, a list, a search), so its
steps are the changes of grants and groups. `CountsKept` counts what is lost
with a process in `gone`.

## 4. The runs

| run | expects | shows |
|---|---|---|
| `mutation` | pass | the seven invariants, with every failure, one cleanup, one crash |
| `mutation_live` | pass | the refinement of `AtomicAssets` and four liveness properties |
| `shared_blob_deleted` | violation | a publish relies on a blob that a concurrent delete quarantines |
| `crash_before_record` | violation | a crash between the rename and `MarkStaged` loses the blob |
| `crash_in_archive` | violation | start-up trusts a half-written `rollback.tar` |
| `cleanup_takes_snapshot` | violation | a directed cleanup removes what a rollback needs |
| `plan_leaks_hold` | violation | a failed plan keeps its metadata blob protected for ever |
| `breaker` | pass | an open breaker is watched and recovers, its slot is never lost, threads end |
| `one_try_per_round` | violation | a call of before the outage gives away the half-open slot |
| `thread_spins` | violation | after a 404 in a half-open round the thread has no round to wait for |
| `node` | pass | the safety properties of the nineteen services, each in every interleaving of its actors, failures and restarts |
| `node_live` | pass | garbage goes, services come back, and a published artifact is seen |

Bounds of `mutation`. Two requests are enough for every conflict between two operations and
for an operation against an upload; the third actors (blob-gc, cleanup, crash)
are not requests. Two paths give a batch of two, a shared blob, a move and a
rewrite; two blobs give a quarantine of two and an archive that can be cut after
one. `MaxCrashes = 1` puts one crash at any step, recovery included, where a
second start-up then repeats it. `mutation_live` has one blob, so it checks
liveness without symmetry; it includes `put`, which reads its image under the
gate, and leaves out the failure `plan`, which breaks `OrphansReclaimed` as
`plan_leaks_hold` shows. Deadlock is not checked: requests are finite in number
and a failed start-up ends the process.

Bounds of `breaker`. Three requests give the call that opens the breaker, one of
before the outage and one that holds the slot; three threads let a
second and a third failure start one each while older threads are still probing,
and a request that has a thread to start waits for a free one. `MaxCalls = 5` bounds the traffic, so `Recovers` says that no finite
history of calls leaves the breaker open for ever; under endless traffic that
always ends in 404 the slot may be taken before the thread gets to it, and then
nothing is promised. Deadlock is not checked: after the last call and the last
thread nothing is left to do.

Fairness of `breaker`. Calls end because their contexts have deadlines (`WF` of
`Reply`), goroutines are scheduled (`WF` of `Starts` and `ThreadStep`) and time
passes (`WF` of `WindowPasses`). `SF` of `ProbeSucceeds` is an assumption about
the upstream and not about the code: one that is probed again and again is back
at some time. Without it a breaker rightly stays open.

Fairness of `mutation_live`. Goroutines run (`WF` of `Continue`), start-up goes on (`WF` of
`Recovering` and `Resume`), blob-gc walks all blobs periodically and finishes a
removal it has begun (`WF` of `Reserve` and `Reclaiming`). A writer that waits
for the gate is served because `sync.RWMutex` is starvation free; with finitely
many requests `WF` says as much. `StorePlanned` has `SF`: the upload waits on a
condition variable that is broadcast whenever a reservation ends, and the job
visits a hash once per period. Nothing forces a client to submit a request, a
person to clean, or the process to crash.

Bounds of `node`. Each service has two of whatever competes for one thing and one of the
rest, and the services that persist something may be restarted once at any
step, the search index in `node_live` only.

| service | instance |
|---|---|
| trash | one shard; two leavings, one cleanup and one crash, or two cleanups and no leaving (`TrashSizes`): a batch to roll back, and two that want the guard; a user and the trash-gc job |
| restore | one import of the server and one of the command line, one blob, one death |
| backups, upload | two packages, two generators, the retention, one adopter, two goroutines at once; one chunk, two puts and a `Complete`, two at once; one fewer at once after a death |
| jobs | two jobs, two triggers |
| negative | one proxy, two readers; the fetches outside the flight and a failing local read are in `node_live` |
| oci, sessions | two pushes, two manifests that share two layers; one session, two requests, a limit of two pieces |
| gates | two publications, one of one byte and one of two, on two paths, quotas of two and three |
| migration, offline | one task with two items, of an old and of a new repository, one resume; two files about one asset, two scans, one change; a failing write of the index is in `node_live` |
| search | three ids, two of them older than the index, batches of one, two tries |
| names, access | two creations, a rename, an update, a delete and two names; one repository, two users, one group |
| npm, packages, cargo | two versions and two publishes with a tagger and an unpublisher; one file, two uploads, two readers, two contents upstream; two versions, two publishes, a yank |
| counts | two counters, a cap of one, three records, one failing write, one end of the process |
| imports | two from a URL, one local, one failing write |

What `node` leaves to `node_live`, and what both leave out of the counts of failures
and restarts, the theorems of section 5 cover: each safety property of the two runs
is proved for every value of the constants.

What these bounds leave out is a third competitor. No code here treats a third
differently from a second: locks, claims and transactions know one holder and
everybody else, and checks compare with one row. `Swaps` exchanges `a` and `b`,
which stand only for actors or directories that no definition tells apart; it is
used in `node`, which has no liveness property. Deadlock is not checked in the two runs: most
actors run once, and a torn marker ends the process for good.

Some invariants bundle the parts of one service or of like services, named in
the module (`TrashSound == TrashListed /\ NeverOverwritten /\ GuardHeld`);
`ListingsSound`, `MigrationsSound`, `GarbageGoes` and `ServiceComesBack` are
put together in `MCNode`.

Fairness of `node_live`. Goroutines that are under way go on (`WF` of the steps
of restores, purges, generations, deletes, adoptions, backfills, uploads, imports
and scans; a body ends and a fetch has a timeout). Timers fire and time passes
(`WF` of `LoopStep`, `Age`, `EntryAges`, `TimerExpires`, `TimerCloses`). A
supervisor starts a process that has died (`WF` of `BootStep`). Jobs come round:
`SF` of `PurgeRead` for the trash-gc job and of `SweepRead` for the hourly
cleanup, since an entry or a file may be taken in hand by somebody else in
between and is met at a later round. The flush takes its counters in the order
of a Go map, which is drawn anew each time: `SF` of `AddOne` says that each comes
first again and again. No request, cleanup, backup or publish is forced to
happen. `PublishedIsSeen` needs no fairness but time: the entry of a group goes
by expiry alone.

## 5. The proofs

`AssetMutationProofs` proves, from `ConstantsAssumption` alone (finitely many
requests and paths, sentinels distinct from values):

- `TypeCorrect`: `Spec => []TypeOK`. `TypeOK` is not inductive, because `Land`
  stores `up[r]`, which the type allows to be no blob; `Shape` adds what each
  kind of request stages and what its batch may refer to.
- `HoldsAccounted`: `Spec => []HoldAccounting`. Staging adds one count and one
  holder, a release removes one of each, or its blob is exposed; every other
  step changes neither (`QuietSteps`).
- `OrphansStayOrphans`: `Spec => []OrphanStaysOrphan`. A reservation starts at
  count zero and makes uploads wait, so with the accounting nobody holds a
  reserved hash. A commit refers to nothing but what its request holds or, in a
  move, what a row already names (`CommitKeepsOrphans`), so an orphan gains no
  row either. The gate plays no part after the count has been taken.

`ProxyHealthProofs` proves, again from `ConstantsAssumption` alone and so for any
number of requests, threads and calls:

- `BreakerTypeCorrect` and `SlotAlwaysOwned`, from the inductive `Consistent`:
  `stopCh` is open exactly while the breaker is, and the slot is taken only in a
  half-open round by a call that is still out. Both halves are needed: a probe
  that finds `stopCh` gone leaves without freeing a slot, and may, because a
  closed breaker has none taken.
- `AlwaysWatched`: `Spec => []Watched`. Threads leave after a closed channel, so
  the invariant counts only those that will not (`Stays`), and a failure that
  finds no `stopCh` supplies the one to start.
- `OneTryUnlessRobbed`: `Spec => []OneTry`, from `OwnerOnly`, which says that the
  round's tries are its slot's owner until somebody else gives the slot back.
- `LateProbesIgnored`: `Spec => ThreadsOnlyReblock`.

`AssetFilesProofs` goes on from there, with no further assumption. It follows one
operation through its steps:

- `CrashesAreSafe`, `BytesServed`, `RecoveryAlwaysSettles`, `GarbageNotLost`. None
  of the four is inductive. `Kept` adds what the database holds of an operation at
  each step (`GateHeld`, `IntentRecorded`, `RowsRecorded`), which files it has
  (`Files`), where the bytes of the hashes in hand are (`Bytes`), and what start-up
  finds of an operation whose request is gone (`Undecided`). That the commit leaves
  no row without bytes takes two more: what was moved away is counted as
  unreferenced under the same gate and stays so (`Counted`), and what the batch
  refers to anew has landed and is held (`Landed`); for this the proof needs
  `HoldAccounting` of the first module. A blob in `exposed` is excused from all of
  it, which shows that the six windows are the only ones for any number of actors,
  not only for two.
- `RowsChangeAtomically`: `Spec => AppliedAtomically`, the refinement of
  `AtomicAssets`. `Begin` maps to opening, `Complete` to applying, `MarkRolledBack`
  and recovery to rejecting, and each other step to a stutter. Applying needs that
  no other commit comes between the look at the images and the commit: the look is
  part of the transaction.

The services have a theorem each, from the `ASSUME` of their module alone:

- `TrashAlwaysSound`: `OnceMoved` (a cleanup moves a path once, so a settled row
  never speaks of a directory that is in the trash again), `OneInHand`, `RowOrHand`
  and `CallsKnow` (what a restore or a purge has found is still so when it acts on
  it).
- `ImportsAreSound`: `RowFollows` says what the row is at each step of the
  goroutine, `MarkFollows` whose marker there may be. That an import overwrites no
  other's marker needs `FlagHasOwner` and the second look of `Stage` together:
  without the flag two imports could unpack at once, without the look an import
  could overwrite the one that a finished import left.
- `UploadAlwaysSound`: outside `overlapped` and `contested`, a package file and a
  chunk's `.tmp` file have one writer from Create to Rename (`OneCompletes`,
  `OnePuts`); so what is renamed is what was written.
- `BackupsAlwaysSound`: `GeneratorsKnow` and `NothingUnborn` tie rows and archives to
  the generator that makes them; `LateDiscards` and `DeletesLooked` say what an
  adoption, a cleanup of orphans or a delete still knows of what it looked at
  before, or that the package is in `exposed` or `undercut`. `Discards` counts
  other uploads only: an adopter's removal of the archive it has received itself is
  no danger to the row it is about to insert, so `DoneIsWhole` does not excuse it.
- `RestoreAlwaysSound` and `NeverAppliedTwice`: one import has the staging directory
  to itself and the marker names what is whole in it (`OneStages`), a package to be
  applied has not been served (`NewEachTime`), a log beside the database is its own
  or that of the database just swapped out (`LogKnown`), and the import records of
  the old database are on their way to the new one (`HistoryOnItsWay`). What two
  processes that stage at once destroy is excused by `stomped`; the old databases
  and their import records are not.
- `SessionsAreSound`: `Lives` says that a listed session is open and reserved,
  `KnowsSession` that whoever owns a mutex owns a listed session, `Closers` that a closed
  session has at most one closer to come and that a closer after a stored blob still
  finds its reservation. A request that waits may hold a closed session; only the
  look at the flag after locking turns it away, and the proof fails without it.
- `ImagesAlwaysSound`: the staged references of a blob are at least the pushes and
  the manifests that need one and the entry of the map (`HoldsCover`, counted with
  `Cardinality`); what is held is on disk (`BytesStay`), and every blob of a
  manifest is still to be looked for, taken or in a row (`AllFound`).
- `GatesAlwaysSound`: the quotas speak of sums over sets. That they hold needs
  `RowsFollow` (a reservation has a publication that settles it) and `AsksEnough`
  (nobody reads more than was reserved, since the limit of the reader is at most
  that); so the settlement never moves more to the day than it takes from the
  reservations.
- `IndexAlwaysSound`: a batch in hand has no gap above the watermark (`AtWatermark`,
  `BatchDense`) and a comparison that found nothing missing still holds when the
  index is marked complete (`ComparisonHolds`); writers keep both, since they write
  row and entry in one transaction.
- `NothingEverHidden`: `NeverAnswered` says of a proxy whose upstream has had the
  artifact all along that no 404 of it is under way, cached or confirmed; `AsksAll`
  and `HostedIsMet` that a read of the group that asks has asked everybody or
  knows that it is unsure.
- `OneRunAlways`: the marker of a job and the claims of its loop and triggers agree
  (`Claims`), which is the property for any number of jobs and triggers once the
  types are known.
- `AccessAlwaysAgrees`: that the three checks agree is a lemma about operators
  (`SatisfyingGrants` splits by subject), and needs no history; that no grant dangles
  does, because a deletion takes the entries first and the group with its members,
  and with entries made meanwhile, later.
- `NamesAlwaysSound`: `Knows` is what a request may still believe of what it has
  read, `RowOfCreate` where the row of a creation is: nowhere before its insert and
  after a refusal, and under its own name while the compensation may still look for
  it.
- `CountsNeverLost`: the balance of each counter, and that the rows of a deleted
  repository are gone with it.
- `MigrationsAlwaysSound`: a checkpoint is written from the memory of a run, and a task
  completes by it, so the invariant (`RunKnown`) speaks of the memory: what a run has
  finished or taken from the checkpoint has been brought into its target (`Brought`:
  is there, or was until a rollback), a run that copies has finished all it does not
  still have before it, and what it has created was not there before all migrations.
- `OfflineAlwaysSound`: `ScanMarks` follows a scan: what it has met has been there,
  it keeps the rows of all it has met, and after the walk it has met all that was there
  throughout. `RowsCome` says that what it has met has a row that the end of the scan
  does not delete, or is in the batch in hand, so that the last flush makes it true of
  the rows; `StatusTells` that no index under work reads ready, `ListersKnow` that no scan
  has touched the rows of a migration that has seen it ready, unless one has started
  since.
- `NpmAlwaysSound`: `RequestKnown` says of a request that its new document is the one
  it has read with its own change (`PublishKnown`, `TagKnown`, `UnpublishKnown`), that the
  tags of the document in hand lead to versions of it (`Leads`), and that the tarballs it
  is to write are its own or of publishes that are done. `Leads` is what keeps `TagsLead`,
  which `overtaken` does not excuse: a commit replaces the whole document, versions and
  tags at once.
- `PackagesAlwaysSound`: `PlansKnow` says that an upload whose plan found a file there has
  counted it in `overlaid`; `ShownStays` that the digest a reader of a PyPI proxy was
  shown is still that of the row, and that what it has fetched has it. Which steps a
  kind of feed has at all is `FeedKnown`.
- `CratesAlwaysSound`: the property with the types and with the version of each request
  (`VersKnown`) is inductive, because a commit whose images have changed since adds its
  version to `lapsed`.

Sums. `PublishGates` adds up sizes with `SumFunctionOnSet`, whose definition is a
recursive function chosen by `CHOOSE`. The library's induction rules take an operator
as a parameter and cannot be used here, but well-founded sets can: `NaturalSet` says
that a set with 0 and every successor holds all natural numbers, and is proved from
`WFMin`. From it follow, by the number of members, that the sums exist, that two
functions that agree have the same sum, and that any member can be taken out first
(`SumsExist`, `SumsAgree`, `SumsTakeOut`).

`NodeProofs` puts the services together, from the `ASSUME`s of all of them.

- `NodeRunsItsServices`: `NodeSpec` implies the specification of each service. A step
  of the node is a step of the service that runs and leaves the variables of the others
  as they are, so it is a step of each or a stutter of it (`NodeSteps`).
- `ServicesSoundInNode`, `MigrationsSoundInNode`, `ListingsSoundInNode`: so what a service
  keeps alone it keeps there.
- `NodeTypesAlwaysOK`: `NodeSpec => []NodeTypeOK`. The types of a service are a conjunct of
  its inductive invariant. Those of the counters are bounded by the bound of the run
  on the sum of what was recorded; `Bounded` carries that sum through the steps, with
  the lemmas on sums from above, and the balance of the counters gives the rest.

The inductive invariants were checked with TLC, on the constants of the runs or
smaller ones, before they were proved.

Every safety property and every action property that a passing run checks is stated by
a theorem. Only model-checked are the liveness properties, whose fairness needs
`ENABLED` and is out of the prover's reach: `GateFreed`, `Recovered`, `RequestsFinish`,
`OrphansReclaimed`, `Recovers`, `ThreadsEnd`, `GarbageGoes`, `ServiceComesBack` and
`PublishedIsSeen`.

## 6. What the models show besides

Some of these are behind the exceptions in the properties; none needs more than
two actors.

- Crashes: an archive torn behind its manifest is later listed as done; rows of
  imports under way are never reconciled; an OCI blob that was stored before the
  crash is not charged; `ReleaseExpired` at start-up drops the reservation of what
  was committed and not settled; a scan cut off stays "scanning"; counters in memory are lost, also
  at an orderly stop (`domain/upstream_health.go` says that it flushes once more).
- Compensation by name: `Create` takes a name that is another repository's alias
  (`persistence/migrations/0041_repository_alias.sql` says otherwise), and its undo
  and `Delete` go by name, so that they may hit another repository after a rename.
- A failing local read of a hosted member lets a group keep a false 404, and a
  publish to a hosted member does not remove the group's entry.
- A failed migration deletes the repositories it has created while its checkpoint
  keeps their items, so that `Resume` skips them
  (`docs/specs/0.4.0-migration-execute.md`).
- A PyPI proxy file that the retention has deleted cannot be fetched again:
  `cachePyPIProxyFile` has written `MetadataJSON` over, which told where the file
  comes from, while `docs/specs/0.11.0-storage-governance.md` counts on the upstream.
- npm and Cargo documents lose an update that comes between the reading and the
  images of another request.
- A search without a user lets the groups of the anonymous user count, a read
  does not.
- A health sample of a deleted repository fails its foreign key at every flush.
- The offline index: failing updates of the status are ignored, and "ready" may
  stay over rows that were cleared.

## 7. Not modelled

- Power loss and missing fsync: a crash is the death of the process, the
  operating system keeps what was written.
- Failures of the bookkeeping writes inside a rollback, and of recovery's own
  transactions; a database that cannot be written at all.
- `RollbackCompleted`, received intents and `DeleteRolledBack`: replication is
  retired in this version and no path calls them.
- Moves of more than one path and publishes of more than one asset. The commit
  treats items one by one, and batches of two are covered by deletes and
  rewrites.
- The archive and the quarantined copies that a rolled back operation leaves in
  its directory; only a directed cleanup removes them.
- Lengths of times: breaker windows and tiers, time to live, schedules. Any order
  of expiry and event is allowed instead.
- The content of archives, manifests and documents, parsing and rendering, the
  tokenizer and ranking of the search, reports.
- Format proxies other than PyPI's and NuGet's index, group merges of documents,
  OCI tags and deletes, Maven beyond its metadata document.
- Commands of the command line beside a running server, except staging a restore.
- Accounts, passwords, tokens, second factors and settings: row by row, with
  nothing carried from one step to the next.
- HTTP handlers, the router generated from the interface description and the web
  interface: a third of the code, with no state of their own.
