------------------------------ MODULE MCNode ------------------------------
(***************************************************************************)
(* The services of a node beside the asset mutations and the breaker.      *)
(*                                                                         *)
(* In the model they share no variable, so a behaviour runs one of them,   *)
(* chosen at the beginning, and leaves the others where they begin: what   *)
(* holds of each alone is all there is to find, and a product of their     *)
(* states would add nothing to it.                                         *)
(***************************************************************************)
EXTENDS CleanupTrash, RestoreBoot, BackupUpload, BackupStore, JobScheduler,
        NegativeCache, OCIPush, PublishGates, MigrationTasks, SearchIndex,
        RepositoryNames, AccessControl, NpmPackage, ObservationBuffers,
        PackageIndex, CargoCrate, OCIUploads, PackageImports, OfflineIndex, TLC

CONSTANTS
  Services,     \* the services a run looks at
  a, b, c, d,   \* names for whatever an instance has two of that are alike
  i1, u1, g1,   \* an item, a user and a group
  TrashSizes    \* what a trash may have: leavings, cleanups and crashes to come

VARIABLE focus  \* the service that runs

nodeVars ==
  <<focus, trashVars, bootVars, uploadVars, backupVars, schedVars, negativeVars,
    pushVars, gateVars, migrationVars, indexVars, namesVars, accessVars, npmVars,
    bufferVars, packageVars, crateVars, sessionVars, importVars, offlineVars>>

\* A service that does not run has one beginning.
NodeInit ==
  /\ focus \in Services
  /\ TrashInit
  /\ IF focus = "trash"
     THEN <<Cardinality(dirFull), Cardinality({t \in Tasks : cleanTask[t] = "none"}),
            TrashCrashes - trashCrashes>> \in TrashSizes
     ELSE dirFull = {} /\ trashCrashes = 0 /\ cleanTask = [t \in Tasks |-> "none"]
  /\ RestoreInit /\ (focus # "restore" => ~blobHere)
  /\ UploadInit /\ StoreInit /\ SchedulerInit
  /\ NegativeInit /\ (focus # "negative" => always = {})
  /\ PushInit
  /\ GatesInit /\ (IF focus = "gates" THEN {publish[p].size : p \in Publishers} = BodySizes
                  ELSE publish = CHOOSE f \in AnyPublish : TRUE)
  /\ MigrationInit /\ (focus # "migration" => \A t \in Migrations : policy[t] = "skip")
  /\ IndexInit /\ NamesInit /\ AccessInit
  /\ NpmInit /\ (focus # "npm" => ~npmImmutable)
  /\ BufferInit /\ (focus # "counts" => buffer = "protocol")
  /\ PackageInit /\ (focus # "packages" => feed = "hosted")
  /\ CrateInit
  /\ SessionsInit /\ ImportInit
  /\ OfflineInit /\ (focus # "offline" => propsThere = {})

\* The services that do not run.
OthersStand ==
  /\ UNCHANGED focus
  /\ IF focus = "trash" THEN TRUE ELSE UNCHANGED trashVars
  /\ IF focus = "restore" THEN TRUE ELSE UNCHANGED bootVars
  /\ IF focus = "upload" THEN TRUE ELSE UNCHANGED uploadVars
  /\ IF focus = "backups" THEN TRUE ELSE UNCHANGED backupVars
  /\ IF focus = "jobs" THEN TRUE ELSE UNCHANGED schedVars
  /\ IF focus = "negative" THEN TRUE ELSE UNCHANGED negativeVars
  /\ IF focus = "oci" THEN TRUE ELSE UNCHANGED pushVars
  /\ IF focus = "gates" THEN TRUE ELSE UNCHANGED gateVars
  /\ IF focus = "migration" THEN TRUE ELSE UNCHANGED migrationVars
  /\ IF focus = "search" THEN TRUE ELSE UNCHANGED indexVars
  /\ IF focus = "names" THEN TRUE ELSE UNCHANGED namesVars
  /\ IF focus = "access" THEN TRUE ELSE UNCHANGED accessVars
  /\ IF focus = "npm" THEN TRUE ELSE UNCHANGED npmVars
  /\ IF focus = "counts" THEN TRUE ELSE UNCHANGED bufferVars
  /\ IF focus = "packages" THEN TRUE ELSE UNCHANGED packageVars
  /\ IF focus = "cargo" THEN TRUE ELSE UNCHANGED crateVars
  /\ IF focus = "sessions" THEN TRUE ELSE UNCHANGED sessionVars
  /\ IF focus = "imports" THEN TRUE ELSE UNCHANGED importVars
  /\ IF focus = "offline" THEN TRUE ELSE UNCHANGED offlineVars

NodeNext ==
  \/ focus = "trash" /\ TrashNext /\ OthersStand
  \/ focus = "restore" /\ RestoreNext /\ OthersStand
  \/ focus = "upload" /\ UploadNext /\ OthersStand
  \/ focus = "backups" /\ StoreNext /\ OthersStand
  \/ focus = "jobs" /\ SchedulerNext /\ OthersStand
  \/ focus = "negative" /\ NegativeNext /\ OthersStand
  \/ focus = "oci" /\ PushNext /\ OthersStand
  \/ focus = "gates" /\ GatesNext /\ OthersStand
  \/ focus = "migration" /\ MigrationNext /\ OthersStand
  \/ focus = "search" /\ IndexNext /\ OthersStand
  \/ focus = "names" /\ NamesNext /\ OthersStand
  \/ focus = "access" /\ AccessNext /\ OthersStand
  \/ focus = "npm" /\ NpmNext /\ OthersStand
  \/ focus = "counts" /\ BufferNext /\ OthersStand
  \/ focus = "packages" /\ PackageNext /\ OthersStand
  \/ focus = "cargo" /\ CrateNext /\ OthersStand
  \/ focus = "sessions" /\ SessionsNext /\ OthersStand
  \/ focus = "imports" /\ ImportsNext /\ OthersStand
  \/ focus = "offline" /\ OfflineNext /\ OthersStand

NodeSpec == NodeInit /\ [][NodeNext]_nodeVars

\* What the services count on while they run.
\*
\* Trash: goroutines go on, and the job comes round to every entry that is
\* past its retention.
TrashFairness ==
  /\ \A u \in TrashCalls : WF_trashVars(focus = "trash" /\ CallStep(u))
  /\ \A e \in Entries : SF_trashVars(focus = "trash" /\ PurgeRead(TrashGC, e))

\* Restore: a started process goes on, and its supervisor starts it again.
RestoreFairness == WF_bootVars(focus = "restore" /\ BootStep)

\* Backups: goroutines go on, files grow old, and the job of the orphans
\* comes round every hour.
StoreFairness ==
  /\ \A n \in Generators : WF_backupVars(focus = "backups" /\ \E k \in Packages : GenStep(n, k))
  /\ \A n \in Removers : WF_backupVars(focus = "backups" /\ \E k \in Packages : RemoveStep(n, k))
  /\ \A n \in Adopters : WF_backupVars(focus = "backups" /\ \E k \in Packages : AdoptStep(n, k))
  /\ WF_backupVars(focus = "backups" /\ SweepStep)
  /\ SF_backupVars(focus = "backups" /\ SweepRead)
  /\ \A k \in Packages : WF_backupVars(focus = "backups" /\ Age(k))

\* Jobs: the process starts its loops, timers fire, and every run ends.
SchedulerFairness ==
  /\ WF_schedVars(focus = "jobs" /\ SchedulerStart)
  /\ \A j \in Jobs : WF_schedVars(focus = "jobs" /\ LoopStep(j))
  /\ \A r \in Triggers : WF_schedVars(focus = "jobs" /\ \E j \in Jobs : TriggerStep(r, j))

\* Negative cache: time passes.
NegativeFairness ==
  \A k \in Proxies \cup {Group} : WF_negativeVars(focus = "negative" /\ EntryAges(k))

\* Search: the goroutine of the backfill goes on.
IndexFairness == WF_indexVars(focus = "search" /\ FillStep)

\* Counts: the loop comes round, and takes its counters in the order of a map,
\* which Go draws anew each time: each comes first again and again.
BufferFairness ==
  /\ WF_bufferVars(focus = "counts" /\ FlushStep)
  /\ \A k \in Counters : SF_bufferVars(focus = "counts" /\ AddOne(k))

\* Sessions: handlers whose body ends, what they leave to clean up, and timers.
SessionFairness ==
  /\ \A s \in Sessions :
       /\ WF_sessionVars(focus = "sessions" /\ (PostMakesFile(s) \/ PostFails(s) \/ PostStores(s)))
       /\ WF_sessionVars(focus = "sessions" /\ TimerExpires(s))
       /\ WF_sessionVars(focus = "sessions" /\ TimerCloses(s))
  /\ \A k \in Cleanup : WF_sessionVars(focus = "sessions" /\ CleanUp(k))
  /\ \A q \in Chunkers : WF_sessionVars(focus = "sessions" /\ ChunkerStep(q))

\* Imports and scans: their goroutines go on, and a fetch has a timeout.
ImportFairness == \A i \in ImportRequests : WF_importVars(focus = "imports" /\ ImportStep(i))

ScanFairness == WF_offlineVars(focus = "offline" /\ ScanStep)

NodeFairSpec ==
  /\ NodeSpec
  /\ TrashFairness /\ RestoreFairness /\ StoreFairness
  /\ SchedulerFairness /\ NegativeFairness /\ IndexFairness /\ BufferFairness
  /\ SessionFairness /\ ImportFairness /\ ScanFairness

-----------------------------------------------------------------------------
(* What the runs check beside the properties of the services *)

\* Every variable of the service that runs is what it is declared to be.
NodeTypeOK ==
  /\ focus \in Services
  /\ focus = "trash" => TrashTypeOK
  /\ focus = "restore" => RestoreTypeOK
  /\ focus = "upload" => UploadTypeOK
  /\ focus = "backups" => StoreTypeOK
  /\ focus = "jobs" => SchedulerTypeOK
  /\ focus = "negative" => NegativeTypeOK
  /\ focus = "oci" => PushTypeOK
  /\ focus = "gates" => GatesTypeOK
  /\ focus = "migration" => MigrationTypeOK
  /\ focus = "search" => IndexTypeOK
  /\ focus = "names" => NamesTypeOK
  /\ focus = "access" => AccessTypeOK
  /\ focus = "npm" => NpmTypeOK
  /\ focus = "counts" => BufferTypeOK
  /\ focus = "packages" => PackageTypeOK
  /\ focus = "cargo" => CrateTypeOK
  /\ focus = "sessions" => SessionTypeOK
  /\ focus = "imports" => ImportTypeOK
  /\ focus = "offline" => OfflineTypeOK

\* What is waste goes in the end: trash past its retention, packages without a
\* row, and what an abandoned upload holds (GCExpiredTrash,
\* BackupOrphanCleanup.Run, expireUpload).
GarbageGoes ==
  /\ TrashDrains
  /\ OrphansGo
  /\ focus = "sessions" => SessionsEnd

\* What serves comes round again: the start-up after a restore, every job, the
\* index, the counts of requests, the flag of the imports and the scan of a
\* directory (ApplyPendingRestore, loop, backfill, Flush, endImport, run).
ServiceComesBack ==
  /\ StartsUp
  /\ focus = "jobs" => JobsComeRound
  /\ focus = "search" => IndexCompletes
  /\ focus = "counts" => CountsArrive
  /\ focus = "imports" => ImportsGoOn
  /\ focus = "offline" => ScansEnd

\* The documents the formats serve agree with what was published: npm's and
\* Cargo's, PyPI's and NuGet's (NpmPackage, CargoCrate, PackageIndex).
ListingsSound == NpmSound /\ PackagesSound /\ CratesSound

\* Migrations, and the index of an offline directory they list their assets
\* from (MigrationTasks, OfflineIndex).
MigrationsSound == MigrationSound /\ OfflineSound

-----------------------------------------------------------------------------
(* Values *)

\* Two leavings make a batch that can be rolled back, two cleanups need the
\* guard between them.
SmallTrash == {<<2, 1, 1>>, <<0, 2, 0>>}

TinyTrash == {<<1, 1, 1>>}

SomeEntries ==
  {<<u1, "write">>, <<g1, "read">>, <<AnonymousUser, "publish">>}

AllLayers == [m \in Manifests |-> Layers]

FirstTarget == CHOOSE r \in Targets : r \in Prior

HomeOf == [i \in Items |-> IF i = i1 THEN FirstTarget
                           ELSE CHOOSE r \in Targets : r # FirstTarget]

WantsAll == [t \in Migrations |-> Items]

OneAsset == [p \in Props |-> "asset"]

NamedAt == [r \in FirstRepos |-> CHOOSE n \in Names : TRUE]

Swaps == Permutations({a, b})
=============================================================================
