----------------------------- MODULE RestoreBoot -----------------------------
(***************************************************************************)
(* A backup is staged while the server runs and applied by the next start. *)
(*                                                                         *)
(* Stage unpacks the package's database into one staging directory, merges *)
(* its blobs into the store, and writes the marker restore.pending last.   *)
(* ApplyPendingRestore, before the database is opened, copies the database *)
(* file into a rollback directory, renames the staged one over it, removes *)
(* the old log, moves the import records over and removes the marker.  The *)
(* process may die between any two of these steps and starts again.  The   *)
(* command line stages too, in a process, and so under a mutex, of its     *)
(* own.                                                                    *)
(*                                                                         *)
(* The database is a file and a write-ahead log: a commit goes to the log, *)
(* a checkpoint or an orderly close moves it into the file.                *)
(***************************************************************************)
EXTENDS Naturals, Sequences, SequencesExt

CONSTANTS
  Imports,     \* imports of the server; each brings a package of its name
  Cli,         \* the import of the command line
  Own,         \* the database that is there at first
  Nothing,     \* no package, no marker
  Torn,        \* a marker that ends early
  BootCrashes  \* bound on deaths of a process

ASSUME RestoreAssumption ==
  /\ Cli \notin Imports
  /\ {Own, Nothing, Torn} \cap (Imports \cup {Cli}) = {}
  /\ Own # Nothing /\ Own # Torn /\ Nothing # Torn
  /\ BootCrashes \in Nat

VARIABLES
  boot,        \* where the server process is
  dbFile,      \* the database file: whose it is, and the import records in it
  dbLog,       \* the write-ahead log, the same way; <<>> when there is none
  rollbacks,   \* the copies in pre-restore directories, oldest first, and for which restore
  staging,     \* whose database restore-staging holds, and if all of it
  marker,      \* restore.pending
  importStep,  \* where each import is
  blobHere,    \* the package's blob is in the store
  blobOwned,   \* a row of the database Own refers to it
  bootCrashes,
  \* history
  served,      \* databases the server has served
  replaced,    \* what each replaced database knew
  unlogged,    \* records that were in a log when the log was removed
  stomped,     \* two processes have staged at once
  lostCopy,    \* a copy of something else has taken the place of a rollback copy
  again,       \* a restore was applied anew after its rename
  collected    \* the blob was removed after a stage had counted on it

fileState == <<dbFile, dbLog, rollbacks>>
stageState == <<staging, marker, importStep>>
blobState == <<blobHere, blobOwned>>
bootHistory == <<served, replaced, unlogged, stomped, lostCopy, again, collected>>
bootVars == <<boot, fileState, stageState, blobState, bootCrashes, bootHistory>>

Stagers == Imports \cup {Cli}

Databases == [base : Stagers \cup {Own}, records : SUBSET Imports]

BootSteps == {"serving", "stopped", "copying", "swapped", "unlogged", "moved"}

StageSteps == {"idle", "checked", "unpacking", "merged", "marking", "marked", "done", "failed"}

RestoreTypeOK ==
  /\ boot \in BootSteps
  /\ dbFile \in Databases
  /\ dbLog = <<>> \/ dbLog \in Databases
  /\ rollbacks \in Seq([db : Databases, for : Stagers])
  /\ staging \in [of : Stagers \cup {Nothing}, whole : BOOLEAN]
  /\ marker \in Stagers \cup {Nothing, Torn}
  /\ importStep \in [Stagers -> StageSteps]
  /\ blobHere \in BOOLEAN /\ blobOwned \in BOOLEAN
  /\ bootCrashes \in 0..BootCrashes
  /\ served \subseteq Stagers \cup {Own}
  /\ replaced \subseteq Databases /\ unlogged \subseteq Imports
  /\ stomped \in BOOLEAN /\ lostCopy \in BOOLEAN /\ again \in BOOLEAN /\ collected \in BOOLEAN

NoStaging == [of |-> Nothing, whole |-> FALSE]

RestoreInit ==
  /\ boot = "serving"
  /\ dbFile = [base |-> Own, records |-> {}] /\ dbLog = <<>> /\ rollbacks = <<>>
  /\ staging = NoStaging /\ marker = Nothing
  /\ importStep = [i \in Stagers |-> "idle"]
  /\ blobHere \in BOOLEAN /\ blobOwned \in BOOLEAN /\ (blobOwned => blobHere)
  /\ bootCrashes = 0
  /\ served = {Own} /\ replaced = {} /\ unlogged = {}
  /\ stomped = FALSE /\ lostCopy = FALSE /\ again = FALSE /\ collected = FALSE

Recorded == dbFile.records \cup IF dbLog = <<>> THEN {} ELSE dbLog.records

-----------------------------------------------------------------------------
(* Stage.                                                                  *)

Runs(i) == i = Cli \/ boot = "serving"

Staging(i) == importStep[i] \in {"checked", "unpacking", "merged", "marking"}

StageGoes(i, step) == importStep' = [importStep EXCEPT ![i] = step]

\* One import at a time in a process; a marker refuses it.  Verify follows.
StageBegin(i) ==
  /\ importStep[i] = "idle" /\ Runs(i)
  /\ i = Cli \/ \A j \in Imports : importStep[j] \in {"idle", "done", "failed"}
  /\ marker = Nothing
  /\ StageGoes(i, "checked")
  /\ UNCHANGED <<boot, fileState, staging, marker, blobState, bootCrashes, bootHistory>>

\* The staging directory is emptied, whoever has filled it.
StageClear(i) ==
  /\ importStep[i] = "checked"
  /\ staging' = [of |-> i, whole |-> FALSE]
  /\ stomped' = (stomped \/ marker # Nothing \/ \E j \in Stagers \ {i} : (Staging(j) /\ Cli \in {i, j}))
  /\ StageGoes(i, "unpacking")
  /\ UNCHANGED <<boot, fileState, marker, blobState, bootCrashes,
                 served, replaced, unlogged, lostCopy, again, collected>>

\* Extract: the database, and the blob unless a row names it or it is there.
StageMerge(i) ==
  /\ importStep[i] = "unpacking" /\ staging # NoStaging
  /\ staging' = [of |-> i, whole |-> TRUE]
  /\ blobHere' = TRUE
  /\ StageGoes(i, "merged")
  /\ UNCHANGED <<boot, fileState, marker, blobOwned, bootCrashes, bootHistory>>

\* The package is bad, the disk is full, or the directory has gone.
StageFails(i) ==
  /\ importStep[i] = "unpacking"
  /\ staging' = NoStaging /\ marker' = Nothing
  /\ StageGoes(i, "failed")
  /\ UNCHANGED <<boot, fileState, blobState, bootCrashes, bootHistory>>

\* WriteFile truncates the marker ...
StageOpensMarker(i) ==
  /\ importStep[i] = "merged"
  /\ marker' = Torn
  /\ stomped' = (stomped \/ marker # Nothing)
  /\ StageGoes(i, "marking")
  /\ UNCHANGED <<boot, fileState, staging, blobState, bootCrashes,
                 served, replaced, unlogged, lostCopy, again, collected>>

\* ... and writes it.
StageMark(i) ==
  /\ importStep[i] = "marking"
  /\ marker' = i
  /\ StageGoes(i, "marked")
  /\ UNCHANGED <<boot, fileState, staging, blobState, bootCrashes, bootHistory>>

\* The write fails: the staging directory goes, the torn marker stays.
StageMarkFails(i) ==
  /\ importStep[i] = "marking"
  /\ staging' = NoStaging
  /\ StageGoes(i, "failed")
  /\ UNCHANGED <<boot, fileState, marker, blobState, bootCrashes, bootHistory>>

\* The import's record is committed; the command line keeps none.
StageFinish(i) ==
  /\ importStep[i] = "marked"
  /\ StageGoes(i, "done")
  /\ dbLog' = IF i = Cli THEN dbLog ELSE [base |-> dbFile.base, records |-> Recorded \cup {i}]
  /\ UNCHANGED <<boot, dbFile, rollbacks, staging, marker, blobState, bootCrashes, bootHistory>>

-----------------------------------------------------------------------------
(* The running server.                                                     *)

\* SQLite checkpoints the log when it is long enough.
Checkpoint ==
  /\ boot = "serving" /\ dbLog # <<>>
  /\ dbFile' = [dbFile EXCEPT !.records = Recorded] /\ dbLog' = <<>>
  /\ UNCHANGED <<boot, rollbacks, stageState, blobState, bootCrashes, bootHistory>>

\* A stage has found or merged the blob and its database is not served yet.
CountedOn == marker # Nothing \/ \E i \in Stagers : importStep[i] \in {"merged", "marking"}

\* The row that refers to the blob is deleted and takes the blob with it ...
DeleteOwned ==
  /\ boot = "serving" /\ dbFile.base = Own /\ blobOwned
  /\ blobOwned' = FALSE /\ blobHere' = FALSE
  /\ collected' = (collected \/ CountedOn)
  /\ UNCHANGED <<boot, fileState, stageState, bootCrashes, served, replaced, unlogged, stomped, lostCopy, again>>

\* ... and blob-gc removes what no row refers to.
CollectUnowned ==
  /\ boot = "serving" /\ dbFile.base = Own /\ ~blobOwned /\ blobHere
  /\ blobHere' = FALSE
  /\ collected' = (collected \/ CountedOn)
  /\ UNCHANGED <<boot, fileState, stageState, blobOwned, bootCrashes,
                 served, replaced, unlogged, stomped, lostCopy, again>>

\* Imports of the process end with it.
ImportsDie == importStep' = [i \in Stagers |->
  IF i # Cli /\ importStep[i] \notin {"idle", "done"} THEN "failed" ELSE importStep[i]]

\* SIGTERM: the database is closed, and with it the log.
StopServer ==
  /\ boot = "serving" /\ boot' = "stopped"
  /\ dbFile' = [dbFile EXCEPT !.records = Recorded] /\ dbLog' = <<>>
  /\ ImportsDie
  /\ UNCHANGED <<rollbacks, staging, marker, blobState, bootCrashes, bootHistory>>

\* The restart button replaces the process image without closing anything.
ReplaceSelf ==
  /\ boot = "serving" /\ marker # Nothing /\ boot' = "stopped"
  /\ ImportsDie
  /\ UNCHANGED <<fileState, staging, marker, blobState, bootCrashes, bootHistory>>

\* A process dies: the server, which is started again, or the command line.
BootCrash ==
  /\ bootCrashes < BootCrashes /\ bootCrashes' = bootCrashes + 1
  /\ \/ boot' = "stopped" /\ ImportsDie
     \/ Staging(Cli) /\ StageGoes(Cli, "failed") /\ UNCHANGED boot
  /\ UNCHANGED <<fileState, staging, marker, blobState, bootHistory>>

-----------------------------------------------------------------------------
(* ApplyPendingRestore.                                                    *)

\* A mistake: a marker without its database stops the start.
BootSkipStrict ==
  /\ boot = "stopped" /\ marker = Nothing
  /\ boot' = "serving" /\ served' = served \cup {dbFile.base}
  /\ staging' = NoStaging /\ marker' = Nothing
  /\ UNCHANGED <<fileState, importStep, blobState, bootCrashes, replaced, unlogged, stomped, lostCopy, again, collected>>

\* No marker, or one whose database is gone: both are cleared away, stale
\* staging too, and the server serves.  A torn marker stops every start.
BootSkip ==
  /\ boot = "stopped"
  /\ marker = Nothing \/ (marker \in Stagers /\ staging = NoStaging)
  /\ boot' = "serving" /\ served' = served \cup {dbFile.base}
  /\ staging' = NoStaging /\ marker' = Nothing
  /\ stomped' = (stomped \/ Staging(Cli))
  /\ UNCHANGED <<fileState, importStep, blobState, bootCrashes, replaced, unlogged, lostCopy, again, collected>>

ThisCopy == [db |-> dbFile, for |-> marker]

\* The file is copied, without its log.  Directories are named by the second:
\* a start within the second of another writes over its copy.
BootCopy ==
  /\ boot = "stopped" /\ marker \in Stagers /\ staging # NoStaging
  /\ boot' = "copying"
  /\ \/ rollbacks' = Append(rollbacks, ThisCopy) /\ UNCHANGED lostCopy
     \/ /\ rollbacks # <<>> /\ Last(rollbacks).for = marker
        /\ rollbacks' = [rollbacks EXCEPT ![Len(rollbacks)] = ThisCopy]
        /\ lostCopy' = (lostCopy \/ Last(rollbacks).db.base # dbFile.base)
  /\ again' = (again \/ dbFile.base = staging.of)
  /\ UNCHANGED <<dbFile, dbLog, stageState, blobState, bootCrashes,
                 served, replaced, unlogged, stomped, collected>>

\* The staged database cannot be copied, or has gone by now: the rollback copy
\* is removed and the start fails.
BootCopyFails ==
  /\ boot = "copying" /\ boot' = "stopped"
  /\ \/ staging = NoStaging /\ UNCHANGED bootCrashes
     \/ bootCrashes < BootCrashes /\ bootCrashes' = bootCrashes + 1
  /\ rollbacks' = Front(rollbacks)
  /\ UNCHANGED <<dbFile, dbLog, stageState, blobState, bootHistory>>

\* The rename replaces the file; the old log is still beside it.
BootSwap ==
  /\ boot = "copying" /\ staging # NoStaging
  /\ boot' = "swapped"
  /\ dbFile' = [base |-> staging.of, records |-> {}]
  /\ replaced' = IF dbFile.base = staging.of THEN replaced
                 ELSE replaced \cup {[base |-> dbFile.base, records |-> Recorded]}
  /\ UNCHANGED <<dbLog, rollbacks, stageState, blobState, bootCrashes,
                 served, unlogged, stomped, lostCopy, again, collected>>

\* A mistake: the log is left to SQLite.
BootKeepsLog ==
  /\ boot = "swapped" /\ boot' = "unlogged"
  /\ UNCHANGED <<fileState, stageState, blobState, bootCrashes, bootHistory>>

BootUnlog ==
  /\ boot = "swapped" /\ boot' = "unlogged"
  /\ dbLog' = <<>>
  /\ unlogged' = unlogged \cup IF dbLog = <<>> THEN {} ELSE dbLog.records \ Last(rollbacks).db.records
  /\ UNCHANGED <<dbFile, rollbacks, stageState, blobState, bootCrashes,
                 served, replaced, stomped, lostCopy, again, collected>>

\* The import records of the rollback copy go into the new database.
BootMoveRecords ==
  /\ boot = "unlogged" /\ boot' = "moved"
  /\ dbFile' = [dbFile EXCEPT !.records = @ \cup Last(rollbacks).db.records]
  /\ UNCHANGED <<dbLog, rollbacks, stageState, blobState, bootCrashes, bootHistory>>

\* A mistake: only the staging directory is removed.
BootKeepsMarker ==
  /\ boot = "moved" /\ boot' = "serving"
  /\ staging' = staging
  /\ served' = served \cup {dbFile.base}
  /\ UNCHANGED <<fileState, marker, importStep, blobState, bootCrashes,
                 replaced, unlogged, stomped, lostCopy, again, collected>>

\* The marker goes first, then the staging directory.
BootDone ==
  /\ boot = "moved" /\ boot' = "serving"
  /\ marker' = Nothing /\ staging' = NoStaging
  /\ served' = served \cup {dbFile.base}
  /\ stomped' = (stomped \/ Staging(Cli))
  /\ UNCHANGED <<fileState, importStep, blobState, bootCrashes, replaced, unlogged, lostCopy, again, collected>>

-----------------------------------------------------------------------------

StageStep(i) ==
  \/ StageClear(i) \/ StageMerge(i) \/ StageFails(i) \/ StageOpensMarker(i)
  \/ StageMark(i) \/ StageMarkFails(i) \/ StageFinish(i)

BootStep ==
  BootSkip \/ BootCopy \/ BootCopyFails \/ BootSwap \/ BootUnlog \/ BootMoveRecords \/ BootDone

RestoreNext ==
  \/ \E i \in Stagers : StageBegin(i) \/ StageStep(i)
  \/ Checkpoint \/ DeleteOwned \/ CollectUnowned
  \/ StopServer \/ ReplaceSelf \/ BootCrash
  \/ BootStep

RestoreSpec == RestoreInit /\ [][RestoreNext]_bootVars

-----------------------------------------------------------------------------
(* Properties.                                                             *)

\* What is renamed over the database is the whole database of the package the
\* marker speaks of, whatever has failed or died before, as long as the
\* command line has not staged beside the server.
SwapsWhatWasMarked ==
  boot = "swapped" => stomped \/ (dbFile.base = marker /\ staging.whole)

\* No database is opened with the log of another, although the log is removed
\* after the rename: a start that died in between finds its marker again.
LogMatches ==
  boot \in {"serving", "unlogged", "moved"} /\ dbLog # <<>> => stomped \/ dbLog.base = dbFile.base

\* The way back: a database that was replaced is in a rollback copy, with all
\* it knew.  Two windows are known: the copy leaves out the log, and a start
\* that is repeated within a second writes over the copy.
StillLogged(old) == dbLog # <<>> /\ dbLog.base = old.base /\ old.records \subseteq dbLog.records

OldDatabaseKept ==
  \A old \in replaced :
    \/ stomped \/ lostCopy
    \/ \E k \in DOMAIN rollbacks :
         /\ rollbacks[k].db.base = old.base
         /\ StillLogged(old) \/ old.records \subseteq rollbacks[k].db.records \cup unlogged

\* The import records outlive the restores they tell of, save for those in a
\* log and for a start that died before it had moved them.
HistoryKept ==
  boot = "serving" => stomped \/ again \/ \A old \in replaced : old.records \subseteq Recorded \cup unlogged

\* A blob that a stage has merged or skipped is there when its database is
\* served, unless it was deleted or collected in between.
BlobsArrive ==
  boot = "serving" /\ dbFile.base # Own => blobHere \/ collected \/ stomped

\* A restore that was served is never applied again over what was written since.
AppliedOnce ==
  [][boot = "copying" /\ boot' = "swapped" => stomped \/ dbFile'.base \notin served]_bootVars

\* A pending restore, or one that was interrupted, never keeps the server from
\* coming up; only a torn marker does.
StartsUp == boot = "stopped" ~> boot = "serving" \/ marker = Torn

\* The right database goes in, with no foreign log and with its blobs, and the
\* old one and the records of imports stay.
RestoreSound ==
  SwapsWhatWasMarked /\ LogMatches /\ BlobsArrive /\ OldDatabaseKept /\ HistoryKept
==============================================================================
