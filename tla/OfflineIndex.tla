---------------------------- MODULE OfflineIndex ----------------------------
(***************************************************************************)
(* The index of an offline directory that migrations are taken from.       *)
(*                                                                         *)
(* A scan walks the properties files under one root and writes an entry    *)
(* for each asset; a full scan empties the index first, an update deletes  *)
(* what it has not met afterwards.  Whoever uses the index looks at its    *)
(* status only: "ready" is written last.  A scan can be cancelled, fail or *)
(* be cut off by a restart, files come and go while it walks, and a file   *)
(* that cannot be read is passed over.                                     *)
(*                                                                         *)
(* What a migration does with the assets it has listed is MigrationTasks.  *)
(***************************************************************************)
EXTENDS Naturals, FiniteSets

CONSTANTS
  Props,        \* properties files
  AssetOf,      \* the asset, by repository and path, a file is about
  BatchEntries, \* entries that are written at once
  Listers,      \* migrations that enumerate their assets
  MaxScans, FileChanges, ScanErrors, ScanRestarts  \* bounds

ASSUME OfflineAssumption ==
  /\ IsFiniteSet(Props) /\ IsFiniteSet(Listers)
  /\ BatchEntries \in Nat \ {0}
  /\ MaxScans \in Nat /\ FileChanges \in Nat /\ ScanErrors \in Nat /\ ScanRestarts \in Nat

VARIABLES
  propsThere,  \* properties files that are there, and not marked as deleted
  indexRows,   \* files of the rows in offline_dir_index_entry
  indexStatus, \* the status in offline_dir_index
  scan,        \* the scan of the root, and what it has in memory
  lister,      \* what each migration is doing
  scans, fileChanges, scanErrors, scanRestarts,
  \* history
  throughout,  \* files that have been there since the scan began, and could be read
  sometime,    \* files that have been there at some time since
  indexed      \* both, when the last scan was declared ready

scanMemory == <<propsThere, indexRows, indexStatus, scan>>
scanHistory == <<throughout, sometime, indexed>>
scanBounds == <<scans, fileChanges, scanErrors, scanRestarts>>
offlineVars == <<scanMemory, lister, scanBounds, scanHistory>>

NoScan == [at |-> "none"]

ScanSteps == {"registered", "begun", "walking", "walked", "pruning", "pruned", "failing", "ending"}

Scans == [at : ScanSteps, full : BOOLEAN, seen : SUBSET Props, batch : SUBSET Props,
          keep : SUBSET Props, cancelled : BOOLEAN]

ListerIdle == [at |-> "idle"]

ListerStates ==
  {ListerIdle} \cup [at : {"ready"}, due : SUBSET Props, apart : BOOLEAN]
    \cup [at : {"done"}, lacks : SUBSET {AssetOf[p] : p \in Props}]

OfflineTypeOK ==
  /\ propsThere \subseteq Props /\ indexRows \subseteq Props
  /\ indexStatus \in {"none", "scanning", "ready", "failed"}
  /\ scan \in {NoScan} \cup Scans
  /\ lister \in [Listers -> ListerStates]
  /\ scans \in 0 .. MaxScans /\ fileChanges \in 0 .. FileChanges
  /\ scanErrors \in 0 .. ScanErrors /\ scanRestarts \in 0 .. ScanRestarts
  /\ throughout \subseteq sometime /\ sometime \subseteq Props
  /\ indexed \in [throughout : SUBSET Props, sometime : SUBSET Props]

OfflineInit ==
  /\ propsThere \in SUBSET Props
  /\ indexRows = {} /\ indexStatus = "none" /\ scan = NoScan
  /\ lister = [l \in Listers |-> ListerIdle]
  /\ scans = 0 /\ fileChanges = 0 /\ scanErrors = 0 /\ scanRestarts = 0
  /\ throughout = {} /\ sometime = {} /\ indexed = [throughout |-> {}, sometime |-> {}]

ScanGoes(step) == scan' = [scan EXCEPT !.at = step]

\* UpsertMeta, whose failure is ignored everywhere.
StatusBecomes(status) ==
  \/ indexStatus' = status /\ UNCHANGED scanErrors
  \/ scanErrors < ScanErrors /\ scanErrors' = scanErrors + 1 /\ UNCHANGED indexStatus

\* A row per asset: what is written later takes the place.
AssetsOf(files) == {AssetOf[p] : p \in files}

OnePerAsset(files) ==
  {w \in SUBSET files : AssetsOf(w) = AssetsOf(files) /\ \A p, q \in w : AssetOf[p] = AssetOf[q] => p = q}

-----------------------------------------------------------------------------
(* The scan *)

\* startScan: one at a time for a root.
ScanStarts(full) ==
  /\ scan = NoScan /\ scans < MaxScans /\ scans' = scans + 1
  /\ scan' = [at |-> "registered", full |-> full, seen |-> {}, batch |-> {}, keep |-> {},
              cancelled |-> FALSE]
  /\ throughout' = propsThere /\ sometime' = propsThere
  /\ lister' = [l \in Listers |->
       IF lister[l].at = "ready" THEN [lister[l] EXCEPT !.apart = FALSE] ELSE lister[l]]
  /\ UNCHANGED <<propsThere, indexRows, indexStatus, fileChanges, scanErrors, scanRestarts, indexed>>

\* A mistake: the status stays what it was until the end.
ScanAnnouncesNothing ==
  /\ scan.at = "registered" /\ ScanGoes("begun")
  /\ UNCHANGED <<propsThere, indexRows, indexStatus, lister, scanBounds, scanHistory>>

\* The first UpsertMeta comes before anything else is written.
ScanAnnounces ==
  /\ scan.at = "registered" /\ ScanGoes("begun")
  /\ StatusBecomes("scanning")
  /\ UNCHANGED <<propsThere, indexRows, lister, scans, fileChanges, scanRestarts, scanHistory>>

\* ClearEntries, for a full scan.
ScanClears ==
  /\ scan.at = "begun"
  /\ \/ ScanGoes("walking") /\ indexRows' = IF scan.full THEN {} ELSE indexRows
     \/ scan.full /\ ScanGoes("failing") /\ UNCHANGED indexRows
  /\ UNCHANGED <<propsThere, indexStatus, lister, scanBounds, scanHistory>>

\* A file that is there is met, and goes into the batch.
ScanMeets(p) ==
  /\ scan.at = "walking" /\ ~scan.cancelled /\ Cardinality(scan.batch) < BatchEntries
  /\ p \in propsThere \ scan.seen
  /\ scan' = [scan EXCEPT !.seen = @ \cup {p}, !.batch = @ \cup {p},
                          !.keep = IF scan.full THEN @ ELSE @ \cup {p}]
  /\ UNCHANGED <<propsThere, indexRows, indexStatus, lister, scanBounds, scanHistory>>

\* A file that cannot be read, or whose content is missing, is passed over.
ScanPasses(p) ==
  /\ scan.at = "walking" /\ ~scan.cancelled /\ Cardinality(scan.batch) < BatchEntries
  /\ p \in propsThere \ scan.seen
  /\ scan' = [scan EXCEPT !.seen = @ \cup {p}]
  /\ throughout' = throughout \ {p}
  /\ UNCHANGED <<propsThere, indexRows, indexStatus, lister, scanBounds, sometime, indexed>>

\* saveProgress.
ScanReports ==
  /\ scan.at = "walking" /\ indexStatus # "scanning" /\ indexStatus' = "scanning"
  /\ UNCHANGED <<propsThere, indexRows, scan, lister, scanBounds, scanHistory>>

\* InsertEntries, when the batch is full and after the walk: all or nothing.
ScanFlushes ==
  /\ \/ scan.at = "walking" /\ Cardinality(scan.batch) = BatchEntries
     \/ scan.at = "walked"
  /\ \/ /\ \E w \in OnePerAsset(scan.batch) :
             indexRows' = {e \in indexRows : AssetOf[e] \notin AssetsOf(w)} \cup w
        /\ scan' = [scan EXCEPT !.batch = {}, !.at =
             IF @ = "walking" THEN @ ELSE IF scan.full THEN "pruned" ELSE "pruning"]
     \/ ScanGoes("failing") /\ UNCHANGED indexRows
  /\ UNCHANGED <<propsThere, indexStatus, lister, scanBounds, scanHistory>>

ScanCancelled ==
  /\ scan.at \in {"registered", "begun", "walking"} /\ ~scan.cancelled
  /\ scan' = [scan EXCEPT !.cancelled = TRUE]
  /\ UNCHANGED <<propsThere, indexRows, indexStatus, lister, scanBounds, scanHistory>>

\* The walk looks for the cancellation at each file and at its end.
ScanStops ==
  /\ scan.at = "walking" /\ scan.cancelled /\ ScanGoes("failing")
  /\ UNCHANGED <<propsThere, indexRows, indexStatus, lister, scanBounds, scanHistory>>

\* Whatever has been there all along has been met.
ScanWalked ==
  /\ scan.at = "walking" /\ ~scan.cancelled /\ Cardinality(scan.batch) < BatchEntries
  /\ throughout \subseteq scan.seen
  /\ ScanGoes("walked")
  /\ UNCHANGED <<propsThere, indexRows, indexStatus, lister, scanBounds, scanHistory>>

\* DeleteMissingProps deletes one by one.  A failure is only logged.
ScanPrunes ==
  /\ scan.at = "pruning"
  /\ \/ \E p \in indexRows \ scan.keep : indexRows' = indexRows \ {p} /\ UNCHANGED <<scan, scanErrors>>
     \/ indexRows \subseteq scan.keep /\ ScanGoes("pruned") /\ UNCHANGED <<indexRows, scanErrors>>
     \/ scanErrors < ScanErrors /\ scanErrors' = scanErrors + 1
        /\ ScanGoes("pruned") /\ UNCHANGED indexRows
  /\ UNCHANGED <<propsThere, indexStatus, lister, scans, fileChanges, scanRestarts, scanHistory>>

ScanReady ==
  /\ scan.at = "pruned" /\ ScanGoes("ending")
  /\ StatusBecomes("ready")
  /\ indexed' = [throughout |-> throughout, sometime |-> sometime]
  /\ UNCHANGED <<propsThere, indexRows, lister, scans, fileChanges, scanRestarts, throughout, sometime>>

ScanFails ==
  /\ scan.at = "failing" /\ ScanGoes("ending")
  /\ StatusBecomes("failed")
  /\ UNCHANGED <<propsThere, indexRows, lister, scans, fileChanges, scanRestarts, scanHistory>>

ScanEnds ==
  /\ scan.at = "ending" /\ scan' = NoScan
  /\ throughout' = {} /\ sometime' = {}
  /\ UNCHANGED <<propsThere, indexRows, indexStatus, lister, scanBounds, indexed>>

-----------------------------------------------------------------------------
(* Files, migrations and restarts *)

FileComes(p) ==
  /\ p \notin propsThere /\ propsThere' = propsThere \cup {p}
  /\ fileChanges < FileChanges /\ fileChanges' = fileChanges + 1
  /\ sometime' = IF scan = NoScan THEN sometime ELSE sometime \cup {p}
  /\ UNCHANGED <<indexRows, indexStatus, scan, lister, scans, scanErrors, scanRestarts, throughout, indexed>>

FileGoes(p) ==
  /\ p \in propsThere /\ propsThere' = propsThere \ {p}
  /\ fileChanges < FileChanges /\ fileChanges' = fileChanges + 1
  /\ throughout' = throughout \ {p}
  /\ UNCHANGED <<indexRows, indexStatus, scan, lister, scans, scanErrors, scanRestarts, sometime, indexed>>

\* enumerateFromOfflineIndex sees "ready" ...
ListerLooks(l) ==
  /\ lister[l].at = "idle" /\ indexStatus = "ready"
  /\ lister' = [lister EXCEPT ![l] =
       [at |-> "ready", due |-> indexed.throughout, apart |-> scan.at \in {"none", "ending"}]]
  /\ UNCHANGED <<scanMemory, scanBounds, scanHistory>>

\* ... and lists the entries.  What it lacks is noted if no scan came between.
ListerLists(l) ==
  /\ lister[l].at = "ready"
  /\ lister' = [lister EXCEPT ![l] =
       [at |-> "done", lacks |-> IF lister[l].apart THEN AssetsOf(lister[l].due) \ AssetsOf(indexRows)
                                 ELSE {}]]
  /\ UNCHANGED <<scanMemory, scanBounds, scanHistory>>

\* The status of a scan that was cut off stays "scanning".
ScannerRestart ==
  /\ scanRestarts < ScanRestarts /\ scanRestarts' = scanRestarts + 1
  /\ scan' = NoScan /\ throughout' = {} /\ sometime' = {}
  /\ lister' = [l \in Listers |-> IF lister[l].at = "ready" THEN ListerIdle ELSE lister[l]]
  /\ UNCHANGED <<propsThere, indexRows, indexStatus, scans, fileChanges, scanErrors, indexed>>

ScanStep ==
  \/ ScanAnnounces \/ ScanClears \/ \E p \in Props : ScanMeets(p) \/ ScanPasses(p)
  \/ ScanFlushes \/ ScanStops \/ ScanWalked \/ ScanPrunes
  \/ ScanReady \/ ScanFails \/ ScanEnds

OfflineNext ==
  \/ \E full \in BOOLEAN : ScanStarts(full)
  \/ ScanStep \/ ScanReports \/ ScanCancelled
  \/ \E p \in Props : FileComes(p) \/ FileGoes(p)
  \/ \E l \in Listers : ListerLooks(l) \/ ListerLists(l)
  \/ ScannerRestart

OfflineSpec == OfflineInit /\ [][OfflineNext]_offlineVars

-----------------------------------------------------------------------------
(* Properties *)

\* An index that says it is ready is the index of its last scan, whatever
\* scans were cancelled, failed or cut off before: each asset whose file was
\* there all along has its row, and no row is of a file that was never there
\* meanwhile.  Only a write of the index that failed and was ignored makes
\* this untrue (run, fail, DeleteMissingProps).
ReadyIsIndexed ==
  indexStatus = "ready" /\ scanErrors = 0 =>
    /\ AssetsOf(indexed.throughout) \subseteq AssetsOf(indexRows)
    /\ indexRows \subseteq indexed.sometime

\* A migration that has seen the index ready lists all of it, unless a scan
\* has started between its two reads (enumerateFromOfflineIndex).
ListIsWhole ==
  \A l \in Listers :
    lister[l].at = "done" /\ scanErrors = 0 => lister[l].lacks = {}

\* Both together.
OfflineSound == ReadyIsIndexed /\ ListIsWhole

\* Every scan ends, so that another may start (run).
ScansEnd == scan # NoScan ~> scan = NoScan
=============================================================================
