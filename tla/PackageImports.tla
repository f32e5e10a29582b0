--------------------------- MODULE PackageImports ---------------------------
(***************************************************************************)
(* Imports of a backup package while the server runs.                      *)
(*                                                                         *)
(* A request looks for the marker of a staged restore, takes the flag of   *)
(* the process, and writes a row; a goroutine fetches the package if it is *)
(* a URL, has it staged, and writes into the row what became of it.  The   *)
(* command line stages in a process of its own, so the marker may appear   *)
(* after the request has looked.  A write to the row may fail, and where   *)
(* the failure itself was to be written nothing else looks at it: a stage  *)
(* that failed is written to a log beside the database too.                *)
(*                                                                         *)
(* The inside of Stage, and what a start does with the marker, are         *)
(* RestoreBoot; the chunked upload before a local import is BackupUpload.  *)
(***************************************************************************)
EXTENDS Naturals, FiniteSets

CONSTANTS
  Urls,           \* imports from a URL
  Locals,         \* imports of a package that is on disk
  ByCli, HalfMark, NoMark,  \* a marker of the command line, a torn one, and none
  RowErrors,      \* bound on writes that fail
  ImportRestarts  \* bound on restarts

ImportRequests == Urls \cup Locals

ASSUME ImportAssumption ==
  /\ Urls \cap Locals = {} /\ IsFiniteSet(ImportRequests)
  /\ ByCli # NoMark /\ HalfMark # NoMark /\ {ByCli, HalfMark, NoMark} \cap ImportRequests = {}
  /\ RowErrors \in Nat /\ ImportRestarts \in Nat

VARIABLES
  importAt,    \* how far each import is
  importRow,   \* the status in its row of backup_import
  importing,   \* BackupImportService.importing
  downloads,   \* imports with a file in backup-imports
  restoreMark, \* restore.pending: whose it is
  cliStaged,   \* the command line has staged
  traces,      \* imports with a line in restore-failures.log
  rowErrors, importRestarts

importVars == <<importAt, importRow, importing, downloads, restoreMark, cliStaged,
                traces, rowErrors, importRestarts>>

InProgress == {"queued", "fetching", "staging"}

ImportSteps ==
  {"idle", "checked", "flagged", "begun", "fetching", "downloading", "fetched", "staging",
   "unpacking", "staged", "failing", "unstaged", "tracing", "ending", "done"}

ImportTypeOK ==
  /\ importAt \in [ImportRequests -> ImportSteps]
  /\ importRow \in [ImportRequests -> InProgress \cup {"none", "pending_restart", "failed"}]
  /\ importing \in BOOLEAN /\ cliStaged \in BOOLEAN
  /\ downloads \subseteq Urls /\ traces \subseteq ImportRequests
  /\ restoreMark \in ImportRequests \cup {ByCli, HalfMark, NoMark}
  /\ rowErrors \in 0 .. RowErrors /\ importRestarts \in 0 .. ImportRestarts

ImportInit ==
  /\ importAt = [i \in ImportRequests |-> "idle"] /\ importRow = [i \in ImportRequests |-> "none"]
  /\ importing = FALSE /\ downloads = {} /\ restoreMark = NoMark /\ cliStaged = FALSE
  /\ traces = {} /\ rowErrors = 0 /\ importRestarts = 0

ImportGoes(i, step) == importAt' = [importAt EXCEPT ![i] = step]

ImportRowBecomes(i, status) ==
  importRow' = [importRow EXCEPT ![i] = status] /\ UNCHANGED rowErrors

ImportWriteFails ==
  rowErrors < RowErrors /\ rowErrors' = rowErrors + 1 /\ UNCHANGED importRow

-----------------------------------------------------------------------------
(* The request *)

\* MarkedPending finds no marker.  With one, the request is refused.
ImportChecks(i) ==
  /\ importAt[i] = "idle" /\ restoreMark = NoMark
  /\ ImportGoes(i, "checked")
  /\ UNCHANGED <<importRow, importing, downloads, restoreMark, cliStaged, traces, rowErrors, importRestarts>>

\* beginImport.
ImportFlags(i) ==
  /\ importAt[i] = "checked"
  /\ IF importing THEN ImportGoes(i, "idle") ELSE ImportGoes(i, "flagged")
  /\ importing' = TRUE
  /\ UNCHANGED <<importRow, downloads, restoreMark, cliStaged, traces, rowErrors, importRestarts>>

\* Create.  Without the row the flag is given back.
ImportCreates(i) ==
  /\ importAt[i] = "flagged"
  /\ \/ ImportRowBecomes(i, "queued") /\ ImportGoes(i, "begun") /\ UNCHANGED importing
     \/ ImportWriteFails /\ ImportGoes(i, "done") /\ importing' = FALSE
  /\ UNCHANGED <<downloads, restoreMark, cliStaged, traces, importRestarts>>

-----------------------------------------------------------------------------
(* The goroutine *)

DownloadBegins(i) ==
  /\ importAt[i] = "begun" /\ i \in Urls
  /\ \/ ImportRowBecomes(i, "fetching") /\ ImportGoes(i, "fetching")
     \/ ImportWriteFails /\ ImportGoes(i, "failing")
  /\ UNCHANGED <<importing, downloads, restoreMark, cliStaged, traces, importRestarts>>

\* The source answers 200, and its body goes to a file.
DownloadWrites(i) ==
  /\ importAt[i] = "fetching"
  /\ ImportGoes(i, "downloading") /\ downloads' = downloads \cup {i}
  /\ UNCHANGED <<importRow, importing, restoreMark, cliStaged, traces, rowErrors, importRestarts>>

\* The source fails, the package is too large, or not the one that was named.
DownloadFails(i) ==
  /\ importAt[i] \in {"fetching", "downloading"}
  /\ ImportGoes(i, "failing")
  /\ UNCHANGED <<importRow, importing, downloads, restoreMark, cliStaged, traces, rowErrors, importRestarts>>

DownloadEnds(i) ==
  /\ importAt[i] = "downloading"
  /\ ImportGoes(i, "fetched")
  /\ UNCHANGED <<importRow, importing, downloads, restoreMark, cliStaged, traces, rowErrors, importRestarts>>

StageBegins(i) ==
  /\ importAt[i] = IF i \in Urls THEN "fetched" ELSE "begun"
  /\ \/ ImportRowBecomes(i, "staging") /\ ImportGoes(i, "staging")
     \/ ImportWriteFails /\ ImportGoes(i, "failing")
  /\ UNCHANGED <<importing, downloads, restoreMark, cliStaged, traces, importRestarts>>

\* A mistake: the look of the request is enough.
StageAdmitsMarked(i) ==
  /\ importAt[i] = "staging"
  /\ ImportGoes(i, "unpacking")
  /\ UNCHANGED <<importRow, importing, downloads, restoreMark, cliStaged, traces, rowErrors, importRestarts>>

\* Stage looks for the marker once more, whatever the request has seen.
StageAdmits(i) ==
  /\ importAt[i] = "staging" /\ restoreMark = NoMark
  /\ ImportGoes(i, "unpacking")
  /\ UNCHANGED <<importRow, importing, downloads, restoreMark, cliStaged, traces, rowErrors, importRestarts>>

StageRefuses(i) ==
  /\ importAt[i] = "staging"
  /\ ImportGoes(i, "unstaged")
  /\ UNCHANGED <<importRow, importing, downloads, restoreMark, cliStaged, traces, rowErrors, importRestarts>>

\* Unpacking fails, and takes the marker with it, whoever has written it; or
\* the marker cannot be opened, or not written to its end.
StageUndone(i) ==
  /\ importAt[i] = "unpacking"
  /\ ImportGoes(i, "unstaged") /\ restoreMark' \in {NoMark, restoreMark, HalfMark}
  /\ UNCHANGED <<importRow, importing, downloads, cliStaged, traces, rowErrors, importRestarts>>

StageMarks(i) ==
  /\ importAt[i] = "unpacking"
  /\ ImportGoes(i, "staged") /\ restoreMark' = i
  /\ UNCHANGED <<importRow, importing, downloads, cliStaged, traces, rowErrors, importRestarts>>

\* Finish.  Where it fails, a failure is what is written next.
ImportFinishes(i) ==
  /\ importAt[i] = "staged"
  /\ \/ ImportRowBecomes(i, "pending_restart") /\ ImportGoes(i, "ending")
     \/ ImportWriteFails /\ ImportGoes(i, "failing")
  /\ UNCHANGED <<importing, downloads, restoreMark, cliStaged, traces, importRestarts>>

\* failImport and failStage, whose own failure nobody sees.
RowFails(i) ==
  /\ importAt[i] \in {"failing", "unstaged"}
  /\ ImportGoes(i, IF importAt[i] = "unstaged" THEN "tracing" ELSE "ending")
  /\ ImportRowBecomes(i, "failed") \/ ImportWriteFails
  /\ UNCHANGED <<importing, downloads, restoreMark, cliStaged, traces, importRestarts>>

\* appendRestoreFailureRecord, likewise.
TraceFailure(i) ==
  /\ importAt[i] = "tracing" /\ ImportGoes(i, "ending")
  /\ \/ traces' = traces \cup {i} /\ UNCHANGED <<importRow, rowErrors>>
     \/ ImportWriteFails /\ UNCHANGED traces
  /\ UNCHANGED <<importing, downloads, restoreMark, cliStaged, importRestarts>>

\* The fetched file goes, and endImport.
ImportEnds(i) ==
  /\ importAt[i] = "ending"
  /\ ImportGoes(i, "done") /\ importing' = FALSE /\ downloads' = downloads \ {i}
  /\ UNCHANGED <<importRow, restoreMark, cliStaged, traces, rowErrors, importRestarts>>

-----------------------------------------------------------------------------
(* The command line, and restarts *)

\* It has looked for the marker too, but maybe a while ago.
CliMarks ==
  /\ ~cliStaged /\ cliStaged' = TRUE /\ restoreMark' = ByCli
  /\ UNCHANGED <<importAt, importRow, importing, downloads, traces, rowErrors, importRestarts>>

\* The start applies the marker; a torn one stops every start.  Rows and files
\* are left as they are.
ImportsRestart ==
  /\ restoreMark # HalfMark
  /\ importRestarts < ImportRestarts /\ importRestarts' = importRestarts + 1
  /\ importAt' = [i \in ImportRequests |-> IF importAt[i] \in {"idle", "checked"} THEN "idle" ELSE "done"]
  /\ importing' = FALSE /\ restoreMark' = NoMark
  /\ UNCHANGED <<importRow, downloads, cliStaged, traces, rowErrors>>

ImportStep(i) ==
  \/ ImportCreates(i) \/ DownloadBegins(i) \/ DownloadWrites(i) \/ DownloadFails(i) \/ DownloadEnds(i)
  \/ StageBegins(i) \/ StageAdmits(i) \/ StageRefuses(i) \/ StageUndone(i) \/ StageMarks(i)
  \/ ImportFinishes(i) \/ RowFails(i) \/ TraceFailure(i) \/ ImportEnds(i)

ImportsNext ==
  \/ \E i \in ImportRequests : ImportChecks(i) \/ ImportFlags(i) \/ ImportStep(i)
  \/ CliMarks
  \/ ImportsRestart

ImportsSpec == ImportInit /\ [][ImportsNext]_importVars

-----------------------------------------------------------------------------
(* Properties *)

ImportRuns(i) == importAt[i] \notin {"idle", "checked", "done"}

\* The flag is set exactly while one import runs, through every way in which a
\* write, a fetch or a stage may fail (beginImport, endImport).
FlagHasOwner ==
  /\ importing <=> \E i \in ImportRequests : ImportRuns(i)
  /\ \A i, j \in ImportRequests : ImportRuns(i) /\ ImportRuns(j) => i = j

\* The marker of an import is shown as pending: its row says so, or is about
\* to, unless the write of the row failed.  And a row that says so means the
\* marker there is: only the command line may have put another in its place,
\* or a restart have applied it (stageAndFinish, Stage, Finish).
MarkIsShown ==
  \A i \in ImportRequests :
    /\ restoreMark = i =>
         \/ importRow[i] = "pending_restart"
         \/ importRow[i] = "staging" /\ ImportRuns(i)
         \/ rowErrors > 0
    /\ importRow[i] = "pending_restart" =>
         restoreMark = i \/ cliStaged \/ importRestarts > 0

\* No import ends in silence.  When it is over its row is settled, unless a
\* write failed or a restart cut it off; and the failure of a stage is in the log or in the row
\* even if one write has failed (failImport, failStage,
\* appendRestoreFailureRecord).
FailureIsTold ==
  \A i \in ImportRequests :
    importAt[i] = "done" /\ importRow[i] \in InProgress /\ importRestarts = 0 =>
      /\ rowErrors > 0
      /\ importRow[i] = "staging" => i \in traces \/ rowErrors > 1

\* A fetched file belongs to an import that runs, unless a restart cut it off.
FetchedIsOwned ==
  \A i \in downloads : ImportRuns(i) \/ importRestarts > 0

\* The four together.
ImportsSound == FlagHasOwner /\ MarkIsShown /\ FailureIsTold /\ FetchedIsOwned

\* The flag comes free, or no import could ever be started (endImport).
ImportsGoOn == importing ~> ~importing
=============================================================================
