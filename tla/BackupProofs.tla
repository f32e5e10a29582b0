--------------------------- MODULE BackupProofs -----------------------------
(***************************************************************************)
(* What backup and restore keep, for every value of their constants: the   *)
(* import of a package from a link, its chunked upload, the stored packages,*)
(* and the restore that a start applies.                                   *)
(***************************************************************************)
EXTENDS PackageImports, BackupUpload, BackupStore, RestoreBoot,
        SequenceTheorems, TLAPS

-----------------------------------------------------------------------------
(***************************************************************************)
(* PackageImports.                                                         *)
(* For any number of imports, failures and restarts: one import at a time, *)
(* the marker and the rows agree, and no import ends in silence.           *)
(***************************************************************************)

\* The row of an import that is over tells of it.
Told(i) ==
  \/ importRow[i] \in {"pending_restart", "failed"}
  \/ rowErrors > 0 /\ (importRow[i] = "staging" => i \in traces \/ rowErrors > 1)

\* What the row of an import says while its goroutine is at a step.
RowFollows(i) ==
  /\ importAt[i] \in {"idle", "checked", "flagged"} => importRow[i] = "none" /\ i \notin downloads
  /\ importAt[i] = "begun" => importRow[i] = "queued"
  /\ importAt[i] \in {"fetching", "downloading"} => i \in Urls
  /\ importAt[i] \in {"fetching", "downloading", "fetched"} => importRow[i] = "fetching"
  /\ importAt[i] \in {"staging", "unpacking", "staged", "unstaged"} => importRow[i] = "staging"
  /\ importAt[i] = "failing" =>
       importRow[i] \in InProgress /\ (importRow[i] = "staging" => rowErrors > 0)
  /\ importAt[i] = "tracing" =>
       importRow[i] = "failed" \/ (importRow[i] = "staging" /\ rowErrors > 0)
  /\ importAt[i] = "ending" => Told(i)
  /\ importAt[i] = "done" => importRow[i] = "none" \/ Told(i) \/ importRestarts > 0

\* A marker of an import comes after its stage, and no import that has seen
\* none finds another but the command line's.
MarkFollows(i) ==
  /\ restoreMark = i =>
       /\ importAt[i] \in {"staged", "failing", "ending", "done"}
       /\ \/ importRow[i] = "pending_restart"
          \/ rowErrors > 0
          \/ importRow[i] = "staging" /\ importAt[i] = "staged"
  /\ importAt[i] = "unpacking" => restoreMark = NoMark \/ cliStaged
  /\ importAt[i] = "staged" => restoreMark = i \/ cliStaged
  /\ importRow[i] = "pending_restart" => restoreMark = i \/ cliStaged \/ importRestarts > 0

\* The inductive invariant.
ImportsTrue ==
  /\ ImportTypeOK
  /\ FlagHasOwner
  /\ \A i \in ImportRequests : RowFollows(i) /\ MarkFollows(i)
  /\ FetchedIsOwned

LEMMA ImportsTrueAtFirst == ImportInit => ImportsTrue
<1> SUFFICES ASSUME ImportInit PROVE ImportsTrue
  OBVIOUS
<1> USE ImportAssumption DEF ImportInit
<1>1. ImportTypeOK
  <2>1. importAt \in [ImportRequests -> ImportSteps] BY DEF ImportSteps
  <2>2. importRow \in [ImportRequests -> InProgress \cup {"none", "pending_restart", "failed"}]
    BY DEF InProgress
  <2>3. rowErrors \in 0 .. RowErrors /\ importRestarts \in 0 .. ImportRestarts OBVIOUS
  <2> QED BY <2>1, <2>2, <2>3 DEF ImportTypeOK
<1>2. FlagHasOwner BY DEF FlagHasOwner, ImportRuns
<1>3. \A i \in ImportRequests : RowFollows(i) BY DEF RowFollows
<1>4. \A i \in ImportRequests : MarkFollows(i) BY DEF MarkFollows
<1>5. FetchedIsOwned BY DEF FetchedIsOwned
<1> QED BY <1>1, <1>2, <1>3, <1>4, <1>5 DEF ImportsTrue

\* Every step keeps the types.
\* Every step keeps the types.
\* Every step keeps the types.
\* Every step keeps the types.
LEMMA ImportTypesStep == ImportsTrue /\ [ImportsNext]_importVars => ImportTypeOK'
<1> SUFFICES ASSUME ImportsTrue, [ImportsNext]_importVars PROVE ImportTypeOK'
  OBVIOUS
<1>0. ImportTypeOK /\ \A i \in ImportRequests : importAt[i] = "fetching" => i \in Urls
  BY DEF ImportsTrue, RowFollows
<1> USE <1>0, ImportAssumption DEF ImportTypeOK, ImportSteps, InProgress, ImportGoes,
      ImportRowBecomes, ImportWriteFails
<1>1. ASSUME NEW i \in ImportRequests, ImportChecks(i) \/ ImportFlags(i) \/ ImportStep(i)
     PROVE  ImportTypeOK'
  <2>1. CASE ImportChecks(i) BY <2>1 DEF ImportChecks
  <2>2. CASE ImportFlags(i) BY <2>2 DEF ImportFlags
  <2>3. CASE ImportCreates(i)
    <3>1. importAt' \in [ImportRequests -> ImportSteps] BY <2>3 DEF ImportCreates
    <3>2. importRow' \in [ImportRequests -> InProgress \cup {"none", "pending_restart", "failed"}]
      BY <2>3 DEF ImportCreates
    <3>3. rowErrors' \in 0 .. RowErrors BY <2>3 DEF ImportCreates
    <3> QED BY <2>3, <3>1, <3>2, <3>3 DEF ImportCreates
  <2>4. CASE DownloadBegins(i) BY <2>4 DEF DownloadBegins
  <2>5. CASE DownloadWrites(i) BY <2>5 DEF DownloadWrites
  <2>6. CASE DownloadFails(i) \/ DownloadEnds(i) BY <2>6 DEF DownloadFails, DownloadEnds
  <2>7. CASE StageBegins(i) BY <2>7 DEF StageBegins
  <2>8. CASE StageAdmits(i) \/ StageRefuses(i) BY <2>8 DEF StageAdmits, StageRefuses
  <2>9. CASE StageUndone(i) BY <2>9 DEF StageUndone
  <2>10. CASE StageMarks(i) BY <2>10 DEF StageMarks
  <2>11. CASE ImportFinishes(i) BY <2>11 DEF ImportFinishes
  <2>12. CASE RowFails(i) BY <2>12 DEF RowFails
  <2>13. CASE TraceFailure(i) BY <2>13 DEF TraceFailure
  <2>14. CASE ImportEnds(i) BY <2>14 DEF ImportEnds
  <2> QED BY <1>1, <2>1, <2>2, <2>3, <2>4, <2>5, <2>6, <2>7,
       <2>8, <2>9, <2>10, <2>11, <2>12, <2>13, <2>14 DEF ImportStep
<1>2. CASE CliMarks BY <1>2 DEF CliMarks
<1>3. CASE ImportsRestart
  <2>1. importAt' \in [ImportRequests -> ImportSteps] BY <1>3 DEF ImportsRestart
  <2>2. importRestarts' \in 0 .. ImportRestarts BY <1>3 DEF ImportsRestart
  <2> QED BY <1>3, <2>1, <2>2 DEF ImportsRestart
<1>4. CASE UNCHANGED importVars BY <1>4 DEF importVars
<1> QED BY <1>1, <1>2, <1>3, <1>4 DEF ImportsNext

\* Every step keeps the flag with its owner.
LEMMA FlagStep == ImportsTrue /\ [ImportsNext]_importVars => FlagHasOwner'
<1> SUFFICES ASSUME ImportsTrue, [ImportsNext]_importVars PROVE FlagHasOwner'
  OBVIOUS
<1> USE DEF ImportsTrue, ImportTypeOK, FlagHasOwner, ImportRuns, ImportGoes, ImportRowBecomes,
      ImportWriteFails
<1>1. ASSUME NEW i \in ImportRequests, ImportChecks(i) \/ ImportFlags(i) \/ ImportStep(i)
     PROVE  FlagHasOwner'
  <2>1. CASE ImportChecks(i) BY <2>1 DEF ImportChecks
  <2>2. CASE ImportFlags(i) BY <2>2 DEF ImportFlags
  <2>3. CASE ImportCreates(i) BY <2>3 DEF ImportCreates
  <2>4. CASE DownloadBegins(i) BY <2>4 DEF DownloadBegins
  <2>5. CASE DownloadWrites(i) BY <2>5 DEF DownloadWrites
  <2>6. CASE DownloadFails(i) \/ DownloadEnds(i) BY <2>6 DEF DownloadFails, DownloadEnds
  <2>7. CASE StageBegins(i) BY <2>7 DEF StageBegins
  <2>8. CASE StageAdmits(i) \/ StageRefuses(i) BY <2>8 DEF StageAdmits, StageRefuses
  <2>9. CASE StageUndone(i) BY <2>9 DEF StageUndone
  <2>10. CASE StageMarks(i) BY <2>10 DEF StageMarks
  <2>11. CASE ImportFinishes(i) BY <2>11 DEF ImportFinishes
  <2>12. CASE RowFails(i) BY <2>12 DEF RowFails
  <2>13. CASE TraceFailure(i) BY <2>13 DEF TraceFailure
  <2>14. CASE ImportEnds(i) BY <2>14 DEF ImportEnds
  <2> QED BY <1>1, <2>1, <2>2, <2>3, <2>4, <2>5, <2>6, <2>7,
       <2>8, <2>9, <2>10, <2>11, <2>12, <2>13, <2>14 DEF ImportStep
<1>2. CASE CliMarks BY <1>2 DEF CliMarks
<1>3. CASE ImportsRestart BY <1>3 DEF ImportsRestart
<1>4. CASE UNCHANGED importVars BY <1>4 DEF importVars
<1> QED BY <1>1, <1>2, <1>3, <1>4 DEF ImportsNext

\* Every step keeps the rows in line with the goroutines.
LEMMA ImportRowsStep == ImportsTrue /\ [ImportsNext]_importVars => \A j \in ImportRequests : RowFollows(j)'
<1> SUFFICES ASSUME ImportsTrue, [ImportsNext]_importVars, NEW j \in ImportRequests
     PROVE  RowFollows(j)'
  OBVIOUS
<1> USE DEF ImportsTrue, ImportTypeOK, RowFollows, Told, InProgress, ImportGoes,
      ImportRowBecomes, ImportWriteFails
<1>1. ASSUME NEW i \in ImportRequests, ImportChecks(i) \/ ImportFlags(i) \/ ImportStep(i)
     PROVE  RowFollows(j)'
  <2>1. CASE ImportChecks(i) BY <2>1 DEF ImportChecks
  <2>2. CASE ImportFlags(i) BY <2>2 DEF ImportFlags
  <2>3. CASE ImportCreates(i) BY <2>3 DEF ImportCreates
  <2>4. CASE DownloadBegins(i) BY <2>4 DEF DownloadBegins
  <2>5. CASE DownloadWrites(i) BY <2>5 DEF DownloadWrites
  <2>6. CASE DownloadFails(i) \/ DownloadEnds(i) BY <2>6 DEF DownloadFails, DownloadEnds
  <2>7. CASE StageBegins(i) BY <2>7 DEF StageBegins
  <2>8. CASE StageAdmits(i) \/ StageRefuses(i) BY <2>8 DEF StageAdmits, StageRefuses
  <2>9. CASE StageUndone(i) BY <2>9 DEF StageUndone
  <2>10. CASE StageMarks(i) BY <2>10 DEF StageMarks
  <2>11. CASE ImportFinishes(i) BY <2>11 DEF ImportFinishes
  <2>12. CASE RowFails(i)
    <3>1. CASE importRow' = [importRow EXCEPT ![i] = "failed"] /\ UNCHANGED rowErrors
      <4>1. CASE j = i
        <5>1. importRow'[j] = "failed" /\ importAt'[j] \in {"tracing", "ending"}
          BY <2>12, <3>1, <4>1 DEF RowFails
        <5> QED BY <5>1
      <4>2. CASE j # i BY <2>12, <3>1, <4>2 DEF RowFails
      <4> QED BY <4>1, <4>2
    <3>2. CASE UNCHANGED importRow /\ rowErrors' = rowErrors + 1
      <4>1. CASE j = i BY <2>12, <3>2, <4>1 DEF RowFails
      <4>2. CASE j # i BY <2>12, <3>2, <4>2 DEF RowFails
      <4> QED BY <4>1, <4>2
    <3> QED BY <2>12, <3>1, <3>2 DEF RowFails
  <2>13. CASE TraceFailure(i) BY <2>13 DEF TraceFailure
  <2>14. CASE ImportEnds(i) BY <2>14 DEF ImportEnds
  <2> QED BY <1>1, <2>1, <2>2, <2>3, <2>4, <2>5, <2>6, <2>7,
       <2>8, <2>9, <2>10, <2>11, <2>12, <2>13, <2>14 DEF ImportStep
<1>2. CASE CliMarks BY <1>2 DEF CliMarks
<1>3. CASE ImportsRestart BY <1>3 DEF ImportsRestart
<1>4. CASE UNCHANGED importVars BY <1>4 DEF importVars
<1> QED BY <1>1, <1>2, <1>3, <1>4 DEF ImportsNext

\* Every step keeps the marker in line with the rows.
LEMMA MarksStep == ImportsTrue /\ [ImportsNext]_importVars => \A j \in ImportRequests : MarkFollows(j)'
<1> SUFFICES ASSUME ImportsTrue, [ImportsNext]_importVars, NEW j \in ImportRequests
     PROVE  MarkFollows(j)'
  OBVIOUS
<1> USE ImportAssumption DEF ImportsTrue, ImportTypeOK, FlagHasOwner, ImportRuns, RowFollows,
      MarkFollows, InProgress, ImportGoes, ImportRowBecomes, ImportWriteFails
<1>1. ASSUME NEW i \in ImportRequests, ImportChecks(i) \/ ImportFlags(i) \/ ImportStep(i)
     PROVE  MarkFollows(j)'
  <2>1. CASE ImportChecks(i) BY <2>1 DEF ImportChecks
  <2>2. CASE ImportFlags(i) BY <2>2 DEF ImportFlags
  <2>3. CASE ImportCreates(i) BY <2>3 DEF ImportCreates
  <2>4. CASE DownloadBegins(i) BY <2>4 DEF DownloadBegins
  <2>5. CASE DownloadWrites(i) BY <2>5 DEF DownloadWrites
  <2>6. CASE DownloadFails(i) \/ DownloadEnds(i) BY <2>6 DEF DownloadFails, DownloadEnds
  <2>7. CASE StageBegins(i) BY <2>7 DEF StageBegins
  <2>8. CASE StageAdmits(i) \/ StageRefuses(i) BY <2>8 DEF StageAdmits, StageRefuses
  <2>9. CASE StageUndone(i) BY <2>9 DEF StageUndone
  <2>10. CASE StageMarks(i) BY <2>10 DEF StageMarks
  <2>11. CASE ImportFinishes(i) BY <2>11 DEF ImportFinishes
  <2>12. CASE RowFails(i) BY <2>12 DEF RowFails
  <2>13. CASE TraceFailure(i) BY <2>13 DEF TraceFailure
  <2>14. CASE ImportEnds(i) BY <2>14 DEF ImportEnds
  <2> QED BY <1>1, <2>1, <2>2, <2>3, <2>4, <2>5, <2>6, <2>7,
       <2>8, <2>9, <2>10, <2>11, <2>12, <2>13, <2>14 DEF ImportStep
<1>2. CASE CliMarks BY <1>2 DEF CliMarks
<1>3. CASE ImportsRestart BY <1>3 DEF ImportsRestart
<1>4. CASE UNCHANGED importVars BY <1>4 DEF importVars
<1> QED BY <1>1, <1>2, <1>3, <1>4 DEF ImportsNext

\* Every step leaves the fetched files with an import that runs.
LEMMA FetchedStep == ImportsTrue /\ [ImportsNext]_importVars => FetchedIsOwned'
<1> SUFFICES ASSUME ImportsTrue, [ImportsNext]_importVars PROVE FetchedIsOwned'
  OBVIOUS
<1> USE DEF ImportsTrue, ImportTypeOK, FetchedIsOwned, ImportRuns, RowFollows, ImportRequests,
      ImportGoes, ImportRowBecomes, ImportWriteFails
<1>1. ASSUME NEW i \in ImportRequests, ImportChecks(i) \/ ImportFlags(i) \/ ImportStep(i)
     PROVE  FetchedIsOwned'
  <2>1. CASE ImportChecks(i) BY <2>1 DEF ImportChecks
  <2>2. CASE ImportFlags(i) BY <2>2 DEF ImportFlags
  <2>3. CASE ImportCreates(i) BY <2>3 DEF ImportCreates
  <2>4. CASE DownloadBegins(i) BY <2>4 DEF DownloadBegins
  <2>5. CASE DownloadWrites(i) BY <2>5 DEF DownloadWrites
  <2>6. CASE DownloadFails(i) \/ DownloadEnds(i) BY <2>6 DEF DownloadFails, DownloadEnds
  <2>7. CASE StageBegins(i) BY <2>7 DEF StageBegins
  <2>8. CASE StageAdmits(i) \/ StageRefuses(i) BY <2>8 DEF StageAdmits, StageRefuses
  <2>9. CASE StageUndone(i) BY <2>9 DEF StageUndone
  <2>10. CASE StageMarks(i) BY <2>10 DEF StageMarks
  <2>11. CASE ImportFinishes(i) BY <2>11 DEF ImportFinishes
  <2>12. CASE RowFails(i) BY <2>12 DEF RowFails
  <2>13. CASE TraceFailure(i) BY <2>13 DEF TraceFailure
  <2>14. CASE ImportEnds(i) BY <2>14 DEF ImportEnds
  <2> QED BY <1>1, <2>1, <2>2, <2>3, <2>4, <2>5, <2>6, <2>7,
       <2>8, <2>9, <2>10, <2>11, <2>12, <2>13, <2>14 DEF ImportStep
<1>2. CASE CliMarks BY <1>2 DEF CliMarks
<1>3. CASE ImportsRestart BY <1>3 DEF ImportsRestart
<1>4. CASE UNCHANGED importVars BY <1>4 DEF importVars
<1> QED BY <1>1, <1>2, <1>3, <1>4 DEF ImportsNext

LEMMA ImportsTrueStep == ImportsTrue /\ [ImportsNext]_importVars => ImportsTrue'
BY ImportTypesStep, FlagStep, ImportRowsStep, MarksStep, FetchedStep DEF ImportsTrue

\* The invariant says what the run checks.
LEMMA ImportsTrueIsEnough == ImportsTrue => ImportsSound
<1> SUFFICES ASSUME ImportsTrue PROVE ImportsSound
  OBVIOUS
<1> USE DEF ImportsTrue
<1>1. MarkIsShown
  BY DEF MarkIsShown, RowFollows, MarkFollows, ImportRuns
<1>2. FailureIsTold
  BY DEF FailureIsTold, RowFollows, Told, InProgress
<1> QED BY <1>1, <1>2 DEF ImportsSound

\* ImportsTrue holds in every state of ImportsSpec.
LEMMA ImportsStayTrue == ImportsSpec => []ImportsTrue
BY ImportsTrueAtFirst, ImportsTrueStep, PTL DEF ImportsSpec

\* One import at a time, its marker shown as pending, its failure told, and no
\* file left behind: for any number of imports and of writes that fail
\* (BackupImportService.beginImport, runURLImport, runLocalImport, stageAndFinish).
THEOREM ImportsAreSound == ImportsSpec => []ImportsSound
<1> QED BY ImportsStayTrue, ImportsTrueIsEnough, PTL

-----------------------------------------------------------------------------
(***************************************************************************)
(* BackupUpload.                                                           *)
(* What a chunked upload keeps while several puts of one chunk and several *)
(* Completes run at once. Two Completes that overlap write one package file,*)
(* and two puts of one chunk one .tmp file; `overlapped` and `contested` record*)
(* that, and a sweep of the session under a call is in `swept`. Outside them*)
(* each file has one writer from Create to Rename.                         *)
(***************************************************************************)

\* What a Complete has between its Create and its insert; a second one that
\* reaches it there has overlapped the first.
Joining == {"joining", "joined", "opened", "stored"}

\* As long as no two Completes overlap, one has the package file to itself, and
\* no unfinished file comes into backups/.
OneCompletes ==
  /\ \A k, j \in Completes :
       completeCall[k].step \in Joining /\ completeCall[j].step \in Joining => k = j
  /\ \A k \in Completes :
       /\ CompleteAt(k, "joining") =>
            completeCall[k].at = "pack" \/ (completeCall[k].at = "lost" /\ packFile = "none")
       /\ CompleteAt(k, "joined") /\ completeCall[k].good => packFile \in {"full", "none"}
       /\ CompleteAt(k, "opened") => packFile \in {"full", "none"} /\ ~storedRow
       /\ CompleteAt(k, "stored") => stored = "full" /\ ~storedRow
  /\ storedRow => stored = "full"

\* A put on its way from Create to Rename.
InTemp == {"writing", "written", "cleared"}

\* One put writes the .tmp file of a chunk that is not contested, and the file is
\* there when it is renamed.
OnePuts(c) ==
  /\ \A p, q \in Puts : \A r, s \in InTemp : PutAt(p, c, r) /\ PutAt(q, c, s) => p = q
  /\ \A p \in Puts :
       /\ PutAt(p, c, "writing") => putCall[p].at = "temp"
       /\ PutAt(p, c, "written") \/ PutAt(p, c, "cleared") => chunkTemp[c] \in {"short", "full"}

\* A chunk that was or will be answered for.
Promised(c) == c \in accepted \/ \E p \in Puts : PutAt(p, c, "renamed")

\* A chunk that is not contested and was answered for is on disk, or is being put
\* anew.
ChunksOnDisk ==
  \A c \in Chunks \ contested :
    /\ OnePuts(c)
    /\ Promised(c) => chunkFile[c] \in {"short", "full"} \/ c \in reput

\* The inductive invariant.
UploadTrue ==
  /\ UploadTypeOK
  /\ overlapped \/ OneCompletes
  /\ swept \/ ChunksOnDisk

\* What the calls of the puts are.
PutCalls == [Puts -> PutBusy \cup {PutIdle}]

\* What the calls of the Completes are.
CompleteCalls == [Completes -> CompleteBusy \cup {CompleteIdle}]

\* Two states of one call that differ at most in the file that is open.
Alike(r, s) == r.step = s.step /\ r.chunk = s.chunk /\ r.sends = s.sends

\* The same for two states of a Complete.
SameComplete(r, s) == r.step = s.step /\ r.next = s.next /\ r.good = s.good

\* Where the open file of a put is.
PutAts == {"none", "temp", "file", "lost"}

\* The steps of a put that is at work.
PutSteps == {"checked", "writing", "written", "cleared", "renamed"}

\* The steps of a Complete that is at work.
CompleteSteps == {"listed", "joining", "joined", "opened", "stored", "registered"}

\* A put that is not idle has a chunk and a file.
LEMMA BusyPut ==
  ASSUME NEW r \in PutBusy \cup {PutIdle}, r.step # "idle"
  PROVE  r \in PutBusy
BY DEF PutIdle

\* A Complete that is not idle has a place in the list and a file.
LEMMA BusyComplete ==
  ASSUME NEW r \in CompleteBusy \cup {CompleteIdle}, r.step # "idle"
  PROVE  r \in CompleteBusy
BY DEF CompleteIdle

\* Giving a put at work another step or file leaves it a put at work.
LEMMA PutRecord ==
  ASSUME NEW r \in PutBusy, NEW t \in PutAts
  PROVE  /\ [r EXCEPT !.at = t] \in PutBusy
         /\ Alike([r EXCEPT !.at = t], r)
         /\ \A s \in PutSteps : [r EXCEPT !.step = s] \in PutBusy /\ [r EXCEPT !.step = s, !.at = t] \in PutBusy
BY DEF PutBusy, PutSteps, PutAts, Alike

\* Giving a Complete at work another step or file leaves it a Complete at work.
LEMMA CompleteRecord ==
  ASSUME NEW r \in CompleteBusy, NEW t \in {"none", "pack", "stored", "lost"}
  PROVE  /\ [r EXCEPT !.at = t] \in CompleteBusy
         /\ SameComplete([r EXCEPT !.at = t], r)
         /\ \A s \in CompleteSteps : [r EXCEPT !.step = s] \in CompleteBusy /\ [r EXCEPT !.step = s, !.at = t] \in CompleteBusy
BY DEF CompleteBusy, CompleteSteps, SameComplete

\* A rename or a removal of a chunk file changes only where the puts that have it
\* open write.
LEMMA MovedPuts ==
  ASSUME UploadTypeOK, NEW calls \in PutCalls, \A q \in Puts : Alike(calls[q], putCall[q]),
         NEW c \in Chunks, NEW from, NEW to \in PutAts
  PROVE  /\ Moved(calls, c, from, to) \in PutCalls
         /\ \A q \in Puts :
              /\ Alike(Moved(calls, c, from, to)[q], putCall[q])
              /\ ~Writes(q, c, from) => Moved(calls, c, from, to)[q] = calls[q]
<1>1. ASSUME NEW q \in Puts, Writes(q, c, from)
      PROVE  /\ [calls[q] EXCEPT !.at = to] \in PutBusy
             /\ Alike([calls[q] EXCEPT !.at = to], putCall[q])
  <2>1. calls[q].step # "idle"
    BY <1>1 DEF Writes, PutAt, Alike
  <2>2. calls[q] \in PutBusy
    BY <2>1, BusyPut DEF PutCalls
  <2>3. [calls[q] EXCEPT !.at = to] \in PutBusy /\ Alike([calls[q] EXCEPT !.at = to], calls[q])
    BY <2>2, PutRecord
  <2> QED BY <2>3 DEF Alike
<1> QED BY <1>1 DEF Moved, PutCalls

\* A rename or a removal of the package file changes only where the Completes that
\* have it open write.
LEMMA MovedCompletes ==
  ASSUME UploadTypeOK, NEW calls \in CompleteCalls, \A k \in Completes : SameComplete(calls[k], completeCall[k]),
         NEW from, NEW to \in {"none", "pack", "stored", "lost"}
  PROVE  /\ MovedPack(calls, from, to) \in CompleteCalls
         /\ \A k \in Completes :
              /\ SameComplete(MovedPack(calls, from, to)[k], completeCall[k])
              /\ ~(CompleteAt(k, "joining") /\ completeCall[k].at = from) => MovedPack(calls, from, to)[k] = calls[k]
<1>1. ASSUME NEW k \in Completes, CompleteAt(k, "joining")
      PROVE  /\ [calls[k] EXCEPT !.at = to] \in CompleteBusy
             /\ SameComplete([calls[k] EXCEPT !.at = to], completeCall[k])
  <2>1. calls[k].step # "idle"
    BY <1>1 DEF CompleteAt, SameComplete
  <2>2. calls[k] \in CompleteBusy
    BY <2>1, BusyComplete DEF CompleteCalls
  <2>3. [calls[k] EXCEPT !.at = to] \in CompleteBusy /\ SameComplete([calls[k] EXCEPT !.at = to], calls[k])
    BY <2>2, CompleteRecord
  <2> QED BY <2>3 DEF SameComplete
<1> QED BY <1>1 DEF MovedPack, CompleteCalls

\* Put p of chunk c comes to a step; another may find the file it writes
\* renamed or removed.
PutComesTo(p, c, step) ==
  /\ putCall' \in PutCalls
  /\ putCall'[p].step = step /\ (step # "idle" => putCall'[p].chunk = c)
  /\ \A q \in Puts \ {p} :
       /\ Alike(putCall'[q], putCall[q])
       /\ putCall'[q] = putCall[q] \/ PutAt(q, c, "writing")

\* A Complete comes to a step, the same way.
CompleteComesTo(k, step) ==
  /\ completeCall' \in CompleteCalls
  /\ completeCall'[k].step = step
  /\ step # "idle" => completeCall'[k].good = completeCall[k].good
  /\ \A j \in Completes \ {k} :
       /\ SameComplete(completeCall'[j], completeCall[j])
       /\ completeCall'[j] = completeCall[j] \/ CompleteAt(j, "joining")

\* A put that is at a step of PutChunk is at work on a chunk of the package.
LEMMA PutIsBusy ==
  ASSUME UploadTypeOK, NEW p \in Puts, NEW c, NEW step \in PutSteps, PutAt(p, c, step)
  PROVE  putCall[p] \in PutBusy /\ c \in Chunks
<1>1. putCall[p].step # "idle" /\ putCall[p] \in PutBusy \cup {PutIdle}
  BY DEF PutAt, PutSteps, UploadTypeOK
<1>2. putCall[p] \in PutBusy
  BY <1>1, BusyPut
<1> QED BY <1>2 DEF PutBusy, PutAt

\* A Complete that is at a step is at work.
LEMMA CompleteIsBusy ==
  ASSUME UploadTypeOK, NEW k \in Completes, completeCall[k].step \in CompleteSteps
  PROVE  completeCall[k] \in CompleteBusy
<1>1. completeCall[k].step # "idle" /\ completeCall[k] \in CompleteBusy \cup {CompleteIdle}
  BY DEF CompleteSteps, UploadTypeOK
<1> QED BY <1>1, BusyComplete

\* Each step of PutChunk takes its own call one step on and leaves the others at
\* theirs.
LEMMA PutGoes ==
  ASSUME UploadTypeOK, NEW p \in Puts, NEW c \in Chunks
  PROVE  /\ PutCreate(p, c) => PutComesTo(p, c, "writing") /\ putCall'[p].at = "temp"
         /\ PutWrite(p, c) => PutComesTo(p, c, "written")
         /\ PutWriteFails(p, c) => PutComesTo(p, c, "idle")
         /\ PutClear(p, c) => PutComesTo(p, c, "cleared")
         /\ PutRename(p, c) =>
              IF chunkTemp[c] = "none" THEN PutComesTo(p, c, "idle") ELSE PutComesTo(p, c, "renamed")
         /\ PutSettle(p, c) => PutComesTo(p, c, "idle")
<1> DEFINE M(from, to) == Moved(putCall, c, from, to)
<1>0. putCall \in PutCalls /\ PutIdle.step = "idle" /\ \A q \in Puts : Alike(putCall[q], putCall[q])
  BY DEF UploadTypeOK, PutCalls, PutIdle, Alike
<1>1. ASSUME NEW from, NEW to \in PutAts
      PROVE  /\ M(from, to) \in PutCalls
             /\ \A q \in Puts :
                  /\ Alike(M(from, to)[q], putCall[q])
                  /\ M(from, to)[q] = putCall[q] \/ PutAt(q, c, "writing")
  BY <1>0, <1>1, MovedPuts DEF Writes
<1>2. ASSUME NEW m \in PutCalls,
             \A q \in Puts : Alike(m[q], putCall[q]) /\ (m[q] = putCall[q] \/ PutAt(q, c, "writing")),
             putCall[p].step \in PutSteps, putCall[p].chunk = c, NEW step \in PutSteps, NEW at \in PutAts
      PROVE  /\ putCall' = [m EXCEPT ![p].step = step] => PutComesTo(p, c, step)
             /\ putCall' = [m EXCEPT ![p].step = step, ![p].at = at] =>
                  PutComesTo(p, c, step) /\ putCall'[p].at = at
             /\ putCall' = [m EXCEPT ![p] = PutIdle] => PutComesTo(p, c, "idle")
  <2>1. m[p] \in PutBusy /\ m[p].chunk = c
    <3>1. m[p].step # "idle" /\ m[p] \in PutBusy \cup {PutIdle} /\ m[p].chunk = c
      BY <1>2 DEF Alike, PutSteps, PutCalls
    <3> QED BY <3>1, BusyPut
  <2>2. [m[p] EXCEPT !.step = step] \in PutBusy /\ [m[p] EXCEPT !.step = step, !.at = at] \in PutBusy
    BY <1>2, <2>1, PutRecord
  <2>3. /\ [m[p] EXCEPT !.step = step].step = step /\ [m[p] EXCEPT !.step = step].chunk = c
        /\ [m[p] EXCEPT !.step = step, !.at = at].step = step
        /\ [m[p] EXCEPT !.step = step, !.at = at].chunk = c
        /\ [m[p] EXCEPT !.step = step, !.at = at].at = at
    BY <2>1 DEF PutBusy
  <2>4. ASSUME NEW r \in PutBusy \cup {PutIdle}, putCall' = [m EXCEPT ![p] = r]
        PROVE  /\ putCall' \in PutCalls /\ putCall'[p] = r
               /\ \A q \in Puts \ {p} : putCall'[q] = m[q]
    BY <1>2, <2>4 DEF PutCalls
  <2>5. ASSUME putCall' = [m EXCEPT ![p].step = step] PROVE PutComesTo(p, c, step)
    <3>1. putCall' = [m EXCEPT ![p] = [m[p] EXCEPT !.step = step]]
      BY <2>5
    <3> QED BY <1>2, <2>2, <2>3, <2>4, <3>1 DEF PutComesTo
  <2>6. ASSUME putCall' = [m EXCEPT ![p].step = step, ![p].at = at]
        PROVE  PutComesTo(p, c, step) /\ putCall'[p].at = at
    <3>1. putCall' = [m EXCEPT ![p] = [m[p] EXCEPT !.step = step, !.at = at]]
      BY <2>6, <1>2 DEF PutCalls
    <3> QED BY <1>2, <2>2, <2>3, <2>4, <3>1 DEF PutComesTo
  <2>7. ASSUME putCall' = [m EXCEPT ![p] = PutIdle] PROVE PutComesTo(p, c, "idle")
    BY <1>0, <1>2, <2>4, <2>7 DEF PutComesTo
  <2> QED BY <2>5, <2>6, <2>7
<1> USE DEF PutSteps, PutAts
<1>3. PutCreate(p, c) => PutComesTo(p, c, "writing") /\ putCall'[p].at = "temp"
  <2> DEFINE m == M("temp", "lost")
  <2>1. m \in PutCalls /\ \A q \in Puts : Alike(m[q], putCall[q]) /\ (m[q] = putCall[q] \/ PutAt(q, c, "writing"))
    BY <1>1
  <2>2. PutCreate(p, c) => /\ putCall' = [m EXCEPT ![p].step = "writing", ![p].at = "temp"]
                           /\ putCall[p].step \in PutSteps /\ putCall[p].chunk = c
    BY DEF PutCreate, PutAt
  <2> HIDE DEF m
  <2> QED BY <1>2, <2>1, <2>2
<1>4. PutWrite(p, c) => PutComesTo(p, c, "written")
  BY <1>0, <1>2 DEF PutWrite, PutAt
<1>5. PutWriteFails(p, c) => PutComesTo(p, c, "idle")
  BY <1>1, <1>2 DEF PutWriteFails, PutAt
<1>6. PutClear(p, c) => PutComesTo(p, c, "cleared")
  <2> DEFINE m == M("file", "lost")
  <2>1. m \in PutCalls /\ \A q \in Puts : Alike(m[q], putCall[q]) /\ (m[q] = putCall[q] \/ PutAt(q, c, "writing"))
    BY <1>1
  <2>2. PutClear(p, c) => /\ putCall' = [m EXCEPT ![p].step = "cleared"]
                          /\ putCall[p].step \in PutSteps /\ putCall[p].chunk = c
    BY DEF PutClear, PutAt
  <2> HIDE DEF m
  <2> QED BY <1>2, <2>1, <2>2
<1>7. PutRename(p, c) =>
        IF chunkTemp[c] = "none" THEN PutComesTo(p, c, "idle") ELSE PutComesTo(p, c, "renamed")
  <2> DEFINE N == Moved(M("file", "lost"), c, "temp", "file")
  <2>1. /\ N \in PutCalls
        /\ \A q \in Puts : Alike(N[q], putCall[q]) /\ (N[q] = putCall[q] \/ PutAt(q, c, "writing"))
    BY <1>1, MovedPuts DEF Writes
  <2> QED BY <1>0, <1>2, <2>1 DEF PutRename, PutAt
<1>8. PutSettle(p, c) => PutComesTo(p, c, "idle")
  BY <1>0, <1>2 DEF PutSettle, PutAt
<1> QED BY <1>3, <1>4, <1>5, <1>6, <1>7, <1>8

\* Each step of Complete takes its own call one step on and leaves the others at
\* theirs.
LEMMA CompleteGoes ==
  ASSUME UploadTypeOK, NEW k \in Completes
  PROVE  /\ CompleteCreate(k) => CompleteComesTo(k, "joining") /\ completeCall'[k].at = "pack"
         /\ CompleteAppend(k) =>
              IF chunkFile[completeCall[k].next] = "none" THEN CompleteComesTo(k, "idle")
              ELSE completeCall' \in CompleteCalls /\ completeCall'[k].step = "joining"
                   /\ completeCall'[k].at = completeCall[k].at
                   /\ \A j \in Completes \ {k} : completeCall'[j] = completeCall[j]
         /\ CompleteClose(k) => CompleteComesTo(k, "joined")
         /\ CompleteCheck(k) =>
              CompleteComesTo(k, "idle") \/ (CompleteComesTo(k, "opened") /\ completeCall[k].good)
         /\ CompleteStore(k) =>
              IF packFile = "none" THEN CompleteComesTo(k, "idle") ELSE CompleteComesTo(k, "stored")
         /\ CompleteRegister(k) => CompleteComesTo(k, "registered") \/ CompleteComesTo(k, "idle")
         /\ CompleteSettle(k) => CompleteComesTo(k, "idle")
         /\ CompleteFails(k) => CompleteComesTo(k, "idle")
<1> DEFINE M(from, to) == MovedPack(completeCall, from, to)
<1>0. /\ completeCall \in CompleteCalls /\ CompleteIdle.step = "idle"
      /\ \A j \in Completes : SameComplete(completeCall[j], completeCall[j])
  BY DEF UploadTypeOK, CompleteCalls, CompleteIdle, SameComplete
<1>1. ASSUME NEW from, NEW to \in {"none", "pack", "stored", "lost"}
      PROVE  /\ M(from, to) \in CompleteCalls
             /\ \A j \in Completes :
                  /\ SameComplete(M(from, to)[j], completeCall[j])
                  /\ M(from, to)[j] = completeCall[j] \/ CompleteAt(j, "joining")
  BY <1>0, <1>1, MovedCompletes
<1>2. ASSUME NEW m \in CompleteCalls,
             \A j \in Completes : SameComplete(m[j], completeCall[j])
                                  /\ (m[j] = completeCall[j] \/ CompleteAt(j, "joining")),
             completeCall[k].step \in CompleteSteps,
             NEW step \in CompleteSteps, NEW at \in {"none", "pack", "stored", "lost"}
      PROVE  /\ completeCall' = [m EXCEPT ![k].step = step] => CompleteComesTo(k, step)
             /\ completeCall' = [m EXCEPT ![k].step = step, ![k].at = at] =>
                  CompleteComesTo(k, step) /\ completeCall'[k].at = at
             /\ completeCall' = [m EXCEPT ![k] = CompleteIdle] => CompleteComesTo(k, "idle")
  <2>1. m[k] \in CompleteBusy /\ m[k].good = completeCall[k].good
    <3>1. /\ m[k].step # "idle" /\ m[k] \in CompleteBusy \cup {CompleteIdle}
          /\ m[k].good = completeCall[k].good
      BY <1>2 DEF SameComplete, CompleteSteps, CompleteCalls
    <3> QED BY <3>1, BusyComplete
  <2>2. /\ [m[k] EXCEPT !.step = step] \in CompleteBusy
        /\ [m[k] EXCEPT !.step = step, !.at = at] \in CompleteBusy
    BY <1>2, <2>1, CompleteRecord
  <2>3. /\ [m[k] EXCEPT !.step = step].step = step /\ [m[k] EXCEPT !.step = step].good = m[k].good
        /\ [m[k] EXCEPT !.step = step, !.at = at].step = step
        /\ [m[k] EXCEPT !.step = step, !.at = at].good = m[k].good
        /\ [m[k] EXCEPT !.step = step, !.at = at].at = at
    BY <2>1 DEF CompleteBusy
  <2>4. ASSUME NEW r \in CompleteBusy \cup {CompleteIdle}, completeCall' = [m EXCEPT ![k] = r]
        PROVE  /\ completeCall' \in CompleteCalls /\ completeCall'[k] = r
               /\ \A j \in Completes \ {k} : completeCall'[j] = m[j]
    BY <1>2, <2>4 DEF CompleteCalls
  <2>5. ASSUME completeCall' = [m EXCEPT ![k].step = step] PROVE CompleteComesTo(k, step)
    <3>1. completeCall' = [m EXCEPT ![k] = [m[k] EXCEPT !.step = step]]
      BY <2>5
    <3> QED BY <1>2, <2>1, <2>2, <2>3, <2>4, <3>1 DEF CompleteComesTo
  <2>6. ASSUME completeCall' = [m EXCEPT ![k].step = step, ![k].at = at]
        PROVE  CompleteComesTo(k, step) /\ completeCall'[k].at = at
    <3>1. completeCall' = [m EXCEPT ![k] = [m[k] EXCEPT !.step = step, !.at = at]]
      BY <2>6, <1>2 DEF CompleteCalls
    <3> QED BY <1>2, <2>1, <2>2, <2>3, <2>4, <3>1 DEF CompleteComesTo
  <2>7. ASSUME completeCall' = [m EXCEPT ![k] = CompleteIdle] PROVE CompleteComesTo(k, "idle")
    BY <1>0, <1>2, <2>4, <2>7 DEF CompleteComesTo
  <2> QED BY <2>5, <2>6, <2>7
<1> USE DEF CompleteSteps, CompleteAt
<1>3. CompleteCreate(k) => CompleteComesTo(k, "joining") /\ completeCall'[k].at = "pack"
  <2> DEFINE m == M("pack", "lost")
  <2>1. m \in CompleteCalls /\ \A j \in Completes : SameComplete(m[j], completeCall[j])
                                  /\ (m[j] = completeCall[j] \/ CompleteAt(j, "joining"))
    BY <1>1
  <2>2. CompleteCreate(k) => completeCall' = [m EXCEPT ![k].step = "joining", ![k].at = "pack"]
                             /\ completeCall[k].step \in CompleteSteps
    BY DEF CompleteCreate
  <2> HIDE DEF m
  <2> QED BY <1>2, <2>1, <2>2
<1>4. CompleteAppend(k) =>
        IF chunkFile[completeCall[k].next] = "none" THEN CompleteComesTo(k, "idle")
        ELSE completeCall' \in CompleteCalls /\ completeCall'[k].step = "joining"
             /\ completeCall'[k].at = completeCall[k].at
             /\ \A j \in Completes \ {k} : completeCall'[j] = completeCall[j]
  <2> SUFFICES ASSUME CompleteAppend(k) PROVE <1>4!2
    OBVIOUS
  <2>1. completeCall[k] \in CompleteBusy /\ completeCall[k].step = "joining"
    BY CompleteIsBusy DEF CompleteAppend
  <2>2. CASE chunkFile[completeCall[k].next] = "none"
    BY <1>0, <1>2, <2>2 DEF CompleteAppend
  <2>3. CASE chunkFile[completeCall[k].next] # "none"
    <3> DEFINE good == completeCall[k].good /\ chunkFile[completeCall[k].next] = "full"
               r == [completeCall[k] EXCEPT !.next = completeCall[k].next + 1, !.good = good]
    <3>1. completeCall' = [completeCall EXCEPT ![k] = r]
      BY <2>3 DEF CompleteAppend
    <3>2. r \in CompleteBusy /\ r.step = "joining" /\ r.at = completeCall[k].at
      <4>1. good \in BOOLEAN /\ completeCall[k].next + 1 \in 0..ChunkCount
        BY <2>1, UploadAssumption DEF CompleteAppend, CompleteBusy
      <4> HIDE DEF good
      <4> QED BY <2>1, <4>1 DEF CompleteBusy
    <3> HIDE DEF r
    <3> QED BY <1>0, <2>3, <3>1, <3>2 DEF CompleteCalls
  <2> QED BY <2>2, <2>3
<1>5. CompleteClose(k) => CompleteComesTo(k, "joined")
  BY <1>0, <1>2 DEF CompleteClose
<1>6. CompleteCheck(k) =>
        CompleteComesTo(k, "idle") \/ (CompleteComesTo(k, "opened") /\ completeCall[k].good)
  <2> DEFINE m == M("pack", "lost")
  <2>1. m \in CompleteCalls /\ \A j \in Completes : SameComplete(m[j], completeCall[j])
                                  /\ (m[j] = completeCall[j] \/ CompleteAt(j, "joining"))
    BY <1>1
  <2>2. CompleteCheck(k) =>
          /\ completeCall[k].step \in CompleteSteps
          /\ \/ completeCall' = [m EXCEPT ![k] = CompleteIdle]
             \/ completeCall' = [completeCall EXCEPT ![k] = CompleteIdle]
             \/ completeCall' = [completeCall EXCEPT ![k].step = "opened"] /\ completeCall[k].good
    BY DEF CompleteCheck
  <2> HIDE DEF m
  <2> QED BY <1>0, <1>2, <2>1, <2>2
<1>7. CompleteStore(k) =>
        IF packFile = "none" THEN CompleteComesTo(k, "idle") ELSE CompleteComesTo(k, "stored")
  <2> DEFINE m == MovedPack(M("stored", "lost"), "pack", "stored")
  <2>1. m \in CompleteCalls /\ \A j \in Completes : SameComplete(m[j], completeCall[j])
                                  /\ (m[j] = completeCall[j] \/ CompleteAt(j, "joining"))
    BY <1>1, MovedCompletes
  <2>2. CompleteStore(k) =>
          /\ completeCall[k].step \in CompleteSteps
          /\ completeCall' = IF packFile = "none" THEN [completeCall EXCEPT ![k] = CompleteIdle]
                             ELSE [m EXCEPT ![k].step = "stored"]
    BY DEF CompleteStore
  <2> HIDE DEF m
  <2> QED BY <1>0, <1>2, <2>1, <2>2
<1>8. CompleteRegister(k) => CompleteComesTo(k, "registered") \/ CompleteComesTo(k, "idle")
  <2> DEFINE m == M("stored", "lost")
  <2>1. m \in CompleteCalls /\ \A j \in Completes : SameComplete(m[j], completeCall[j])
                                  /\ (m[j] = completeCall[j] \/ CompleteAt(j, "joining"))
    BY <1>1
  <2>2. CompleteRegister(k) =>
          /\ completeCall[k].step \in CompleteSteps
          /\ \/ completeCall' = [completeCall EXCEPT ![k].step = "registered"]
             \/ completeCall' = [m EXCEPT ![k] = CompleteIdle]
    BY DEF CompleteRegister
  <2> HIDE DEF m
  <2> QED BY <1>0, <1>2, <2>1, <2>2
<1>9. CompleteSettle(k) \/ CompleteFails(k) => CompleteComesTo(k, "idle")
  BY <1>0, <1>2 DEF CompleteSettle, CompleteFails
<1> QED BY <1>3, <1>4, <1>5, <1>6, <1>7, <1>8, <1>9

\* What has overlapped, been contested or been swept remains so.
LEMMA SticksOnce ==
  ASSUME [UploadNext]_uploadVars
  PROVE  (overlapped => overlapped') /\ (swept => swept') /\ contested \subseteq contested'
<1> USE DEF chunkVars, storeVars, uploadHistory
<1>1. ASSUME NEW p \in Puts, PutBegin(p) PROVE (overlapped => overlapped') /\ (swept => swept') /\ contested \subseteq contested'
  BY <1>1 DEF PutBegin
<1>2. ASSUME NEW p \in Puts, NEW c \in Chunks, PutCreate(p, c) PROVE (overlapped => overlapped') /\ (swept => swept') /\ contested \subseteq contested'
  BY <1>2 DEF PutCreate, PutAt, Moved, Writes
<1>3. ASSUME NEW p \in Puts, NEW c \in Chunks, PutWrite(p, c) PROVE (overlapped => overlapped') /\ (swept => swept') /\ contested \subseteq contested'
  BY <1>3 DEF PutWrite, PutAt, Fills
<1>4. ASSUME NEW p \in Puts, NEW c \in Chunks, PutWriteFails(p, c) PROVE (overlapped => overlapped') /\ (swept => swept') /\ contested \subseteq contested'
  BY <1>4 DEF PutWriteFails, PutAt, Moved, Writes
<1>5. ASSUME NEW p \in Puts, NEW c \in Chunks, PutClear(p, c) PROVE (overlapped => overlapped') /\ (swept => swept') /\ contested \subseteq contested'
  BY <1>5 DEF PutClear, PutAt, Moved, Writes
<1>6. ASSUME NEW p \in Puts, NEW c \in Chunks, PutRename(p, c) PROVE (overlapped => overlapped') /\ (swept => swept') /\ contested \subseteq contested'
  BY <1>6 DEF PutRename, PutAt, Moved, Writes
<1>7. ASSUME NEW p \in Puts, NEW c \in Chunks, PutSettle(p, c) PROVE (overlapped => overlapped') /\ (swept => swept') /\ contested \subseteq contested'
  BY <1>7 DEF PutSettle, PutAt
<1>8. ASSUME NEW k \in Completes, CompleteBegin(k) PROVE (overlapped => overlapped') /\ (swept => swept') /\ contested \subseteq contested'
  BY <1>8 DEF CompleteBegin
<1>9. ASSUME NEW k \in Completes, CompleteCreate(k) PROVE (overlapped => overlapped') /\ (swept => swept') /\ contested \subseteq contested'
  BY <1>9 DEF CompleteCreate, MovedPack, CompleteAt, Rivals
<1>10. ASSUME NEW k \in Completes, CompleteAppend(k) PROVE (overlapped => overlapped') /\ (swept => swept') /\ contested \subseteq contested'
  BY <1>10 DEF CompleteAppend, CompleteAt
<1>11. ASSUME NEW k \in Completes, CompleteClose(k) PROVE (overlapped => overlapped') /\ (swept => swept') /\ contested \subseteq contested'
  BY <1>11 DEF CompleteClose, CompleteAt, Joins
<1>12. ASSUME NEW k \in Completes, CompleteCheck(k) PROVE (overlapped => overlapped') /\ (swept => swept') /\ contested \subseteq contested'
  BY <1>12 DEF CompleteCheck, CompleteAt, MovedPack
<1>13. ASSUME NEW k \in Completes, CompleteStore(k) PROVE (overlapped => overlapped') /\ (swept => swept') /\ contested \subseteq contested'
  BY <1>13 DEF CompleteStore, CompleteAt, MovedPack
<1>14. ASSUME NEW k \in Completes, CompleteRegister(k) PROVE (overlapped => overlapped') /\ (swept => swept') /\ contested \subseteq contested'
  BY <1>14 DEF CompleteRegister, CompleteAt, MovedPack
<1>15. ASSUME NEW k \in Completes, CompleteSettle(k) \/ CompleteFails(k) PROVE (overlapped => overlapped') /\ (swept => swept') /\ contested \subseteq contested'
  BY <1>15 DEF CompleteSettle, CompleteFails, CompleteAt
<1>16. CASE UploadAbort
  BY <1>16 DEF UploadAbort
<1>17. CASE UploadRemove
  BY <1>17 DEF UploadRemove, Sweep, MovedPack, CompleteAt
<1>18. CASE UploadCrash
  BY <1>18 DEF UploadCrash, Sweep
<1>19. CASE UNCHANGED uploadVars
  BY <1>19 DEF uploadVars, requestVars
<1> HIDE DEF chunkVars, storeVars, uploadHistory
<1> QED BY <1>1, <1>2, <1>3, <1>4, <1>5, <1>6, <1>7, <1>8, <1>9, <1>10, <1>11, <1>12, <1>13, <1>14,
     <1>15, <1>16, <1>17, <1>18, <1>19 DEF UploadNext, PutStep, CompleteStep

\* Every step keeps the types.
LEMMA UploadTypesStep ==
  ASSUME UploadTypeOK, [UploadNext]_uploadVars
  PROVE  UploadTypeOK'
<1> USE UploadAssumption DEF chunkVars, storeVars, uploadHistory, UploadTypeOK, Chunks, Bytes,
     PutIdle, PutBusy, CompleteIdle, CompleteBusy
<1>1. ASSUME NEW p \in Puts, PutBegin(p) PROVE UploadTypeOK'
  BY <1>1 DEF PutBegin
<1>2. ASSUME NEW p \in Puts, NEW c \in Chunks, PutCreate(p, c) PROVE UploadTypeOK'
  <2>1. putCall' \in PutCalls
    BY PutGoes, <1>2 DEF PutComesTo
  <2> QED BY <1>2, <2>1 DEF PutCreate, PutCalls
<1>3. ASSUME NEW p \in Puts, NEW c \in Chunks, PutWrite(p, c) PROVE UploadTypeOK'
  <2>1. putCall' \in PutCalls
    BY PutGoes, <1>3 DEF PutComesTo
  <2>2. putCall[p].sends \in Bytes
    BY PutIsBusy, <1>3 DEF PutWrite, PutBusy, Bytes, PutSteps
  <2> QED BY <1>3, <2>1, <2>2 DEF PutWrite, PutCalls, Fills, PutAt
<1>4. ASSUME NEW p \in Puts, NEW c \in Chunks, PutWriteFails(p, c) PROVE UploadTypeOK'
  <2>1. putCall' \in PutCalls
    BY PutGoes, <1>4 DEF PutComesTo
  <2> QED BY <1>4, <2>1 DEF PutWriteFails, PutCalls
<1>5. ASSUME NEW p \in Puts, NEW c \in Chunks, PutClear(p, c) PROVE UploadTypeOK'
  <2>1. putCall' \in PutCalls
    BY PutGoes, <1>5 DEF PutComesTo
  <2> QED BY <1>5, <2>1 DEF PutClear, PutCalls
<1>6. ASSUME NEW p \in Puts, NEW c \in Chunks, PutRename(p, c) PROVE UploadTypeOK'
  <2>1. putCall' \in PutCalls
    BY PutGoes, <1>6 DEF PutComesTo
  <2> QED BY <1>6, <2>1 DEF PutRename, PutCalls
<1>7. ASSUME NEW p \in Puts, NEW c \in Chunks, PutSettle(p, c) PROVE UploadTypeOK'
  <2>1. putCall' \in PutCalls
    BY PutGoes, <1>7 DEF PutComesTo
  <2> QED BY <1>7, <2>1 DEF PutSettle, PutCalls
<1>8. ASSUME NEW k \in Completes, CompleteBegin(k) PROVE UploadTypeOK'
  BY <1>8 DEF CompleteBegin
<1>9. ASSUME NEW k \in Completes, CompleteCreate(k) PROVE UploadTypeOK'
  <2>1. completeCall' \in CompleteCalls
    BY CompleteGoes, <1>9 DEF CompleteComesTo
  <2> QED BY <1>9, <2>1 DEF CompleteCreate, CompleteCalls
<1>10. ASSUME NEW k \in Completes, CompleteAppend(k) PROVE UploadTypeOK'
  <2>1. completeCall' \in CompleteCalls
    BY CompleteGoes, <1>10 DEF CompleteComesTo
  <2> QED BY <1>10, <2>1 DEF CompleteAppend, CompleteCalls, UploadTypeOK
<1>11. ASSUME NEW k \in Completes, CompleteClose(k) PROVE UploadTypeOK'
  <2>1. completeCall' \in CompleteCalls
    BY CompleteGoes, <1>11 DEF CompleteComesTo
  <2> QED BY <1>11, <2>1 DEF CompleteClose, CompleteCalls, Joins, CompleteAt
<1>12. ASSUME NEW k \in Completes, CompleteCheck(k) PROVE UploadTypeOK'
  <2>1. completeCall' \in CompleteCalls
    BY CompleteGoes, <1>12 DEF CompleteComesTo
  <2> QED BY <1>12, <2>1 DEF CompleteCheck, CompleteCalls
<1>13. ASSUME NEW k \in Completes, CompleteStore(k) PROVE UploadTypeOK'
  <2>1. completeCall' \in CompleteCalls
    BY CompleteGoes, <1>13 DEF CompleteComesTo
  <2> QED BY <1>13, <2>1 DEF CompleteStore, CompleteCalls
<1>14. ASSUME NEW k \in Completes, CompleteRegister(k) PROVE UploadTypeOK'
  <2>1. completeCall' \in CompleteCalls
    BY CompleteGoes, <1>14 DEF CompleteComesTo
  <2> QED BY <1>14, <2>1 DEF CompleteRegister, CompleteCalls
<1>15. ASSUME NEW k \in Completes, CompleteSettle(k) \/ CompleteFails(k) PROVE UploadTypeOK'
  <2>1. completeCall' \in CompleteCalls
    BY CompleteGoes, <1>15 DEF CompleteComesTo
  <2>2. uploadStatus' = "completed" \/ UNCHANGED uploadStatus
    BY <1>15 DEF CompleteSettle, CompleteFails
  <2>3. UNCHANGED <<chunkVars, packFile, storeVars, putCall, aborting, uploadCrashes, uploadHistory>>
    BY <1>15 DEF CompleteSettle, CompleteFails
  <2> QED BY <2>1, <2>2, <2>3 DEF CompleteCalls
<1>16. CASE UploadAbort
  BY <1>16 DEF UploadAbort
<1>17. CASE UploadRemove
  <2>1. completeCall' \in CompleteCalls
    BY MovedCompletes, <1>17 DEF UploadRemove, CompleteCalls, SameComplete
  <2>2. ASSUME NEW p \in Puts PROVE putCall'[p] \in PutBusy \cup {PutIdle}
    <3>1. CASE putCall[p].step = "writing"
      BY <1>17, <3>1, BusyPut DEF UploadRemove, PutBusy
    <3> QED BY <1>17, <3>1 DEF UploadRemove
  <2> QED BY <1>17, <2>1, <2>2 DEF UploadRemove, Sweep, CompleteCalls
<1>18. CASE UploadCrash
  <2>1. /\ putCall' \in [Puts -> PutBusy \cup {PutIdle}]
        /\ completeCall' \in [Completes -> CompleteBusy \cup {CompleteIdle}]
    BY <1>18 DEF UploadCrash
  <2>0. uploadCrashes < UploadCrashes /\ uploadCrashes' = uploadCrashes + 1
    BY <1>18 DEF UploadCrash
  <2>2. uploadCrashes' \in 0..UploadCrashes
    BY <2>0
  <2>5. aborting' = FALSE
    BY <1>18 DEF UploadCrash
  <2>3. /\ uploadStatus' \in {"initialized", "receiving", "completed", "aborted", "gone"}
        /\ sessionDir' \in BOOLEAN /\ swept' \in BOOLEAN /\ packFile' \in {"none", "part", "full"}
        /\ chunkFile' \in [Chunks -> Bytes] /\ chunkTemp' \in [Chunks -> Bytes]
    BY <1>18 DEF UploadCrash, Sweep
  <2>4. UNCHANGED <<storeVars, accepted, reput, contested, overlapped>>
    BY <1>18 DEF UploadCrash
  <2> QED BY <2>1, <2>2, <2>3, <2>4, <2>5
<1>19. CASE UNCHANGED uploadVars
  BY <1>19 DEF uploadVars, requestVars
<1> HIDE DEF chunkVars, storeVars, uploadHistory, UploadTypeOK, Chunks, Bytes, PutIdle, PutBusy,
     CompleteIdle, CompleteBusy
<1> QED BY <1>1, <1>2, <1>3, <1>4, <1>5, <1>6, <1>7, <1>8, <1>9, <1>10, <1>11, <1>12, <1>13, <1>14,
     <1>15, <1>16, <1>17, <1>18, <1>19 DEF UploadNext, PutStep, CompleteStep

\* While no two Completes overlap, every step leaves the package file to the one
\* that writes it.
LEMMA OneCompletesStep ==
  ASSUME UploadTypeOK, OneCompletes, ~overlapped', [UploadNext]_uploadVars
  PROVE  OneCompletes'
<1> USE UploadAssumption DEF chunkVars, storeVars, uploadHistory, UploadTypeOK, Chunks, Bytes,
     PutIdle, PutBusy, CompleteIdle, CompleteBusy, OneCompletes, Joining, CompleteAt
<1>1. ASSUME NEW p \in Puts, PutBegin(p) PROVE OneCompletes'
  BY <1>1 DEF PutBegin
<1>2. ASSUME NEW p \in Puts, NEW c \in Chunks, PutCreate(p, c) PROVE OneCompletes'
  BY <1>2 DEF PutCreate, PutAt, Moved, Writes
<1>3. ASSUME NEW p \in Puts, NEW c \in Chunks, PutWrite(p, c) PROVE OneCompletes'
  BY <1>3 DEF PutWrite, PutAt, Fills
<1>4. ASSUME NEW p \in Puts, NEW c \in Chunks, PutWriteFails(p, c) PROVE OneCompletes'
  BY <1>4 DEF PutWriteFails, PutAt, Moved, Writes
<1>5. ASSUME NEW p \in Puts, NEW c \in Chunks, PutClear(p, c) PROVE OneCompletes'
  BY <1>5 DEF PutClear, PutAt, Moved, Writes
<1>6. ASSUME NEW p \in Puts, NEW c \in Chunks, PutRename(p, c) PROVE OneCompletes'
  BY <1>6 DEF PutRename, PutAt, Moved, Writes
<1>7. ASSUME NEW p \in Puts, NEW c \in Chunks, PutSettle(p, c) PROVE OneCompletes'
  BY <1>7 DEF PutSettle, PutAt
<1>8. ASSUME NEW k \in Completes, CompleteBegin(k) PROVE OneCompletes'
  BY <1>8 DEF CompleteBegin
<1>9. ASSUME NEW k \in Completes, CompleteCreate(k) PROVE OneCompletes'
  <2>1. /\ CompleteComesTo(k, "joining") /\ completeCall'[k].at = "pack"
        /\ ~Rivals(k) /\ UNCHANGED storeVars
    BY CompleteGoes, <1>9 DEF CompleteCreate, CompleteAt
  <2> QED BY ONLY <2>1, OneCompletes, k \in Completes DEF CompleteComesTo, SameComplete,
       OneCompletes, Joining, CompleteAt, Rivals, storeVars
<1>10. ASSUME NEW k \in Completes, CompleteAppend(k) PROVE OneCompletes'
  <2>1. /\ completeCall[k].step = "joining" /\ (CompleteComesTo(k, "idle") \/
             /\ completeCall'[k].step = "joining" /\ completeCall'[k].at = completeCall[k].at
             /\ \A j \in Completes \ {k} : completeCall'[j] = completeCall[j])
        /\ UNCHANGED <<packFile, storeVars>>
    BY CompleteGoes, <1>10 DEF CompleteAppend, CompleteAt
  <2> QED BY ONLY <2>1, OneCompletes, k \in Completes DEF CompleteComesTo, SameComplete,
       OneCompletes, Joining, CompleteAt, Rivals, storeVars
<1>11. ASSUME NEW k \in Completes, CompleteClose(k) PROVE OneCompletes'
  <2>1. /\ completeCall[k].step = "joining" /\ CompleteComesTo(k, "joined")
        /\ completeCall[k].at = "pack" /\ completeCall[k].good => packFile' = "full"
        /\ completeCall[k].at # "pack" => packFile' = packFile
        /\ completeCall[k].at # "stored" => UNCHANGED stored
        /\ UNCHANGED storedRow
    BY CompleteGoes, <1>11 DEF CompleteClose, CompleteAt, Joins
  <2> QED BY ONLY <2>1, OneCompletes, k \in Completes DEF CompleteComesTo, SameComplete,
       OneCompletes, Joining, CompleteAt, Rivals, storeVars
<1>12. ASSUME NEW k \in Completes, CompleteCheck(k) PROVE OneCompletes'
  <2>1. CompleteComesTo(k, "idle") \/ (CompleteComesTo(k, "opened") /\ completeCall[k].good)
    BY CompleteGoes, <1>12
  <2>2. CompleteIdle.step # "opened"
    BY DEF CompleteIdle
  <2>3. /\ completeCall[k].step = "joined" /\ UNCHANGED storeVars
        /\ completeCall[k].good => packFile' = packFile /\ (storedRow => completeCall' = [completeCall EXCEPT ![k] = CompleteIdle])
        /\ ~completeCall[k].good => packFile' = "none"
    BY <1>12 DEF CompleteCheck, CompleteAt
  <2>4. completeCall[k].good /\ storedRow => completeCall'[k].step # "opened"
    BY <2>2, <2>3 DEF UploadTypeOK
  <2> QED BY ONLY <2>1, <2>3, <2>4, OneCompletes, k \in Completes DEF CompleteComesTo,
       SameComplete, OneCompletes, Joining, CompleteAt, Rivals, storeVars
<1>13. ASSUME NEW k \in Completes, CompleteStore(k) PROVE OneCompletes'
  <2>1. /\ completeCall[k].step = "opened" /\ UNCHANGED storedRow /\ packFile' = "none"
        /\ IF packFile = "none" THEN CompleteComesTo(k, "idle") /\ UNCHANGED stored
           ELSE CompleteComesTo(k, "stored") /\ stored' = packFile
    BY CompleteGoes, <1>13 DEF CompleteStore, CompleteAt
  <2> QED BY ONLY <2>1, OneCompletes, k \in Completes DEF CompleteComesTo, SameComplete,
       OneCompletes, Joining, CompleteAt, Rivals, storeVars
<1>14. ASSUME NEW k \in Completes, CompleteRegister(k) PROVE OneCompletes'
  <2>1. completeCall[k].step = "stored" /\ UNCHANGED packFile
    BY <1>14 DEF CompleteRegister, CompleteAt
  <2>2. CompleteComesTo(k, "registered") \/ CompleteComesTo(k, "idle")
    BY CompleteGoes, <1>14
  <2>3. (UNCHANGED stored /\ storedRow' = TRUE) \/ (UNCHANGED storedRow /\ ~storedRow)
    BY <1>14, <2>1 DEF CompleteRegister, OneCompletes, CompleteAt
  <2> QED BY ONLY <2>1, <2>2, <2>3, OneCompletes, k \in Completes DEF CompleteComesTo,
       SameComplete, OneCompletes, Joining, CompleteAt
<1>15. ASSUME NEW k \in Completes, CompleteSettle(k) \/ CompleteFails(k) PROVE OneCompletes'
  BY <1>15 DEF CompleteSettle, CompleteFails, CompleteAt
<1>16. CASE UploadAbort
  BY <1>16 DEF UploadAbort
<1>17. CASE UploadRemove
  BY <1>17 DEF UploadRemove, Sweep, MovedPack, CompleteAt
<1>18. CASE UploadCrash
  BY <1>18 DEF UploadCrash, Sweep
<1>19. CASE UNCHANGED uploadVars
  BY <1>19 DEF uploadVars, requestVars
<1> HIDE DEF chunkVars, storeVars, uploadHistory, UploadTypeOK, Chunks, Bytes, PutIdle, PutBusy,
     CompleteIdle, CompleteBusy, OneCompletes, Joining, CompleteAt
<1> QED BY <1>1, <1>2, <1>3, <1>4, <1>5, <1>6, <1>7, <1>8, <1>9, <1>10, <1>11, <1>12, <1>13, <1>14,
     <1>15, <1>16, <1>17, <1>18, <1>19 DEF UploadNext, PutStep, CompleteStep

\* While the directory is not swept, every step keeps the chunks that were answered
\* for and are not contested.
LEMMA ChunksStep ==
  ASSUME UploadTypeOK, ChunksOnDisk, ~swept', [UploadNext]_uploadVars
  PROVE  ChunksOnDisk'
<1> USE UploadAssumption DEF chunkVars, storeVars, uploadHistory, UploadTypeOK, Chunks, Bytes,
     PutIdle, PutBusy, CompleteIdle, CompleteBusy, ChunksOnDisk, OnePuts, Promised, InTemp, PutAt
<1>1. ASSUME NEW p \in Puts, PutBegin(p) PROVE ChunksOnDisk'
  BY <1>1 DEF PutBegin
<1>2. ASSUME NEW p \in Puts, NEW c \in Chunks, PutCreate(p, c) PROVE ChunksOnDisk'
  <2>1. PutComesTo(p, c, "writing") /\ putCall'[p].at = "temp" /\ PutAt(p, c, "checked")
    BY PutGoes, <1>2 DEF PutCreate
  <2>2. c \in contested' \/ \A q \in Puts \ {p} : \A s \in InTemp : ~PutAt(q, c, s)
    BY <1>2 DEF PutCreate
  <2>3. contested \subseteq contested' /\ chunkFile' = chunkFile /\ UNCHANGED <<reput, accepted>>
    BY <1>2 DEF PutCreate
  <2>9. \A d \in Chunks : d # c =>
          chunkTemp'[d] = chunkTemp[d] /\ chunkFile'[d] = chunkFile[d] /\ (d \in reput <=> d \in reput')
    BY <1>2 DEF PutCreate
  <2> QED BY ONLY <2>1, <2>2, <2>3, <2>9, ChunksOnDisk, p \in Puts, c \in Chunks
          DEF ChunksOnDisk, OnePuts, Promised, InTemp, PutAt, PutComesTo, Alike
<1>3. ASSUME NEW p \in Puts, NEW c \in Chunks, PutWrite(p, c) PROVE ChunksOnDisk'
  BY <1>3 DEF PutWrite, PutAt, Fills
<1>4. ASSUME NEW p \in Puts, NEW c \in Chunks, PutWriteFails(p, c) PROVE ChunksOnDisk'
  <2>1. PutComesTo(p, c, "idle") /\ PutAt(p, c, "writing")
    BY PutGoes, <1>4 DEF PutWriteFails
  <2>2. chunkFile' = chunkFile /\ UNCHANGED <<reput, accepted>>
    BY <1>4 DEF PutWriteFails
  <2>3. contested' = contested
    BY <1>4 DEF PutWriteFails
  <2>9. \A d \in Chunks : d # c =>
          chunkTemp'[d] = chunkTemp[d] /\ chunkFile'[d] = chunkFile[d] /\ (d \in reput <=> d \in reput')
    BY <1>4 DEF PutWriteFails
  <2> QED BY ONLY <2>1, <2>2, <2>3, <2>9, ChunksOnDisk, p \in Puts, c \in Chunks
          DEF ChunksOnDisk, OnePuts, Promised, InTemp, PutAt, PutComesTo, Alike
<1>5. ASSUME NEW p \in Puts, NEW c \in Chunks, PutClear(p, c) PROVE ChunksOnDisk'
  <2>1. PutComesTo(p, c, "cleared") /\ PutAt(p, c, "written")
    BY PutGoes, <1>5 DEF PutClear
  <2>2. chunkTemp' = chunkTemp /\ (c \in reput' \/ (chunkFile[c] = "none" /\ reput' = reput)) /\ UNCHANGED accepted
    BY <1>5 DEF PutClear
  <2>3. contested' = contested
    BY <1>5 DEF PutClear
  <2>9. \A d \in Chunks : d # c =>
          chunkTemp'[d] = chunkTemp[d] /\ chunkFile'[d] = chunkFile[d] /\ (d \in reput <=> d \in reput')
    BY <1>5 DEF PutClear
  <2> QED BY ONLY <2>1, <2>2, <2>3, <2>9, ChunksOnDisk, p \in Puts, c \in Chunks
          DEF ChunksOnDisk, OnePuts, Promised, InTemp, PutAt, PutComesTo, Alike
<1>6. ASSUME NEW p \in Puts, NEW c \in Chunks, PutRename(p, c) PROVE ChunksOnDisk'
  <2>1. PutAt(p, c, "cleared") /\ (c \in contested \/ PutComesTo(p, c, "renamed")) /\ (PutComesTo(p, c, "idle") \/ PutComesTo(p, c, "renamed"))
    BY PutGoes, <1>6 DEF PutRename
  <2>2. c \in contested \/ chunkFile'[c] \in {"short", "full"}
    BY <1>6 DEF PutRename
  <2>3. contested' = contested /\ accepted' = accepted
    BY <1>6 DEF PutRename
  <2>9. \A d \in Chunks : d # c =>
          chunkTemp'[d] = chunkTemp[d] /\ chunkFile'[d] = chunkFile[d] /\ (d \in reput <=> d \in reput')
    BY <1>6 DEF PutRename
  <2> QED BY ONLY <2>1, <2>2, <2>3, <2>9, ChunksOnDisk, p \in Puts, c \in Chunks
          DEF ChunksOnDisk, OnePuts, Promised, InTemp, PutAt, PutComesTo, Alike
<1>7. ASSUME NEW p \in Puts, NEW c \in Chunks, PutSettle(p, c) PROVE ChunksOnDisk'
  BY <1>7 DEF PutSettle, PutAt
<1>8. ASSUME NEW k \in Completes, CompleteBegin(k) PROVE ChunksOnDisk'
  BY <1>8 DEF CompleteBegin
<1>9. ASSUME NEW k \in Completes, CompleteCreate(k) PROVE ChunksOnDisk'
  BY <1>9 DEF CompleteCreate, MovedPack, CompleteAt, Rivals
<1>10. ASSUME NEW k \in Completes, CompleteAppend(k) PROVE ChunksOnDisk'
  BY <1>10 DEF CompleteAppend, CompleteAt
<1>11. ASSUME NEW k \in Completes, CompleteClose(k) PROVE ChunksOnDisk'
  BY <1>11 DEF CompleteClose, CompleteAt, Joins
<1>12. ASSUME NEW k \in Completes, CompleteCheck(k) PROVE ChunksOnDisk'
  BY <1>12 DEF CompleteCheck, CompleteAt, MovedPack
<1>13. ASSUME NEW k \in Completes, CompleteStore(k) PROVE ChunksOnDisk'
  BY <1>13 DEF CompleteStore, CompleteAt, MovedPack
<1>14. ASSUME NEW k \in Completes, CompleteRegister(k) PROVE ChunksOnDisk'
  BY <1>14 DEF CompleteRegister, CompleteAt, MovedPack
<1>15. ASSUME NEW k \in Completes, CompleteSettle(k) \/ CompleteFails(k) PROVE ChunksOnDisk'
  BY <1>15 DEF CompleteSettle, CompleteFails, CompleteAt
<1>16. CASE UploadAbort
  BY <1>16 DEF UploadAbort
<1>17. CASE UploadRemove
  BY <1>17 DEF UploadRemove, Sweep, MovedPack, CompleteAt
<1>18. CASE UploadCrash
  BY <1>18 DEF UploadCrash, Sweep
<1>19. CASE UNCHANGED uploadVars
  BY <1>19 DEF uploadVars, requestVars
<1> HIDE DEF chunkVars, storeVars, uploadHistory, UploadTypeOK, Chunks, Bytes, PutIdle, PutBusy,
     CompleteIdle, CompleteBusy, ChunksOnDisk, OnePuts, Promised, InTemp, PutAt
<1> QED BY <1>1, <1>2, <1>3, <1>4, <1>5, <1>6, <1>7, <1>8, <1>9, <1>10, <1>11, <1>12, <1>13, <1>14,
     <1>15, <1>16, <1>17, <1>18, <1>19 DEF UploadNext, PutStep, CompleteStep

\* The invariant holds before anything is sent.
LEMMA UploadBegins ==
  ASSUME UploadInit
  PROVE  UploadTrue
<1> USE UploadAssumption DEF UploadInit, Chunks, PutIdle, CompleteIdle
<1>1. UploadTypeOK
  <2>1. chunkFile \in [Chunks -> Bytes] /\ chunkTemp \in [Chunks -> Bytes]
    BY DEF Bytes
  <2>2. /\ putCall \in [Puts -> PutBusy \cup {PutIdle}]
        /\ completeCall \in [Completes -> CompleteBusy \cup {CompleteIdle}]
    OBVIOUS
  <2>3. uploadCrashes \in 0..UploadCrashes
    OBVIOUS
  <2> QED BY <2>1, <2>2, <2>3 DEF UploadTypeOK
<1>2. OneCompletes /\ ChunksOnDisk
  BY DEF OneCompletes, Joining, CompleteAt, ChunksOnDisk, OnePuts, Promised, InTemp, PutAt
<1> QED BY <1>1, <1>2 DEF UploadTrue

\* Every step of the puts, the Completes, an Abort and a crash keeps the invariant.
LEMMA UploadStep ==
  ASSUME UploadTrue, [UploadNext]_uploadVars
  PROVE  UploadTrue'
BY UploadTypesStep, OneCompletesStep, ChunksStep, SticksOnce DEF UploadTrue

\* UploadTrue holds in every state of UploadSpec.
LEMMA UploadStaysTrue == UploadSpec => []UploadTrue
<1>1. UploadInit => UploadTrue
  BY UploadBegins
<1>2. UploadTrue /\ [UploadNext]_uploadVars => UploadTrue'
  BY UploadStep
<1> QED BY <1>1, <1>2, PTL DEF UploadSpec

\* A registered package is whole and a chunk that was answered for stays, whatever is
\* put twice, aborted or cut off, save where two calls have shared a file (PutChunk,
\* Complete, AdoptUploaded).
THEOREM UploadAlwaysSound == UploadSpec => []UploadSound
<1>1. UploadTrue => UploadSound
  BY DEF UploadTrue, UploadSound, RegisteredWhole, ChunkKept, UploadTypeOK, OneCompletes,
         ChunksOnDisk, Promised
<1> QED BY <1>1, UploadStaysTrue, PTL

-----------------------------------------------------------------------------
(***************************************************************************)
(* BackupStore.                                                            *)
(* What the stored packages keep while generators, adoptions, deletes and the*)
(* cleanup of orphans work on them at once and the process dies in between.*)
(* A race that the code leaves open is in `exposed` or `undercut`; the     *)
(* invariant says of every other package who knows of it.                  *)
(***************************************************************************)

\* An adoption or an upload is at work on p.
Adopts(a, p) == adoptCall[a].step # "idle" /\ adoptCall[a].pkg = p

\* A delete is at work on the base of p.
Overlooks(d, p) ==
  removeCall[d].step # "idle" /\ pkgBase[p] # NoBase /\ removeCall[d].pkg = pkgBase[p]

\* A generator is at work on p.
Makes(g, p) == genCall[g].step # "idle" /\ genCall[g].pkg = p

\* Generators, one in the slot and one for a package, from the first step to
\* the last: the row, the archive, and who else knows of the package.
GeneratorsKnow ==
  /\ \A g, h \in Generators : Holds(g) /\ Holds(h) => g = h
  /\ \A p \in Packages, g, h \in Generators : Makes(g, p) /\ Makes(h, p) => g = h
  /\ \A p \in Packages, g \in Generators :
       /\ GenAt(g, "based", p) \/ GenAt(g, "claimed", p) => pkgRow[p] = "unborn"
       /\ Makes(g, p) /\ pkgRow[p] = "unborn" => GenAt(g, "based", p) \/ GenAt(g, "claimed", p)
       /\ GenAt(g, "recorded", p) \/ GenAt(g, "packing", p) => tar[p] = "none"
       /\ \/ GenAt(g, "recorded", p) \/ GenAt(g, "packing", p)
          \/ GenAt(g, "writing", p) /\ tar[p] = "stub"
          => pkgRow[p] # "done" /\ \A a \in Adopters : ~Adopts(a, p)
       /\ GenAt(g, "writing", p) => tar[p] # "whole"
       /\ GenAt(g, "written", p) \/ GenAt(g, "indexed", p) => tar[p] \in {"none", "whole"}
       /\ GenAt(g, "finished", p) => pkgRow[p] \notin InFlight

\* A package that has not been is nowhere.
NothingUnborn ==
  \A p \in Packages : pkgRow[p] = "unborn" =>
    /\ tar[p] = "none" /\ p \notin sweep.left
    /\ \A a \in Adopters : ~Adopts(a, p)

\* An upload that has received a package without a row, and a cleanup that has
\* found one, finds no row later, or one that is known to be in danger.
LateDiscards ==
  /\ \A a \in Adopters, p \in Packages : AdoptAt(a, "received", p) \/ AdoptAt(a, "moved", p) =>
       /\ ~Generated(p) /\ pkgRow[p] # "unborn"
       /\ Rowless(p) \/ p \in exposed
  /\ sweep.step = "removing" => \A p \in sweep.left : Rowless(p) \/ p \in exposed

\* A delete at work on a base has found no package derived from it, or that package
\* is known to be undercut.
DeletesLooked ==
  \A d \in Removers, p \in Packages : Overlooks(d, p) /\ ~Rowless(p) => p \in undercut

\* Every step keeps the types.
LEMMA StoreTypesStep ==
  ASSUME StoreTypeOK, [StoreNext]_backupVars
  PROVE  StoreTypeOK'
<1> USE StoreAssumption DEF diskVars, pkgVars, actorVars, storeHistory, StoreTypeOK, InFlight,
     ActorIdle, SweepIdle, GenSteps
<1>1. ASSUME NEW g \in Generators, NEW p \in Packages, GenBegin(g, p) PROVE StoreTypeOK'
  BY <1>1 DEF GenBegin, Fresh, GenAt, GenGoes, GenEnds
<1>2. ASSUME NEW g \in Generators, NEW p \in Packages, GenClaim(g, p) PROVE StoreTypeOK'
  <2>1. CASE generating
    <3>1. /\ genCall' = [genCall EXCEPT ![g] = [step |-> "idle"]] /\ UNCHANGED generating
          /\ pkgBase' = [pkgBase EXCEPT ![p] = NoBase] /\ pkgAuto' = pkgAuto \ {p}
      BY <1>2, <2>1 DEF GenClaim, GenEnds
    <3>2. /\ genCall[g] = [step |-> "based", pkg |-> p]
          /\ UNCHANGED <<pkgRow, diskVars, removeCall, doomed, adoptCall, sweep, storeCrashes, storeHistory>>
      BY <1>2 DEF GenClaim, GenAt
    <3> QED BY <3>1, <3>2
  <2>2. CASE ~generating
    <3>1. /\ UNCHANGED <<pkgBase, pkgAuto>>
          /\ genCall' = [genCall EXCEPT ![g] = [step |-> "claimed", pkg |-> p]]
      BY <1>2, <2>2 DEF GenClaim, GenGoes
    <3>2. /\ genCall[g] = [step |-> "based", pkg |-> p]
          /\ UNCHANGED <<pkgRow, diskVars, removeCall, doomed, adoptCall, sweep, storeCrashes, storeHistory>>
      BY <1>2 DEF GenClaim, GenAt
    <3>3. generating' \in BOOLEAN
      BY <1>2, <2>2 DEF GenClaim
    <3> QED BY <3>1, <3>2, <3>3
  <2> QED BY <2>1, <2>2
<1>3. ASSUME NEW g \in Generators, NEW p \in Packages, GenRecord(g, p) PROVE StoreTypeOK'
  BY <1>3 DEF GenRecord, GenAt, GenGoes, GenEnds
<1>4. ASSUME NEW g \in Generators, NEW p \in Packages, GenRecordFails(g, p) PROVE StoreTypeOK'
  BY <1>4 DEF GenRecordFails, GenAt, GenGoes, GenEnds
<1>5. ASSUME NEW g \in Generators, NEW p \in Packages, GenPack(g, p) PROVE StoreTypeOK'
  BY <1>5 DEF GenPack, RowBecomes, GenAt, GenGoes, GenEnds
<1>6. ASSUME NEW g \in Generators, NEW p \in Packages, GenWrite(g, p) PROVE StoreTypeOK'
  BY <1>6 DEF GenWrite, GenAt, GenGoes, GenEnds
<1>7. ASSUME NEW g \in Generators, NEW p \in Packages, GenIndex(g, p) PROVE StoreTypeOK'
  BY <1>7 DEF GenIndex, GenAt, GenGoes, GenEnds
<1>8. ASSUME NEW g \in Generators, NEW p \in Packages, GenFinish(g, p) PROVE StoreTypeOK'
  BY <1>8 DEF GenFinish, RowBecomes, GenAt, GenGoes, GenEnds
<1>9. ASSUME NEW g \in Generators, NEW p \in Packages, GenFails(g, p) PROVE StoreTypeOK'
  BY <1>9 DEF GenFails, GenAt, GenGoes, GenEnds
<1>10. ASSUME NEW g \in Generators, NEW p \in Packages, GenClean(g, p) PROVE StoreTypeOK'
  BY <1>10 DEF GenClean, RowBecomes, GenAt, GenGoes, GenEnds
<1>11. ASSUME NEW d \in Removers, NEW p \in Packages, RemoveBegin(d, p) PROVE StoreTypeOK'
  BY <1>11 DEF RemoveBegin, HasDerived, RemoverAt, RemoveGoes, RemoveEnds
<1>12. ASSUME NEW d \in Removers, NEW p \in Packages, RemoveFile(d, p) PROVE StoreTypeOK'
  BY <1>12 DEF RemoveFile, RemoverAt, RemoveGoes, RemoveEnds
<1>13. ASSUME NEW d \in Removers, NEW p \in Packages, RemoveIndex(d, p) PROVE StoreTypeOK'
  BY <1>13 DEF RemoveIndex, RemoverAt, RemoveGoes, RemoveEnds
<1>14. ASSUME NEW d \in Removers, NEW p \in Packages, RemoveRow(d, p) PROVE StoreTypeOK'
  BY <1>14 DEF RemoveRow, RemoverAt, RemoveGoes, RemoveEnds
<1>15. CASE RetentionList
  BY <1>15 DEF RetentionList
<1>16. ASSUME NEW a \in Adopters, NEW p \in Packages, AdoptBegin(a, p) PROVE StoreTypeOK'
  BY <1>16 DEF AdoptBegin, Opens, AdoptAt, AdoptGoes, AdoptEnds
<1>17. ASSUME NEW a \in Adopters, NEW p \in Packages, UploadBegin(a, p) PROVE StoreTypeOK'
  BY <1>17 DEF UploadBegin, AdoptAt, AdoptGoes, AdoptEnds
<1>18. ASSUME NEW a \in Adopters, NEW p \in Packages, AdoptRegister(a, p) PROVE StoreTypeOK'
  BY <1>18 DEF AdoptRegister, Registers, Discards, AdoptAt, AdoptGoes, AdoptEnds
<1>19. ASSUME NEW a \in Adopters, NEW p \in Packages, AdoptIndex(a, p) PROVE StoreTypeOK'
  BY <1>19 DEF AdoptIndex, AdoptAt, AdoptGoes, AdoptEnds
<1>20. ASSUME NEW a \in Adopters, NEW p \in Packages, UploadMove(a, p) PROVE StoreTypeOK'
  BY <1>20 DEF UploadMove, AdoptAt, AdoptGoes, AdoptEnds
<1>21. ASSUME NEW a \in Adopters, NEW p \in Packages, UploadRegister(a, p) PROVE StoreTypeOK'
  BY <1>21 DEF UploadRegister, Registers, Discards, AdoptAt, AdoptGoes, AdoptEnds
<1>22. ASSUME NEW p \in Packages, PlaceFile(p) PROVE StoreTypeOK'
  BY <1>22 DEF PlaceFile
<1>23. ASSUME NEW p \in Packages, Age(p) PROVE StoreTypeOK'
  BY <1>23 DEF Age
<1>24. CASE SweepRead
  BY <1>24 DEF SweepRead
<1>25. CASE SweepDiff
  BY <1>25 DEF SweepDiff, Opens
<1>26. CASE SweepRemove
  BY <1>26 DEF SweepRemove
<1>27. CASE SweepEnd
  BY <1>27 DEF SweepEnd
<1>28. CASE StoreCrash
  <2>1. pkgRow' \in [Packages -> {"unborn", "none", "queued", "packing", "done", "failed"}]
    BY <1>28 DEF StoreCrash, ReconcileStartup
  <2>2. storeCrashes < StoreCrashes /\ storeCrashes' = storeCrashes + 1
    BY <1>28 DEF StoreCrash
  <2>3. storeCrashes' \in 0..StoreCrashes
    BY <2>2
  <2>4. generating' \in BOOLEAN
    BY <1>28 DEF StoreCrash
  <2> QED BY <1>28, <2>1, <2>3, <2>4 DEF StoreCrash
<1>29. CASE UNCHANGED backupVars
  BY <1>29 DEF backupVars
<1> HIDE DEF diskVars, pkgVars, actorVars, storeHistory, StoreTypeOK, InFlight, ActorIdle,
     SweepIdle, GenSteps
<1> QED BY <1>1, <1>2, <1>3, <1>4, <1>5, <1>6, <1>7, <1>8, <1>9, <1>10, <1>11, <1>12, <1>13, <1>14,
     <1>15, <1>16, <1>17, <1>18, <1>19, <1>20, <1>21, <1>22, <1>23, <1>24, <1>25, <1>26, <1>27,
     <1>28, <1>29 DEF StoreNext, GenStep, RemoveStep, AdoptStep, SweepStep

\* Every step keeps the slot of the generator with the one that holds it, so that it
\* comes back (BackupService.generating).
LEMMA SlotStep ==
  ASSUME StoreTypeOK, GeneratorsKnow, NothingUnborn, LateDiscards, SlotReturned, [StoreNext]_backupVars
  PROVE  SlotReturned'
<1> USE StoreAssumption DEF diskVars, pkgVars, actorVars, storeHistory, StoreTypeOK, InFlight,
     ActorIdle, SweepIdle, GenSteps, GeneratorsKnow, SlotReturned, Holds
<1>1. ASSUME NEW g \in Generators, NEW p \in Packages, GenBegin(g, p) PROVE SlotReturned'
  BY <1>1 DEF GenBegin, Fresh, GenAt, GenGoes, GenEnds
<1>2. ASSUME NEW g \in Generators, NEW p \in Packages, GenClaim(g, p) PROVE SlotReturned'
  <2>1. CASE generating
    <3>1. genCall[g] = [step |-> "based", pkg |-> p] /\ UNCHANGED generating
          /\ genCall' = [genCall EXCEPT ![g] = [step |-> "idle"]]
      BY <1>2, <2>1 DEF GenClaim, GenAt, GenEnds
    <3>2. \A h \in Generators : Holds(h)' <=> Holds(h)
      BY <3>1
    <3> QED BY <3>1, <3>2
  <2>2. CASE ~generating
    <3>1. generating' /\ genCall' = [genCall EXCEPT ![g] = [step |-> "claimed", pkg |-> p]]
      BY <1>2, <2>2 DEF GenClaim, GenGoes
    <3>2. genCall'[g].step = "claimed"
      BY <3>1
    <3> QED BY <3>1, <3>2
  <2> QED BY <2>1, <2>2
<1>3. ASSUME NEW g \in Generators, NEW p \in Packages, GenRecord(g, p) PROVE SlotReturned'
  BY <1>3 DEF GenRecord, GenAt, GenGoes, GenEnds
<1>4. ASSUME NEW g \in Generators, NEW p \in Packages, GenRecordFails(g, p) PROVE SlotReturned'
  BY <1>4 DEF GenRecordFails, GenAt, GenGoes, GenEnds
<1>5. ASSUME NEW g \in Generators, NEW p \in Packages, GenPack(g, p) PROVE SlotReturned'
  BY <1>5 DEF GenPack, RowBecomes, GenAt, GenGoes, GenEnds
<1>6. ASSUME NEW g \in Generators, NEW p \in Packages, GenWrite(g, p) PROVE SlotReturned'
  BY <1>6 DEF GenWrite, GenAt, GenGoes, GenEnds
<1>7. ASSUME NEW g \in Generators, NEW p \in Packages, GenIndex(g, p) PROVE SlotReturned'
  BY <1>7 DEF GenIndex, GenAt, GenGoes, GenEnds
<1>8. ASSUME NEW g \in Generators, NEW p \in Packages, GenFinish(g, p) PROVE SlotReturned'
  <2>1. /\ \/ genCall' = [genCall EXCEPT ![g] = [step |-> "failed", pkg |-> p]]
           \/ genCall' = [genCall EXCEPT ![g] = [step |-> "finished", pkg |-> p]]
        /\ generating' = generating /\ genCall[g] = [step |-> "indexed", pkg |-> p]
    BY <1>8 DEF GenFinish, GenAt, GenGoes
  <2>2. \A h \in Generators : Holds(h)' <=> Holds(h)
    BY <2>1
  <2> QED BY <2>1, <2>2
<1>9. ASSUME NEW g \in Generators, NEW p \in Packages, GenFails(g, p) PROVE SlotReturned'
  BY <1>9 DEF GenFails, GenAt, GenGoes, GenEnds
<1>10. ASSUME NEW g \in Generators, NEW p \in Packages, GenClean(g, p) PROVE SlotReturned'
  BY <1>10 DEF GenClean, RowBecomes, GenAt, GenGoes, GenEnds
<1>11. ASSUME NEW d \in Removers, NEW p \in Packages, RemoveBegin(d, p) PROVE SlotReturned'
  BY <1>11 DEF RemoveBegin, HasDerived, RemoverAt, RemoveGoes, RemoveEnds
<1>12. ASSUME NEW d \in Removers, NEW p \in Packages, RemoveFile(d, p) PROVE SlotReturned'
  BY <1>12 DEF RemoveFile, RemoverAt, RemoveGoes, RemoveEnds
<1>13. ASSUME NEW d \in Removers, NEW p \in Packages, RemoveIndex(d, p) PROVE SlotReturned'
  BY <1>13 DEF RemoveIndex, RemoverAt, RemoveGoes, RemoveEnds
<1>14. ASSUME NEW d \in Removers, NEW p \in Packages, RemoveRow(d, p) PROVE SlotReturned'
  BY <1>14 DEF RemoveRow, RemoverAt, RemoveGoes, RemoveEnds
<1>15. CASE RetentionList
  BY <1>15 DEF RetentionList
<1>16. ASSUME NEW a \in Adopters, NEW p \in Packages, AdoptBegin(a, p) PROVE SlotReturned'
  BY <1>16 DEF AdoptBegin, Opens, AdoptAt, AdoptGoes, AdoptEnds
<1>17. ASSUME NEW a \in Adopters, NEW p \in Packages, UploadBegin(a, p) PROVE SlotReturned'
  BY <1>17 DEF UploadBegin, AdoptAt, AdoptGoes, AdoptEnds
<1>18. ASSUME NEW a \in Adopters, NEW p \in Packages, AdoptRegister(a, p) PROVE SlotReturned'
  BY <1>18 DEF AdoptRegister, Registers, Discards, AdoptAt, AdoptGoes, AdoptEnds
<1>19. ASSUME NEW a \in Adopters, NEW p \in Packages, AdoptIndex(a, p) PROVE SlotReturned'
  BY <1>19 DEF AdoptIndex, AdoptAt, AdoptGoes, AdoptEnds
<1>20. ASSUME NEW a \in Adopters, NEW p \in Packages, UploadMove(a, p) PROVE SlotReturned'
  BY <1>20 DEF UploadMove, AdoptAt, AdoptGoes, AdoptEnds
<1>21. ASSUME NEW a \in Adopters, NEW p \in Packages, UploadRegister(a, p) PROVE SlotReturned'
  BY <1>21 DEF UploadRegister, Registers, Discards, AdoptAt, AdoptGoes, AdoptEnds
<1>22. ASSUME NEW p \in Packages, PlaceFile(p) PROVE SlotReturned'
  BY <1>22 DEF PlaceFile
<1>23. ASSUME NEW p \in Packages, Age(p) PROVE SlotReturned'
  BY <1>23 DEF Age
<1>24. CASE SweepRead
  BY <1>24 DEF SweepRead
<1>25. CASE SweepDiff
  BY <1>25 DEF SweepDiff, Opens
<1>26. CASE SweepRemove
  BY <1>26 DEF SweepRemove
<1>27. CASE SweepEnd
  BY <1>27 DEF SweepEnd
<1>28. CASE StoreCrash
  BY <1>28 DEF StoreCrash, ReconcileStartup, Opens
<1>29. CASE UNCHANGED backupVars
  BY <1>29 DEF backupVars
<1> HIDE DEF diskVars, pkgVars, actorVars, storeHistory, StoreTypeOK, InFlight, ActorIdle,
     SweepIdle, GenSteps, GeneratorsKnow, SlotReturned, Holds
<1> QED BY <1>1, <1>2, <1>3, <1>4, <1>5, <1>6, <1>7, <1>8, <1>9, <1>10, <1>11, <1>12, <1>13, <1>14,
     <1>15, <1>16, <1>17, <1>18, <1>19, <1>20, <1>21, <1>22, <1>23, <1>24, <1>25, <1>26, <1>27,
     <1>28, <1>29 DEF StoreNext, GenStep, RemoveStep, AdoptStep, SweepStep

\* Every step keeps what the generators know of the rows and archives they make.
LEMMA GeneratorsStep ==
  ASSUME StoreTypeOK, GeneratorsKnow, NothingUnborn, LateDiscards, SlotReturned, [StoreNext]_backupVars
  PROVE  GeneratorsKnow'
<1> USE StoreAssumption DEF diskVars, pkgVars, actorVars, storeHistory, StoreTypeOK, InFlight,
     ActorIdle, SweepIdle, GenSteps, GeneratorsKnow, NothingUnborn, LateDiscards, SlotReturned,
     Holds, Makes, Generated, Adopts, Rowless, GenAt, AdoptAt
<1>1. ASSUME NEW g \in Generators, NEW p \in Packages, GenBegin(g, p) PROVE GeneratorsKnow'
  BY <1>1 DEF GenBegin, Fresh, GenAt, GenGoes, GenEnds
<1>2. ASSUME NEW g \in Generators, NEW p \in Packages, GenClaim(g, p) PROVE GeneratorsKnow'
  <2>1. CASE generating
    <3>1. /\ genCall' = [genCall EXCEPT ![g] = [step |-> "idle"]] /\ UNCHANGED generating
          /\ pkgBase' = [pkgBase EXCEPT ![p] = NoBase] /\ pkgAuto' = pkgAuto \ {p}
      BY <1>2, <2>1 DEF GenClaim, GenEnds
    <3>2. /\ genCall[g] = [step |-> "based", pkg |-> p]
          /\ UNCHANGED <<pkgRow, diskVars, removeCall, doomed, adoptCall, sweep, storeCrashes, storeHistory>>
      BY <1>2 DEF GenClaim, GenAt
    <3> QED BY <3>1, <3>2
  <2>2. CASE ~generating
    <3>1. /\ UNCHANGED <<pkgBase, pkgAuto>>
          /\ genCall' = [genCall EXCEPT ![g] = [step |-> "claimed", pkg |-> p]]
      BY <1>2, <2>2 DEF GenClaim, GenGoes
    <3>2. /\ genCall[g] = [step |-> "based", pkg |-> p]
          /\ UNCHANGED <<pkgRow, diskVars, removeCall, doomed, adoptCall, sweep, storeCrashes, storeHistory>>
      BY <1>2 DEF GenClaim, GenAt
    <3>3. \A h \in Generators : ~Holds(h)
      BY <2>2
    <3> HIDE <2>2
    <3> QED BY <3>1, <3>2, <3>3
  <2> QED BY <2>1, <2>2
<1>3. ASSUME NEW g \in Generators, NEW p \in Packages, GenRecord(g, p) PROVE GeneratorsKnow'
  BY <1>3 DEF GenRecord, GenAt, GenGoes, GenEnds
<1>4. ASSUME NEW g \in Generators, NEW p \in Packages, GenRecordFails(g, p) PROVE GeneratorsKnow'
  BY <1>4 DEF GenRecordFails, GenAt, GenGoes, GenEnds
<1>5. ASSUME NEW g \in Generators, NEW p \in Packages, GenPack(g, p) PROVE GeneratorsKnow'
  BY <1>5 DEF GenPack, RowBecomes, GenAt, GenGoes, GenEnds
<1>6. ASSUME NEW g \in Generators, NEW p \in Packages, GenWrite(g, p) PROVE GeneratorsKnow'
  <2>1. CASE GenAt(g, "packing", p) /\ tar' = [tar EXCEPT ![p] = "stub"] /\ GenGoes(g, "writing", p)
    BY <1>6, <2>1 DEF GenWrite, GenGoes, GenAt
  <2>2. CASE /\ GenAt(g, "writing", p) /\ tar[p] = "stub" /\ tar' = [tar EXCEPT ![p] = "torn"]
             /\ UNCHANGED genCall
    BY <1>6, <2>2 DEF GenWrite, GenAt
  <2>3. CASE /\ GenAt(g, "writing", p) /\ tar[p] = "torn" /\ tar' = [tar EXCEPT ![p] = "whole"]
             /\ GenGoes(g, "written", p)
    BY <1>6, <2>3 DEF GenWrite, GenGoes, GenAt
  <2>4. CASE GenAt(g, "writing", p) /\ tar[p] = "none" /\ UNCHANGED tar /\ GenGoes(g, "written", p)
    BY <1>6, <2>4 DEF GenWrite, GenGoes, GenAt
  <2> QED BY <1>6, <2>1, <2>2, <2>3, <2>4 DEF GenWrite
<1>7. ASSUME NEW g \in Generators, NEW p \in Packages, GenIndex(g, p) PROVE GeneratorsKnow'
  BY <1>7 DEF GenIndex, GenAt, GenGoes, GenEnds
<1>8. ASSUME NEW g \in Generators, NEW p \in Packages, GenFinish(g, p) PROVE GeneratorsKnow'
  BY <1>8 DEF GenFinish, RowBecomes, GenAt, GenGoes, GenEnds
<1>9. ASSUME NEW g \in Generators, NEW p \in Packages, GenFails(g, p) PROVE GeneratorsKnow'
  BY <1>9 DEF GenFails, GenAt, GenGoes, GenEnds
<1>10. ASSUME NEW g \in Generators, NEW p \in Packages, GenClean(g, p) PROVE GeneratorsKnow'
  BY <1>10 DEF GenClean, RowBecomes, GenAt, GenGoes, GenEnds
<1>11. ASSUME NEW d \in Removers, NEW p \in Packages, RemoveBegin(d, p) PROVE GeneratorsKnow'
  BY <1>11 DEF RemoveBegin, HasDerived, RemoverAt, RemoveGoes, RemoveEnds
<1>12. ASSUME NEW d \in Removers, NEW p \in Packages, RemoveFile(d, p) PROVE GeneratorsKnow'
  BY <1>12 DEF RemoveFile, RemoverAt, RemoveGoes, RemoveEnds
<1>13. ASSUME NEW d \in Removers, NEW p \in Packages, RemoveIndex(d, p) PROVE GeneratorsKnow'
  BY <1>13 DEF RemoveIndex, RemoverAt, RemoveGoes, RemoveEnds
<1>14. ASSUME NEW d \in Removers, NEW p \in Packages, RemoveRow(d, p) PROVE GeneratorsKnow'
  BY <1>14 DEF RemoveRow, RemoverAt, RemoveGoes, RemoveEnds
<1>15. CASE RetentionList
  BY <1>15 DEF RetentionList
<1>16. ASSUME NEW a \in Adopters, NEW p \in Packages, AdoptBegin(a, p) PROVE GeneratorsKnow'
  BY <1>16 DEF AdoptBegin, Opens, AdoptAt, AdoptGoes, AdoptEnds
<1>17. ASSUME NEW a \in Adopters, NEW p \in Packages, UploadBegin(a, p) PROVE GeneratorsKnow'
  BY <1>17 DEF UploadBegin, AdoptAt, AdoptGoes, AdoptEnds
<1>18. ASSUME NEW a \in Adopters, NEW p \in Packages, AdoptRegister(a, p) PROVE GeneratorsKnow'
  BY <1>18 DEF AdoptRegister, Registers, Discards, AdoptAt, AdoptGoes, AdoptEnds
<1>19. ASSUME NEW a \in Adopters, NEW p \in Packages, AdoptIndex(a, p) PROVE GeneratorsKnow'
  BY <1>19 DEF AdoptIndex, AdoptAt, AdoptGoes, AdoptEnds
<1>20. ASSUME NEW a \in Adopters, NEW p \in Packages, UploadMove(a, p) PROVE GeneratorsKnow'
  BY <1>20 DEF UploadMove, AdoptAt, AdoptGoes, AdoptEnds
<1>21. ASSUME NEW a \in Adopters, NEW p \in Packages, UploadRegister(a, p) PROVE GeneratorsKnow'
  BY <1>21 DEF UploadRegister, Registers, Discards, AdoptAt, AdoptGoes, AdoptEnds
<1>22. ASSUME NEW p \in Packages, PlaceFile(p) PROVE GeneratorsKnow'
  BY <1>22 DEF PlaceFile
<1>23. ASSUME NEW p \in Packages, Age(p) PROVE GeneratorsKnow'
  BY <1>23 DEF Age
<1>24. CASE SweepRead
  BY <1>24 DEF SweepRead
<1>25. CASE SweepDiff
  BY <1>25 DEF SweepDiff, Opens
<1>26. CASE SweepRemove
  BY <1>26 DEF SweepRemove
<1>27. CASE SweepEnd
  BY <1>27 DEF SweepEnd
<1>28. CASE StoreCrash
  BY <1>28 DEF StoreCrash, ReconcileStartup, Opens
<1>29. CASE UNCHANGED backupVars
  BY <1>29 DEF backupVars
<1> HIDE DEF diskVars, pkgVars, actorVars, storeHistory, StoreTypeOK, InFlight, ActorIdle,
     SweepIdle, GenSteps, GeneratorsKnow, NothingUnborn, LateDiscards, SlotReturned, Holds, Makes,
     Generated, Adopts, Rowless, GenAt, AdoptAt
<1> QED BY <1>1, <1>2, <1>3, <1>4, <1>5, <1>6, <1>7, <1>8, <1>9, <1>10, <1>11, <1>12, <1>13, <1>14,
     <1>15, <1>16, <1>17, <1>18, <1>19, <1>20, <1>21, <1>22, <1>23, <1>24, <1>25, <1>26, <1>27,
     <1>28, <1>29 DEF StoreNext, GenStep, RemoveStep, AdoptStep, SweepStep

\* No step leaves an archive, an orphan or an upload of a package that does not
\* exist yet.
LEMMA UnbornStep ==
  ASSUME StoreTypeOK, GeneratorsKnow, NothingUnborn, LateDiscards, [StoreNext]_backupVars
  PROVE  NothingUnborn'
<1> USE StoreAssumption DEF diskVars, pkgVars, actorVars, storeHistory, StoreTypeOK, InFlight,
     ActorIdle, SweepIdle, NothingUnborn, GeneratorsKnow, Makes, LateDiscards, Adopts, Rowless,
     GenAt, AdoptAt
<1>1. ASSUME NEW g \in Generators, NEW p \in Packages, GenBegin(g, p) PROVE NothingUnborn'
  BY <1>1 DEF GenBegin, Fresh, GenAt, GenGoes, GenEnds
<1>2. ASSUME NEW g \in Generators, NEW p \in Packages, GenClaim(g, p) PROVE NothingUnborn'
  BY <1>2 DEF GenClaim, GenAt, GenGoes, GenEnds
<1>3. ASSUME NEW g \in Generators, NEW p \in Packages, GenRecord(g, p) PROVE NothingUnborn'
  BY <1>3 DEF GenRecord, GenAt, GenGoes, GenEnds
<1>4. ASSUME NEW g \in Generators, NEW p \in Packages, GenRecordFails(g, p) PROVE NothingUnborn'
  BY <1>4 DEF GenRecordFails, GenAt, GenGoes, GenEnds
<1>5. ASSUME NEW g \in Generators, NEW p \in Packages, GenPack(g, p) PROVE NothingUnborn'
  BY <1>5 DEF GenPack, RowBecomes, GenAt, GenGoes, GenEnds
<1>6. ASSUME NEW g \in Generators, NEW p \in Packages, GenWrite(g, p) PROVE NothingUnborn'
  BY <1>6 DEF GenWrite, GenAt, GenGoes, GenEnds
<1>7. ASSUME NEW g \in Generators, NEW p \in Packages, GenIndex(g, p) PROVE NothingUnborn'
  BY <1>7 DEF GenIndex, GenAt, GenGoes, GenEnds
<1>8. ASSUME NEW g \in Generators, NEW p \in Packages, GenFinish(g, p) PROVE NothingUnborn'
  BY <1>8 DEF GenFinish, RowBecomes, GenAt, GenGoes, GenEnds
<1>9. ASSUME NEW g \in Generators, NEW p \in Packages, GenFails(g, p) PROVE NothingUnborn'
  BY <1>9 DEF GenFails, GenAt, GenGoes, GenEnds
<1>10. ASSUME NEW g \in Generators, NEW p \in Packages, GenClean(g, p) PROVE NothingUnborn'
  BY <1>10 DEF GenClean, RowBecomes, GenAt, GenGoes, GenEnds
<1>11. ASSUME NEW d \in Removers, NEW p \in Packages, RemoveBegin(d, p) PROVE NothingUnborn'
  BY <1>11 DEF RemoveBegin, HasDerived, RemoverAt, RemoveGoes, RemoveEnds
<1>12. ASSUME NEW d \in Removers, NEW p \in Packages, RemoveFile(d, p) PROVE NothingUnborn'
  BY <1>12 DEF RemoveFile, RemoverAt, RemoveGoes, RemoveEnds
<1>13. ASSUME NEW d \in Removers, NEW p \in Packages, RemoveIndex(d, p) PROVE NothingUnborn'
  BY <1>13 DEF RemoveIndex, RemoverAt, RemoveGoes, RemoveEnds
<1>14. ASSUME NEW d \in Removers, NEW p \in Packages, RemoveRow(d, p) PROVE NothingUnborn'
  BY <1>14 DEF RemoveRow, RemoverAt, RemoveGoes, RemoveEnds
<1>15. CASE RetentionList
  BY <1>15 DEF RetentionList
<1>16. ASSUME NEW a \in Adopters, NEW p \in Packages, AdoptBegin(a, p) PROVE NothingUnborn'
  BY <1>16 DEF AdoptBegin, Opens, AdoptAt, AdoptGoes, AdoptEnds
<1>17. ASSUME NEW a \in Adopters, NEW p \in Packages, UploadBegin(a, p) PROVE NothingUnborn'
  BY <1>17 DEF UploadBegin, AdoptAt, AdoptGoes, AdoptEnds
<1>18. ASSUME NEW a \in Adopters, NEW p \in Packages, AdoptRegister(a, p) PROVE NothingUnborn'
  BY <1>18 DEF AdoptRegister, Registers, Discards, AdoptAt, AdoptGoes, AdoptEnds
<1>19. ASSUME NEW a \in Adopters, NEW p \in Packages, AdoptIndex(a, p) PROVE NothingUnborn'
  BY <1>19 DEF AdoptIndex, AdoptAt, AdoptGoes, AdoptEnds
<1>20. ASSUME NEW a \in Adopters, NEW p \in Packages, UploadMove(a, p) PROVE NothingUnborn'
  BY <1>20 DEF UploadMove, AdoptAt, AdoptGoes, AdoptEnds
<1>21. ASSUME NEW a \in Adopters, NEW p \in Packages, UploadRegister(a, p) PROVE NothingUnborn'
  BY <1>21 DEF UploadRegister, Registers, Discards, AdoptAt, AdoptGoes, AdoptEnds
<1>22. ASSUME NEW p \in Packages, PlaceFile(p) PROVE NothingUnborn'
  BY <1>22 DEF PlaceFile
<1>23. ASSUME NEW p \in Packages, Age(p) PROVE NothingUnborn'
  BY <1>23 DEF Age
<1>24. CASE SweepRead
  BY <1>24 DEF SweepRead
<1>25. CASE SweepDiff
  BY <1>25 DEF SweepDiff, Opens
<1>26. CASE SweepRemove
  BY <1>26 DEF SweepRemove
<1>27. CASE SweepEnd
  BY <1>27 DEF SweepEnd
<1>28. CASE StoreCrash
  BY <1>28 DEF StoreCrash, ReconcileStartup, Opens
<1>29. CASE UNCHANGED backupVars
  BY <1>29 DEF backupVars
<1> HIDE DEF diskVars, pkgVars, actorVars, storeHistory, StoreTypeOK, InFlight, ActorIdle,
     SweepIdle, NothingUnborn, GeneratorsKnow, Makes, LateDiscards, Adopts, Rowless, GenAt, AdoptAt
<1> QED BY <1>1, <1>2, <1>3, <1>4, <1>5, <1>6, <1>7, <1>8, <1>9, <1>10, <1>11, <1>12, <1>13, <1>14,
     <1>15, <1>16, <1>17, <1>18, <1>19, <1>20, <1>21, <1>22, <1>23, <1>24, <1>25, <1>26, <1>27,
     <1>28, <1>29 DEF StoreNext, GenStep, RemoveStep, AdoptStep, SweepStep

\* No step gives a row, unseen, to a package that an upload or the cleanup of
\* orphans is about to discard.
LEMMA LateStep ==
  ASSUME StoreTypeOK, GeneratorsKnow, NothingUnborn, LateDiscards, [StoreNext]_backupVars
  PROVE  LateDiscards'
<1> USE StoreAssumption DEF diskVars, pkgVars, actorVars, storeHistory, StoreTypeOK, InFlight,
     ActorIdle, SweepIdle, NothingUnborn, GeneratorsKnow, Makes, LateDiscards, Adopts, Rowless,
     GenAt, AdoptAt, Generated, Makes
<1>1. ASSUME NEW g \in Generators, NEW p \in Packages, GenBegin(g, p) PROVE LateDiscards'
  BY <1>1 DEF GenBegin, Fresh, GenAt, GenGoes, GenEnds
<1>2. ASSUME NEW g \in Generators, NEW p \in Packages, GenClaim(g, p) PROVE LateDiscards'
  <2>1. CASE generating
    <3>1. /\ genCall' = [genCall EXCEPT ![g] = [step |-> "idle"]] /\ UNCHANGED generating
          /\ pkgBase' = [pkgBase EXCEPT ![p] = NoBase] /\ pkgAuto' = pkgAuto \ {p}
      BY <1>2, <2>1 DEF GenClaim, GenEnds
    <3>2. /\ genCall[g] = [step |-> "based", pkg |-> p]
          /\ UNCHANGED <<pkgRow, diskVars, removeCall, doomed, adoptCall, sweep, storeCrashes, storeHistory>>
      BY <1>2 DEF GenClaim, GenAt
    <3> QED BY <3>1, <3>2
  <2>2. CASE ~generating
    <3>1. /\ UNCHANGED <<pkgBase, pkgAuto>>
          /\ genCall' = [genCall EXCEPT ![g] = [step |-> "claimed", pkg |-> p]]
      BY <1>2, <2>2 DEF GenClaim, GenGoes
    <3>2. /\ genCall[g] = [step |-> "based", pkg |-> p]
          /\ UNCHANGED <<pkgRow, diskVars, removeCall, doomed, adoptCall, sweep, storeCrashes, storeHistory>>
      BY <1>2 DEF GenClaim, GenAt
    <3> QED BY <3>1, <3>2
  <2> QED BY <2>1, <2>2
<1>3. ASSUME NEW g \in Generators, NEW p \in Packages, GenRecord(g, p) PROVE LateDiscards'
  BY <1>3 DEF GenRecord, GenAt, GenGoes, GenEnds
<1>4. ASSUME NEW g \in Generators, NEW p \in Packages, GenRecordFails(g, p) PROVE LateDiscards'
  BY <1>4 DEF GenRecordFails, GenAt, GenGoes, GenEnds
<1>5. ASSUME NEW g \in Generators, NEW p \in Packages, GenPack(g, p) PROVE LateDiscards'
  BY <1>5 DEF GenPack, RowBecomes, GenAt, GenGoes, GenEnds
<1>6. ASSUME NEW g \in Generators, NEW p \in Packages, GenWrite(g, p) PROVE LateDiscards'
  <2>1. CASE GenAt(g, "packing", p) /\ tar' = [tar EXCEPT ![p] = "stub"] /\ GenGoes(g, "writing", p)
    BY <1>6, <2>1 DEF GenWrite, GenGoes, GenAt
  <2>2. CASE /\ GenAt(g, "writing", p) /\ tar[p] = "stub" /\ tar' = [tar EXCEPT ![p] = "torn"]
             /\ UNCHANGED genCall
    BY <1>6, <2>2 DEF GenWrite, GenAt
  <2>3. CASE /\ GenAt(g, "writing", p) /\ tar[p] = "torn" /\ tar' = [tar EXCEPT ![p] = "whole"]
             /\ GenGoes(g, "written", p)
    BY <1>6, <2>3 DEF GenWrite, GenGoes, GenAt
  <2>4. CASE GenAt(g, "writing", p) /\ tar[p] = "none" /\ UNCHANGED tar /\ GenGoes(g, "written", p)
    BY <1>6, <2>4 DEF GenWrite, GenGoes, GenAt
  <2> QED BY <1>6, <2>1, <2>2, <2>3, <2>4 DEF GenWrite
<1>7. ASSUME NEW g \in Generators, NEW p \in Packages, GenIndex(g, p) PROVE LateDiscards'
  BY <1>7 DEF GenIndex, GenAt, GenGoes, GenEnds
<1>8. ASSUME NEW g \in Generators, NEW p \in Packages, GenFinish(g, p) PROVE LateDiscards'
  BY <1>8 DEF GenFinish, RowBecomes, GenAt, GenGoes, GenEnds
<1>9. ASSUME NEW g \in Generators, NEW p \in Packages, GenFails(g, p) PROVE LateDiscards'
  BY <1>9 DEF GenFails, GenAt, GenGoes, GenEnds
<1>10. ASSUME NEW g \in Generators, NEW p \in Packages, GenClean(g, p) PROVE LateDiscards'
  BY <1>10 DEF GenClean, RowBecomes, GenAt, GenGoes, GenEnds
<1>11. ASSUME NEW d \in Removers, NEW p \in Packages, RemoveBegin(d, p) PROVE LateDiscards'
  BY <1>11 DEF RemoveBegin, HasDerived, RemoverAt, RemoveGoes, RemoveEnds
<1>12. ASSUME NEW d \in Removers, NEW p \in Packages, RemoveFile(d, p) PROVE LateDiscards'
  BY <1>12 DEF RemoveFile, RemoverAt, RemoveGoes, RemoveEnds
<1>13. ASSUME NEW d \in Removers, NEW p \in Packages, RemoveIndex(d, p) PROVE LateDiscards'
  BY <1>13 DEF RemoveIndex, RemoverAt, RemoveGoes, RemoveEnds
<1>14. ASSUME NEW d \in Removers, NEW p \in Packages, RemoveRow(d, p) PROVE LateDiscards'
  BY <1>14 DEF RemoveRow, RemoverAt, RemoveGoes, RemoveEnds
<1>15. CASE RetentionList
  BY <1>15 DEF RetentionList
<1>16. ASSUME NEW a \in Adopters, NEW p \in Packages, AdoptBegin(a, p) PROVE LateDiscards'
  BY <1>16 DEF AdoptBegin, Opens, AdoptAt, AdoptGoes, AdoptEnds
<1>17. ASSUME NEW a \in Adopters, NEW p \in Packages, UploadBegin(a, p) PROVE LateDiscards'
  BY <1>17 DEF UploadBegin, AdoptAt, AdoptGoes, AdoptEnds
<1>18. ASSUME NEW a \in Adopters, NEW p \in Packages, AdoptRegister(a, p) PROVE LateDiscards'
  BY <1>18 DEF AdoptRegister, Registers, Discards, AdoptAt, AdoptGoes, AdoptEnds
<1>19. ASSUME NEW a \in Adopters, NEW p \in Packages, AdoptIndex(a, p) PROVE LateDiscards'
  BY <1>19 DEF AdoptIndex, AdoptAt, AdoptGoes, AdoptEnds
<1>20. ASSUME NEW a \in Adopters, NEW p \in Packages, UploadMove(a, p) PROVE LateDiscards'
  BY <1>20 DEF UploadMove, AdoptAt, AdoptGoes, AdoptEnds
<1>21. ASSUME NEW a \in Adopters, NEW p \in Packages, UploadRegister(a, p) PROVE LateDiscards'
  BY <1>21 DEF UploadRegister, Registers, Discards, AdoptAt, AdoptGoes, AdoptEnds
<1>22. ASSUME NEW p \in Packages, PlaceFile(p) PROVE LateDiscards'
  BY <1>22 DEF PlaceFile
<1>23. ASSUME NEW p \in Packages, Age(p) PROVE LateDiscards'
  BY <1>23 DEF Age
<1>24. CASE SweepRead
  BY <1>24 DEF SweepRead
<1>25. CASE SweepDiff
  BY <1>25 DEF SweepDiff, Opens
<1>26. CASE SweepRemove
  BY <1>26 DEF SweepRemove
<1>27. CASE SweepEnd
  BY <1>27 DEF SweepEnd
<1>28. CASE StoreCrash
  BY <1>28 DEF StoreCrash, ReconcileStartup, Opens
<1>29. CASE UNCHANGED backupVars
  BY <1>29 DEF backupVars
<1> HIDE DEF diskVars, pkgVars, actorVars, storeHistory, StoreTypeOK, InFlight, ActorIdle,
     SweepIdle, NothingUnborn, GeneratorsKnow, Makes, LateDiscards, Adopts, Rowless, GenAt,
     AdoptAt, Generated, Makes
<1> QED BY <1>1, <1>2, <1>3, <1>4, <1>5, <1>6, <1>7, <1>8, <1>9, <1>10, <1>11, <1>12, <1>13, <1>14,
     <1>15, <1>16, <1>17, <1>18, <1>19, <1>20, <1>21, <1>22, <1>23, <1>24, <1>25, <1>26, <1>27,
     <1>28, <1>29 DEF StoreNext, GenStep, RemoveStep, AdoptStep, SweepStep

\* No step leaves a row in flight behind whose generator is gone.
LEMMA PhantomStep ==
  ASSUME StoreTypeOK, GeneratorsKnow, NothingUnborn, LateDiscards, NoPhantomBackup, [StoreNext]_backupVars
  PROVE  NoPhantomBackup'
<1> USE StoreAssumption DEF diskVars, pkgVars, actorVars, storeHistory, StoreTypeOK, InFlight,
     ActorIdle, SweepIdle, NoPhantomBackup, GeneratorsKnow, Holds, Rowless, GenAt, Makes
<1>1. ASSUME NEW g \in Generators, NEW p \in Packages, GenBegin(g, p) PROVE NoPhantomBackup'
  BY <1>1 DEF GenBegin, Fresh, GenAt, GenGoes, GenEnds
<1>2. ASSUME NEW g \in Generators, NEW p \in Packages, GenClaim(g, p) PROVE NoPhantomBackup'
  <2>1. CASE generating
    <3>1. /\ genCall' = [genCall EXCEPT ![g] = [step |-> "idle"]] /\ UNCHANGED generating
          /\ pkgBase' = [pkgBase EXCEPT ![p] = NoBase] /\ pkgAuto' = pkgAuto \ {p}
      BY <1>2, <2>1 DEF GenClaim, GenEnds
    <3>2. /\ genCall[g] = [step |-> "based", pkg |-> p]
          /\ UNCHANGED <<pkgRow, diskVars, removeCall, doomed, adoptCall, sweep, storeCrashes, storeHistory>>
      BY <1>2 DEF GenClaim, GenAt
    <3> QED BY <3>1, <3>2
  <2>2. CASE ~generating
    <3>1. /\ UNCHANGED <<pkgBase, pkgAuto>>
          /\ genCall' = [genCall EXCEPT ![g] = [step |-> "claimed", pkg |-> p]]
      BY <1>2, <2>2 DEF GenClaim, GenGoes
    <3>2. /\ genCall[g] = [step |-> "based", pkg |-> p]
          /\ UNCHANGED <<pkgRow, diskVars, removeCall, doomed, adoptCall, sweep, storeCrashes, storeHistory>>
      BY <1>2 DEF GenClaim, GenAt
    <3> QED BY <3>1, <3>2
  <2> QED BY <2>1, <2>2
<1>3. ASSUME NEW g \in Generators, NEW p \in Packages, GenRecord(g, p) PROVE NoPhantomBackup'
  BY <1>3 DEF GenRecord, GenAt, GenGoes, GenEnds
<1>4. ASSUME NEW g \in Generators, NEW p \in Packages, GenRecordFails(g, p) PROVE NoPhantomBackup'
  BY <1>4 DEF GenRecordFails, GenAt, GenGoes, GenEnds
<1>5. ASSUME NEW g \in Generators, NEW p \in Packages, GenPack(g, p) PROVE NoPhantomBackup'
  BY <1>5 DEF GenPack, RowBecomes, GenAt, GenGoes, GenEnds
<1>6. ASSUME NEW g \in Generators, NEW p \in Packages, GenWrite(g, p) PROVE NoPhantomBackup'
  BY <1>6 DEF GenWrite, GenAt, GenGoes, GenEnds
<1>7. ASSUME NEW g \in Generators, NEW p \in Packages, GenIndex(g, p) PROVE NoPhantomBackup'
  BY <1>7 DEF GenIndex, GenAt, GenGoes, GenEnds
<1>8. ASSUME NEW g \in Generators, NEW p \in Packages, GenFinish(g, p) PROVE NoPhantomBackup'
  BY <1>8 DEF GenFinish, RowBecomes, GenAt, GenGoes, GenEnds
<1>9. ASSUME NEW g \in Generators, NEW p \in Packages, GenFails(g, p) PROVE NoPhantomBackup'
  BY <1>9 DEF GenFails, GenAt, GenGoes, GenEnds
<1>10. ASSUME NEW g \in Generators, NEW p \in Packages, GenClean(g, p) PROVE NoPhantomBackup'
  BY <1>10 DEF GenClean, RowBecomes, GenAt, GenGoes, GenEnds
<1>11. ASSUME NEW d \in Removers, NEW p \in Packages, RemoveBegin(d, p) PROVE NoPhantomBackup'
  BY <1>11 DEF RemoveBegin, HasDerived, RemoverAt, RemoveGoes, RemoveEnds
<1>12. ASSUME NEW d \in Removers, NEW p \in Packages, RemoveFile(d, p) PROVE NoPhantomBackup'
  BY <1>12 DEF RemoveFile, RemoverAt, RemoveGoes, RemoveEnds
<1>13. ASSUME NEW d \in Removers, NEW p \in Packages, RemoveIndex(d, p) PROVE NoPhantomBackup'
  BY <1>13 DEF RemoveIndex, RemoverAt, RemoveGoes, RemoveEnds
<1>14. ASSUME NEW d \in Removers, NEW p \in Packages, RemoveRow(d, p) PROVE NoPhantomBackup'
  BY <1>14 DEF RemoveRow, RemoverAt, RemoveGoes, RemoveEnds
<1>15. CASE RetentionList
  BY <1>15 DEF RetentionList
<1>16. ASSUME NEW a \in Adopters, NEW p \in Packages, AdoptBegin(a, p) PROVE NoPhantomBackup'
  BY <1>16 DEF AdoptBegin, Opens, AdoptAt, AdoptGoes, AdoptEnds
<1>17. ASSUME NEW a \in Adopters, NEW p \in Packages, UploadBegin(a, p) PROVE NoPhantomBackup'
  BY <1>17 DEF UploadBegin, AdoptAt, AdoptGoes, AdoptEnds
<1>18. ASSUME NEW a \in Adopters, NEW p \in Packages, AdoptRegister(a, p) PROVE NoPhantomBackup'
  BY <1>18 DEF AdoptRegister, Registers, Discards, AdoptAt, AdoptGoes, AdoptEnds
<1>19. ASSUME NEW a \in Adopters, NEW p \in Packages, AdoptIndex(a, p) PROVE NoPhantomBackup'
  BY <1>19 DEF AdoptIndex, AdoptAt, AdoptGoes, AdoptEnds
<1>20. ASSUME NEW a \in Adopters, NEW p \in Packages, UploadMove(a, p) PROVE NoPhantomBackup'
  BY <1>20 DEF UploadMove, AdoptAt, AdoptGoes, AdoptEnds
<1>21. ASSUME NEW a \in Adopters, NEW p \in Packages, UploadRegister(a, p) PROVE NoPhantomBackup'
  BY <1>21 DEF UploadRegister, Registers, Discards, AdoptAt, AdoptGoes, AdoptEnds
<1>22. ASSUME NEW p \in Packages, PlaceFile(p) PROVE NoPhantomBackup'
  BY <1>22 DEF PlaceFile
<1>23. ASSUME NEW p \in Packages, Age(p) PROVE NoPhantomBackup'
  BY <1>23 DEF Age
<1>24. CASE SweepRead
  BY <1>24 DEF SweepRead
<1>25. CASE SweepDiff
  BY <1>25 DEF SweepDiff, Opens
<1>26. CASE SweepRemove
  BY <1>26 DEF SweepRemove
<1>27. CASE SweepEnd
  BY <1>27 DEF SweepEnd
<1>28. CASE StoreCrash
  BY <1>28 DEF StoreCrash, ReconcileStartup, Opens
<1>29. CASE UNCHANGED backupVars
  BY <1>29 DEF backupVars
<1> HIDE DEF diskVars, pkgVars, actorVars, storeHistory, StoreTypeOK, InFlight, ActorIdle,
     SweepIdle, NoPhantomBackup, GeneratorsKnow, Holds, Rowless, GenAt, Makes
<1> QED BY <1>1, <1>2, <1>3, <1>4, <1>5, <1>6, <1>7, <1>8, <1>9, <1>10, <1>11, <1>12, <1>13, <1>14,
     <1>15, <1>16, <1>17, <1>18, <1>19, <1>20, <1>21, <1>22, <1>23, <1>24, <1>25, <1>26, <1>27,
     <1>28, <1>29 DEF StoreNext, GenStep, RemoveStep, AdoptStep, SweepStep

\* No step takes the archive of a package that is done, or leaves it short, unless
\* the package is known to be in danger.
LEMMA DoneStep ==
  ASSUME StoreTypeOK, GeneratorsKnow, NothingUnborn, LateDiscards, NoPhantomBackup, DoneIsWhole, [StoreNext]_backupVars
  PROVE  DoneIsWhole'
<1> USE StoreAssumption DEF diskVars, pkgVars, actorVars, storeHistory, StoreTypeOK, InFlight,
     ActorIdle, SweepIdle, NoPhantomBackup, DoneIsWhole, BeingRemoved, GeneratorsKnow,
     LateDiscards, Holds, Rowless, GenAt, AdoptAt, Generated, Makes
<1>1. ASSUME NEW g \in Generators, NEW p \in Packages, GenBegin(g, p) PROVE DoneIsWhole'
  BY <1>1 DEF GenBegin, Fresh, GenAt, GenGoes, GenEnds
<1>2. ASSUME NEW g \in Generators, NEW p \in Packages, GenClaim(g, p) PROVE DoneIsWhole'
  BY <1>2 DEF GenClaim, GenAt, GenGoes, GenEnds
<1>3. ASSUME NEW g \in Generators, NEW p \in Packages, GenRecord(g, p) PROVE DoneIsWhole'
  BY <1>3 DEF GenRecord, GenAt, GenGoes, GenEnds
<1>4. ASSUME NEW g \in Generators, NEW p \in Packages, GenRecordFails(g, p) PROVE DoneIsWhole'
  BY <1>4 DEF GenRecordFails, GenAt, GenGoes, GenEnds
<1>5. ASSUME NEW g \in Generators, NEW p \in Packages, GenPack(g, p) PROVE DoneIsWhole'
  BY <1>5 DEF GenPack, RowBecomes, GenAt, GenGoes, GenEnds
<1>6. ASSUME NEW g \in Generators, NEW p \in Packages, GenWrite(g, p) PROVE DoneIsWhole'
  BY <1>6 DEF GenWrite, GenAt, GenGoes, GenEnds
<1>7. ASSUME NEW g \in Generators, NEW p \in Packages, GenIndex(g, p) PROVE DoneIsWhole'
  BY <1>7 DEF GenIndex, GenAt, GenGoes, GenEnds
<1>8. ASSUME NEW g \in Generators, NEW p \in Packages, GenFinish(g, p) PROVE DoneIsWhole'
  BY <1>8 DEF GenFinish, RowBecomes, GenAt, GenGoes, GenEnds
<1>9. ASSUME NEW g \in Generators, NEW p \in Packages, GenFails(g, p) PROVE DoneIsWhole'
  BY <1>9 DEF GenFails, GenAt, GenGoes, GenEnds
<1>10. ASSUME NEW g \in Generators, NEW p \in Packages, GenClean(g, p) PROVE DoneIsWhole'
  BY <1>10 DEF GenClean, RowBecomes, GenAt, GenGoes, GenEnds
<1>11. ASSUME NEW d \in Removers, NEW p \in Packages, RemoveBegin(d, p) PROVE DoneIsWhole'
  BY <1>11 DEF RemoveBegin, HasDerived, RemoverAt, RemoveGoes, RemoveEnds
<1>12. ASSUME NEW d \in Removers, NEW p \in Packages, RemoveFile(d, p) PROVE DoneIsWhole'
  BY <1>12 DEF RemoveFile, RemoverAt, RemoveGoes, RemoveEnds
<1>13. ASSUME NEW d \in Removers, NEW p \in Packages, RemoveIndex(d, p) PROVE DoneIsWhole'
  BY <1>13 DEF RemoveIndex, RemoverAt, RemoveGoes, RemoveEnds
<1>14. ASSUME NEW d \in Removers, NEW p \in Packages, RemoveRow(d, p) PROVE DoneIsWhole'
  BY <1>14 DEF RemoveRow, RemoverAt, RemoveGoes, RemoveEnds
<1>15. CASE RetentionList
  BY <1>15 DEF RetentionList
<1>16. ASSUME NEW a \in Adopters, NEW p \in Packages, AdoptBegin(a, p) PROVE DoneIsWhole'
  BY <1>16 DEF AdoptBegin, Opens, AdoptAt, AdoptGoes, AdoptEnds
<1>17. ASSUME NEW a \in Adopters, NEW p \in Packages, UploadBegin(a, p) PROVE DoneIsWhole'
  BY <1>17 DEF UploadBegin, AdoptAt, AdoptGoes, AdoptEnds
<1>18. ASSUME NEW a \in Adopters, NEW p \in Packages, AdoptRegister(a, p) PROVE DoneIsWhole'
  BY <1>18 DEF AdoptRegister, Registers, Discards, AdoptAt, AdoptGoes, AdoptEnds
<1>19. ASSUME NEW a \in Adopters, NEW p \in Packages, AdoptIndex(a, p) PROVE DoneIsWhole'
  BY <1>19 DEF AdoptIndex, AdoptAt, AdoptGoes, AdoptEnds
<1>20. ASSUME NEW a \in Adopters, NEW p \in Packages, UploadMove(a, p) PROVE DoneIsWhole'
  BY <1>20 DEF UploadMove, AdoptAt, AdoptGoes, AdoptEnds
<1>21. ASSUME NEW a \in Adopters, NEW p \in Packages, UploadRegister(a, p) PROVE DoneIsWhole'
  BY <1>21 DEF UploadRegister, Registers, Discards, AdoptAt, AdoptGoes, AdoptEnds
<1>22. ASSUME NEW p \in Packages, PlaceFile(p) PROVE DoneIsWhole'
  BY <1>22 DEF PlaceFile
<1>23. ASSUME NEW p \in Packages, Age(p) PROVE DoneIsWhole'
  BY <1>23 DEF Age
<1>24. CASE SweepRead
  BY <1>24 DEF SweepRead
<1>25. CASE SweepDiff
  BY <1>25 DEF SweepDiff, Opens
<1>26. CASE SweepRemove
  BY <1>26 DEF SweepRemove
<1>27. CASE SweepEnd
  BY <1>27 DEF SweepEnd
<1>28. CASE StoreCrash
  BY <1>28 DEF StoreCrash, ReconcileStartup, Opens
<1>29. CASE UNCHANGED backupVars
  BY <1>29 DEF backupVars
<1> HIDE DEF diskVars, pkgVars, actorVars, storeHistory, StoreTypeOK, InFlight, ActorIdle,
     SweepIdle, NoPhantomBackup, DoneIsWhole, BeingRemoved, GeneratorsKnow, LateDiscards, Holds,
     Rowless, GenAt, AdoptAt, Generated, Makes
<1> QED BY <1>1, <1>2, <1>3, <1>4, <1>5, <1>6, <1>7, <1>8, <1>9, <1>10, <1>11, <1>12, <1>13, <1>14,
     <1>15, <1>16, <1>17, <1>18, <1>19, <1>20, <1>21, <1>22, <1>23, <1>24, <1>25, <1>26, <1>27,
     <1>28, <1>29 DEF StoreNext, GenStep, RemoveStep, AdoptStep, SweepStep

\* No step derives a package, unseen, from a base that a delete is removing.
LEMMA DeletesStep ==
  ASSUME StoreTypeOK, GeneratorsKnow, NothingUnborn, LateDiscards, DeletesLooked, [StoreNext]_backupVars
  PROVE  DeletesLooked'
<1> USE StoreAssumption DEF diskVars, pkgVars, actorVars, storeHistory, StoreTypeOK, InFlight,
     ActorIdle, SweepIdle, DeletesLooked, GeneratorsKnow, NothingUnborn, Overlooks, Overlooked,
     Rowless, GenAt
<1>1. ASSUME NEW g \in Generators, NEW p \in Packages, GenBegin(g, p) PROVE DeletesLooked'
  BY <1>1 DEF GenBegin, Fresh, GenAt, GenGoes, GenEnds
<1>2. ASSUME NEW g \in Generators, NEW p \in Packages, GenClaim(g, p) PROVE DeletesLooked'
  BY <1>2 DEF GenClaim, GenAt, GenGoes, GenEnds
<1>3. ASSUME NEW g \in Generators, NEW p \in Packages, GenRecord(g, p) PROVE DeletesLooked'
  BY <1>3 DEF GenRecord, GenAt, GenGoes, GenEnds
<1>4. ASSUME NEW g \in Generators, NEW p \in Packages, GenRecordFails(g, p) PROVE DeletesLooked'
  BY <1>4 DEF GenRecordFails, GenAt, GenGoes, GenEnds
<1>5. ASSUME NEW g \in Generators, NEW p \in Packages, GenPack(g, p) PROVE DeletesLooked'
  BY <1>5 DEF GenPack, RowBecomes, GenAt, GenGoes, GenEnds
<1>6. ASSUME NEW g \in Generators, NEW p \in Packages, GenWrite(g, p) PROVE DeletesLooked'
  BY <1>6 DEF GenWrite, GenAt, GenGoes, GenEnds
<1>7. ASSUME NEW g \in Generators, NEW p \in Packages, GenIndex(g, p) PROVE DeletesLooked'
  BY <1>7 DEF GenIndex, GenAt, GenGoes, GenEnds
<1>8. ASSUME NEW g \in Generators, NEW p \in Packages, GenFinish(g, p) PROVE DeletesLooked'
  BY <1>8 DEF GenFinish, RowBecomes, GenAt, GenGoes, GenEnds
<1>9. ASSUME NEW g \in Generators, NEW p \in Packages, GenFails(g, p) PROVE DeletesLooked'
  BY <1>9 DEF GenFails, GenAt, GenGoes, GenEnds
<1>10. ASSUME NEW g \in Generators, NEW p \in Packages, GenClean(g, p) PROVE DeletesLooked'
  BY <1>10 DEF GenClean, RowBecomes, GenAt, GenGoes, GenEnds
<1>11. ASSUME NEW d \in Removers, NEW p \in Packages, RemoveBegin(d, p) PROVE DeletesLooked'
  BY <1>11 DEF RemoveBegin, HasDerived, RemoverAt, RemoveGoes, RemoveEnds
<1>12. ASSUME NEW d \in Removers, NEW p \in Packages, RemoveFile(d, p) PROVE DeletesLooked'
  BY <1>12 DEF RemoveFile, RemoverAt, RemoveGoes, RemoveEnds
<1>13. ASSUME NEW d \in Removers, NEW p \in Packages, RemoveIndex(d, p) PROVE DeletesLooked'
  BY <1>13 DEF RemoveIndex, RemoverAt, RemoveGoes, RemoveEnds
<1>14. ASSUME NEW d \in Removers, NEW p \in Packages, RemoveRow(d, p) PROVE DeletesLooked'
  BY <1>14 DEF RemoveRow, RemoverAt, RemoveGoes, RemoveEnds
<1>15. CASE RetentionList
  BY <1>15 DEF RetentionList
<1>16. ASSUME NEW a \in Adopters, NEW p \in Packages, AdoptBegin(a, p) PROVE DeletesLooked'
  BY <1>16 DEF AdoptBegin, Opens, AdoptAt, AdoptGoes, AdoptEnds
<1>17. ASSUME NEW a \in Adopters, NEW p \in Packages, UploadBegin(a, p) PROVE DeletesLooked'
  BY <1>17 DEF UploadBegin, AdoptAt, AdoptGoes, AdoptEnds
<1>18. ASSUME NEW a \in Adopters, NEW p \in Packages, AdoptRegister(a, p) PROVE DeletesLooked'
  BY <1>18 DEF AdoptRegister, Registers, Discards, AdoptAt, AdoptGoes, AdoptEnds
<1>19. ASSUME NEW a \in Adopters, NEW p \in Packages, AdoptIndex(a, p) PROVE DeletesLooked'
  BY <1>19 DEF AdoptIndex, AdoptAt, AdoptGoes, AdoptEnds
<1>20. ASSUME NEW a \in Adopters, NEW p \in Packages, UploadMove(a, p) PROVE DeletesLooked'
  BY <1>20 DEF UploadMove, AdoptAt, AdoptGoes, AdoptEnds
<1>21. ASSUME NEW a \in Adopters, NEW p \in Packages, UploadRegister(a, p) PROVE DeletesLooked'
  BY <1>21 DEF UploadRegister, Registers, Discards, AdoptAt, AdoptGoes, AdoptEnds
<1>22. ASSUME NEW p \in Packages, PlaceFile(p) PROVE DeletesLooked'
  BY <1>22 DEF PlaceFile
<1>23. ASSUME NEW p \in Packages, Age(p) PROVE DeletesLooked'
  BY <1>23 DEF Age
<1>24. CASE SweepRead
  BY <1>24 DEF SweepRead
<1>25. CASE SweepDiff
  BY <1>25 DEF SweepDiff, Opens
<1>26. CASE SweepRemove
  BY <1>26 DEF SweepRemove
<1>27. CASE SweepEnd
  BY <1>27 DEF SweepEnd
<1>28. CASE StoreCrash
  BY <1>28 DEF StoreCrash, ReconcileStartup, Opens
<1>29. CASE UNCHANGED backupVars
  BY <1>29 DEF backupVars
<1> HIDE DEF diskVars, pkgVars, actorVars, storeHistory, StoreTypeOK, InFlight, ActorIdle,
     SweepIdle, DeletesLooked, GeneratorsKnow, NothingUnborn, Overlooks, Overlooked, Rowless, GenAt
<1> QED BY <1>1, <1>2, <1>3, <1>4, <1>5, <1>6, <1>7, <1>8, <1>9, <1>10, <1>11, <1>12, <1>13, <1>14,
     <1>15, <1>16, <1>17, <1>18, <1>19, <1>20, <1>21, <1>22, <1>23, <1>24, <1>25, <1>26, <1>27,
     <1>28, <1>29 DEF StoreNext, GenStep, RemoveStep, AdoptStep, SweepStep

\* No step takes the base of a package, unless the package is known to be undercut.
LEMMA BaseStep ==
  ASSUME StoreTypeOK, GeneratorsKnow, NothingUnborn, LateDiscards, DeletesLooked, BaseStays, [StoreNext]_backupVars
  PROVE  BaseStays'
<1> USE StoreAssumption DEF diskVars, pkgVars, actorVars, storeHistory, StoreTypeOK, InFlight,
     ActorIdle, SweepIdle, DeletesLooked, BaseStays, GeneratorsKnow, NothingUnborn, Overlooks,
     Overlooked, Rowless, GenAt
<1>1. ASSUME NEW g \in Generators, NEW p \in Packages, GenBegin(g, p) PROVE BaseStays'
  BY <1>1 DEF GenBegin, Fresh, GenAt, GenGoes, GenEnds
<1>2. ASSUME NEW g \in Generators, NEW p \in Packages, GenClaim(g, p) PROVE BaseStays'
  BY <1>2 DEF GenClaim, GenAt, GenGoes, GenEnds
<1>3. ASSUME NEW g \in Generators, NEW p \in Packages, GenRecord(g, p) PROVE BaseStays'
  BY <1>3 DEF GenRecord, GenAt, GenGoes, GenEnds
<1>4. ASSUME NEW g \in Generators, NEW p \in Packages, GenRecordFails(g, p) PROVE BaseStays'
  BY <1>4 DEF GenRecordFails, GenAt, GenGoes, GenEnds
<1>5. ASSUME NEW g \in Generators, NEW p \in Packages, GenPack(g, p) PROVE BaseStays'
  BY <1>5 DEF GenPack, RowBecomes, GenAt, GenGoes, GenEnds
<1>6. ASSUME NEW g \in Generators, NEW p \in Packages, GenWrite(g, p) PROVE BaseStays'
  BY <1>6 DEF GenWrite, GenAt, GenGoes, GenEnds
<1>7. ASSUME NEW g \in Generators, NEW p \in Packages, GenIndex(g, p) PROVE BaseStays'
  BY <1>7 DEF GenIndex, GenAt, GenGoes, GenEnds
<1>8. ASSUME NEW g \in Generators, NEW p \in Packages, GenFinish(g, p) PROVE BaseStays'
  BY <1>8 DEF GenFinish, RowBecomes, GenAt, GenGoes, GenEnds
<1>9. ASSUME NEW g \in Generators, NEW p \in Packages, GenFails(g, p) PROVE BaseStays'
  BY <1>9 DEF GenFails, GenAt, GenGoes, GenEnds
<1>10. ASSUME NEW g \in Generators, NEW p \in Packages, GenClean(g, p) PROVE BaseStays'
  BY <1>10 DEF GenClean, RowBecomes, GenAt, GenGoes, GenEnds
<1>11. ASSUME NEW d \in Removers, NEW p \in Packages, RemoveBegin(d, p) PROVE BaseStays'
  BY <1>11 DEF RemoveBegin, HasDerived, RemoverAt, RemoveGoes, RemoveEnds
<1>12. ASSUME NEW d \in Removers, NEW p \in Packages, RemoveFile(d, p) PROVE BaseStays'
  BY <1>12 DEF RemoveFile, RemoverAt, RemoveGoes, RemoveEnds
<1>13. ASSUME NEW d \in Removers, NEW p \in Packages, RemoveIndex(d, p) PROVE BaseStays'
  BY <1>13 DEF RemoveIndex, RemoverAt, RemoveGoes, RemoveEnds
<1>14. ASSUME NEW d \in Removers, NEW p \in Packages, RemoveRow(d, p) PROVE BaseStays'
  BY <1>14 DEF RemoveRow, RemoverAt, RemoveGoes, RemoveEnds
<1>15. CASE RetentionList
  BY <1>15 DEF RetentionList
<1>16. ASSUME NEW a \in Adopters, NEW p \in Packages, AdoptBegin(a, p) PROVE BaseStays'
  BY <1>16 DEF AdoptBegin, Opens, AdoptAt, AdoptGoes, AdoptEnds
<1>17. ASSUME NEW a \in Adopters, NEW p \in Packages, UploadBegin(a, p) PROVE BaseStays'
  BY <1>17 DEF UploadBegin, AdoptAt, AdoptGoes, AdoptEnds
<1>18. ASSUME NEW a \in Adopters, NEW p \in Packages, AdoptRegister(a, p) PROVE BaseStays'
  BY <1>18 DEF AdoptRegister, Registers, Discards, AdoptAt, AdoptGoes, AdoptEnds
<1>19. ASSUME NEW a \in Adopters, NEW p \in Packages, AdoptIndex(a, p) PROVE BaseStays'
  BY <1>19 DEF AdoptIndex, AdoptAt, AdoptGoes, AdoptEnds
<1>20. ASSUME NEW a \in Adopters, NEW p \in Packages, UploadMove(a, p) PROVE BaseStays'
  BY <1>20 DEF UploadMove, AdoptAt, AdoptGoes, AdoptEnds
<1>21. ASSUME NEW a \in Adopters, NEW p \in Packages, UploadRegister(a, p) PROVE BaseStays'
  BY <1>21 DEF UploadRegister, Registers, Discards, AdoptAt, AdoptGoes, AdoptEnds
<1>22. ASSUME NEW p \in Packages, PlaceFile(p) PROVE BaseStays'
  BY <1>22 DEF PlaceFile
<1>23. ASSUME NEW p \in Packages, Age(p) PROVE BaseStays'
  BY <1>23 DEF Age
<1>24. CASE SweepRead
  BY <1>24 DEF SweepRead
<1>25. CASE SweepDiff
  BY <1>25 DEF SweepDiff, Opens
<1>26. CASE SweepRemove
  BY <1>26 DEF SweepRemove
<1>27. CASE SweepEnd
  BY <1>27 DEF SweepEnd
<1>28. CASE StoreCrash
  BY <1>28 DEF StoreCrash, ReconcileStartup, Opens
<1>29. CASE UNCHANGED backupVars
  BY <1>29 DEF backupVars
<1> HIDE DEF diskVars, pkgVars, actorVars, storeHistory, StoreTypeOK, InFlight, ActorIdle,
     SweepIdle, DeletesLooked, BaseStays, GeneratorsKnow, NothingUnborn, Overlooks, Overlooked,
     Rowless, GenAt
<1> QED BY <1>1, <1>2, <1>3, <1>4, <1>5, <1>6, <1>7, <1>8, <1>9, <1>10, <1>11, <1>12, <1>13, <1>14,
     <1>15, <1>16, <1>17, <1>18, <1>19, <1>20, <1>21, <1>22, <1>23, <1>24, <1>25, <1>26, <1>27,
     <1>28, <1>29 DEF StoreNext, GenStep, RemoveStep, AdoptStep, SweepStep

\* The inductive invariant.
StoreTrue ==
  /\ StoreTypeOK /\ GeneratorsKnow /\ NothingUnborn /\ LateDiscards /\ DeletesLooked
  /\ SlotReturned /\ NoPhantomBackup /\ DoneIsWhole /\ BaseStays

\* The invariant holds where there is no package.
LEMMA StoreBegins ==
  ASSUME StoreInit
  PROVE  StoreTrue
<1> USE StoreAssumption DEF StoreInit, ActorIdle, SweepIdle
<1>1. StoreTypeOK
  <2>1. /\ genCall \in [Generators -> [step : GenSteps, pkg : Packages] \cup {ActorIdle}]
        /\ removeCall \in [Removers -> [step : {"checked", "unfiled", "unindexed"}, pkg : Packages]
                                        \cup {ActorIdle}]
        /\ adoptCall \in [Adopters -> [step : {"found", "rowed", "received", "moved"}, pkg : Packages]
                                       \cup {ActorIdle}]
    OBVIOUS
  <2>2. sweep \in [step : {"idle", "read", "removing", "unfiled"}, left : SUBSET Packages]
    OBVIOUS
  <2>3. storeCrashes \in 0..StoreCrashes
    OBVIOUS
  <2>4. generating \in BOOLEAN
    OBVIOUS
  <2> QED BY <2>1, <2>2, <2>3, <2>4 DEF StoreTypeOK
<1>2. GeneratorsKnow
  BY DEF GeneratorsKnow, Holds, Makes, GenAt
<1>3. NothingUnborn /\ LateDiscards /\ DeletesLooked
  BY DEF NothingUnborn, LateDiscards, DeletesLooked, Adopts, AdoptAt, Overlooks
<1>4. SlotReturned
  BY DEF SlotReturned, Holds
<1>5. NoPhantomBackup /\ DoneIsWhole /\ BaseStays
  BY DEF NoPhantomBackup, InFlight, DoneIsWhole, BaseStays, Rowless
<1> QED BY <1>1, <1>2, <1>3, <1>4, <1>5 DEF StoreTrue

\* Every step keeps the invariant.
LEMMA StoreStep ==
  ASSUME StoreTrue, [StoreNext]_backupVars
  PROVE  StoreTrue'
BY StoreTypesStep, SlotStep, GeneratorsStep, UnbornStep, LateStep, PhantomStep, DoneStep,
   DeletesStep, BaseStep DEF StoreTrue

\* StoreTrue holds in every state of StoreSpec.
LEMMA StoreStaysTrue == StoreSpec => []StoreTrue
<1>1. StoreInit => StoreTrue
  BY StoreBegins
<1>2. StoreTrue /\ [StoreNext]_backupVars => StoreTrue'
  BY StoreStep
<1> QED BY <1>1, <1>2, PTL DEF StoreSpec

\* The slot comes back, no row waits for a generator that is gone, a package
\* that is listed is whole and the base of a package stays, save for the races
\* that the model names (BackupService, OrphanCleanup).
THEOREM BackupsAlwaysSound == StoreSpec => []BackupsSound
<1>1. StoreTrue => BackupsSound BY DEF StoreTrue, BackupsSound
<1> QED BY <1>1, StoreStaysTrue, PTL

-----------------------------------------------------------------------------
(***************************************************************************)
(* RestoreBoot.                                                            *)
(* What a restore keeps however often a process dies between two steps of  *)
(* staging or of the start-up replacement. Two processes that stage at once*)
(* destroy each other's staging directory; `stomped` records that it has   *)
(* happened, and everything that rests on the directory is excused from then*)
(* on. The copies of old databases and the records of their imports are not.*)
(***************************************************************************)

\* The steps of an import whose staging directory is on disk.
OnDisk == {"unpacking", "merged", "marking"}

\* The steps of an import that has not written its marker.
Unmarked == {"idle", "checked"} \cup OnDisk

\* The steps of the start-up replacement, from the copy of the old database to
\* the removal of the marker.
Applying == {"copying", "swapped", "unlogged", "moved"}

\* The import records that the write-ahead log beside the database holds.
LogRecords == IF dbLog = <<>> THEN {} ELSE dbLog.records

\* What holds even when two processes have staged at once: a directory of nobody
\* is empty, a replacement at work has its copy of the old database, an import is
\* at work only while the server serves, and only one is.
Housekeeping ==
  /\ staging.of = Nothing => staging = NoStaging
  /\ boot \in Applying => rollbacks # <<>>
  /\ boot = "copying" => Last(rollbacks).db = dbFile
  /\ boot # "serving" => \A i \in Imports : importStep[i] \in {"idle", "done", "failed"}
  /\ boot \in {"unlogged", "moved"} => dbLog = <<>>
  /\ \A i, j \in Imports : Staging(i) /\ importStep[j] \notin {"idle", "done", "failed"} => i = j

\* One import has the staging directory to itself, what it has put there agrees
\* with its step, and the marker names a package that is there whole and is the
\* one the replacement applies.
OneStages ==
  /\ \A i \in Stagers : importStep[i] \in OnDisk =>
       /\ staging = [of |-> i, whole |-> importStep[i] # "unpacking"]
       /\ marker = IF importStep[i] = "marking" THEN Torn ELSE Nothing
       /\ \A j \in Stagers \ {i} : importStep[j] \notin OnDisk
  /\ marker \in Stagers =>
       /\ staging = [of |-> marker, whole |-> TRUE]
       /\ importStep[marker] \notin Unmarked
  /\ boot \in Applying => marker \in Stagers
  /\ boot \in Applying \ {"copying"} => dbFile.base = marker

\* A package whose marker is still to come, or is there, has not been served and
\* is not under the database or any that was replaced.
NewEachTime ==
  /\ \A i \in Stagers : importStep[i] \in Unmarked \/ marker = i =>
       i \notin served /\ \A old \in replaced : old.base # i
  /\ \A i \in Stagers : importStep[i] \in Unmarked => dbFile.base # i
  /\ \A old \in replaced : old.base # dbFile.base

\* The write-ahead log beside the database is its own, or that of the database
\* that was swapped out and is still to be removed.
LogKnown == dbLog # <<>> =>
  /\ boot = "serving" => dbLog.base = dbFile.base
  /\ boot \in {"stopped", "copying"} => dbLog.base = dbFile.base \/ dbFile.base = marker
  /\ IF dbLog.base = dbFile.base THEN dbFile.records \subseteq dbLog.records
     ELSE dbFile.records = {}
  /\ boot = "swapped" =>
       /\ dbFile.records = {}
       /\ Last(rollbacks).db.base = dbLog.base \/ Last(rollbacks).db.records = {}

\* The import records of a replaced database are in the one that is served, or in
\* the copy and the log that the replacement will take them from, or were in a log
\* that is known to be lost.
HistoryOnItsWay == again \/ \A old \in replaced :
  /\ boot \in {"serving", "copying", "moved"} => old.records \subseteq Recorded \cup unlogged
  /\ boot = "stopped" => dbFile.base = marker \/ old.records \subseteq Recorded \cup unlogged
  /\ boot \in {"swapped", "unlogged"} =>
       old.records \subseteq Last(rollbacks).db.records \cup LogRecords \cup unlogged

\* The blob that a staged or an applied package counts on is in the store, unless a
\* row of it was deleted and it was collected.
BlobStays ==
  CountedOn \/ dbFile.base # Own => blobHere \/ collected

\* The copies in the rollback directories.
Copies == [db : Databases, for : Stagers]

\* The last rollback copy is a copy of a database (Last of a sequence that is not
\* empty).
LEMMA LastCopy ==
  ASSUME RestoreTypeOK, rollbacks # <<>>
  PROVE  /\ Len(rollbacks) \in DOMAIN rollbacks /\ Last(rollbacks) = rollbacks[Len(rollbacks)]
         /\ Last(rollbacks) \in Copies /\ Last(rollbacks).db \in Databases
<1>1. rollbacks \in Seq(Copies)
  BY DEF RestoreTypeOK, Copies
<1>2. Len(rollbacks) \in Nat \ {0} /\ DOMAIN rollbacks = 1..Len(rollbacks)
  BY <1>1, EmptySeq, LenProperties
<1>3. Len(rollbacks) \in DOMAIN rollbacks /\ rollbacks[Len(rollbacks)] \in Copies
  BY <1>1, <1>2, ElementOfSeq
<1> QED BY <1>3 DEF Last, Copies

\* Taking a copy appends the database or overwrites the last copy, and changes no
\* other (copyDatabaseForRollback).
LEMMA CopyTaken ==
  ASSUME RestoreTypeOK, BootCopy
  PROVE  /\ rollbacks' \in Seq(Copies) /\ rollbacks' # <<>>
         /\ Last(rollbacks').db = dbFile
         /\ \A k \in DOMAIN rollbacks :
              /\ k \in DOMAIN rollbacks'
              /\ rollbacks'[k] = rollbacks[k] \/ rollbacks[k].db.base = dbFile.base \/ lostCopy'
<1>1. rollbacks \in Seq(Copies) /\ ThisCopy \in Copies /\ ThisCopy.db = dbFile
  BY DEF RestoreTypeOK, BootCopy, ThisCopy, Copies
<1>2. CASE rollbacks' = Append(rollbacks, ThisCopy)
  <2>1. /\ Append(rollbacks, ThisCopy) \in Seq(Copies)
        /\ Len(Append(rollbacks, ThisCopy)) = Len(rollbacks) + 1
        /\ \A k \in 1..Len(rollbacks) : Append(rollbacks, ThisCopy)[k] = rollbacks[k]
        /\ Append(rollbacks, ThisCopy)[Len(rollbacks) + 1] = ThisCopy
    BY <1>1, AppendProperties
  <2> QED BY <1>1, <1>2, <2>1 DEF Last
<1>3. CASE /\ rollbacks # <<>>
           /\ rollbacks' = [rollbacks EXCEPT ![Len(rollbacks)] = ThisCopy]
           /\ lostCopy' = (lostCopy \/ Last(rollbacks).db.base # dbFile.base)
  <2>1. rollbacks' \in Seq(Copies) /\ Len(rollbacks') = Len(rollbacks) /\ Len(rollbacks) > 0
    BY <1>1, <1>3, ExceptSeq
  <2>2. rollbacks'[Len(rollbacks)] = ThisCopy /\ Last(rollbacks') = ThisCopy
    BY <1>1, <1>3, <2>1 DEF Last
  <2>3. ASSUME NEW k \in DOMAIN rollbacks
        PROVE  /\ k \in DOMAIN rollbacks'
               /\ rollbacks'[k] = rollbacks[k] \/ rollbacks[k].db.base = dbFile.base \/ lostCopy'
    BY <1>3, <2>1 DEF Last
  <2> QED BY <1>1, <2>1, <2>2, <2>3
<1> QED BY <1>2, <1>3 DEF BootCopy

\* Removing the last copy leaves the others as they are (a failed copy is removed).
LEMMA CopyDropped ==
  ASSUME RestoreTypeOK, rollbacks # <<>>, rollbacks' = Front(rollbacks)
  PROVE  /\ rollbacks' \in Seq(Copies)
         /\ \A k \in DOMAIN rollbacks : k # Len(rollbacks) =>
              k \in DOMAIN rollbacks' /\ rollbacks'[k] = rollbacks[k]
<1>1. rollbacks \in Seq(Copies) /\ Len(rollbacks) \in Nat \ {0}
  BY DEF RestoreTypeOK, Copies
<1> QED BY <1>1, SubSeqProperties DEF Front

\* Two processes having staged at once is never forgotten.
LEMMA StompedStays ==
  ASSUME stomped, [RestoreNext]_bootVars
  PROVE  stomped'
<1> USE DEF fileState, stageState, blobState, bootHistory
<1>1. ASSUME NEW i \in Stagers, StageBegin(i) PROVE stomped'
  BY <1>1 DEF StageBegin, StageGoes, Runs
<1>2. ASSUME NEW i \in Stagers, StageClear(i) PROVE stomped'
  BY <1>2 DEF StageClear, StageGoes
<1>3. ASSUME NEW i \in Stagers, StageMerge(i) PROVE stomped'
  BY <1>3 DEF StageMerge, StageGoes
<1>4. ASSUME NEW i \in Stagers, StageFails(i) PROVE stomped'
  BY <1>4 DEF StageFails, StageGoes
<1>5. ASSUME NEW i \in Stagers, StageMarkFails(i) PROVE stomped'
  BY <1>5 DEF StageMarkFails, StageGoes
<1>6. ASSUME NEW i \in Stagers, StageOpensMarker(i) PROVE stomped'
  BY <1>6 DEF StageOpensMarker, StageGoes
<1>7. ASSUME NEW i \in Stagers, StageMark(i) PROVE stomped'
  BY <1>7 DEF StageMark, StageGoes
<1>8. ASSUME NEW i \in Stagers, StageFinish(i) PROVE stomped'
  BY <1>8 DEF StageFinish, StageGoes
<1>9. CASE Checkpoint
  BY <1>9 DEF Checkpoint
<1>10. CASE DeleteOwned \/ CollectUnowned
  BY <1>10 DEF DeleteOwned, CollectUnowned
<1>11. CASE StopServer
  BY <1>11 DEF StopServer, ImportsDie
<1>12. CASE ReplaceSelf
  BY <1>12 DEF ReplaceSelf, ImportsDie
<1>13. CASE BootCrash
  BY <1>13 DEF BootCrash, ImportsDie, StageGoes
<1>14. CASE BootSkip
  BY <1>14 DEF BootSkip
<1>15. CASE BootCopy
  BY <1>15 DEF BootCopy
<1>16. CASE BootCopyFails
  BY <1>16 DEF BootCopyFails
<1>17. CASE BootSwap
  BY <1>17 DEF BootSwap
<1>18. CASE BootUnlog
  BY <1>18 DEF BootUnlog
<1>19. CASE BootMoveRecords
  BY <1>19 DEF BootMoveRecords
<1>20. CASE BootDone
  BY <1>20 DEF BootDone
<1>21. CASE UNCHANGED bootVars
  BY <1>21 DEF bootVars
<1> HIDE DEF fileState, stageState, blobState, bootHistory
<1> QED BY <1>1, <1>2, <1>3, <1>4, <1>5, <1>6, <1>7, <1>8, <1>9, <1>10, <1>11, <1>12, <1>13, <1>14,
     <1>15, <1>16, <1>17, <1>18, <1>19, <1>20, <1>21 DEF RestoreNext, StageStep, BootStep

\* Every step keeps the types.
LEMMA RestoreTypesStep ==
  ASSUME RestoreTypeOK, Housekeeping, [RestoreNext]_bootVars
  PROVE  RestoreTypeOK'
<1> USE RestoreAssumption DEF fileState, stageState, blobState, bootHistory, RestoreTypeOK,
     Stagers, Databases, BootSteps, StageSteps, NoStaging, Recorded, Housekeeping, Applying
<1>1. ASSUME NEW i \in Stagers, StageBegin(i) PROVE RestoreTypeOK'
  BY <1>1 DEF StageBegin, StageGoes, Runs
<1>2. ASSUME NEW i \in Stagers, StageClear(i) PROVE RestoreTypeOK'
  BY <1>2 DEF StageClear, StageGoes
<1>3. ASSUME NEW i \in Stagers, StageMerge(i) PROVE RestoreTypeOK'
  BY <1>3 DEF StageMerge, StageGoes
<1>4. ASSUME NEW i \in Stagers, StageFails(i) PROVE RestoreTypeOK'
  BY <1>4 DEF StageFails, StageGoes
<1>5. ASSUME NEW i \in Stagers, StageMarkFails(i) PROVE RestoreTypeOK'
  BY <1>5 DEF StageMarkFails, StageGoes
<1>6. ASSUME NEW i \in Stagers, StageOpensMarker(i) PROVE RestoreTypeOK'
  BY <1>6 DEF StageOpensMarker, StageGoes
<1>7. ASSUME NEW i \in Stagers, StageMark(i) PROVE RestoreTypeOK'
  BY <1>7 DEF StageMark, StageGoes
<1>8. ASSUME NEW i \in Stagers, StageFinish(i) PROVE RestoreTypeOK'
  BY <1>8 DEF StageFinish, StageGoes
<1>9. CASE Checkpoint
  BY <1>9 DEF Checkpoint
<1>10. CASE DeleteOwned \/ CollectUnowned
  BY <1>10 DEF DeleteOwned, CollectUnowned
<1>11. CASE StopServer
  BY <1>11 DEF StopServer, ImportsDie
<1>12. CASE ReplaceSelf
  BY <1>12 DEF ReplaceSelf, ImportsDie
<1>13. CASE BootCrash
  BY <1>13 DEF BootCrash, ImportsDie, StageGoes
<1>14. CASE BootSkip
  BY <1>14 DEF BootSkip
<1>15. CASE BootCopy
  <2>1. rollbacks' \in Seq(Copies)
    BY CopyTaken, <1>15
  <2> QED BY <1>15, <2>1 DEF BootCopy, Copies
<1>16. CASE BootCopyFails
  <2>1. rollbacks' \in Seq(Copies)
    BY CopyDropped, <1>16 DEF BootCopyFails
  <2> QED BY <1>16, <2>1 DEF BootCopyFails, Copies
<1>17. CASE BootSwap
  BY <1>17 DEF BootSwap
<1>18. CASE BootUnlog
  BY <1>18 DEF BootUnlog
<1>19. CASE BootMoveRecords
  BY LastCopy, <1>19 DEF BootMoveRecords
<1>20. CASE BootDone
  BY <1>20 DEF BootDone
<1>21. CASE UNCHANGED bootVars
  BY <1>21 DEF bootVars
<1> HIDE DEF fileState, stageState, blobState, bootHistory, RestoreTypeOK, Stagers, Databases,
     BootSteps, StageSteps, NoStaging, Recorded, Housekeeping, Applying
<1> QED BY <1>1, <1>2, <1>3, <1>4, <1>5, <1>6, <1>7, <1>8, <1>9, <1>10, <1>11, <1>12, <1>13, <1>14,
     <1>15, <1>16, <1>17, <1>18, <1>19, <1>20, <1>21 DEF RestoreNext, StageStep, BootStep

\* Every step keeps what holds even when two processes stage at once.
LEMMA HousekeepingStep ==
  ASSUME RestoreTypeOK, Housekeeping, [RestoreNext]_bootVars
  PROVE  Housekeeping'
<1> USE RestoreAssumption DEF fileState, stageState, blobState, bootHistory, RestoreTypeOK,
     Stagers, Databases, BootSteps, StageSteps, NoStaging, Recorded, Housekeeping, Applying, Staging
<1>1. ASSUME NEW i \in Stagers, StageBegin(i) PROVE Housekeeping'
  BY <1>1 DEF StageBegin, StageGoes, Runs
<1>2. ASSUME NEW i \in Stagers, StageClear(i) PROVE Housekeeping'
  BY <1>2 DEF StageClear, StageGoes
<1>3. ASSUME NEW i \in Stagers, StageMerge(i) PROVE Housekeeping'
  BY <1>3 DEF StageMerge, StageGoes
<1>4. ASSUME NEW i \in Stagers, StageFails(i) PROVE Housekeeping'
  BY <1>4 DEF StageFails, StageGoes
<1>5. ASSUME NEW i \in Stagers, StageMarkFails(i) PROVE Housekeeping'
  BY <1>5 DEF StageMarkFails, StageGoes
<1>6. ASSUME NEW i \in Stagers, StageOpensMarker(i) PROVE Housekeeping'
  BY <1>6 DEF StageOpensMarker, StageGoes
<1>7. ASSUME NEW i \in Stagers, StageMark(i) PROVE Housekeeping'
  BY <1>7 DEF StageMark, StageGoes
<1>8. ASSUME NEW i \in Stagers, StageFinish(i) PROVE Housekeeping'
  BY <1>8 DEF StageFinish, StageGoes
<1>9. CASE Checkpoint
  BY <1>9 DEF Checkpoint
<1>10. CASE DeleteOwned \/ CollectUnowned
  BY <1>10 DEF DeleteOwned, CollectUnowned
<1>11. CASE StopServer
  BY <1>11 DEF StopServer, ImportsDie
<1>12. CASE ReplaceSelf
  BY <1>12 DEF ReplaceSelf, ImportsDie
<1>13. CASE BootCrash
  BY <1>13 DEF BootCrash, ImportsDie, StageGoes
<1>14. CASE BootSkip
  BY <1>14 DEF BootSkip
<1>15. CASE BootCopy
  BY CopyTaken, <1>15 DEF BootCopy
<1>16. CASE BootCopyFails
  BY CopyDropped, <1>16 DEF BootCopyFails
<1>17. CASE BootSwap
  BY <1>17 DEF BootSwap
<1>18. CASE BootUnlog
  BY <1>18 DEF BootUnlog
<1>19. CASE BootMoveRecords
  BY <1>19 DEF BootMoveRecords
<1>20. CASE BootDone
  BY <1>20 DEF BootDone
<1>21. CASE UNCHANGED bootVars
  BY <1>21 DEF bootVars
<1> HIDE DEF fileState, stageState, blobState, bootHistory, RestoreTypeOK, Stagers, Databases,
     BootSteps, StageSteps, NoStaging, Recorded, Housekeeping, Applying, Staging
<1> QED BY <1>1, <1>2, <1>3, <1>4, <1>5, <1>6, <1>7, <1>8, <1>9, <1>10, <1>11, <1>12, <1>13, <1>14,
     <1>15, <1>16, <1>17, <1>18, <1>19, <1>20, <1>21 DEF RestoreNext, StageStep, BootStep

\* While no second import stages, every step leaves the staging directory to the
\* one that has it.
LEMMA OneStagesStep ==
  ASSUME RestoreTypeOK, Housekeeping, OneStages, ~stomped', [RestoreNext]_bootVars
  PROVE  OneStages'
<1> USE RestoreAssumption DEF fileState, stageState, blobState, bootHistory, RestoreTypeOK,
     Stagers, Databases, BootSteps, StageSteps, NoStaging, Recorded, Housekeeping, OneStages,
     OnDisk, Unmarked, Applying, Staging
<1>1. ASSUME NEW i \in Stagers, StageBegin(i) PROVE OneStages'
  BY <1>1 DEF StageBegin, StageGoes, Runs
<1>2. ASSUME NEW i \in Stagers, StageClear(i) PROVE OneStages'
  BY <1>2 DEF StageClear, StageGoes
<1>3. ASSUME NEW i \in Stagers, StageMerge(i) PROVE OneStages'
  BY <1>3 DEF StageMerge, StageGoes
<1>4. ASSUME NEW i \in Stagers, StageFails(i) PROVE OneStages'
  BY <1>4 DEF StageFails, StageGoes
<1>5. ASSUME NEW i \in Stagers, StageMarkFails(i) PROVE OneStages'
  BY <1>5 DEF StageMarkFails, StageGoes
<1>6. ASSUME NEW i \in Stagers, StageOpensMarker(i) PROVE OneStages'
  BY <1>6 DEF StageOpensMarker, StageGoes
<1>7. ASSUME NEW i \in Stagers, StageMark(i) PROVE OneStages'
  BY <1>7 DEF StageMark, StageGoes
<1>8. ASSUME NEW i \in Stagers, StageFinish(i) PROVE OneStages'
  BY <1>8 DEF StageFinish, StageGoes
<1>9. CASE Checkpoint
  BY <1>9 DEF Checkpoint
<1>10. CASE DeleteOwned \/ CollectUnowned
  BY <1>10 DEF DeleteOwned, CollectUnowned
<1>11. CASE StopServer
  BY <1>11 DEF StopServer, ImportsDie
<1>12. CASE ReplaceSelf
  BY <1>12 DEF ReplaceSelf, ImportsDie
<1>13. CASE BootCrash
  BY <1>13 DEF BootCrash, ImportsDie, StageGoes
<1>14. CASE BootSkip
  BY <1>14 DEF BootSkip
<1>15. CASE BootCopy
  BY <1>15 DEF BootCopy
<1>16. CASE BootCopyFails
  BY <1>16 DEF BootCopyFails
<1>17. CASE BootSwap
  BY <1>17 DEF BootSwap
<1>18. CASE BootUnlog
  BY <1>18 DEF BootUnlog
<1>19. CASE BootMoveRecords
  BY <1>19 DEF BootMoveRecords
<1>20. CASE BootDone
  BY <1>20 DEF BootDone
<1>21. CASE UNCHANGED bootVars
  BY <1>21 DEF bootVars
<1> HIDE DEF fileState, stageState, blobState, bootHistory, RestoreTypeOK, Stagers, Databases,
     BootSteps, StageSteps, NoStaging, Recorded, Housekeeping, OneStages, OnDisk, Unmarked,
     Applying, Staging
<1> QED BY <1>1, <1>2, <1>3, <1>4, <1>5, <1>6, <1>7, <1>8, <1>9, <1>10, <1>11, <1>12, <1>13, <1>14,
     <1>15, <1>16, <1>17, <1>18, <1>19, <1>20, <1>21 DEF RestoreNext, StageStep, BootStep

\* While no second import stages, every step keeps a package that is to be applied
\* new.
LEMMA NewEachTimeStep ==
  ASSUME RestoreTypeOK, Housekeeping, OneStages, NewEachTime, ~stomped', [RestoreNext]_bootVars
  PROVE  NewEachTime'
<1> USE RestoreAssumption DEF fileState, stageState, blobState, bootHistory, RestoreTypeOK,
     Stagers, Databases, BootSteps, StageSteps, NoStaging, Recorded, Housekeeping, OneStages,
     NewEachTime, OnDisk, Unmarked, Applying, Staging
<1>1. ASSUME NEW i \in Stagers, StageBegin(i) PROVE NewEachTime'
  BY <1>1 DEF StageBegin, StageGoes, Runs
<1>2. ASSUME NEW i \in Stagers, StageClear(i) PROVE NewEachTime'
  BY <1>2 DEF StageClear, StageGoes
<1>3. ASSUME NEW i \in Stagers, StageMerge(i) PROVE NewEachTime'
  BY <1>3 DEF StageMerge, StageGoes
<1>4. ASSUME NEW i \in Stagers, StageFails(i) PROVE NewEachTime'
  BY <1>4 DEF StageFails, StageGoes
<1>5. ASSUME NEW i \in Stagers, StageMarkFails(i) PROVE NewEachTime'
  BY <1>5 DEF StageMarkFails, StageGoes
<1>6. ASSUME NEW i \in Stagers, StageOpensMarker(i) PROVE NewEachTime'
  BY <1>6 DEF StageOpensMarker, StageGoes
<1>7. ASSUME NEW i \in Stagers, StageMark(i) PROVE NewEachTime'
  BY <1>7 DEF StageMark, StageGoes
<1>8. ASSUME NEW i \in Stagers, StageFinish(i) PROVE NewEachTime'
  BY <1>8 DEF StageFinish, StageGoes
<1>9. CASE Checkpoint
  BY <1>9 DEF Checkpoint
<1>10. CASE DeleteOwned \/ CollectUnowned
  BY <1>10 DEF DeleteOwned, CollectUnowned
<1>11. CASE StopServer
  BY <1>11 DEF StopServer, ImportsDie
<1>12. CASE ReplaceSelf
  BY <1>12 DEF ReplaceSelf, ImportsDie
<1>13. CASE BootCrash
  BY <1>13 DEF BootCrash, ImportsDie, StageGoes
<1>14. CASE BootSkip
  BY <1>14 DEF BootSkip
<1>15. CASE BootCopy
  BY <1>15 DEF BootCopy
<1>16. CASE BootCopyFails
  BY <1>16 DEF BootCopyFails
<1>17. CASE BootSwap
  BY <1>17 DEF BootSwap
<1>18. CASE BootUnlog
  BY <1>18 DEF BootUnlog
<1>19. CASE BootMoveRecords
  BY <1>19 DEF BootMoveRecords
<1>20. CASE BootDone
  BY <1>20 DEF BootDone
<1>21. CASE UNCHANGED bootVars
  BY <1>21 DEF bootVars
<1> HIDE DEF fileState, stageState, blobState, bootHistory, RestoreTypeOK, Stagers, Databases,
     BootSteps, StageSteps, NoStaging, Recorded, Housekeeping, OneStages, NewEachTime, OnDisk,
     Unmarked, Applying, Staging
<1> QED BY <1>1, <1>2, <1>3, <1>4, <1>5, <1>6, <1>7, <1>8, <1>9, <1>10, <1>11, <1>12, <1>13, <1>14,
     <1>15, <1>16, <1>17, <1>18, <1>19, <1>20, <1>21 DEF RestoreNext, StageStep, BootStep

\* While no second import stages, no step leaves a foreign write-ahead log beside
\* the database that is served.
LEMMA LogKnownStep ==
  ASSUME RestoreTypeOK, Housekeeping, OneStages, NewEachTime, LogKnown, ~stomped', [RestoreNext]_bootVars
  PROVE  LogKnown'
<1> USE RestoreAssumption DEF fileState, stageState, blobState, bootHistory, RestoreTypeOK,
     Stagers, Databases, BootSteps, StageSteps, NoStaging, Recorded, Housekeeping, OneStages,
     NewEachTime, LogKnown, OnDisk, Unmarked, Applying, Staging
<1>1. ASSUME NEW i \in Stagers, StageBegin(i) PROVE LogKnown'
  BY <1>1 DEF StageBegin, StageGoes, Runs
<1>2. ASSUME NEW i \in Stagers, StageClear(i) PROVE LogKnown'
  BY <1>2 DEF StageClear, StageGoes
<1>3. ASSUME NEW i \in Stagers, StageMerge(i) PROVE LogKnown'
  BY <1>3 DEF StageMerge, StageGoes
<1>4. ASSUME NEW i \in Stagers, StageFails(i) PROVE LogKnown'
  BY <1>4 DEF StageFails, StageGoes
<1>5. ASSUME NEW i \in Stagers, StageMarkFails(i) PROVE LogKnown'
  BY <1>5 DEF StageMarkFails, StageGoes
<1>6. ASSUME NEW i \in Stagers, StageOpensMarker(i) PROVE LogKnown'
  BY <1>6 DEF StageOpensMarker, StageGoes
<1>7. ASSUME NEW i \in Stagers, StageMark(i) PROVE LogKnown'
  BY <1>7 DEF StageMark, StageGoes
<1>8. ASSUME NEW i \in Stagers, StageFinish(i) PROVE LogKnown'
  BY <1>8 DEF StageFinish, StageGoes
<1>9. CASE Checkpoint
  BY <1>9 DEF Checkpoint
<1>10. CASE DeleteOwned \/ CollectUnowned
  BY <1>10 DEF DeleteOwned, CollectUnowned
<1>11. CASE StopServer
  BY <1>11 DEF StopServer, ImportsDie
<1>12. CASE ReplaceSelf
  BY <1>12 DEF ReplaceSelf, ImportsDie
<1>13. CASE BootCrash
  BY <1>13 DEF BootCrash, ImportsDie, StageGoes
<1>14. CASE BootSkip
  BY <1>14 DEF BootSkip
<1>15. CASE BootCopy
  BY CopyTaken, <1>15 DEF BootCopy
<1>16. CASE BootCopyFails
  BY <1>16 DEF BootCopyFails
<1>17. CASE BootSwap
  BY <1>17 DEF BootSwap
<1>18. CASE BootUnlog
  BY <1>18 DEF BootUnlog
<1>19. CASE BootMoveRecords
  BY <1>19 DEF BootMoveRecords
<1>20. CASE BootDone
  BY <1>20 DEF BootDone
<1>21. CASE UNCHANGED bootVars
  BY <1>21 DEF bootVars
<1> HIDE DEF fileState, stageState, blobState, bootHistory, RestoreTypeOK, Stagers, Databases,
     BootSteps, StageSteps, NoStaging, Recorded, Housekeeping, OneStages, NewEachTime, LogKnown,
     OnDisk, Unmarked, Applying, Staging
<1> QED BY <1>1, <1>2, <1>3, <1>4, <1>5, <1>6, <1>7, <1>8, <1>9, <1>10, <1>11, <1>12, <1>13, <1>14,
     <1>15, <1>16, <1>17, <1>18, <1>19, <1>20, <1>21 DEF RestoreNext, StageStep, BootStep

\* While no second import stages, every step leaves the import records of a
\* replaced database on their way to the new one.
LEMMA HistoryStep ==
  ASSUME RestoreTypeOK, Housekeeping, OneStages, NewEachTime, LogKnown, HistoryOnItsWay, ~stomped', [RestoreNext]_bootVars
  PROVE  HistoryOnItsWay'
<1> USE RestoreAssumption DEF fileState, stageState, blobState, bootHistory, RestoreTypeOK,
     Stagers, Databases, BootSteps, StageSteps, NoStaging, Recorded, Housekeeping, OneStages,
     NewEachTime, LogKnown, HistoryOnItsWay, OnDisk, Unmarked, Applying, LogRecords
<1>1. ASSUME NEW i \in Stagers, StageBegin(i) PROVE HistoryOnItsWay'
  BY <1>1 DEF StageBegin, StageGoes, Runs
<1>2. ASSUME NEW i \in Stagers, StageClear(i) PROVE HistoryOnItsWay'
  BY <1>2 DEF StageClear, StageGoes
<1>3. ASSUME NEW i \in Stagers, StageMerge(i) PROVE HistoryOnItsWay'
  BY <1>3 DEF StageMerge, StageGoes
<1>4. ASSUME NEW i \in Stagers, StageFails(i) PROVE HistoryOnItsWay'
  BY <1>4 DEF StageFails, StageGoes
<1>5. ASSUME NEW i \in Stagers, StageMarkFails(i) PROVE HistoryOnItsWay'
  BY <1>5 DEF StageMarkFails, StageGoes
<1>6. ASSUME NEW i \in Stagers, StageOpensMarker(i) PROVE HistoryOnItsWay'
  BY <1>6 DEF StageOpensMarker, StageGoes
<1>7. ASSUME NEW i \in Stagers, StageMark(i) PROVE HistoryOnItsWay'
  BY <1>7 DEF StageMark, StageGoes
<1>8. ASSUME NEW i \in Stagers, StageFinish(i) PROVE HistoryOnItsWay'
  BY <1>8 DEF StageFinish, StageGoes
<1>9. CASE Checkpoint
  BY <1>9 DEF Checkpoint
<1>10. CASE DeleteOwned \/ CollectUnowned
  BY <1>10 DEF DeleteOwned, CollectUnowned
<1>11. CASE StopServer
  BY <1>11 DEF StopServer, ImportsDie
<1>12. CASE ReplaceSelf
  BY <1>12 DEF ReplaceSelf, ImportsDie
<1>13. CASE BootCrash
  BY <1>13 DEF BootCrash, ImportsDie, StageGoes
<1>14. CASE BootSkip
  BY <1>14 DEF BootSkip
<1>15. CASE BootCopy
  BY CopyTaken, <1>15 DEF BootCopy
<1>16. CASE BootCopyFails
  BY <1>16 DEF BootCopyFails
<1>17. CASE BootSwap
  BY <1>17 DEF BootSwap
<1>18. CASE BootUnlog
  BY <1>18 DEF BootUnlog
<1>19. CASE BootMoveRecords
  BY <1>19 DEF BootMoveRecords
<1>20. CASE BootDone
  BY <1>20 DEF BootDone
<1>21. CASE UNCHANGED bootVars
  BY <1>21 DEF bootVars
<1> HIDE DEF fileState, stageState, blobState, bootHistory, RestoreTypeOK, Stagers, Databases,
     BootSteps, StageSteps, NoStaging, Recorded, Housekeeping, OneStages, NewEachTime, LogKnown,
     HistoryOnItsWay, OnDisk, Unmarked, Applying, LogRecords
<1> QED BY <1>1, <1>2, <1>3, <1>4, <1>5, <1>6, <1>7, <1>8, <1>9, <1>10, <1>11, <1>12, <1>13, <1>14,
     <1>15, <1>16, <1>17, <1>18, <1>19, <1>20, <1>21 DEF RestoreNext, StageStep, BootStep

\* While no second import stages, no step takes the blob a row of the restored
\* package counts.
LEMMA BlobStaysStep ==
  ASSUME RestoreTypeOK, Housekeeping, OneStages, BlobStays, ~stomped', [RestoreNext]_bootVars
  PROVE  BlobStays'
<1> USE RestoreAssumption DEF fileState, stageState, blobState, bootHistory, RestoreTypeOK,
     Stagers, Databases, BootSteps, StageSteps, NoStaging, Recorded, Housekeeping, OneStages,
     BlobStays, CountedOn, OnDisk, Unmarked, Applying
<1>1. ASSUME NEW i \in Stagers, StageBegin(i) PROVE BlobStays'
  BY <1>1 DEF StageBegin, StageGoes, Runs
<1>2. ASSUME NEW i \in Stagers, StageClear(i) PROVE BlobStays'
  BY <1>2 DEF StageClear, StageGoes
<1>3. ASSUME NEW i \in Stagers, StageMerge(i) PROVE BlobStays'
  BY <1>3 DEF StageMerge, StageGoes
<1>4. ASSUME NEW i \in Stagers, StageFails(i) PROVE BlobStays'
  BY <1>4 DEF StageFails, StageGoes
<1>5. ASSUME NEW i \in Stagers, StageMarkFails(i) PROVE BlobStays'
  BY <1>5 DEF StageMarkFails, StageGoes
<1>6. ASSUME NEW i \in Stagers, StageOpensMarker(i) PROVE BlobStays'
  BY <1>6 DEF StageOpensMarker, StageGoes
<1>7. ASSUME NEW i \in Stagers, StageMark(i) PROVE BlobStays'
  BY <1>7 DEF StageMark, StageGoes
<1>8. ASSUME NEW i \in Stagers, StageFinish(i) PROVE BlobStays'
  BY <1>8 DEF StageFinish, StageGoes
<1>9. CASE Checkpoint
  BY <1>9 DEF Checkpoint
<1>10. CASE DeleteOwned \/ CollectUnowned
  BY <1>10 DEF DeleteOwned, CollectUnowned
<1>11. CASE StopServer
  BY <1>11 DEF StopServer, ImportsDie
<1>12. CASE ReplaceSelf
  BY <1>12 DEF ReplaceSelf, ImportsDie
<1>13. CASE BootCrash
  BY <1>13 DEF BootCrash, ImportsDie, StageGoes
<1>14. CASE BootSkip
  BY <1>14 DEF BootSkip
<1>15. CASE BootCopy
  BY <1>15 DEF BootCopy
<1>16. CASE BootCopyFails
  BY <1>16 DEF BootCopyFails
<1>17. CASE BootSwap
  BY <1>17 DEF BootSwap
<1>18. CASE BootUnlog
  BY <1>18 DEF BootUnlog
<1>19. CASE BootMoveRecords
  BY <1>19 DEF BootMoveRecords
<1>20. CASE BootDone
  BY <1>20 DEF BootDone
<1>21. CASE UNCHANGED bootVars
  BY <1>21 DEF bootVars
<1> HIDE DEF fileState, stageState, blobState, bootHistory, RestoreTypeOK, Stagers, Databases,
     BootSteps, StageSteps, NoStaging, Recorded, Housekeeping, OneStages, BlobStays, CountedOn,
     OnDisk, Unmarked, Applying
<1> QED BY <1>1, <1>2, <1>3, <1>4, <1>5, <1>6, <1>7, <1>8, <1>9, <1>10, <1>11, <1>12, <1>13, <1>14,
     <1>15, <1>16, <1>17, <1>18, <1>19, <1>20, <1>21 DEF RestoreNext, StageStep, BootStep

\* Every step leaves a copy of each database that was replaced.
LEMMA OldKeptStep ==
  ASSUME RestoreTypeOK, Housekeeping, OneStages, NewEachTime, LogKnown, OldDatabaseKept, ~stomped', [RestoreNext]_bootVars
  PROVE  OldDatabaseKept'
<1>1. ASSUME NEW i \in Stagers, StageBegin(i) PROVE OldDatabaseKept'
  BY <1>1, RestoreAssumption DEF fileState, stageState, blobState, bootHistory, RestoreTypeOK,
       Stagers, Databases, BootSteps, StageSteps, NoStaging, Recorded, Housekeeping, OneStages,
       NewEachTime, LogKnown, OldDatabaseKept, StillLogged, OnDisk, Unmarked, Applying, LogRecords,
       StageBegin, StageGoes, Runs
<1>2. ASSUME NEW i \in Stagers, StageClear(i) PROVE OldDatabaseKept'
  BY <1>2, RestoreAssumption DEF fileState, stageState, blobState, bootHistory, RestoreTypeOK,
       Stagers, Databases, BootSteps, StageSteps, NoStaging, Recorded, Housekeeping, OneStages,
       NewEachTime, LogKnown, OldDatabaseKept, StillLogged, OnDisk, Unmarked, Applying, LogRecords,
       StageClear, StageGoes
<1>3. ASSUME NEW i \in Stagers, StageMerge(i) PROVE OldDatabaseKept'
  BY <1>3, RestoreAssumption DEF fileState, stageState, blobState, bootHistory, RestoreTypeOK,
       Stagers, Databases, BootSteps, StageSteps, NoStaging, Recorded, Housekeeping, OneStages,
       NewEachTime, LogKnown, OldDatabaseKept, StillLogged, OnDisk, Unmarked, Applying, LogRecords,
       StageMerge, StageGoes
<1>4. ASSUME NEW i \in Stagers, StageFails(i) PROVE OldDatabaseKept'
  BY <1>4, RestoreAssumption DEF fileState, stageState, blobState, bootHistory, RestoreTypeOK,
       Stagers, Databases, BootSteps, StageSteps, NoStaging, Recorded, Housekeeping, OneStages,
       NewEachTime, LogKnown, OldDatabaseKept, StillLogged, OnDisk, Unmarked, Applying, LogRecords,
       StageFails, StageGoes
<1>5. ASSUME NEW i \in Stagers, StageMarkFails(i) PROVE OldDatabaseKept'
  BY <1>5, RestoreAssumption DEF fileState, stageState, blobState, bootHistory, RestoreTypeOK,
       Stagers, Databases, BootSteps, StageSteps, NoStaging, Recorded, Housekeeping, OneStages,
       NewEachTime, LogKnown, OldDatabaseKept, StillLogged, OnDisk, Unmarked, Applying, LogRecords,
       StageMarkFails, StageGoes
<1>6. ASSUME NEW i \in Stagers, StageOpensMarker(i) PROVE OldDatabaseKept'
  BY <1>6, RestoreAssumption DEF fileState, stageState, blobState, bootHistory, RestoreTypeOK,
       Stagers, Databases, BootSteps, StageSteps, NoStaging, Recorded, Housekeeping, OneStages,
       NewEachTime, LogKnown, OldDatabaseKept, StillLogged, OnDisk, Unmarked, Applying, LogRecords,
       StageOpensMarker, StageGoes
<1>7. ASSUME NEW i \in Stagers, StageMark(i) PROVE OldDatabaseKept'
  BY <1>7, RestoreAssumption DEF fileState, stageState, blobState, bootHistory, RestoreTypeOK,
       Stagers, Databases, BootSteps, StageSteps, NoStaging, Recorded, Housekeeping, OneStages,
       NewEachTime, LogKnown, OldDatabaseKept, StillLogged, OnDisk, Unmarked, Applying, LogRecords,
       StageMark, StageGoes
<1>8. ASSUME NEW i \in Stagers, StageFinish(i) PROVE OldDatabaseKept'
  BY <1>8, RestoreAssumption DEF fileState, stageState, blobState, bootHistory, RestoreTypeOK,
       Stagers, Databases, BootSteps, StageSteps, NoStaging, Recorded, Housekeeping, OneStages,
       NewEachTime, LogKnown, OldDatabaseKept, StillLogged, OnDisk, Unmarked, Applying, LogRecords,
       StageFinish, StageGoes
<1>9. CASE Checkpoint
  BY <1>9, RestoreAssumption DEF fileState, stageState, blobState, bootHistory, RestoreTypeOK,
       Stagers, Databases, BootSteps, StageSteps, NoStaging, Recorded, Housekeeping, OneStages,
       NewEachTime, LogKnown, OldDatabaseKept, StillLogged, OnDisk, Unmarked, Applying, LogRecords,
       Checkpoint
<1>10. CASE DeleteOwned \/ CollectUnowned
  BY <1>10, RestoreAssumption DEF fileState, stageState, blobState, bootHistory, RestoreTypeOK,
       Stagers, Databases, BootSteps, StageSteps, NoStaging, Recorded, Housekeeping, OneStages,
       NewEachTime, LogKnown, OldDatabaseKept, StillLogged, OnDisk, Unmarked, Applying, LogRecords,
       DeleteOwned, CollectUnowned
<1>11. CASE StopServer
  BY <1>11, RestoreAssumption DEF fileState, stageState, blobState, bootHistory, RestoreTypeOK,
       Stagers, Databases, BootSteps, StageSteps, NoStaging, Recorded, Housekeeping, OneStages,
       NewEachTime, LogKnown, OldDatabaseKept, StillLogged, OnDisk, Unmarked, Applying, LogRecords,
       StopServer, ImportsDie
<1>12. CASE ReplaceSelf
  BY <1>12, RestoreAssumption DEF fileState, stageState, blobState, bootHistory, RestoreTypeOK,
       Stagers, Databases, BootSteps, StageSteps, NoStaging, Recorded, Housekeeping, OneStages,
       NewEachTime, LogKnown, OldDatabaseKept, StillLogged, OnDisk, Unmarked, Applying, LogRecords,
       ReplaceSelf, ImportsDie
<1>13. CASE BootCrash
  BY <1>13, RestoreAssumption DEF fileState, stageState, blobState, bootHistory, RestoreTypeOK,
       Stagers, Databases, BootSteps, StageSteps, NoStaging, Recorded, Housekeeping, OneStages,
       NewEachTime, LogKnown, OldDatabaseKept, StillLogged, OnDisk, Unmarked, Applying, LogRecords,
       BootCrash, ImportsDie, StageGoes
<1>14. CASE BootSkip
  BY <1>14, RestoreAssumption DEF fileState, stageState, blobState, bootHistory, RestoreTypeOK,
       Stagers, Databases, BootSteps, StageSteps, NoStaging, Recorded, Housekeeping, OneStages,
       NewEachTime, LogKnown, OldDatabaseKept, StillLogged, OnDisk, Unmarked, Applying, LogRecords,
       BootSkip
<1>15. CASE BootCopy
  <2> SUFFICES ASSUME NEW old \in replaced', ~lostCopy'
               PROVE  \E k \in DOMAIN rollbacks' :
                        /\ rollbacks'[k].db.base = old.base
                        /\ StillLogged(old)' \/ old.records \subseteq rollbacks'[k].db.records \cup unlogged'
    BY DEF OldDatabaseKept
  <2>0. ~stomped /\ ~lostCopy /\ replaced' = replaced /\ UNCHANGED unlogged
    BY <1>15 DEF BootCopy, RestoreTypeOK
  <2>1. PICK k \in DOMAIN rollbacks :
          /\ rollbacks[k].db.base = old.base
          /\ StillLogged(old) \/ old.records \subseteq rollbacks[k].db.records \cup unlogged
    BY <2>0, <1>15 DEF OldDatabaseKept, BootCopy
  <2>2. old.base # dbFile.base
    BY <1>15 DEF NewEachTime, BootCopy
  <2>3. k \in DOMAIN rollbacks' /\ rollbacks'[k] = rollbacks[k]
    BY CopyTaken, <1>15, <2>1, <2>2
  <2>4. StillLogged(old) => StillLogged(old)'
    BY <1>15 DEF StillLogged, BootCopy
  <2> QED BY <1>15, <2>1, <2>3, <2>4 DEF BootCopy, bootHistory
<1>16. CASE BootCopyFails
  <2> SUFFICES ASSUME NEW old \in replaced', ~lostCopy'
               PROVE  \E k \in DOMAIN rollbacks' :
                        /\ rollbacks'[k].db.base = old.base
                        /\ StillLogged(old)' \/ old.records \subseteq rollbacks'[k].db.records \cup unlogged'
    BY DEF OldDatabaseKept
  <2>1. PICK k \in DOMAIN rollbacks :
          /\ rollbacks[k].db.base = old.base
          /\ StillLogged(old) \/ old.records \subseteq rollbacks[k].db.records \cup unlogged
    BY <1>16 DEF OldDatabaseKept, BootCopyFails, bootHistory
  <2>2. old.base # dbFile.base
    BY <1>16 DEF NewEachTime, BootCopyFails, bootHistory
  <2>3. rollbacks # <<>> /\ rollbacks[Len(rollbacks)].db = dbFile
    BY <1>16 DEF Housekeeping, Applying, BootCopyFails, Last
  <2>4. k \in DOMAIN rollbacks' /\ rollbacks'[k] = rollbacks[k]
    BY CopyDropped, <1>16, <2>1, <2>2, <2>3 DEF BootCopyFails
  <2>5. StillLogged(old) => StillLogged(old)'
    BY <1>16 DEF StillLogged, BootCopyFails
  <2> QED BY <1>16, <2>1, <2>4, <2>5 DEF BootCopyFails, bootHistory
<1>17. CASE BootSwap
  <2> SUFFICES ASSUME NEW old \in replaced', ~lostCopy'
               PROVE  \E k \in DOMAIN rollbacks' :
                        /\ rollbacks'[k].db.base = old.base
                        /\ StillLogged(old)' \/ old.records \subseteq rollbacks'[k].db.records \cup unlogged'
    BY DEF OldDatabaseKept
  <2>1. StillLogged(old) => StillLogged(old)'
    BY <1>17 DEF StillLogged, BootSwap
  <2>2. CASE old \in replaced
    BY <1>17, <2>1, <2>2 DEF OldDatabaseKept, BootSwap
  <2>3. CASE dbFile.base # staging.of /\ old = [base |-> dbFile.base, records |-> Recorded]
    <3>1. Len(rollbacks) \in DOMAIN rollbacks /\ rollbacks[Len(rollbacks)].db = dbFile
      BY LastCopy, <1>17 DEF Housekeeping, Applying, BootSwap
    <3>2. dbLog = <<>> => old.records = dbFile.records
      BY <2>3 DEF Recorded
    <3>3. dbLog # <<>> => dbFile.base = dbLog.base \/ dbFile.records = {}
      BY DEF LogKnown
    <3>4. dbLog # <<>> /\ dbFile.base = dbLog.base => StillLogged(old)'
      BY <1>17, <2>1, <2>3 DEF StillLogged, Recorded, LogKnown
    <3>5. dbLog # <<>> => dbFile.base = dbLog.base
      BY <1>17, <2>3 DEF LogKnown, OneStages, Applying, BootSwap
    <3> QED BY <1>17, <2>3, <3>1, <3>2, <3>4, <3>5 DEF BootSwap
  <2> QED BY <1>17, <2>2, <2>3 DEF BootSwap
<1>18. CASE BootUnlog
  <2> SUFFICES ASSUME NEW old \in replaced', ~lostCopy'
               PROVE  \E k \in DOMAIN rollbacks' :
                        /\ rollbacks'[k].db.base = old.base
                        /\ StillLogged(old)' \/ old.records \subseteq rollbacks'[k].db.records \cup unlogged'
    BY DEF OldDatabaseKept
  <2>1. PICK k \in DOMAIN rollbacks :
          /\ rollbacks[k].db.base = old.base
          /\ StillLogged(old) \/ old.records \subseteq rollbacks[k].db.records \cup unlogged
    BY <1>18 DEF OldDatabaseKept, BootUnlog
  <2>2. CASE old.records \subseteq rollbacks[k].db.records \cup unlogged
    BY <1>18, <2>1, <2>2 DEF BootUnlog
  <2>3. CASE StillLogged(old)
    <3>1. Len(rollbacks) \in DOMAIN rollbacks /\ Last(rollbacks) = rollbacks[Len(rollbacks)]
      BY LastCopy, <1>18 DEF Housekeeping, Applying, BootUnlog
    <3>2. dbLog # <<>> /\ dbLog.base = old.base /\ old.records \subseteq dbLog.records
      BY <2>3 DEF StillLogged
    <3>3. Last(rollbacks).db.base = dbLog.base \/ Last(rollbacks).db.records = {}
      BY <1>18, <3>2 DEF LogKnown, BootUnlog
    <3>4. dbLog.records \subseteq Last(rollbacks).db.records \cup unlogged'
      BY <1>18, <3>2 DEF BootUnlog
    <3>5. CASE Last(rollbacks).db.base = dbLog.base
      BY <1>18, <3>1, <3>2, <3>4, <3>5 DEF BootUnlog
    <3>6. CASE Last(rollbacks).db.records = {}
      BY <1>18, <2>1, <3>2, <3>4, <3>6 DEF BootUnlog
    <3> QED BY <3>3, <3>5, <3>6
  <2> QED BY <2>1, <2>2, <2>3
<1>19. CASE BootMoveRecords
  BY <1>19, RestoreAssumption DEF fileState, stageState, blobState, bootHistory, RestoreTypeOK,
       Stagers, Databases, BootSteps, StageSteps, NoStaging, Recorded, Housekeeping, OneStages,
       NewEachTime, LogKnown, OldDatabaseKept, StillLogged, OnDisk, Unmarked, Applying, LogRecords,
       BootMoveRecords
<1>20. CASE BootDone
  BY <1>20, RestoreAssumption DEF fileState, stageState, blobState, bootHistory, RestoreTypeOK,
       Stagers, Databases, BootSteps, StageSteps, NoStaging, Recorded, Housekeeping, OneStages,
       NewEachTime, LogKnown, OldDatabaseKept, StillLogged, OnDisk, Unmarked, Applying, LogRecords,
       BootDone
<1>21. CASE UNCHANGED bootVars
  BY <1>21, RestoreAssumption DEF fileState, stageState, blobState, bootHistory, RestoreTypeOK,
       Stagers, Databases, BootSteps, StageSteps, NoStaging, Recorded, Housekeeping, OneStages,
       NewEachTime, LogKnown, OldDatabaseKept, StillLogged, OnDisk, Unmarked, Applying, LogRecords,
       bootVars
<1> QED BY <1>1, <1>2, <1>3, <1>4, <1>5, <1>6, <1>7, <1>8, <1>9, <1>10, <1>11, <1>12, <1>13, <1>14,
     <1>15, <1>16, <1>17, <1>18, <1>19, <1>20, <1>21 DEF RestoreNext, StageStep, BootStep

\* The inductive invariant: what two processes staging at once destroy is
\* excused from then on.
RestoreTrue ==
  /\ RestoreTypeOK /\ Housekeeping
  /\ stomped \/ (OneStages /\ NewEachTime /\ LogKnown /\ HistoryOnItsWay /\ BlobStays)
  /\ OldDatabaseKept

\* The invariant holds when the server serves the database it began with.
LEMMA RestoreBegins ==
  ASSUME RestoreInit
  PROVE  RestoreTrue
<1> USE RestoreAssumption DEF RestoreInit, Stagers
<1>1. RestoreTypeOK
  <2>1. rollbacks \in Seq([db : Databases, for : Stagers]) /\ dbFile \in Databases
    BY EmptySeq DEF Databases
  <2>2. staging \in [of : Stagers \cup {Nothing}, whole : BOOLEAN]
    BY DEF NoStaging
  <2>3. blobHere \in BOOLEAN /\ blobOwned \in BOOLEAN
    OBVIOUS
  <2>4. replaced \subseteq Databases /\ served \subseteq Stagers \cup {Own} /\ unlogged \subseteq Imports
    OBVIOUS
  <2>5. boot \in BootSteps /\ importStep \in [Stagers -> StageSteps]
    BY DEF BootSteps, StageSteps
  <2>6. (dbLog = <<>> \/ dbLog \in Databases) /\ marker \in Stagers \cup {Nothing, Torn}
    OBVIOUS
  <2>7. stomped \in BOOLEAN /\ lostCopy \in BOOLEAN /\ again \in BOOLEAN /\ collected \in BOOLEAN
    OBVIOUS
  <2>8. bootCrashes \in 0..BootCrashes
    OBVIOUS
  <2> QED BY ONLY <2>1, <2>2, <2>3, <2>4, <2>5, <2>6, <2>7, <2>8 DEF RestoreTypeOK
<1>2. Housekeeping
  BY DEF Housekeeping, Staging, Applying
<1>3. OneStages
  BY DEF OneStages, OnDisk, Applying
<1>4. NewEachTime /\ LogKnown /\ HistoryOnItsWay /\ OldDatabaseKept
  BY DEF NewEachTime, LogKnown, HistoryOnItsWay, OldDatabaseKept
<1>5. BlobStays
  BY DEF BlobStays, CountedOn
<1> QED BY <1>1, <1>2, <1>3, <1>4, <1>5 DEF RestoreTrue

\* Every step of staging and of the start-up replacement keeps the invariant.
LEMMA RestoreStep ==
  ASSUME RestoreTrue, [RestoreNext]_bootVars
  PROVE  RestoreTrue'
<1>1. RestoreTypeOK' /\ Housekeeping'
  BY RestoreTypesStep, HousekeepingStep DEF RestoreTrue
<1>2. CASE stomped'
  BY <1>1, <1>2 DEF RestoreTrue, OldDatabaseKept
<1>3. CASE ~stomped'
  <2>1. ~stomped
    BY <1>3, StompedStays
  <2>2. OneStages' /\ NewEachTime' /\ LogKnown' /\ HistoryOnItsWay' /\ BlobStays'
    BY <1>3, <2>1, OneStagesStep, NewEachTimeStep, LogKnownStep, HistoryStep, BlobStaysStep DEF RestoreTrue
  <2>3. OldDatabaseKept'
    BY <1>3, <2>1, OldKeptStep DEF RestoreTrue
  <2> QED BY <1>1, <2>2, <2>3 DEF RestoreTrue
<1> QED BY <1>2, <1>3

\* The invariant implies what a restore promises.
LEMMA RestorePromises ==
  ASSUME RestoreTrue
  PROVE  RestoreSound
<1>1. SwapsWhatWasMarked
  BY DEF RestoreTrue, SwapsWhatWasMarked, OneStages, Applying
<1>2. LogMatches
  BY DEF RestoreTrue, LogMatches, LogKnown, Housekeeping
<1>3. BlobsArrive
  BY DEF RestoreTrue, BlobsArrive, BlobStays
<1>4. HistoryKept
  BY DEF RestoreTrue, HistoryKept, HistoryOnItsWay
<1> QED BY <1>1, <1>2, <1>3, <1>4 DEF RestoreSound, RestoreTrue

\* The database that the replacement renames into place has not been served.
LEMMA SwapIsFirst ==
  ASSUME RestoreTrue, [RestoreNext]_bootVars, boot = "copying", boot' = "swapped"
  PROVE  stomped \/ dbFile'.base \notin served
<1>1. BootSwap
  BY DEF RestoreNext, StageStep, BootStep, bootVars, StageBegin, StageClear, StageMerge, StageFails,
         StageMarkFails, StageOpensMarker, StageMark, StageFinish, Checkpoint, DeleteOwned,
         CollectUnowned, StopServer, ReplaceSelf, BootCrash, BootSkip, BootCopy, BootCopyFails,
         BootUnlog, BootMoveRecords, BootDone
<1>2. SUFFICES ASSUME ~stomped PROVE dbFile'.base \notin served
  OBVIOUS
<1>3. marker \in Stagers /\ staging.of = marker
  BY <1>2 DEF RestoreTrue, OneStages, Applying
<1>4. marker \notin served
  BY <1>2, <1>3 DEF RestoreTrue, NewEachTime
<1> QED BY <1>1, <1>3, <1>4 DEF BootSwap

\* RestoreTrue holds in every state of RestoreSpec.
LEMMA RestoreStaysTrue == RestoreSpec => []RestoreTrue
<1>1. RestoreInit => RestoreTrue
  BY RestoreBegins
<1>2. RestoreTrue /\ [RestoreNext]_bootVars => RestoreTrue'
  BY RestoreStep
<1> QED BY <1>1, <1>2, PTL DEF RestoreSpec

\* Whenever a process dies in between (ApplyPendingRestore, Stage), the database
\* that goes in is the one that was marked, its blobs are there, no foreign
\* write-ahead log is beside it, and the old database and the records of the imports
\* are kept.
THEOREM RestoreAlwaysSound == RestoreSpec => []RestoreSound
<1>1. RestoreTrue => RestoreSound BY RestorePromises
<1> QED BY <1>1, RestoreStaysTrue, PTL

\* A restore that was served is never applied again: ApplyPendingRestore removes the
\* marker before the server serves.
THEOREM NeverAppliedTwice == RestoreSpec => AppliedOnce
<1>1. RestoreTrue /\ [RestoreNext]_bootVars
        => [boot = "copying" /\ boot' = "swapped" => stomped \/ dbFile'.base \notin served]_bootVars
  BY SwapIsFirst
<1> QED BY <1>1, RestoreStaysTrue, PTL DEF RestoreSpec, AppliedOnce
=============================================================================
