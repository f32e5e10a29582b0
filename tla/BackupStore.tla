----------------------------- MODULE BackupStore -----------------------------
(***************************************************************************)
(* Backup packages: rows in backup_package and files in backups/.          *)
(*                                                                         *)
(* One package at a time is generated (snapshot, archive, sidecar index,   *)
(* row); an incremental package names a base.  Deletes, the retention      *)
(* policy, the adoption of files without a row, uploads and the hourly     *)
(* removal of such files work on the same directory and the same table,    *)
(* without a lock: each looks first and acts later.                        *)
(*                                                                         *)
(* The manifest is the first member of the archive and Open stops there, so *)
(* an archive that was cut off behind its manifest is opened like a whole  *)
(* one.                                                                    *)
(***************************************************************************)
EXTENDS Naturals, FiniteSets

CONSTANTS
  PackageCount, \* packages, numbered as they are created
  NoBase,       \* the base of a full package
  Generators,   \* goroutines that generate
  Removers,     \* goroutines that delete a package
  Retention,    \* the one of them that applies the retention policy
  Adopters,     \* goroutines that adopt a file or an upload
  KeepLast,     \* automatic backups that retention keeps
  StoreAtOnce,  \* bound on the goroutines at work at once, one less after each death
  StoreCrashes  \* bound on deaths of the process

ASSUME StoreAssumption ==
  /\ PackageCount \in Nat \ {0} /\ KeepLast \in Nat \ {0}
  /\ NoBase \notin 1..PackageCount
  /\ Retention \in Removers
  /\ StoreAtOnce \in Nat /\ StoreCrashes \in Nat

VARIABLES
  pkgRow,      \* backup_package.status
  pkgBase,     \* backup_package.base_package_id
  pkgAuto,     \* packages whose origin is auto
  tar,         \* <id>.tar.gz
  sidecar,     \* packages with an <id>.index
  aged,        \* files that have not been written for longer than the grace
  generating,  \* BackupService.generating
  genCall,     \* what each generator is doing
  removeCall,  \* what each delete is doing
  doomed,      \* what retention has still to delete
  adoptCall,   \* what each adoption is doing
  sweep,       \* what the orphan cleanup is doing
  storeCrashes,
  \* history
  exposed,     \* packages adopted while their archive was not whole or about to
               \* be removed by one who had seen no row
  undercut,    \* packages whose base was found without derivatives before they had a row
  cutOff       \* packages whose generation or deletion a crash cut off

diskVars == <<tar, sidecar, aged>>
pkgVars == <<pkgRow, pkgBase, pkgAuto>>
actorVars == <<generating, genCall, removeCall, doomed, adoptCall, sweep>>
storeHistory == <<exposed, undercut, cutOff>>
backupVars == <<pkgVars, diskVars, actorVars, storeCrashes, storeHistory>>

Packages == 1..PackageCount

InFlight == {"queued", "packing"}

GenSteps == {"based", "claimed", "recorded", "packing", "writing", "written",
             "indexed", "finished", "failed"}

ActorIdle == [step |-> "idle"]

StoreTypeOK ==
  /\ pkgRow \in [Packages -> {"unborn", "none", "queued", "packing", "done", "failed"}]
  /\ pkgBase \in [Packages -> Packages \cup {NoBase}]
  /\ pkgAuto \subseteq Packages
  /\ tar \in [Packages -> {"none", "stub", "torn", "whole"}]
  /\ sidecar \subseteq Packages /\ aged \subseteq Packages
  /\ generating \in BOOLEAN
  /\ genCall \in [Generators -> [step : GenSteps, pkg : Packages] \cup {ActorIdle}]
  /\ removeCall \in [Removers -> [step : {"checked", "unfiled", "unindexed"}, pkg : Packages] \cup {ActorIdle}]
  /\ doomed \subseteq Packages
  /\ adoptCall \in [Adopters -> [step : {"found", "rowed", "received", "moved"}, pkg : Packages] \cup {ActorIdle}]
  /\ sweep \in [step : {"idle", "read", "removing", "unfiled"}, left : SUBSET Packages]
  /\ storeCrashes \in 0..StoreCrashes
  /\ exposed \subseteq Packages /\ undercut \subseteq Packages /\ cutOff \subseteq Packages

SweepIdle == [step |-> "idle", left |-> {}]

StoreInit ==
  /\ pkgRow = [p \in Packages |-> "unborn"]
  /\ pkgBase = [p \in Packages |-> NoBase] /\ pkgAuto = {}
  /\ tar = [p \in Packages |-> "none"]
  /\ sidecar = {} /\ aged = {}
  /\ generating = FALSE
  /\ genCall = [g \in Generators |-> ActorIdle]
  /\ removeCall = [d \in Removers |-> ActorIdle] /\ doomed = {}
  /\ adoptCall = [a \in Adopters |-> ActorIdle]
  /\ sweep = SweepIdle
  /\ storeCrashes = 0
  /\ exposed = {} /\ undercut = {} /\ cutOff = {}

Rowless(p) == pkgRow[p] \in {"unborn", "none"}

\* archive.Open finds a manifest.
Opens(p) == tar[p] \in {"torn", "whole"}

Generated(p) == \E g \in Generators : genCall[g].step # "idle" /\ genCall[g].pkg = p

\* A new package gets an id that no row, file or goroutine has had.
Fresh(p) == pkgRow[p] = "unborn" /\ ~Generated(p)

Hands ==
  Cardinality({g \in Generators : genCall[g] # ActorIdle})
    + Cardinality({d \in Removers : removeCall[d] # ActorIdle})
    + Cardinality({a \in Adopters : adoptCall[a] # ActorIdle})
    + (IF sweep = SweepIdle THEN 0 ELSE 1)

MayStart == Hands < StoreAtOnce - storeCrashes

-----------------------------------------------------------------------------
(* prepare and run.                                                        *)

GenAt(g, step, p) == genCall[g] = [step |-> step, pkg |-> p]

GenGoes(g, step, p) == genCall' = [genCall EXCEPT ![g] = [step |-> step, pkg |-> p]]

GenEnds(g) == genCall' = [genCall EXCEPT ![g] = ActorIdle]

\* validateBase: the base is done and has its sidecar.
GenBegin(g, p) ==
  /\ genCall[g] = ActorIdle /\ MayStart /\ Fresh(p)
  /\ \E b \in {NoBase} \cup {q \in sidecar : pkgRow[q] = "done"} :
       pkgBase' = [pkgBase EXCEPT ![p] = b]
  /\ \E auto \in BOOLEAN : pkgAuto' = IF auto /\ pkgBase'[p] = NoBase THEN pkgAuto \cup {p} ELSE pkgAuto
  /\ GenGoes(g, "based", p)
  /\ UNCHANGED <<pkgRow, diskVars, generating, removeCall, doomed, adoptCall, sweep,
                 storeCrashes, storeHistory>>

\* beginGenerate lets one in; the other is told that a backup is in progress.
GenClaim(g, p) ==
  /\ GenAt(g, "based", p)
  /\ IF generating
     THEN /\ GenEnds(g) /\ UNCHANGED generating
          /\ pkgBase' = [pkgBase EXCEPT ![p] = NoBase] /\ pkgAuto' = pkgAuto \ {p}
     ELSE /\ generating' = TRUE /\ GenGoes(g, "claimed", p)
          /\ UNCHANGED <<pkgBase, pkgAuto>>
  /\ UNCHANGED <<pkgRow, diskVars, removeCall, doomed, adoptCall, sweep, storeCrashes, storeHistory>>

\* Deletes of p's base that have looked for derived packages and found none.
Overlooked(p) == \E d \in Removers : removeCall[d].step # "idle" /\ removeCall[d].pkg = pkgBase[p]

GenRecord(g, p) ==
  /\ GenAt(g, "claimed", p)
  /\ pkgRow' = [pkgRow EXCEPT ![p] = "queued"]
  /\ undercut' = IF Overlooked(p) \/ (pkgBase[p] # NoBase /\ Rowless(pkgBase[p]))
                 THEN undercut \cup {p} ELSE undercut
  /\ GenGoes(g, "recorded", p)
  /\ UNCHANGED <<pkgBase, pkgAuto, diskVars, generating, removeCall, doomed, adoptCall, sweep,
                 storeCrashes, exposed, cutOff>>

GenRecordFails(g, p) ==
  /\ GenAt(g, "claimed", p)
  /\ generating' = FALSE /\ GenEnds(g)
  /\ pkgBase' = [pkgBase EXCEPT ![p] = NoBase] /\ pkgAuto' = pkgAuto \ {p}
  /\ UNCHANGED <<pkgRow, diskVars, removeCall, doomed, adoptCall, sweep, storeCrashes, storeHistory>>

\* An update of a row that may have been deleted by now.
RowBecomes(p, status) == pkgRow' = IF Rowless(p) THEN pkgRow ELSE [pkgRow EXCEPT ![p] = status]

\* The snapshot of the database, UpdateProgress, and the sidecar of the base.
GenPack(g, p) ==
  /\ GenAt(g, "recorded", p)
  /\ RowBecomes(p, "packing")
  /\ GenGoes(g, IF pkgBase[p] = NoBase \/ pkgBase[p] \in sidecar THEN "packing" ELSE "failed", p)
  /\ UNCHANGED <<pkgBase, pkgAuto, diskVars, generating, removeCall, doomed, adoptCall, sweep,
                 storeCrashes, storeHistory>>

\* WriteBundle: nothing readable, the manifest, everything.
GenWrite(g, p) ==
  /\ \/ GenAt(g, "packing", p) /\ tar' = [tar EXCEPT ![p] = "stub"] /\ GenGoes(g, "writing", p)
     \/ GenAt(g, "writing", p) /\ tar[p] = "stub" /\ tar' = [tar EXCEPT ![p] = "torn"] /\ UNCHANGED genCall
     \/ GenAt(g, "writing", p) /\ tar[p] = "torn" /\ tar' = [tar EXCEPT ![p] = "whole"]
        /\ GenGoes(g, "written", p)
     \/ GenAt(g, "writing", p) /\ tar[p] = "none" /\ UNCHANGED tar /\ GenGoes(g, "written", p)
  /\ UNCHANGED <<pkgVars, sidecar, aged, generating, removeCall, doomed, adoptCall, sweep,
                 storeCrashes, storeHistory>>

GenIndex(g, p) ==
  /\ GenAt(g, "written", p)
  /\ sidecar' = sidecar \cup {p} /\ GenGoes(g, "indexed", p)
  /\ UNCHANGED <<pkgVars, tar, aged, generating, removeCall, doomed, adoptCall, sweep,
                 storeCrashes, storeHistory>>

\* Stat and Finish.
GenFinish(g, p) ==
  /\ GenAt(g, "indexed", p)
  /\ IF tar[p] = "none"
     THEN UNCHANGED pkgRow /\ GenGoes(g, "failed", p)
     ELSE RowBecomes(p, "done") /\ GenGoes(g, "finished", p)
  /\ UNCHANGED <<pkgBase, pkgAuto, diskVars, generating, removeCall, doomed, adoptCall, sweep,
                 storeCrashes, storeHistory>>

GenFails(g, p) ==
  /\ \E s \in {"recorded", "packing", "writing", "written", "indexed"} : GenAt(g, s, p)
  /\ GenGoes(g, "failed", p)
  /\ UNCHANGED <<pkgVars, diskVars, generating, removeCall, doomed, adoptCall, sweep,
                 storeCrashes, storeHistory>>

\* The deferred cleanup, of all there is unless it is committed, and endGenerate.
GenClean(g, p) ==
  /\ \/ GenAt(g, "finished", p) /\ UNCHANGED <<pkgRow, tar, sidecar>>
     \/ /\ GenAt(g, "failed", p) /\ RowBecomes(p, "failed")
        /\ tar' = [tar EXCEPT ![p] = "none"] /\ sidecar' = sidecar \ {p}
  /\ aged' = {q \in aged : tar'[q] # "none"}
  /\ generating' = FALSE /\ GenEnds(g)
  /\ UNCHANGED <<pkgBase, pkgAuto, removeCall, doomed, adoptCall, sweep,
                 storeCrashes, storeHistory>>

-----------------------------------------------------------------------------
(* Delete and the retention policy.                                        *)

RemoverAt(d, step, p) == removeCall[d] = [step |-> step, pkg |-> p]

RemoveGoes(d, step, p) == removeCall' = [removeCall EXCEPT ![d] = [step |-> step, pkg |-> p]]

RemoveEnds(d) == removeCall' = [removeCall EXCEPT ![d] = ActorIdle]

\* ListRetentionCandidates: those behind the last KeepLast go, and of the last
\* ones the old ones.
RetentionList ==
  /\ removeCall[Retention] = ActorIdle /\ doomed = {} /\ MayStart
  /\ LET candidates == {p \in pkgAuto : pkgRow[p] = "done"} IN
       \E young \in 0 .. KeepLast :
         doomed' = {p \in candidates : Cardinality({q \in candidates : q > p}) >= young}
  /\ doomed' # {}
  /\ UNCHANGED <<pkgVars, diskVars, generating, genCall, removeCall, adoptCall, sweep,
                 storeCrashes, storeHistory>>

\* A mistake: only finished packages count as derived.
HasDerivedDone(p) == \E q \in Packages : pkgRow[q] = "done" /\ pkgBase[q] = p

HasDerived(p) == \E q \in Packages : ~Rowless(q) /\ pkgBase[q] = p

\* Get and HasDerived.  Retention passes over what it cannot delete.
RemoveBegin(d, p) ==
  /\ removeCall[d] = ActorIdle /\ MayStart
  /\ IF d = Retention THEN p \in doomed /\ doomed' = doomed \ {p} ELSE UNCHANGED doomed
  /\ IF Rowless(p) \/ HasDerived(p) THEN d = Retention /\ UNCHANGED removeCall ELSE RemoveGoes(d, "checked", p)
  /\ UNCHANGED <<pkgVars, diskVars, generating, genCall, adoptCall, sweep, storeCrashes, storeHistory>>

RemoveFile(d, p) ==
  /\ RemoverAt(d, "checked", p)
  /\ tar' = [tar EXCEPT ![p] = "none"] /\ aged' = aged \ {p}
  /\ RemoveGoes(d, "unfiled", p)
  /\ UNCHANGED <<pkgVars, sidecar, generating, genCall, doomed, adoptCall, sweep,
                 storeCrashes, storeHistory>>

RemoveIndex(d, p) ==
  /\ RemoverAt(d, "unfiled", p)
  /\ sidecar' = sidecar \ {p}
  /\ RemoveGoes(d, "unindexed", p)
  /\ UNCHANGED <<pkgVars, tar, aged, generating, genCall, doomed, adoptCall, sweep,
                 storeCrashes, storeHistory>>

RemoveRow(d, p) ==
  /\ RemoverAt(d, "unindexed", p)
  /\ pkgRow' = [pkgRow EXCEPT ![p] = IF Rowless(p) THEN @ ELSE "none"]
  /\ exposed' = exposed \ {p} /\ undercut' = undercut \ {p} /\ cutOff' = cutOff \ {p}
  /\ RemoveEnds(d)
  /\ UNCHANGED <<pkgBase, pkgAuto, diskVars, generating, genCall, doomed, adoptCall, sweep, storeCrashes>>

-----------------------------------------------------------------------------
(* Adopt and AdoptUploaded.                                                *)

AdoptAt(a, step, p) == adoptCall[a] = [step |-> step, pkg |-> p]

AdoptGoes(a, step, p) == adoptCall' = [adoptCall EXCEPT ![a] = [step |-> step, pkg |-> p]]

AdoptEnds(a) == adoptCall' = [adoptCall EXCEPT ![a] = ActorIdle]

\* Somebody copies a package into backups/, with its old time or a new one.
PlaceFile(p) ==
  /\ Rowless(p) /\ tar[p] = "none" /\ ~Generated(p)
  /\ tar' = [tar EXCEPT ![p] = "whole"]
  /\ aged' = aged \cup {p} \/ UNCHANGED aged
  /\ pkgRow' = [pkgRow EXCEPT ![p] = "none"]
  /\ UNCHANGED <<pkgBase, pkgAuto, sidecar, actorVars, storeCrashes, storeHistory>>

\* No row, and a manifest can be read.
AdoptBegin(a, p) ==
  /\ adoptCall[a] = ActorIdle /\ MayStart /\ Rowless(p) /\ Opens(p)
  /\ AdoptGoes(a, "found", p)
  /\ UNCHANGED <<pkgVars, diskVars, generating, genCall, removeCall, doomed, sweep,
                 storeCrashes, storeHistory>>

\* An upload of the same package beside a is about to insert a row and will take
\* the file away when it cannot.
Discards(a, p) ==
  \E b \in Adopters \ {a} : adoptCall[b].step \in {"received", "moved"} /\ adoptCall[b].pkg = p

\* The row is inserted with origin manual, whatever has become of the file.
Registers(a, p) ==
  /\ Rowless(p)
  /\ pkgRow' = [pkgRow EXCEPT ![p] = "done"]
  /\ pkgBase' = [pkgBase EXCEPT ![p] = NoBase] /\ pkgAuto' = pkgAuto \ {p}
  /\ exposed' = IF tar[p] # "whole" \/ p \in sweep.left \/ Discards(a, p)
                THEN exposed \cup {p} ELSE exposed

AdoptRegister(a, p) ==
  /\ AdoptAt(a, "found", p)
  /\ \/ Registers(a, p) /\ AdoptGoes(a, "rowed", p)
     \/ AdoptEnds(a) /\ UNCHANGED <<pkgVars, exposed>>
  /\ UNCHANGED <<diskVars, generating, genCall, removeCall, doomed, sweep, storeCrashes, undercut, cutOff>>

\* ensureSidecar reads the index of the archive, which a torn one lacks.
AdoptIndex(a, p) ==
  /\ AdoptAt(a, "rowed", p)
  /\ sidecar' = IF tar[p] = "whole" /\ pkgRow[p] = "done" THEN sidecar \cup {p} ELSE sidecar
  /\ AdoptEnds(a)
  /\ UNCHANGED <<pkgVars, tar, aged, generating, genCall, removeCall, doomed, sweep,
                 storeCrashes, storeHistory>>

\* An upload is whole and its package has no row.
UploadBegin(a, p) ==
  /\ adoptCall[a] = ActorIdle /\ MayStart /\ Rowless(p) /\ ~Generated(p)
  /\ AdoptGoes(a, "received", p)
  /\ pkgRow' = [pkgRow EXCEPT ![p] = "none"]
  /\ UNCHANGED <<pkgBase, pkgAuto, diskVars, generating, genCall, removeCall, doomed, sweep,
                 storeCrashes, storeHistory>>

\* moveFile.  The sidecar is not written: its index is read by way of the row,
\* which is not there yet.
UploadMove(a, p) ==
  /\ AdoptAt(a, "received", p)
  /\ tar' = [tar EXCEPT ![p] = "whole"] /\ aged' = aged \ {p}
  /\ AdoptGoes(a, "moved", p)
  /\ UNCHANGED <<pkgVars, sidecar, generating, genCall, removeCall, doomed, sweep,
                 storeCrashes, storeHistory>>

\* An insert that fails takes the file away, also from a row that is there.
UploadRegister(a, p) ==
  /\ AdoptAt(a, "moved", p) /\ AdoptEnds(a)
  /\ \/ Registers(a, p) /\ UNCHANGED <<tar, sidecar, aged>>
     \/ /\ tar' = [tar EXCEPT ![p] = "none"] /\ sidecar' = sidecar \ {p} /\ aged' = aged \ {p}
        /\ UNCHANGED <<pkgVars, exposed>>
  /\ UNCHANGED <<generating, genCall, removeCall, doomed, sweep, storeCrashes, undercut, cutOff>>

-----------------------------------------------------------------------------
(* The orphan cleanup.                                                     *)

\* A file grows old; one that is being written does not.
Age(p) ==
  /\ tar[p] # "none" /\ p \notin aged
  /\ \A g \in Generators : ~GenAt(g, "writing", p)
  /\ aged' = aged \cup {p}
  /\ UNCHANGED <<pkgVars, tar, sidecar, actorVars, storeCrashes, storeHistory>>

\* Scan reads the directory ...
SweepRead ==
  /\ sweep.step = "idle" /\ MayStart
  /\ \E p \in Packages : tar[p] # "none"
  /\ sweep' = [step |-> "read", left |-> {p \in Packages : tar[p] # "none"}]
  /\ UNCHANGED <<pkgVars, diskVars, generating, genCall, removeCall, doomed, adoptCall,
                 storeCrashes, storeHistory>>

\* A mistake: only packages that are done count as registered.
SweepDiffDone ==
  /\ sweep.step = "read"
  /\ sweep' = [step |-> "removing",
               left |-> {p \in sweep.left : pkgRow[p] # "done" /\ Opens(p) /\ p \in aged}]
  /\ UNCHANGED <<pkgVars, diskVars, generating, genCall, removeCall, doomed, adoptCall,
                 storeCrashes, storeHistory>>

\* A mistake: a file without a sidecar is taken for one that is being written.
SweepDiffIndexed ==
  /\ sweep.step = "read"
  /\ sweep' = [step |-> "removing",
               left |-> {p \in sweep.left \cap sidecar : Rowless(p) /\ Opens(p) /\ p \in aged}]
  /\ UNCHANGED <<pkgVars, diskVars, generating, genCall, removeCall, doomed, adoptCall,
                 storeCrashes, storeHistory>>

\* ... and then the table; what is valid and old enough goes.
SweepDiff ==
  /\ sweep.step = "read"
  /\ sweep' = [step |-> "removing",
               left |-> {p \in sweep.left : Rowless(p) /\ Opens(p) /\ p \in aged}]
  /\ UNCHANGED <<pkgVars, diskVars, generating, genCall, removeCall, doomed, adoptCall,
                 storeCrashes, storeHistory>>

\* removeOrphan.
SweepRemove ==
  /\ sweep.step = "removing" /\ sweep.left # {}
  /\ \E p \in sweep.left :
       /\ tar' = [tar EXCEPT ![p] = "none"] /\ sidecar' = sidecar \ {p} /\ aged' = aged \ {p}
       /\ sweep' = [sweep EXCEPT !.left = @ \ {p}]
  /\ UNCHANGED <<pkgVars, generating, genCall, removeCall, doomed, adoptCall,
                 storeCrashes, storeHistory>>

SweepEnd ==
  /\ sweep.step = "removing" /\ sweep.left = {}
  /\ sweep' = SweepIdle
  /\ UNCHANGED <<pkgVars, diskVars, generating, genCall, removeCall, doomed, adoptCall,
                 storeCrashes, storeHistory>>

-----------------------------------------------------------------------------
(* Restart.                                                                *)

\* A mistake: what was queued is left alone.
ReconcilePackingOnly ==
  pkgRow' = [p \in Packages |->
    IF pkgRow[p] = "packing" THEN (IF Opens(p) THEN "done" ELSE "failed") ELSE pkgRow[p]]

\* ReconcileStartup: an archive that opens is done, any other has failed.
ReconcileStartup ==
  pkgRow' = [p \in Packages |->
    IF pkgRow[p] \in InFlight THEN (IF Opens(p) THEN "done" ELSE "failed") ELSE pkgRow[p]]

StoreCrash ==
  /\ storeCrashes < StoreCrashes /\ storeCrashes' = storeCrashes + 1
  /\ ReconcileStartup
  /\ generating' = FALSE
  /\ genCall' = [g \in Generators |-> ActorIdle]
  /\ removeCall' = [d \in Removers |-> ActorIdle] /\ doomed' = {}
  /\ adoptCall' = [a \in Adopters |-> ActorIdle]
  /\ sweep' = SweepIdle
  /\ cutOff' = cutOff \cup {p \in Packages :
       \/ Generated(p)
       \/ \E d \in Removers : removeCall[d].step # "idle" /\ removeCall[d].pkg = p}
  /\ UNCHANGED <<pkgBase, pkgAuto, diskVars, exposed, undercut>>

-----------------------------------------------------------------------------

GenStep(g, p) ==
  \/ GenClaim(g, p) \/ GenRecord(g, p) \/ GenRecordFails(g, p)
  \/ GenPack(g, p) \/ GenWrite(g, p) \/ GenIndex(g, p) \/ GenFinish(g, p)
  \/ GenFails(g, p) \/ GenClean(g, p)

RemoveStep(d, p) == RemoveFile(d, p) \/ RemoveIndex(d, p) \/ RemoveRow(d, p)

AdoptStep(a, p) ==
  AdoptRegister(a, p) \/ AdoptIndex(a, p) \/ UploadMove(a, p) \/ UploadRegister(a, p)

SweepStep == SweepDiff \/ SweepRemove \/ SweepEnd

StoreNext ==
  \/ \E g \in Generators, p \in Packages : GenBegin(g, p) \/ GenStep(g, p)
  \/ \E d \in Removers, p \in Packages : RemoveBegin(d, p) \/ RemoveStep(d, p)
  \/ RetentionList
  \/ \E a \in Adopters, p \in Packages : AdoptBegin(a, p) \/ UploadBegin(a, p) \/ AdoptStep(a, p)
  \/ \E p \in Packages : PlaceFile(p) \/ Age(p)
  \/ SweepRead \/ SweepStep
  \/ StoreCrash

StoreSpec == StoreInit /\ [][StoreNext]_backupVars

-----------------------------------------------------------------------------
(* Properties.                                                             *)

Holds(g) == genCall[g].step \notin {"idle", "based"}

\* The slot is taken exactly while somebody generates, so a failed or refused
\* backup never locks out the next one.
SlotReturned == generating <=> \E g \in Generators : Holds(g)

\* No row is left "being generated" without a generator at work on it.
NoPhantomBackup ==
  \A p \in Packages : pkgRow[p] \in InFlight =>
    \E g \in Generators : Holds(g) /\ genCall[g].pkg = p

BeingRemoved(p) == \E d \in Removers : removeCall[d].step \in {"unfiled", "unindexed"} /\ removeCall[d].pkg = p

\* A package that is listed as done has a whole archive.  It is lost only to a
\* crash in its generation or deletion, or to an orphan cleanup or an upload
\* that looked before the row was there.
DoneIsWhole ==
  \A p \in Packages : pkgRow[p] = "done" => tar[p] = "whole" \/ BeingRemoved(p) \/ p \in exposed \cup cutOff

\* The base of an incremental package stays as long as the package does, unless
\* it was being deleted when the package got its row.
BaseStays ==
  \A p \in Packages : ~Rowless(p) /\ pkgBase[p] # NoBase => ~Rowless(pkgBase[p]) \/ p \in undercut

\* A readable package without a row is adopted or removed in the end, and does
\* not stay on the disk where no list shows it.
OrphansGo == \A p \in Packages : (Rowless(p) /\ Opens(p)) ~> ~(Rowless(p) /\ Opens(p))

\* The slot comes back, no row pretends that it is held, and what is listed as
\* done can be restored.
BackupsSound == SlotReturned /\ NoPhantomBackup /\ DoneIsWhole /\ BaseStays
==============================================================================
