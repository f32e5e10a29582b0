------------------------- MODULE AssetFilesProofs -------------------------
(***************************************************************************)
(* What AssetMutation keeps of the bytes, and that its rows change as      *)
(* AtomicAssets says, for every number of requests, paths and blobs.       *)
(*                                                                         *)
(* The argument follows one operation through its steps.  GateHeld and     *)
(* Recorded say what the database holds of it at each step, Files which    *)
(* files it has, Bytes where the bytes of the hashes in hand are.  Counted *)
(* and Landed say why a commit leaves no row without bytes: what it has    *)
(* moved away nothing refers to afterwards, and what it refers to anew has *)
(* landed and is held.  Undecided says what start-up finds of an operation *)
(* that nobody runs any more.                                              *)
(***************************************************************************)
EXTENDS AssetMutationProofs

USE DEF rowVars, fileVars, opVars, memVars, reqVars, envVars, At, Goto, Unlock

-----------------------------------------------------------------------------
(* The invariant.                                                          *)

\* The steps before the gate is taken.
Before == {"idle", "store", "landing", "plan", "ready"}

\* Whoever is at a gated step has the gate; only start-up takes it otherwise,
\* and for an operation that is incomplete.
GateHeld ==
  /\ \A r \in Requests : pc[r] \in GateSteps <=> mode = "up" /\ gate = r
  /\ mode # "up" => \A r \in Requests : pc[r] \in {"idle", "done"}
  /\ mode # "up" \/ gate = NoRequest => todo = {} /\ entries = {}
  /\ mode = "recovering" /\ gate # NoRequest => intent[gate] \in Incomplete

\* The intent of an operation at each step of its request.
IntentRecorded ==
  \A r \in Requests :
    /\ pc[r] \in Before => intent[r] = "none"
    /\ pc[r] = "stage" => intent[r] = "prepared"
    /\ pc[r] = "undo" => intent[r] \in {"prepared", "rolling_back"}
    /\ pc[r] \in {"snapshot", "archive", "purge", "commit"} => intent[r] = "staged"
    /\ pc[r] \in {"rollback", "unstage", "restored"} => intent[r] = "rolling_back"
    /\ pc[r] \in {"discard", "seal", "settled"} => intent[r] = "completed"
    /\ pc[r] = "failed" => intent[r] \in {"rolling_back", "rolled_back"}

\* Its rows: none before the renames are recorded, and then those in hand.
RowsRecorded ==
  \A r \in Requests :
    /\ pc[r] \in Before \cup {"stage", "undo"} => \A h \in Blobs : row[r][h] = "none"
    /\ pc[r] \in GateSteps \ {"stage", "undo"} => PendingRows(r) = entries
    /\ r \in torn => pc[r] = "done" /\ PendingRows(r) \subseteq exposed

Recorded == GateHeld /\ IntentRecorded /\ RowsRecorded

\* A batch has one item for a path, and what moves is content.
BatchShape ==
  \A r \in Requests : \A i \in items[r] :
    /\ i.to # i.path => i.after # NoBlob
    /\ \A j \in items[r] : i.path = j.path \/ i.to = j.to => i = j

\* Until the commit the rows stay as they were when the batch was counted.
Counted ==
  \A r \in Requests :
    pc[r] \in GateSteps \ {"discard", "seal"} => entries \cup todo \subseteq Unreferenced(items[r])

\* The content a request is about to refer to is there, or in its own hands.
Landed ==
  \A r \in Requests : up[r] # NoBlob =>
    /\ pc[r] \in {"plan", "ready"} => up[r] \in active \cup exposed
    /\ pc[r] \in {"stage", "snapshot", "archive", "purge", "commit"}
         => up[r] \in active \cup exposed \cup entries

\* Which files an operation has at each of its steps.
Files ==
  \A r \in Requests :
    /\ pc[r] \in Before => quarantine[r] = {}
    /\ pc[r] \in Before \cup {"stage", "undo", "snapshot", "unstage", "seal"}
         => snapshot[r] = NoSnapshot
    /\ pc[r] \in GateSteps => quarantine[r] \subseteq entries
    /\ pc[r] \in {"snapshot", "archive", "purge", "rollback", "discard", "seal"} => entries # {}
    /\ pc[r] \in {"archive", "purge"} => todo \subseteq entries
    /\ pc[r] = "purge" => quarantine[r] \subseteq todo
    /\ pc[r] \in {"commit", "discard", "seal"} => quarantine[r] = {}
    /\ pc[r] = "commit" /\ entries = {} => snapshot[r] = NoSnapshot

\* Where the bytes of the hashes in hand are, unless a cleanup took them away.
Bytes ==
  \A r \in Requests :
    \/ entries \cup todo \subseteq exposed
    \/ /\ pc[r] \in {"stage", "undo", "snapshot", "archive", "unstage"}
            => entries \subseteq quarantine[r]
       /\ pc[r] = "archive" => entries \ todo \subseteq Archived(r)
       /\ pc[r] \in {"purge", "commit", "rollback"} => entries \subseteq Archived(r)
       /\ pc[r] = "restored" => entries \subseteq active \cup exposed

\* An incomplete operation whose request is gone: in a running process its
\* files were taken away, at start-up they are where recovery looks for them.
Undecided ==
  \A r \in Requests :
    intent[r] \in Incomplete /\ ~(mode = "up" /\ gate = r) =>
      /\ mode = "up" => PendingRows(r) # {} /\ PendingRows(r) \subseteq exposed
      /\ mode = "recovering" =>
           PendingRows(r) \subseteq active \cup exposed \cup
              (IF snapshot[r] = NoSnapshot THEN quarantine[r] ELSE Archived(r))
      /\ mode = "recovering" /\ gate = r => PendingRows(r) \subseteq active \cup exposed

\* Start-up fails only over an operation that was robbed.
FailsRobbed == mode = "failed" => \E r \in Requests : PendingRows(r) \cap exposed # {}

\* What holds whatever bytes there are, and what holds of the bytes.
Orderly == Recorded /\ BatchShape /\ Counted /\ Files
Kept == Orderly /\ Landed /\ Bytes /\ Undecided /\ FailsRobbed /\ NoLostGarbage /\ CrashSafe

-----------------------------------------------------------------------------
(* Frames.                                                                 *)

\* A step before the gate is taken: no row, no file of an operation and nothing
\* of the gate changes.
Prepares(r) ==
  /\ mode = "up" /\ pc[r] \in Before
  /\ \E s \in (Before \ {"idle"}) \cup {"done"} : pc' = [pc EXCEPT ![r] = s]
  /\ active \subseteq active'
  /\ \E batch, image : items' = [items EXCEPT ![r] = batch] /\ up' = [up EXCEPT ![r] = image]
  /\ UNCHANGED <<rowVars, quarantine, snapshot, torn, opVars, reclaim, listed, mode>>

\* The step that takes the gate.
Starts(r) ==
  /\ mode = "up" /\ pc[r] \in {"idle", "ready"}
  /\ pc[r] = "idle" => up[r] = NoBlob
  /\ \E batch : Begin(r, batch)

\* A request that has no batch in hand either prepares one or starts.
LEMMA Openings ==
  ASSUME Shape, NEW r \in Requests, Submit(r) \/ Staging(r)
  PROVE  Prepares(r) \/ Starts(r)
<1> USE DEF Prepares, Before
<1>1. items = [items EXCEPT ![r] = items[r]] /\ up = [up EXCEPT ![r] = up[r]]
  BY DEF Shape, TypeOK
<1>2. ASSUME NEW k \in {"put", "publish"}, NEW p \in Paths, NEW h \in Blobs, Upload(r, k, p, h)
      PROVE  Prepares(r)
  BY <1>2 DEF Upload, AcquireStaged
<1>3. CASE \E below \in SUBSET Paths : PlanPrune(r, below)
  BY <1>1, <1>3 DEF PlanPrune
<1>4. CASE \E p, m \in Paths, h \in Blobs : PlanRewrite(r, p, m, h)
  BY <1>4 DEF PlanRewrite
<1>5. CASE \E p, q \in Paths : PlanMove(r, p, q)
  BY <1>1, <1>5 DEF PlanMove
<1>6. CASE \E p \in Paths : BeginDelete(r, p)
  BY <1>6, ConstantsAssumption DEF BeginDelete, Starts, Shape, RequestShape, StagingKinds
<1>7. CASE Land(r)
  BY <1>1, <1>7 DEF Land
<1>8. CASE PlanPublish(r)
  BY <1>1, <1>8 DEF PlanPublish
<1>9. CASE StorePlanned(r) \/ PlanFails(r)
  BY <1>1, <1>9 DEF StorePlanned, AcquireStaged, PlanFails
<1>10. CASE BeginPlanned(r)
  BY <1>10 DEF BeginPlanned, Starts
<1> QED BY <1>2, <1>3, <1>4, <1>5, <1>6, <1>7, <1>8, <1>9, <1>10 DEF Submit, Staging

\* A blob that is exposed stays so.
LEMMA ExposedGrows ==
  ASSUME [Next]_vars
  PROVE  exposed \subseteq exposed'
<1>1. ASSUME NEW r \in Requests, Submit(r) PROVE exposed \subseteq exposed'
  BY <1>1 DEF Submit, Upload, PlanPrune, PlanRewrite, PlanMove, BeginDelete, Begin
<1>2. ASSUME NEW r \in Requests, Staging(r) PROVE exposed \subseteq exposed'
  BY <1>2 DEF Staging, Land, PlanPublish, StorePlanned, PlanFails, BeginPlanned, Begin
<1>3. ASSUME NEW r \in Requests, Quarantining(r) PROVE exposed \subseteq exposed'
  BY <1>3 DEF Quarantining, StageBlob, StageFails, MarkStaged, MarkStagedFails, Undo, UndoDone
<1>4. ASSUME NEW r \in Requests, Purging(r) PROVE exposed \subseteq exposed'
  BY <1>4 DEF Purging, OpenSnapshot, Archive, SnapshotFails, MarkPending, Finalize, FinalizeFails
<1>5. ASSUME NEW r \in Requests, Completing(r) PROVE exposed \subseteq exposed'
  BY <1>5 DEF Completing, Complete, CompleteFails, Discard, DiscardFails, Seal
<1>6. ASSUME NEW r \in Requests, RollingBack(r) PROVE exposed \subseteq exposed'
  BY <1>6 DEF RollingBack, RestoreSnapshot, RestoreEntries, RestoreFails, MarkRolledBack
<1>7. ASSUME NEW r \in Requests, Finishing(r) PROVE exposed \subseteq exposed'
  BY <1>7 DEF Finishing, Settle, Abandon, Release, ReleasesNothing
<1>8. ASSUME NEW r \in Requests, TrashQuarantine(r) \/ Recovering(r) PROVE exposed \subseteq exposed'
  BY <1>8 DEF TrashQuarantine, Recovering, RecoverFiles, RecoverRows, RecoverCompleted
<1>9. CASE \/ \E h \in Blobs : Reserve(h) \/ Reclaiming(h)
           \/ ListQuarantine \/ Crash \/ Resume \/ UNCHANGED vars
  BY <1>9 DEF Reserve, Reclaiming, CountReferences, RemoveOrphan, ListQuarantine, Crash, Resume, vars
<1> QED BY <1>1, <1>2, <1>3, <1>4, <1>5, <1>6, <1>7, <1>8, <1>9 DEF Next, Continue

\* The gate goes with the gated steps.
LEMMA GateStep ==
  ASSUME Shape, Recorded, [Next]_vars
  PROVE  GateHeld'
<1> USE ConstantsAssumption DEF Shape, TypeOK, Recorded, GateHeld, IntentRecorded, Steps,
     GateSteps, Before, Incomplete
<1>1. ASSUME NEW r \in Requests, Prepares(r)
      PROVE  GateHeld'
  BY <1>1 DEF Prepares
<1>2. ASSUME NEW r \in Requests, Starts(r)
      PROVE  GateHeld'
  BY <1>2 DEF Starts, Begin
<1>3. ASSUME NEW r \in Requests, Quarantining(r)
      PROVE  GateHeld'
  BY <1>3 DEF Quarantining, StageBlob, StageFails, MarkStaged, MarkStagedFails, Undo, UndoDone
<1>4. ASSUME NEW r \in Requests, Purging(r)
      PROVE  GateHeld'
  BY <1>4 DEF Purging, OpenSnapshot, Archive, SnapshotFails, MarkPending, Finalize, FinalizeFails
<1>5. ASSUME NEW r \in Requests, Completing(r)
      PROVE  GateHeld'
  BY <1>5 DEF Completing, Complete, CompleteFails, Discard, DiscardFails, Seal
<1>6. ASSUME NEW r \in Requests, RollingBack(r)
      PROVE  GateHeld'
  BY <1>6 DEF RollingBack, RestoreSnapshot, RestoreEntries, RestoreFails, MarkRolledBack
<1>7. ASSUME NEW r \in Requests, Finishing(r)
      PROVE  GateHeld'
  BY <1>7 DEF Finishing, Settle, Abandon
<1>8. ASSUME NEW r \in Requests, TrashQuarantine(r)
      PROVE  GateHeld'
  BY <1>8 DEF TrashQuarantine
<1>9. ASSUME NEW r \in Requests, Recovering(r)
      PROVE  GateHeld'
  BY <1>9 DEF Recovering, RecoverFiles, RecoverRows, RecoverCompleted
<1>10. CASE \E h \in Blobs : Reserve(h) \/ Reclaiming(h)
  BY <1>10 DEF Reserve, Reclaiming, CountReferences, RemoveOrphan
<1>11. CASE ListQuarantine
  BY <1>11 DEF ListQuarantine
<1>12. CASE Crash
  BY <1>12 DEF Crash
<1>13. CASE Resume
  BY <1>13 DEF Resume
<1>14. CASE UNCHANGED vars
  BY <1>14 DEF vars
<1> HIDE DEF Shape, TypeOK, Recorded, GateHeld, IntentRecorded, Steps, GateSteps, Before, Incomplete
<1> QED BY <1>1, <1>2, <1>3, <1>4, <1>5, <1>6, <1>7, <1>8, <1>9, <1>10, <1>11, <1>12, <1>13, <1>14, Openings
        DEF Next, Continue

\* The intent follows the steps.
LEMMA IntentStep ==
  ASSUME Shape, Recorded, [Next]_vars
  PROVE  IntentRecorded'
<1> USE ConstantsAssumption DEF Shape, TypeOK, Recorded, GateHeld, IntentRecorded, Steps,
     GateSteps, Before, Incomplete
<1>1. ASSUME NEW r \in Requests, Prepares(r)
      PROVE  IntentRecorded'
  BY <1>1 DEF Prepares
<1>2. ASSUME NEW r \in Requests, Starts(r)
      PROVE  IntentRecorded'
  BY <1>2 DEF Starts, Begin
<1>3. ASSUME NEW r \in Requests, Quarantining(r)
      PROVE  IntentRecorded'
  BY <1>3 DEF Quarantining, StageBlob, StageFails, MarkStaged, MarkStagedFails, Undo, UndoDone
<1>4. ASSUME NEW r \in Requests, Purging(r)
      PROVE  IntentRecorded'
  BY <1>4 DEF Purging, OpenSnapshot, Archive, SnapshotFails, MarkPending, Finalize, FinalizeFails
<1>5. ASSUME NEW r \in Requests, Completing(r)
      PROVE  IntentRecorded'
  BY <1>5 DEF Completing, Complete, CompleteFails, Discard, DiscardFails, Seal
<1>6. ASSUME NEW r \in Requests, RollingBack(r)
      PROVE  IntentRecorded'
  BY <1>6 DEF RollingBack, RestoreSnapshot, RestoreEntries, RestoreFails, MarkRolledBack
<1>7. ASSUME NEW r \in Requests, Finishing(r)
      PROVE  IntentRecorded'
  BY <1>7 DEF Finishing, Settle, Abandon
<1>8. ASSUME NEW r \in Requests, TrashQuarantine(r)
      PROVE  IntentRecorded'
  BY <1>8 DEF TrashQuarantine
<1>9. ASSUME NEW r \in Requests, Recovering(r)
      PROVE  IntentRecorded'
  BY <1>9 DEF Recovering, RecoverFiles, RecoverRows, RecoverCompleted
<1>10. CASE \E h \in Blobs : Reserve(h) \/ Reclaiming(h)
  BY <1>10 DEF Reserve, Reclaiming, CountReferences, RemoveOrphan
<1>11. CASE ListQuarantine
  BY <1>11 DEF ListQuarantine
<1>12. CASE Crash
  BY <1>12 DEF Crash
<1>13. CASE Resume
  BY <1>13 DEF Resume
<1>14. CASE UNCHANGED vars
  BY <1>14 DEF vars
<1> HIDE DEF Shape, TypeOK, Recorded, GateHeld, IntentRecorded, Steps, GateSteps, Before, Incomplete
<1> QED BY <1>1, <1>2, <1>3, <1>4, <1>5, <1>6, <1>7, <1>8, <1>9, <1>10, <1>11, <1>12, <1>13, <1>14, Openings
        DEF Next, Continue

\* The rows follow the steps.
LEMMA RowsStep ==
  ASSUME Shape, Recorded, [Next]_vars
  PROVE  RowsRecorded'
<1> USE ConstantsAssumption, ExposedGrows DEF Shape, TypeOK, Recorded, GateHeld, IntentRecorded,
     RowsRecorded, PendingRows, Rows, Steps, GateSteps, Before, Incomplete
<1>1. ASSUME NEW r \in Requests, Prepares(r)
      PROVE  RowsRecorded'
  BY <1>1 DEF Prepares
<1>2. ASSUME NEW r \in Requests, Starts(r)
      PROVE  RowsRecorded'
  BY <1>2 DEF Starts, Begin
<1>3. ASSUME NEW r \in Requests, Quarantining(r)
      PROVE  RowsRecorded'
  BY <1>3 DEF Quarantining, StageBlob, StageFails, MarkStaged, MarkStagedFails, Undo, UndoDone
<1>4. ASSUME NEW r \in Requests, Purging(r)
      PROVE  RowsRecorded'
  BY <1>4 DEF Purging, OpenSnapshot, Archive, SnapshotFails, MarkPending, Finalize, FinalizeFails
<1>5. ASSUME NEW r \in Requests, Completing(r)
      PROVE  RowsRecorded'
  BY <1>5 DEF Completing, Complete, CompleteFails, Discard, DiscardFails, Seal
<1>6. ASSUME NEW r \in Requests, RollingBack(r)
      PROVE  RowsRecorded'
  BY <1>6 DEF RollingBack, RestoreSnapshot, RestoreEntries, RestoreFails, MarkRolledBack
<1>7. ASSUME NEW r \in Requests, Finishing(r)
      PROVE  RowsRecorded'
  BY <1>7 DEF Finishing, Settle, Abandon
<1>8. ASSUME NEW r \in Requests, TrashQuarantine(r)
      PROVE  RowsRecorded'
  BY <1>8 DEF TrashQuarantine
<1>9. ASSUME NEW r \in Requests, Recovering(r)
      PROVE  RowsRecorded'
  BY <1>9 DEF Recovering, RecoverFiles, RecoverRows, RecoverCompleted
<1>10. CASE \E h \in Blobs : Reserve(h) \/ Reclaiming(h)
  BY <1>10 DEF Reserve, Reclaiming, CountReferences, RemoveOrphan
<1>11. CASE ListQuarantine
  BY <1>11 DEF ListQuarantine
<1>12. CASE Crash
  BY <1>12 DEF Crash
<1>13. CASE Resume
  BY <1>13 DEF Resume
<1>14. CASE UNCHANGED vars
  BY <1>14 DEF vars
<1> HIDE DEF Shape, TypeOK, Recorded, GateHeld, IntentRecorded, RowsRecorded, PendingRows, Rows,
     Steps, GateSteps, Before, Incomplete
<1> QED BY <1>1, <1>2, <1>3, <1>4, <1>5, <1>6, <1>7, <1>8, <1>9, <1>10, <1>11, <1>12, <1>13, <1>14, Openings
        DEF Next, Continue

\* The files follow the steps.
LEMMA FilesStep ==
  ASSUME Shape, Recorded, Files, [Next]_vars
  PROVE  Files'
<1> USE ConstantsAssumption DEF Shape, TypeOK, Recorded, GateHeld, IntentRecorded, RowsRecorded,
     Files, PendingRows, Rows, Steps, GateSteps, Before, Incomplete
<1>1. ASSUME NEW r \in Requests, Prepares(r)
      PROVE  Files'
  BY <1>1 DEF Prepares
<1>2. ASSUME NEW r \in Requests, Starts(r)
      PROVE  Files'
  BY <1>2 DEF Starts, Begin
<1>3. ASSUME NEW r \in Requests, Quarantining(r)
      PROVE  Files'
  BY <1>3 DEF Quarantining, StageBlob, StageFails, MarkStaged, MarkStagedFails, Undo, UndoDone
<1>4. ASSUME NEW r \in Requests, Purging(r)
      PROVE  Files'
  BY <1>4 DEF Purging, OpenSnapshot, Archive, SnapshotFails, MarkPending, Finalize, FinalizeFails
<1>5. ASSUME NEW r \in Requests, Completing(r)
      PROVE  Files'
  BY <1>5 DEF Completing, Complete, CompleteFails, Discard, DiscardFails, Seal
<1>6. ASSUME NEW r \in Requests, RollingBack(r)
      PROVE  Files'
  BY <1>6 DEF RollingBack, RestoreSnapshot, RestoreEntries, RestoreFails, MarkRolledBack
<1>7. ASSUME NEW r \in Requests, Finishing(r)
      PROVE  Files'
  BY <1>7 DEF Finishing, Settle, Abandon
<1>8. ASSUME NEW r \in Requests, TrashQuarantine(r)
      PROVE  Files'
  BY <1>8 DEF TrashQuarantine
<1>9. ASSUME NEW r \in Requests, Recovering(r)
      PROVE  Files'
  <2>1. pc[r] = "done" /\ pc' = pc /\ todo' = todo /\ entries' = entries
    BY <1>9 DEF Recovering, RecoverFiles, RecoverRows, RecoverCompleted
  <2>2. \A o \in Requests \ {r} : quarantine'[o] = quarantine[o] /\ snapshot'[o] = snapshot[o]
    BY <1>9 DEF Recovering, RecoverFiles, RecoverRows, RecoverCompleted
  <2> QED BY <2>1, <2>2
<1>10. CASE \E h \in Blobs : Reserve(h) \/ Reclaiming(h)
  BY <1>10 DEF Reserve, Reclaiming, CountReferences, RemoveOrphan
<1>11. CASE ListQuarantine
  BY <1>11 DEF ListQuarantine
<1>12. CASE Crash
  BY <1>12 DEF Crash
<1>13. CASE Resume
  BY <1>13 DEF Resume
<1>14. CASE UNCHANGED vars
  BY <1>14 DEF vars
<1> HIDE DEF Shape, TypeOK, Recorded, GateHeld, IntentRecorded, RowsRecorded, Files, PendingRows,
     Rows, Steps, GateSteps, Before, Incomplete
<1> QED BY <1>1, <1>2, <1>3, <1>4, <1>5, <1>6, <1>7, <1>8, <1>9, <1>10, <1>11, <1>12, <1>13, <1>14, Openings
        DEF Next, Continue

\* The count of a batch depends on the rows and on the batch.
LEMMA CountKept ==
  ASSUME NEW r \in Requests, items'[r] = items[r], asset' = asset
  PROVE  Unreferenced(items[r])' = Unreferenced(items[r])
BY DEF Unreferenced, References

\* The count stays right until the commit.
LEMMA CountedStep ==
  ASSUME Shape, Recorded, Counted, Files, [Next]_vars
  PROVE  Counted'
<1> USE ConstantsAssumption, CountKept DEF Shape, TypeOK, Recorded, GateHeld, IntentRecorded,
     Files, Counted, Steps, GateSteps, Before, Incomplete
<1>1. ASSUME NEW r \in Requests, Prepares(r)
      PROVE  Counted'
  BY <1>1 DEF Prepares
<1>2. ASSUME NEW r \in Requests, Starts(r)
      PROVE  Counted'
  <2>1. PICK batch : Begin(r, batch)
    BY <1>2 DEF Starts
  <2>2. items'[r] = batch /\ asset' = asset /\ todo' = Unreferenced(batch) /\ entries' = entries /\ entries = {}
    BY <1>2, <2>1 DEF Begin, Starts
  <2>3. Unreferenced(items[r])' = Unreferenced(batch)
    BY <2>2 DEF Unreferenced, References
  <2>4. pc'[r] = "stage" /\ \A o \in Requests \ {r} : pc'[o] = pc[o] /\ pc[o] \notin GateSteps
    BY <1>2, <2>1 DEF Begin, Starts
  <2> QED BY <2>2, <2>3, <2>4
<1>3. ASSUME NEW r \in Requests, Quarantining(r)
      PROVE  Counted'
  BY <1>3 DEF Quarantining, StageBlob, StageFails, MarkStaged, MarkStagedFails, Undo, UndoDone
<1>4. ASSUME NEW r \in Requests, Purging(r)
      PROVE  Counted'
  BY <1>4 DEF Purging, OpenSnapshot, Archive, SnapshotFails, MarkPending, Finalize, FinalizeFails
<1>5. ASSUME NEW r \in Requests, Completing(r)
      PROVE  Counted'
  BY <1>5 DEF Completing, Complete, CompleteFails, Discard, DiscardFails, Seal
<1>6. ASSUME NEW r \in Requests, RollingBack(r)
      PROVE  Counted'
  BY <1>6 DEF RollingBack, RestoreSnapshot, RestoreEntries, RestoreFails, MarkRolledBack
<1>7. ASSUME NEW r \in Requests, Finishing(r)
      PROVE  Counted'
  BY <1>7 DEF Finishing, Settle, Abandon
<1>8. ASSUME NEW r \in Requests, TrashQuarantine(r)
      PROVE  Counted'
  BY <1>8 DEF TrashQuarantine
<1>9. ASSUME NEW r \in Requests, Recovering(r)
      PROVE  Counted'
  BY <1>9 DEF Recovering, RecoverFiles, RecoverRows, RecoverCompleted
<1>10. CASE \E h \in Blobs : Reserve(h) \/ Reclaiming(h)
  BY <1>10 DEF Reserve, Reclaiming, CountReferences, RemoveOrphan
<1>11. CASE ListQuarantine
  BY <1>11 DEF ListQuarantine
<1>12. CASE Crash
  BY <1>12 DEF Crash
<1>13. CASE Resume
  BY <1>13 DEF Resume
<1>14. CASE UNCHANGED vars
  BY <1>14 DEF vars
<1> HIDE DEF Shape, TypeOK, Recorded, GateHeld, IntentRecorded, Files, Counted, Steps, GateSteps,
     Before, Incomplete
<1> QED BY <1>1, <1>2, <1>3, <1>4, <1>5, <1>6, <1>7, <1>8, <1>9, <1>10, <1>11, <1>12, <1>13, <1>14, Openings
        DEF Next, Continue

-----------------------------------------------------------------------------
(* Batches.                                                                *)

\* One item for a path and for a target, and what moves is content.
WellFormed(batch) ==
  \A i \in batch :
    /\ i.to # i.path => i.after # NoBlob
    /\ \A j \in batch : i.path = j.path \/ i.to = j.to => i = j

\* Every batch is typed and has the form.
LEMMA FormOfBatch ==
  ASSUME Shape, BatchShape, NEW r \in Requests
  PROVE  items[r] \in SUBSET Item /\ WellFormed(items[r])
BY DEF Shape, TypeOK, BatchShape, WellFormed

\* Reading the before images anew changes nothing else.
LEMMA ReadKeepsForm ==
  ASSUME TypeOK, NEW batch \in SUBSET Item, WellFormed(batch)
  PROVE  WellFormed({[i EXCEPT !.before = asset[i.path]] : i \in batch})
<1> DEFINE Read(i) == [i EXCEPT !.before = asset[i.path]]
<1>1. \A i \in batch : Read(i).path = i.path /\ Read(i).to = i.to /\ Read(i).after = i.after
  BY DEF Item
<1> HIDE DEF Read
<1>2. WellFormed({Read(i) : i \in batch})
  BY <1>1 DEF WellFormed
<1> QED BY <1>2 DEF Read

\* Every step keeps the form of the batches.
LEMMA BatchStep ==
  ASSUME Shape, BatchShape, [Next]_vars
  PROVE  BatchShape'
<1>1. ASSUME NEW r \in Requests, NEW batch, WellFormed(batch), items' = [items EXCEPT ![r] = batch]
      PROVE  BatchShape'
  BY <1>1 DEF BatchShape, WellFormed, Shape, TypeOK
<1>2. \A r \in Requests : items[r] \in SUBSET Item /\ WellFormed(items[r])
  BY FormOfBatch
<1>3. ASSUME NEW r \in Requests, Submit(r) PROVE BatchShape'
  <2>1. ASSUME NEW k \in {"put", "publish"}, NEW p \in Paths, NEW h \in Blobs, Upload(r, k, p, h)
        PROVE  BatchShape'
    <3>1. WellFormed({Overwrite(p, NoBlob, h)})
      BY DEF WellFormed, Overwrite
    <3> QED BY <1>1, <2>1, <3>1 DEF Upload
  <2>2. ASSUME NEW below \in SUBSET Paths, PlanPrune(r, below) PROVE BatchShape'
    <3>1. WellFormed({Overwrite(p, asset[p], NoBlob) : p \in below})
      BY DEF WellFormed, Overwrite
    <3> QED BY <1>1, <2>2, <3>1 DEF PlanPrune
  <2>3. ASSUME NEW p \in Paths, NEW m \in Paths, NEW h \in Blobs, PlanRewrite(r, p, m, h)
        PROVE  BatchShape'
    <3>1. WellFormed({Overwrite(p, asset[p], NoBlob), Overwrite(m, asset[m], h)})
      BY <2>3 DEF PlanRewrite, WellFormed, Overwrite
    <3> QED BY <1>1, <2>3, <3>1 DEF PlanRewrite
  <2>4. ASSUME NEW p \in Paths, NEW q \in Paths, PlanMove(r, p, q) PROVE BatchShape'
    <3>1. WellFormed({[path |-> p, before |-> asset[p], to |-> q, after |-> asset[p]]})
      BY <2>4 DEF PlanMove, WellFormed
    <3> QED BY <1>1, <2>4, <3>1 DEF PlanMove
  <2>5. ASSUME NEW p \in Paths, BeginDelete(r, p) PROVE BatchShape'
    <3>1. WellFormed({Overwrite(p, asset[p], NoBlob)})
      BY DEF WellFormed, Overwrite
    <3> QED BY <1>1, <2>5, <3>1 DEF BeginDelete, Begin
  <2> QED BY <1>3, <2>1, <2>2, <2>3, <2>4, <2>5 DEF Submit
<1>4. ASSUME NEW r \in Requests, Staging(r) PROVE BatchShape'
  <2> DEFINE read == {[i EXCEPT !.before = asset[i.path]] : i \in items[r]}
  <2>1. WellFormed(read) /\ WellFormed(items[r])
    BY <1>2, ReadKeepsForm DEF Shape
  <2>2. CASE PlanPublish(r)
    BY <1>1, <2>1, <2>2 DEF PlanPublish
  <2>3. CASE BeginPlanned(r)
    <3>1. items' = [items EXCEPT ![r] = read] \/ items' = [items EXCEPT ![r] = items[r]]
      BY <2>3 DEF BeginPlanned, Begin
    <3> HIDE DEF read
    <3> QED BY <1>1, <2>1, <3>1
  <2>4. CASE Land(r) \/ StorePlanned(r) \/ PlanFails(r)
    BY <2>4 DEF Land, StorePlanned, PlanFails, BatchShape
  <2> QED BY <1>4, <2>2, <2>3, <2>4 DEF Staging
<1>5. ASSUME NEW r \in Requests,
             \/ Quarantining(r) \/ Purging(r) \/ Completing(r) \/ RollingBack(r)
             \/ Finishing(r) \/ TrashQuarantine(r) \/ Recovering(r)
      PROVE  items' = items
  BY <1>5 DEF Quarantining, StageBlob, StageFails, MarkStaged, MarkStagedFails, Undo, UndoDone,
       Purging, OpenSnapshot, Archive, SnapshotFails, MarkPending, Finalize, FinalizeFails,
       Completing, Complete, CompleteFails, Discard, DiscardFails, Seal, RollingBack,
       RestoreSnapshot, RestoreEntries, RestoreFails, MarkRolledBack, Finishing, Settle, Abandon,
       TrashQuarantine, Recovering, RecoverFiles, RecoverRows, RecoverCompleted
<1>6. CASE \/ \E h \in Blobs : Reserve(h) \/ Reclaiming(h)
           \/ ListQuarantine \/ Crash \/ Resume \/ UNCHANGED vars
  BY <1>6 DEF Reserve, Reclaiming, CountReferences, RemoveOrphan, ListQuarantine, Crash, Resume,
       vars, BatchShape
<1>7. items' = items => BatchShape'
  BY DEF BatchShape
<1> QED BY <1>3, <1>4, <1>5, <1>6, <1>7 DEF Next, Continue

\* A batch is finite, since its items have different paths.
LEMMA BatchFinite ==
  ASSUME NEW batch \in SUBSET Item, WellFormed(batch)
  PROVE  IsFiniteSet(batch)
<1> DEFINE f == [i \in batch |-> i.path]
<1>1. f \in Injection(batch, Paths)
  BY DEF WellFormed, Item, Injection, IsInjective
<1> QED BY <1>1, ConstantsAssumption, FS_Injection

\* What the count says: a hash that loses its references has one, or the batch
\* refers to it anew.
LEMMA CountedHasUse ==
  ASSUME NEW batch \in SUBSET Item, WellFormed(batch), NEW h \in Unreferenced(batch)
  PROVE  References(h) # {} \/ \E i \in batch : i.after = h /\ i.before # h
<1> DEFINE R == {i \in batch : i.before = h /\ i.after # h}
<1> DEFINE A == {i \in batch : i.after = h /\ i.before # h}
<1>1. R # {} /\ Cardinality(References(h)) + Cardinality(A) = Cardinality(R)
  BY DEF Unreferenced
<1>2. IsFiniteSet(R) /\ Cardinality(R) # 0
  BY <1>1, BatchFinite, FS_Subset, FS_EmptySet
<1>3. Cardinality({}) = 0
  BY FS_EmptySet
<1> HIDE DEF R
<1>4. SUFFICES ASSUME References(h) = {}, A = {} PROVE FALSE
  OBVIOUS
<1> HIDE DEF A
<1>5. Cardinality(References(h)) = 0 /\ Cardinality(A) = 0
  BY <1>3, <1>4
<1> QED BY <1>1, <1>2, <1>5

\* Why a commit leaves nothing behind: when the before images hold, the count
\* is that of the references there are, and the batch removes every one.
LEMMA CommitDropsCounted ==
  ASSUME NEW batch \in SUBSET Item, WellFormed(batch), Matches(batch),
         NEW h \in Unreferenced(batch), h # NoBlob
  PROVE  \A p \in Paths : Applied(batch)[p] # h
<1> DEFINE R == {i \in batch : i.before = h /\ i.after # h}
<1> DEFINE A == {i \in batch : i.after = h /\ i.before # h}
<1> DEFINE f == [i \in R |-> i.path]
<1>1. Cardinality(References(h)) + Cardinality(A) = Cardinality(R)
  BY DEF Unreferenced
<1>2. IsFiniteSet(References(h)) /\ IsFiniteSet(R) /\ IsFiniteSet(A)
  BY BatchFinite, ConstantsAssumption, FS_Subset DEF References
<1>3. f \in Injection(R, References(h))
  BY DEF WellFormed, Matches, References, Item, Injection, IsInjective
<1>4. /\ Cardinality(R) <= Cardinality(References(h))
      /\ Cardinality(R) = Cardinality(References(h)) => f \in Surjection(R, References(h))
  BY <1>2, <1>3, FS_Injection
<1>5. Cardinality(R) \in Nat /\ Cardinality(References(h)) \in Nat /\ Cardinality(A) \in Nat
  BY <1>2, FS_CardinalityType
<1>6. Cardinality(A) = 0 /\ Cardinality(R) = Cardinality(References(h))
  <2> HIDE DEF R, A, f
  <2> QED BY <1>1, <1>4, <1>5
<1>7. A = {}
  <2> HIDE DEF A
  <2> QED BY <1>2, <1>6, FS_EmptySet
<1>8. \A p \in References(h) : \E i \in R : i.path = p
  BY <1>4, <1>6 DEF Surjection
<1> SUFFICES ASSUME NEW p \in Paths, Applied(batch)[p] = h
             PROVE  FALSE
  OBVIOUS
<1>9. CASE \E i \in batch : i.to = p /\ i.after # NoBlob
  <2>1. PICK i \in batch : i.after = h
    BY <1>9 DEF Applied
  <2>2. i.before = h
    BY <1>7, <2>1
  <2>3. i.path \in References(h)
    BY <2>2 DEF Matches, References, Item
  <2>4. PICK j \in R : j.path = i.path
    BY <1>8, <2>3
  <2> QED BY <2>1, <2>4 DEF WellFormed
<1>10. CASE ~\E i \in batch : i.to = p /\ i.after # NoBlob
  <2>1. (~\E i \in batch : i.path = p) /\ p \in References(h)
    BY <1>10 DEF Applied, References
  <2> QED BY <1>8, <2>1
<1> QED BY <1>9, <1>10

-----------------------------------------------------------------------------
(* Bytes.                                                                  *)

\* A hash that a rollback has put back is in use, so no removal has counted it.
LEMMA RestoredIsUsed ==
  ASSUME Shape, Accounts, BatchShape, Counted,
         NEW r \in Requests, pc[r] = "restored", NEW h \in entries, reclaim[h] = "orphan"
  PROVE  h \in exposed
<1>1. h \in Blobs /\ h \in Unreferenced(items[r])
  BY DEF Counted, GateSteps, Shape, TypeOK
<1>2. items[r] \in SUBSET Item /\ WellFormed(items[r])
  BY FormOfBatch
<1>3. References(h) # {} \/ \E i \in items[r] : i.after = h /\ i.before # h
  BY <1>1, <1>2, CountedHasUse
<1>4. References(h) # {} \/ up[r] = h
  BY <1>1, <1>3, ConstantsAssumption DEF Shape, RequestShape
<1>5. up[r] = h => r \in Holders(h)
  BY DEF Holders, HoldingSteps, Steps
<1> QED BY <1>1, <1>4, <1>5, Untouched

\* A snapshot that grows is one.
LEMMA ArchiveAdds ==
  ASSUME Shape, NEW r \in Requests, NEW h \in Blobs, Archive(r, h)
  PROVE  Archived(r)' = Archived(r) \cup {h}
<1>1. Archived(r) \cup {h} # NoSnapshot
  BY ConstantsAssumption DEF NoSnapshot
<1>2. snapshot'[r] = Archived(r) \cup {h}
  BY DEF Archive, Shape, TypeOK
<1> QED BY <1>1, <1>2 DEF Archived

\* What a request is about to refer to stays there while it holds it.
LEMMA LandedStep ==
  ASSUME Shape, Accounts, Recorded, Landed, [Next]_vars
  PROVE  Landed'
<1> USE ConstantsAssumption, ExposedGrows DEF Shape, TypeOK, Recorded, GateHeld, RequestShape,
     StagingKinds, Landed, Promised, Steps, GateSteps
<1>1. ASSUME NEW r \in Requests, Submit(r)
      PROVE  Landed'
  <2>1. ASSUME NEW k \in {"put", "publish"}, NEW p \in Paths, NEW h \in Blobs, Upload(r, k, p, h)
        PROVE  Landed'
    BY <2>1 DEF Upload, AcquireStaged
  <2>2. CASE \E below \in SUBSET Paths : PlanPrune(r, below)
    <3>1. up[r] = NoBlob /\ pc' = [pc EXCEPT ![r] = "ready"] /\ UNCHANGED <<up, active, entries, exposed>>
      BY <2>2 DEF PlanPrune
    <3> QED BY <3>1
  <2>3. CASE \E p, m \in Paths, h \in Blobs : PlanRewrite(r, p, m, h)
    BY <2>3 DEF PlanRewrite
  <2>4. CASE \E p, q \in Paths : PlanMove(r, p, q)
    <3>1. up[r] = NoBlob /\ pc' = [pc EXCEPT ![r] = "ready"] /\ UNCHANGED <<up, active, entries, exposed>>
      BY <2>4 DEF PlanMove
    <3> QED BY <3>1
  <2>5. CASE \E p \in Paths : BeginDelete(r, p)
    BY <2>5 DEF BeginDelete, Begin
  <2> QED BY <1>1, <2>1, <2>2, <2>3, <2>4, <2>5 DEF Submit
<1>2. ASSUME NEW r \in Requests, Staging(r)
      PROVE  Landed'
  BY <1>2 DEF Staging, Land, PlanPublish, StorePlanned, AcquireStaged, PlanFails, BeginPlanned, Begin
<1>3. ASSUME NEW r \in Requests, Quarantining(r)
      PROVE  Landed'
  BY <1>3 DEF Quarantining, StageBlob, StageFails, MarkStaged, MarkStagedFails, Undo, UndoDone
<1>4. ASSUME NEW r \in Requests, Purging(r)
      PROVE  Landed'
  BY <1>4 DEF Purging, OpenSnapshot, Archive, SnapshotFails, MarkPending, Finalize, FinalizeFails
<1>5. ASSUME NEW r \in Requests, Completing(r)
      PROVE  Landed'
  BY <1>5 DEF Completing, Complete, CompleteFails, Discard, DiscardFails, Seal
<1>6. ASSUME NEW r \in Requests, RollingBack(r)
      PROVE  Landed'
  BY <1>6 DEF RollingBack, RestoreSnapshot, RestoreEntries, RestoreFails, MarkRolledBack
<1>7. ASSUME NEW r \in Requests, Finishing(r)
      PROVE  Landed'
  BY <1>7 DEF Finishing, Settle, Abandon
<1>8. ASSUME NEW r \in Requests, TrashQuarantine(r)
      PROVE  Landed'
  BY <1>8 DEF TrashQuarantine
<1>9. ASSUME NEW r \in Requests, Recovering(r)
      PROVE  Landed'
  BY <1>9 DEF Recovering, RecoverFiles, RecoverRows, RecoverCompleted
<1>10. CASE \E h \in Blobs : Reserve(h) \/ Reclaiming(h)
  <2>1. PICK h \in Blobs : /\ active \ {h} \subseteq active'
                           /\ h \notin active' /\ h \in active => reclaim[h] = "orphan"
                           /\ UNCHANGED <<pc, up, entries, exposed>>
    BY <1>10 DEF Reserve, Reclaiming, CountReferences, RemoveOrphan
  <2>2. \A r \in Requests : up[r] = h /\ pc[r] \in HoldingSteps /\ h \in active /\ h \notin active' => h \in exposed
    BY <2>1, Untouched DEF Holders
  <2> QED BY <2>1, <2>2 DEF HoldingSteps
<1>11. CASE ListQuarantine
  BY <1>11 DEF ListQuarantine
<1>12. CASE Crash
  BY <1>12 DEF Crash
<1>13. CASE Resume
  BY <1>13 DEF Resume
<1>14. CASE UNCHANGED vars
  BY <1>14 DEF vars
<1> HIDE DEF Shape, TypeOK, Recorded, GateHeld, RequestShape, StagingKinds, Landed, Promised,
     Steps, GateSteps
<1> QED BY <1>1, <1>2, <1>3, <1>4, <1>5, <1>6, <1>7, <1>8, <1>9, <1>10, <1>11, <1>12, <1>13, <1>14, Openings
        DEF Next, Continue

\* The bytes of the hashes in hand stay where the operation has them.
LEMMA BytesStep ==
  ASSUME Shape, Accounts, Orderly, Bytes, [Next]_vars
  PROVE  Bytes'
<1> USE ConstantsAssumption, ExposedGrows DEF Shape, TypeOK, Orderly, Files, Bytes, NoSnapshot,
     Archived, Recorded, GateHeld, IntentRecorded, RowsRecorded, PendingRows, Rows, Steps,
     GateSteps, Before, Incomplete
<1>1. ASSUME NEW r \in Requests, Prepares(r)
      PROVE  Bytes'
  BY <1>1 DEF Prepares
<1>2. ASSUME NEW r \in Requests, Starts(r)
      PROVE  Bytes'
  BY <1>2 DEF Starts, Begin
<1>3. ASSUME NEW r \in Requests, Quarantining(r)
      PROVE  Bytes'
  BY <1>3 DEF Quarantining, StageBlob, StageFails, MarkStaged, MarkStagedFails, Undo, UndoDone
<1>4. ASSUME NEW r \in Requests, Purging(r)
      PROVE  Bytes'
  <2>1. CASE OpenSnapshot(r)
    BY <2>1 DEF OpenSnapshot
  <2>2. CASE \E h \in Blobs : Archive(r, h)
    <3>1. PICK h \in Blobs : Archive(r, h)
      BY <2>2
    <3>2. /\ r = gate /\ h \in entries
          /\ Archived(r)' = Archived(r) \cup {h}
          /\ UNCHANGED <<quarantine, entries, exposed>>
      BY <3>1, ArchiveAdds DEF Archive
    <3>3. CASE todo = {h}
      <4>1. todo' = entries /\ pc' = [pc EXCEPT ![r] = "purge"]
        BY <3>1, <3>3 DEF Archive
      <4>2. entries \subseteq exposed \/ entries \subseteq Archived(r)'
        BY <3>1, <3>2, <3>3 DEF Archive
      <4> QED BY <3>2, <4>1, <4>2
    <3>4. CASE todo # {h}
      <4>1. todo' = todo \ {h} /\ pc' = pc
        BY <3>1, <3>4 DEF Archive
      <4> QED BY <3>1, <3>2, <4>1 DEF Archive
    <3> QED BY <3>3, <3>4
  <2>3. CASE SnapshotFails(r)
    BY <2>3 DEF SnapshotFails
  <2>4. CASE \E h \in Blobs : MarkPending(r, h)
    BY <2>4 DEF MarkPending
  <2>5. CASE \E h \in Blobs : Finalize(r, h)
    BY <2>5 DEF Finalize
  <2>6. CASE FinalizeFails(r)
    BY <2>6 DEF FinalizeFails
  <2> QED BY <1>4, <2>1, <2>2, <2>3, <2>4, <2>5, <2>6 DEF Purging
<1>5. ASSUME NEW r \in Requests, Completing(r)
      PROVE  Bytes'
  BY <1>5 DEF Completing, Complete, CompleteFails, Discard, DiscardFails, Seal
<1>6. ASSUME NEW r \in Requests, RollingBack(r)
      PROVE  Bytes'
  BY <1>6 DEF RollingBack, RestoreSnapshot, RestoreEntries, RestoreFails, MarkRolledBack
<1>7. ASSUME NEW r \in Requests, Finishing(r)
      PROVE  Bytes'
  <2>1. /\ pc[r] \in {"settled", "failed"} /\ pc' = [pc EXCEPT ![r] = "done"]
        /\ UNCHANGED <<active, quarantine, snapshot, entries, todo>>
    BY <1>7 DEF Finishing, Settle, Abandon
  <2> QED BY <2>1
<1>8. ASSUME NEW r \in Requests, TrashQuarantine(r)
      PROVE  Bytes'
  BY <1>8 DEF TrashQuarantine
<1>9. ASSUME NEW r \in Requests, Recovering(r)
      PROVE  Bytes'
  BY <1>9 DEF Recovering, RecoverFiles, RecoverRows, RecoverCompleted
<1>10. CASE \E h \in Blobs : Reserve(h) \/ Reclaiming(h)
  <2>1. PICK h \in Blobs : /\ active \ {h} \subseteq active'
                           /\ h \notin active' /\ h \in active => reclaim[h] = "orphan"
                           /\ UNCHANGED <<pc, entries, todo, exposed, quarantine, snapshot>>
    BY <1>10 DEF Reserve, Reclaiming, CountReferences, RemoveOrphan
  <2>2. ASSUME NEW r \in Requests, pc[r] = "restored", h \in entries, reclaim[h] = "orphan"
        PROVE  h \in exposed
    BY <2>2, RestoredIsUsed
  <2> QED BY <2>1, <2>2
<1>11. CASE ListQuarantine
  BY <1>11 DEF ListQuarantine
<1>12. CASE Crash
  BY <1>12 DEF Crash
<1>13. CASE Resume
  BY <1>13 DEF Resume
<1>14. CASE UNCHANGED vars
  BY <1>14 DEF vars
<1> HIDE DEF Shape, TypeOK, Orderly, Files, Bytes, NoSnapshot, Archived, Recorded, GateHeld,
     IntentRecorded, RowsRecorded, PendingRows, Rows, Steps, GateSteps, Before, Incomplete
<1> QED BY <1>1, <1>2, <1>3, <1>4, <1>5, <1>6, <1>7, <1>8, <1>9, <1>10, <1>11, <1>12, <1>13, <1>14, Openings
        DEF Next, Continue

\* What is left of an operation stays where start-up looks.
LEMMA UndecidedStep ==
  ASSUME Shape, Orderly, Bytes, Undecided, [Next]_vars
  PROVE  Undecided'
<1> USE ConstantsAssumption, ExposedGrows DEF Shape, TypeOK, Orderly, Files, Bytes, Undecided,
     Archived, NoSnapshot, Unrecorded, Recorded, GateHeld, IntentRecorded, RowsRecorded,
     PendingRows, Rows, Steps, GateSteps, Before, Incomplete
<1>1. ASSUME NEW r \in Requests, Prepares(r)
      PROVE  Undecided'
  BY <1>1 DEF Prepares
<1>2. ASSUME NEW r \in Requests, Starts(r)
      PROVE  Undecided'
  BY <1>2 DEF Starts, Begin
<1>3. ASSUME NEW r \in Requests, Quarantining(r)
      PROVE  Undecided'
  BY <1>3 DEF Quarantining, StageBlob, StageFails, MarkStaged, MarkStagedFails, Undo, UndoDone
<1>4. ASSUME NEW r \in Requests, Purging(r)
      PROVE  Undecided'
  BY <1>4 DEF Purging, OpenSnapshot, Archive, SnapshotFails, MarkPending, Finalize, FinalizeFails
<1>5. ASSUME NEW r \in Requests, Completing(r)
      PROVE  Undecided'
  BY <1>5 DEF Completing, Complete, CompleteFails, Discard, DiscardFails, Seal
<1>6. ASSUME NEW r \in Requests, RollingBack(r)
      PROVE  Undecided'
  BY <1>6 DEF RollingBack, RestoreSnapshot, RestoreEntries, RestoreFails, MarkRolledBack
<1>7. ASSUME NEW r \in Requests, Finishing(r)
      PROVE  Undecided'
  BY <1>7 DEF Finishing, Settle, Abandon
<1>8. ASSUME NEW r \in Requests, TrashQuarantine(r)
      PROVE  Undecided'
  BY <1>8 DEF TrashQuarantine
<1>9. ASSUME NEW r \in Requests, Recovering(r)
      PROVE  Undecided'
  BY <1>9 DEF Recovering, RecoverFiles, RecoverRows, RecoverCompleted
<1>10. CASE \E h \in Blobs : Reserve(h) \/ Reclaiming(h)
  BY <1>10 DEF Reserve, Reclaiming, CountReferences, RemoveOrphan
<1>11. CASE ListQuarantine
  BY <1>11 DEF ListQuarantine
<1>12. CASE Crash
  BY <1>12 DEF Crash
<1>13. CASE Resume
  BY <1>13 DEF Resume
<1>14. CASE UNCHANGED vars
  BY <1>14 DEF vars
<1> HIDE DEF Shape, TypeOK, Orderly, Files, Bytes, Undecided, Archived, NoSnapshot, Unrecorded,
     Recorded, GateHeld, IntentRecorded, RowsRecorded, PendingRows, Rows, Steps, GateSteps, Before,
     Incomplete
<1> QED BY <1>1, <1>2, <1>3, <1>4, <1>5, <1>6, <1>7, <1>8, <1>9, <1>10, <1>11, <1>12, <1>13, <1>14, Openings
        DEF Next, Continue

\* Start-up fails over a robbed operation only.
LEMMA FailsStep ==
  ASSUME Shape, Orderly, Undecided, NoLostGarbage, FailsRobbed, [Next]_vars
  PROVE  FailsRobbed'
<1> USE ConstantsAssumption, ExposedGrows DEF Shape, TypeOK, Orderly, NoLostGarbage, Undecided,
     FailsRobbed, Archived, NoSnapshot, Recorded, GateHeld, IntentRecorded, RowsRecorded,
     PendingRows, Rows, Steps, GateSteps, Before, Incomplete
<1>1. ASSUME NEW r \in Requests, Prepares(r)
      PROVE  FailsRobbed'
  BY <1>1 DEF Prepares
<1>2. ASSUME NEW r \in Requests, Starts(r)
      PROVE  FailsRobbed'
  BY <1>2 DEF Starts, Begin
<1>3. ASSUME NEW r \in Requests, Quarantining(r)
      PROVE  FailsRobbed'
  BY <1>3 DEF Quarantining, StageBlob, StageFails, MarkStaged, MarkStagedFails, Undo, UndoDone
<1>4. ASSUME NEW r \in Requests, Purging(r)
      PROVE  FailsRobbed'
  BY <1>4 DEF Purging, OpenSnapshot, Archive, SnapshotFails, MarkPending, Finalize, FinalizeFails
<1>5. ASSUME NEW r \in Requests, Completing(r)
      PROVE  FailsRobbed'
  BY <1>5 DEF Completing, Complete, CompleteFails, Discard, DiscardFails, Seal
<1>6. ASSUME NEW r \in Requests, RollingBack(r)
      PROVE  FailsRobbed'
  BY <1>6 DEF RollingBack, RestoreSnapshot, RestoreEntries, RestoreFails, MarkRolledBack
<1>7. ASSUME NEW r \in Requests, Finishing(r)
      PROVE  FailsRobbed'
  BY <1>7 DEF Finishing, Settle, Abandon
<1>8. ASSUME NEW r \in Requests, TrashQuarantine(r)
      PROVE  FailsRobbed'
  BY <1>8 DEF TrashQuarantine
<1>9. ASSUME NEW r \in Requests, Recovering(r)
      PROVE  FailsRobbed'
  BY <1>9 DEF Recovering, RecoverFiles, RecoverRows, RecoverCompleted
<1>10. CASE \E h \in Blobs : Reserve(h) \/ Reclaiming(h)
  BY <1>10 DEF Reserve, Reclaiming, CountReferences, RemoveOrphan
<1>11. CASE ListQuarantine
  BY <1>11 DEF ListQuarantine
<1>12. CASE Crash
  BY <1>12 DEF Crash
<1>13. CASE Resume
  BY <1>13 DEF Resume
<1>14. CASE UNCHANGED vars
  BY <1>14 DEF vars
<1> HIDE DEF Shape, TypeOK, Orderly, NoLostGarbage, Undecided, FailsRobbed, Archived, NoSnapshot,
     Recorded, GateHeld, IntentRecorded, RowsRecorded, PendingRows, Rows, Steps, GateSteps, Before,
     Incomplete
<1> QED BY <1>1, <1>2, <1>3, <1>4, <1>5, <1>6, <1>7, <1>8, <1>9, <1>10, <1>11, <1>12, <1>13, <1>14, Openings
        DEF Next, Continue

\* A completed operation leaves nothing that start-up does not delete.
LEMMA GarbageStep ==
  ASSUME Shape, Orderly, NoLostGarbage, [Next]_vars
  PROVE  NoLostGarbage'
<1> USE ConstantsAssumption DEF Shape, TypeOK, Orderly, Files, NoLostGarbage, Recorded, GateHeld,
     IntentRecorded, RowsRecorded, PendingRows, Rows, Steps, GateSteps, Before, Incomplete
<1>1. ASSUME NEW r \in Requests, Prepares(r)
      PROVE  NoLostGarbage'
  BY <1>1 DEF Prepares
<1>2. ASSUME NEW r \in Requests, Starts(r)
      PROVE  NoLostGarbage'
  BY <1>2 DEF Starts, Begin
<1>3. ASSUME NEW r \in Requests, Quarantining(r)
      PROVE  NoLostGarbage'
  BY <1>3 DEF Quarantining, StageBlob, StageFails, MarkStaged, MarkStagedFails, Undo, UndoDone
<1>4. ASSUME NEW r \in Requests, Purging(r)
      PROVE  NoLostGarbage'
  BY <1>4 DEF Purging, OpenSnapshot, Archive, SnapshotFails, MarkPending, Finalize, FinalizeFails
<1>5. ASSUME NEW r \in Requests, Completing(r)
      PROVE  NoLostGarbage'
  BY <1>5 DEF Completing, Complete, CompleteFails, Discard, DiscardFails, Seal
<1>6. ASSUME NEW r \in Requests, RollingBack(r)
      PROVE  NoLostGarbage'
  BY <1>6 DEF RollingBack, RestoreSnapshot, RestoreEntries, RestoreFails, MarkRolledBack
<1>7. ASSUME NEW r \in Requests, Finishing(r)
      PROVE  NoLostGarbage'
  BY <1>7 DEF Finishing, Settle, Abandon
<1>8. ASSUME NEW r \in Requests, TrashQuarantine(r)
      PROVE  NoLostGarbage'
  BY <1>8 DEF TrashQuarantine
<1>9. ASSUME NEW r \in Requests, Recovering(r)
      PROVE  NoLostGarbage'
  BY <1>9 DEF Recovering, RecoverFiles, RecoverRows, RecoverCompleted
<1>10. CASE \E h \in Blobs : Reserve(h) \/ Reclaiming(h)
  BY <1>10 DEF Reserve, Reclaiming, CountReferences, RemoveOrphan
<1>11. CASE ListQuarantine
  BY <1>11 DEF ListQuarantine
<1>12. CASE Crash
  BY <1>12 DEF Crash
<1>13. CASE Resume
  BY <1>13 DEF Resume
<1>14. CASE UNCHANGED vars
  BY <1>14 DEF vars
<1> HIDE DEF Shape, TypeOK, Orderly, Files, NoLostGarbage, Recorded, GateHeld, IntentRecorded,
     RowsRecorded, PendingRows, Rows, Steps, GateSteps, Before, Incomplete
<1> QED BY <1>1, <1>2, <1>3, <1>4, <1>5, <1>6, <1>7, <1>8, <1>9, <1>10, <1>11, <1>12, <1>13, <1>14, Openings
        DEF Next, Continue

-----------------------------------------------------------------------------
(* No row loses its bytes.                                                 *)

\* Start-up would find h for operation r.
Finds(r, h) ==
  /\ intent[r] \in Incomplete
  /\ h \in PendingRows(r)
  /\ IF snapshot[r] = NoSnapshot THEN h \in quarantine[r] ELSE h \in Archived(r)

Safe(h) == h \in active \cup exposed \/ (\E r \in Requests : Finds(r, h)) \/ InHand(h)

\* CrashSafe in these words.
LEMMA SafeRows ==
  CrashSafe <=> \A p \in Paths : asset[p] # NoBlob => Safe(asset[p])
BY DEF CrashSafe, Safe, Finds, Recoverable

\* The steps of a request that has the gate and has not committed.
Open == GateSteps \ {"discard", "seal"}

\* Whatever an open operation has in hand is safe.
HandsSafe == \A r \in Requests : pc[r] \in Open => \A h \in entries : Safe(h)

\* Bytes says so in detail.
LEMMA BytesInHands == Shape /\ Recorded /\ Files /\ Bytes => HandsSafe
<1> SUFFICES ASSUME Shape, Recorded, Files, Bytes,
                    NEW r \in Requests, pc[r] \in Open, NEW h \in entries
             PROVE  Safe(h)
  BY DEF HandsSafe
<1> USE DEF Recorded, GateHeld, Open, GateSteps, Safe
<1>1. mode = "up" /\ gate = r /\ gate # NoRequest
  BY ConstantsAssumption
<1>2. CASE h \in exposed
  BY <1>2
<1>3. CASE h \notin exposed
  <2>1. CASE pc[r] \in {"stage", "undo", "archive"}
    BY <1>1, <1>3, <2>1 DEF Bytes, InHand
  <2>2. CASE pc[r] \in {"snapshot", "unstage", "purge", "commit", "rollback"}
    <3>1. h \in PendingRows(r) /\ intent[r] \in Incomplete
      BY <2>2 DEF RowsRecorded, IntentRecorded, Incomplete
    <3>2. IF snapshot[r] = NoSnapshot THEN h \in quarantine[r] ELSE h \in Archived(r)
      BY <1>3, <2>2 DEF Bytes, Files, Archived
    <3> QED BY <3>1, <3>2 DEF Finds
  <2>3. CASE pc[r] = "restored"
    BY <1>3, <2>3 DEF Bytes
  <2> QED BY <2>1, <2>2, <2>3
<1> QED BY <1>2, <1>3

\* What start-up or the holder of the gate would find of its operation is in hand.
LEMMA FoundInHand ==
  ASSUME Shape, Recorded, Files, NEW r \in Requests, pc[r] \in Open, NEW h \in Blobs,
         Finds(r, h) \/ InHand(h)
  PROVE  h \in entries
<1> USE DEF Recorded, Open, GateSteps
<1>1. gate = r
  BY DEF GateHeld
<1>2. CASE InHand(h)
  BY <1>1, <1>2 DEF InHand, Files
<1>3. CASE Finds(r, h)
  BY <1>3 DEF Finds, RowsRecorded, PendingRows
<1> QED BY <1>2, <1>3

\* After the commit nothing is left to find.
LEMMA NothingFound ==
  ASSUME Recorded, NEW r \in Requests, pc[r] \in {"discard", "seal"}, NEW h
  PROVE  ~Finds(r, h) /\ ~InHand(h)
BY DEF Recorded, GateHeld, IntentRecorded, Incomplete, GateSteps, Finds, InHand

\* A step of one operation keeps what is found of the others.
LEMMA OthersFound ==
  ASSUME NEW r \in Requests, NEW h, NEW o \in Requests \ {r}, Finds(o, h),
         intent'[o] = intent[o], row'[o] = row[o],
         quarantine'[o] = quarantine[o], snapshot'[o] = snapshot[o]
  PROVE  Finds(o, h)'
BY DEF Finds, PendingRows, Archived

\* Steps beside the operation that has the gate take away only what nothing
\* refers to.
LEMMA AsideSafe ==
  ASSUME CrashSafe, exposed \subseteq exposed', gate' = gate,
         UNCHANGED <<asset, intent, row, quarantine, snapshot, mode>>,
         gate # NoRequest => pc'[gate] = pc[gate],
         \A p \in Paths : asset[p] \in active => asset[p] \in active' \cup exposed'
  PROVE  CrashSafe'
BY DEF CrashSafe, Recoverable, InHand, PendingRows, Archived

\* A step of the request that has the gate, short of the commit, leaves what it
\* had in hand in hand, or puts it back, or has had it taken away.
LEMMA HolderSafe ==
  ASSUME Shape, Recorded, Files, Bytes, CrashSafe,
         Shape', Recorded', Files', Bytes', exposed \subseteq exposed',
         NEW r \in Requests, pc[r] \in GateSteps, asset' = asset,
         \A o \in Requests \ {r} : /\ intent'[o] = intent[o] /\ row'[o] = row[o]
                                   /\ quarantine'[o] = quarantine[o] /\ snapshot'[o] = snapshot[o],
         pc[r] \in Open => entries \subseteq entries' \cup active' \cup exposed',
         active \subseteq entries' \cup active',
         pc'[r] \in Open \/ entries' = {} \/ (pc[r] \notin Open /\ active' = active)
  PROVE  CrashSafe'
<1> SUFFICES ASSUME NEW h \in Blobs, Safe(h) PROVE Safe(h)'
  <2>1. \A p \in Paths : asset[p] # NoBlob => asset[p] \in Blobs /\ Safe(asset[p])
    BY SafeRows DEF Shape, TypeOK, Image
  <2>2. (CrashSafe <=> \A p \in Paths : asset[p] # NoBlob => Safe(asset[p]))'
    BY SafeRows, PTL
  <2> QED BY <2>1, <2>2
<1>1. h \in active' \cup exposed' => Safe(h)'
  BY DEF Safe
<1>2. h \in entries' /\ pc'[r] \in Open => Safe(h)'
  <2>1. (Shape /\ Recorded /\ Files /\ Bytes => HandsSafe)'
    BY BytesInHands, PTL
  <2> QED BY <2>1 DEF HandsSafe
<1>3. CASE h \in active \cup exposed
  BY <1>1, <1>2, <1>3
<1>4. ASSUME NEW o \in Requests \ {r}, Finds(o, h) PROVE Safe(h)'
  BY <1>4, OthersFound DEF Safe
<1>5. CASE Finds(r, h) \/ InHand(h)
  <2>1. pc[r] \in Open
    BY <1>5, NothingFound DEF Open
  <2>2. h \in entries
    BY <1>5, <2>1, FoundInHand
  <2> QED BY <1>1, <1>2, <2>1, <2>2
<1> QED BY <1>3, <1>4, <1>5 DEF Safe

\* Between the count of the references and the commit nothing else commits, so a
\* commit leaves no row with bytes that have gone.
LEMMA CompleteSafe ==
  ASSUME Shape, Accounts, Orderly, Landed, Bytes, CrashSafe, Shape',
         NEW r \in Requests, Complete(r)
  PROVE  CrashSafe'
<1> USE DEF Orderly, Recorded
<1>1. /\ pc[r] = "commit" /\ Matches(items[r]) /\ asset' = Applied(items[r])
      /\ UNCHANGED <<active, exposed>>
      /\ \A o \in Requests \ {r} : /\ intent'[o] = intent[o] /\ row'[o] = row[o]
                                   /\ quarantine'[o] = quarantine[o] /\ snapshot'[o] = snapshot[o]
  BY DEF Complete, Shape, TypeOK
<1>2. items[r] \in SUBSET Item /\ WellFormed(items[r])
  BY FormOfBatch
<1>3. ASSUME NEW p \in Paths, asset'[p] # NoBlob, asset'[p] \in entries
      PROVE  FALSE
  <2>1. asset'[p] \in Unreferenced(items[r])
    BY <1>1, <1>3 DEF Counted, GateSteps
  <2> QED BY <1>1, <1>2, <1>3, <2>1, CommitDropsCounted
<1>4. ASSUME NEW h \in Blobs, Safe(h), h \notin entries
      PROVE  Safe(h)'
  <2>1. ~InHand(h)
    BY <1>1 DEF InHand, GateHeld, GateSteps
  <2>2. ~Finds(r, h)
    BY <1>1, <1>4, FoundInHand DEF Open, GateSteps
  <2>3. CASE h \in active \cup exposed
    BY <1>1, <2>3 DEF Safe
  <2>4. ASSUME NEW o \in Requests \ {r}, Finds(o, h) PROVE Safe(h)'
    BY <1>1, <2>4, OthersFound DEF Safe
  <2> QED BY <1>4, <2>1, <2>2, <2>3, <2>4 DEF Safe
<1>5. ASSUME NEW p \in Paths, asset'[p] # NoBlob
      PROVE  \/ asset'[p] = up[r]
             \/ \E q \in Paths : asset[q] = asset'[p]
  <2>1. CASE \E i \in items[r] : i.to = p /\ i.after # NoBlob
    <3>1. PICK i \in items[r] : asset'[p] = i.after
      BY <1>1, <2>1 DEF Applied
    <3>2. i.after = up[r] \/ i.after = i.before
      BY <1>5, <3>1 DEF Shape, RequestShape
    <3>3. asset[i.path] = i.before /\ i.path \in Paths
      BY <1>1, <1>2 DEF Matches, Item
    <3> QED BY <3>1, <3>2, <3>3
  <2>2. CASE ~\E i \in items[r] : i.to = p /\ i.after # NoBlob
    BY <1>1, <1>5, <2>2 DEF Applied
  <2> QED BY <2>1, <2>2
<1>6. ASSUME NEW p \in Paths, asset'[p] # NoBlob
      PROVE  Safe(asset'[p])
  <2>1. CASE asset'[p] = up[r]
    <3>1. up[r] \in active \cup exposed \cup entries
      BY <1>1, <1>6, <2>1 DEF Landed
    <3> QED BY <1>3, <1>6, <2>1, <3>1 DEF Safe
  <2>2. CASE \E q \in Paths : asset[q] = asset'[p]
    BY <1>6, <2>2, SafeRows
  <2> QED BY <1>5, <1>6, <2>1, <2>2
<1>7. \A p \in Paths : asset'[p] \in Image
  BY DEF Shape, TypeOK
<1>8. (CrashSafe <=> \A p \in Paths : asset[p] # NoBlob => Safe(asset[p]))'
  BY SafeRows, PTL
<1>9. ASSUME NEW p \in Paths, NEW h \in Blobs, asset'[p] = h
      PROVE  Safe(asset[p])'
  <2>1. Safe(h)'
    BY <1>3, <1>4, <1>6, <1>9, ConstantsAssumption
  <2> QED BY <1>9, <2>1 DEF Safe, Finds, InHand
<1> QED BY <1>7, <1>8, <1>9 DEF Image

\* A step under the gate, short of the commit, keeps the bytes of every row.
LEMMA GatedSafe ==
  ASSUME Shape, Orderly, Bytes, CrashSafe, Shape', Orderly', Bytes', exposed \subseteq exposed',
         NEW r \in Requests,
         \/ Quarantining(r) \/ Purging(r) \/ RollingBack(r)
         \/ Completing(r) /\ ~Complete(r)
  PROVE  CrashSafe'
<1> USE DEF Orderly, Recorded, Open, GateSteps
<1>1. /\ pc[r] \in GateSteps /\ asset' = asset
      /\ \A o \in Requests \ {r} : /\ intent'[o] = intent[o] /\ row'[o] = row[o]
                                   /\ quarantine'[o] = quarantine[o] /\ snapshot'[o] = snapshot[o]
  <2> USE DEF Shape, TypeOK
  <2>1. CASE Quarantining(r)
    BY <2>1 DEF Quarantining, StageBlob, StageFails, MarkStaged, MarkStagedFails, Undo, UndoDone
  <2>2. CASE Purging(r)
    BY <2>2 DEF Purging, OpenSnapshot, Archive, SnapshotFails, MarkPending, Finalize, FinalizeFails
  <2>3. CASE Completing(r) /\ ~Complete(r)
    BY <2>3 DEF Completing, CompleteFails, Discard, DiscardFails, Seal
  <2>4. CASE RollingBack(r)
    BY <2>4 DEF RollingBack, RestoreSnapshot, RestoreEntries, RestoreFails, MarkRolledBack
  <2> QED BY <2>1, <2>2, <2>3, <2>4
<1>2. /\ pc[r] \in Open => entries \subseteq entries' \cup active' \cup exposed'
      /\ active \subseteq entries' \cup active'
      /\ pc'[r] \in Open \/ entries' = {} \/ (pc[r] \notin Open /\ active' = active)
  <2> USE DEF Shape, TypeOK
  <2>1. CASE Quarantining(r)
    BY <2>1 DEF Quarantining, StageBlob, StageFails, MarkStaged, MarkStagedFails, Undo, UndoDone, Bytes
  <2>2. CASE Purging(r)
    BY <2>2 DEF Purging, OpenSnapshot, Archive, SnapshotFails, MarkPending, Finalize, FinalizeFails
  <2>3. CASE Completing(r) /\ ~Complete(r)
    BY <2>3 DEF Completing, CompleteFails, Discard, DiscardFails, Seal
  <2>4. CASE RestoreSnapshot(r) \/ RestoreEntries(r)
    BY <2>4 DEF RestoreSnapshot, RestoreEntries
  <2>5. CASE RestoreFails(r)
    BY <2>5, ConstantsAssumption DEF RestoreFails, Bytes, Archived
  <2>6. CASE MarkRolledBack(r)
    BY <2>6 DEF MarkRolledBack, Bytes
  <2> QED BY <2>1, <2>2, <2>3, <2>4, <2>5, <2>6 DEF RollingBack
<1> QED BY <1>1, <1>2, HolderSafe

\* Taking the gate moves no file.
LEMMA StartSafe ==
  ASSUME Shape, Orderly, CrashSafe, NEW r \in Requests, Starts(r)
  PROVE  CrashSafe'
<1>1. PICK batch : Begin(r, batch)
  BY DEF Starts
<1>2. gate = NoRequest /\ UNCHANGED <<asset, active, exposed, row, quarantine, snapshot>>
  BY <1>1 DEF Begin
<1>3. \A h : ~InHand(h)
  BY <1>2 DEF InHand
<1>4. \A o \in Requests : intent[o] \in Incomplete => intent'[o] \in Incomplete
  BY <1>1 DEF Begin, Shape, TypeOK, Incomplete
<1> QED BY <1>2, <1>3, <1>4 DEF CrashSafe, Recoverable, PendingRows, Archived

\* A cleanup that takes the files of an incomplete operation exposes them.
LEMMA TrashSafe ==
  ASSUME Shape, Orderly, CrashSafe, NEW r \in Requests, TrashQuarantine(r)
  PROVE  CrashSafe'
<1> USE DEF TrashQuarantine, Shape, TypeOK
<1> SUFFICES ASSUME NEW h \in Blobs, Safe(h) PROVE Safe(h)'
  <2>1. \A p \in Paths : asset[p] # NoBlob => asset[p] \in Blobs /\ Safe(asset[p])
    BY SafeRows DEF Image
  <2>2. (CrashSafe <=> \A p \in Paths : asset[p] # NoBlob => Safe(asset[p]))'
    BY SafeRows, PTL
  <2> QED BY <2>1, <2>2
<1>1. CASE h \in active \cup exposed
  BY <1>1 DEF Safe
<1>2. ASSUME NEW o \in Requests \ {r}, Finds(o, h) PROVE Safe(h)'
  BY <1>2, OthersFound DEF Safe
<1>3. CASE Finds(r, h)
  BY <1>3 DEF Safe, Finds, Archived
<1>4. CASE InHand(h)
  <2>1. CASE gate = r
    <3>1. intent[r] \in Incomplete
      BY <1>4, <2>1, ConstantsAssumption DEF InHand, Orderly, Recorded, IntentRecorded, Incomplete
    <3> QED BY <1>4, <2>1, <3>1 DEF Safe, InHand
  <2>2. CASE gate # r
    BY <1>4, <2>2 DEF Safe, InHand
  <2> QED BY <2>1, <2>2
<1> QED BY <1>1, <1>2, <1>3, <1>4 DEF Safe

\* Recovery puts back what it finds before it calls an operation rolled back.
LEMMA RecoverSafe ==
  ASSUME Shape, Orderly, Undecided, CrashSafe, NEW r \in Requests, Recovering(r)
  PROVE  CrashSafe'
<1> USE DEF Shape, TypeOK
<1> SUFFICES ASSUME NEW h \in Blobs, Safe(h) PROVE Safe(h)'
  <2>1. \A p \in Paths : asset[p] # NoBlob => asset[p] \in Blobs /\ Safe(asset[p])
    BY SafeRows DEF Image
  <2>2. (CrashSafe <=> \A p \in Paths : asset[p] # NoBlob => Safe(asset[p]))'
    BY SafeRows, PTL
  <2>3. asset' = asset
    BY DEF Recovering, RecoverFiles, RecoverRows, RecoverCompleted
  <2> QED BY <2>1, <2>2, <2>3
<1>1. ~InHand(h) /\ exposed' = exposed /\ active \subseteq active'
  BY DEF Recovering, RecoverFiles, RecoverRows, RecoverCompleted, InHand
<1>2. CASE h \in active \cup exposed
  BY <1>1, <1>2 DEF Safe
<1>3. ASSUME NEW o \in Requests \ {r}, Finds(o, h) PROVE Safe(h)'
  <2>1. intent'[o] = intent[o] /\ row'[o] = row[o] /\ quarantine'[o] = quarantine[o] /\ snapshot'[o] = snapshot[o]
    BY DEF Recovering, RecoverFiles, RecoverRows, RecoverCompleted
  <2> QED BY <1>3, <2>1, OthersFound DEF Safe
<1>4. CASE Finds(r, h)
  <2>1. CASE RecoverFiles(r)
    BY <1>4, <2>1 DEF RecoverFiles, Safe, Finds, PendingRows, Archived
  <2>2. CASE RecoverRows(r)
    <3>1. h \in active \cup exposed
      BY <1>4, <2>2 DEF RecoverRows, Undecided, Finds
    <3> QED BY <1>2, <3>1
  <2>3. CASE RecoverCompleted(r)
    BY <1>4, <2>3 DEF RecoverCompleted, Finds, Incomplete
  <2> QED BY <2>1, <2>2, <2>3 DEF Recovering
<1> QED BY <1>1, <1>2, <1>3, <1>4 DEF Safe

\* What only the process knew is exposed when it dies.
LEMMA DeathSafe ==
  ASSUME Shape, Orderly, CrashSafe, Crash
  PROVE  CrashSafe'
<1> USE DEF Shape, TypeOK
<1>1. UNCHANGED <<asset, intent, row, active, quarantine, snapshot>> /\ exposed \subseteq exposed'
  BY DEF Crash
<1>2. ASSUME NEW h \in Blobs, InHand(h) PROVE h \in exposed'
  <2>1. gate \in Requests /\ gate # NoRequest /\ mode = "up" /\ h \in quarantine[gate]
    BY <1>2 DEF InHand
  <2>2. CASE pc[gate] = "archive"
    BY <2>1, <2>2 DEF Crash, Orderly, Files, GateSteps
  <2>3. CASE pc[gate] \in {"stage", "undo"}
    BY <2>1, <2>3 DEF Crash, Unrecorded, Orderly, Recorded, RowsRecorded
  <2> QED BY <1>2, <2>2, <2>3 DEF InHand
<1> QED BY <1>1, <1>2, ConstantsAssumption DEF CrashSafe, Recoverable, PendingRows, Archived, Image

\* Every step keeps the bytes of every row where somebody finds them.
LEMMA CrashSafeStep ==
  ASSUME Shape, Accounts, Orderly, Landed, Bytes, Undecided, CrashSafe,
         Shape', Orderly', Bytes', [Next]_vars
  PROVE  CrashSafe'
<1>1. exposed \subseteq exposed'
  BY ExposedGrows
<1>2. ASSUME NEW r \in Requests, Prepares(r) PROVE CrashSafe'
  <2>1. gate # NoRequest => gate # r /\ gate \in Requests
    BY <1>2 DEF Prepares, Before, Orderly, Recorded, GateHeld, GateSteps, Shape, TypeOK
  <2>2. gate # NoRequest => pc'[gate] = pc[gate]
    BY <1>2, <2>1 DEF Prepares, Shape, TypeOK
  <2>3. gate' = gate /\ UNCHANGED <<asset, intent, row, quarantine, snapshot, mode>> /\ active \subseteq active'
    BY <1>2 DEF Prepares
  <2> QED BY <1>1, <2>2, <2>3, AsideSafe
<1>3. ASSUME NEW r \in Requests, Finishing(r) PROVE CrashSafe'
  <2>1. gate # NoRequest => gate # r /\ gate \in Requests
    BY <1>3 DEF Finishing, Settle, Abandon, Orderly, Recorded, GateHeld, GateSteps, Shape, TypeOK
  <2>2. gate # NoRequest => pc'[gate] = pc[gate]
    BY <1>3, <2>1 DEF Finishing, Settle, Abandon, Shape, TypeOK
  <2>3. gate' = gate /\ UNCHANGED <<asset, intent, row, quarantine, snapshot, mode, active>>
    BY <1>3 DEF Finishing, Settle, Abandon
  <2> QED BY <1>1, <2>2, <2>3, AsideSafe
<1>4. ASSUME NEW h \in Blobs, Reserve(h) \/ Reclaiming(h) PROVE CrashSafe'
  <2>1. /\ active \ {h} \subseteq active'
        /\ h \notin active' /\ h \in active => reclaim[h] = "orphan"
        /\ gate' = gate /\ UNCHANGED <<asset, intent, row, quarantine, snapshot, mode, pc, exposed>>
    BY <1>4 DEF Reserve, Reclaiming, CountReferences, RemoveOrphan
  <2>2. \A p \in Paths : asset[p] \in active => asset[p] \in active' \cup exposed'
    BY <2>1, Untouched DEF References
  <2> QED BY <1>1, <2>1, <2>2, AsideSafe
<1>5. CASE ListQuarantine \/ UNCHANGED vars
  <2>1. gate' = gate /\ UNCHANGED <<asset, intent, row, quarantine, snapshot, mode, active, pc>>
    BY <1>5 DEF ListQuarantine, vars
  <2> QED BY <1>1, <2>1, AsideSafe
<1>6. CASE Resume
  BY <1>6 DEF Resume, CrashSafe, Recoverable, InHand, PendingRows, Archived
<1>7. ASSUME NEW r \in Requests, Starts(r) PROVE CrashSafe'
  BY <1>7, StartSafe
<1>8. ASSUME NEW r \in Requests,
             Quarantining(r) \/ Purging(r) \/ RollingBack(r) \/ Completing(r)
      PROVE  CrashSafe'
  BY <1>1, <1>8, GatedSafe, CompleteSafe DEF Completing
<1>9. ASSUME NEW r \in Requests, TrashQuarantine(r) \/ Recovering(r) PROVE CrashSafe'
  BY <1>9, TrashSafe, RecoverSafe
<1>10. CASE Crash
  BY <1>10, DeathSafe
<1> QED BY <1>2, <1>3, <1>4, <1>5, <1>6, <1>7, <1>8, <1>9, <1>10, Openings DEF Next, Continue

-----------------------------------------------------------------------------
(* The theorems.                                                           *)

\* The first state has no operation.
LEMMA KeptInit == Init => Kept
<1> SUFFICES ASSUME Init PROVE Kept
  OBVIOUS
<1>1. Orderly
  BY ConstantsAssumption DEF Init, Orderly, Recorded, GateHeld, IntentRecorded, RowsRecorded, PendingRows,
     BatchShape, Counted, Files, Before, GateSteps, Incomplete
<1>2. Landed /\ Bytes /\ Undecided /\ FailsRobbed /\ NoLostGarbage
  BY DEF Init, Landed, Bytes, Undecided, FailsRobbed, NoLostGarbage, Incomplete
<1>3. CrashSafe
  BY DEF Init, CrashSafe, References, Image
<1> QED BY <1>1, <1>2, <1>3 DEF Kept

\* The invariant holds at the start and after every step.
LEMMA KeptInvariant == Spec => [](Shape /\ Accounts /\ Kept)
<1>1. Init => Kept
  BY KeptInit
<1>2. Shape /\ Accounts /\ Shape' /\ Kept /\ [Next]_vars => Kept'
  <2> SUFFICES ASSUME Shape, Accounts, Shape', Kept, [Next]_vars PROVE Kept'
    OBVIOUS
  <2>1. Orderly'
    BY GateStep, IntentStep, RowsStep, BatchStep, CountedStep, FilesStep DEF Kept, Orderly, Recorded
  <2>2. Landed' /\ Bytes'
    BY LandedStep, BytesStep DEF Kept, Orderly
  <2>3. Undecided' /\ FailsRobbed' /\ NoLostGarbage'
    BY UndecidedStep, FailsStep, GarbageStep DEF Kept
  <2>4. CrashSafe'
    BY <2>1, <2>2, CrashSafeStep DEF Kept
  <2> QED BY <2>1, <2>2, <2>3, <2>4 DEF Kept
<1> QED BY <1>1, <1>2, AccountsInvariant, PTL DEF Spec

\* Whenever the process dies, the bytes of every row are in the store or where
\* recovery looks for them, but for the windows that the code leaves open.
THEOREM CrashesAreSafe == Spec => []CrashSafe
<1>1. Kept => CrashSafe
  BY DEF Kept
<1> QED BY <1>1, KeptInvariant, PTL

\* A reader finds the bytes of every row it can see, but for the same windows.
THEOREM BytesServed == Spec => []ServedBytes
<1>1. Shape /\ Kept => ServedBytes
  <2> SUFFICES ASSUME Shape, Kept, mode = "up", gate = NoRequest, NEW p \in Paths
               PROVE  asset[p] \in active \cup exposed \cup {NoBlob}
    BY DEF ServedBytes
  <2>1. ~InHand(asset[p])
    BY DEF InHand
  <2>2. ASSUME NEW r \in Requests, intent[r] \in Incomplete PROVE PendingRows(r) \subseteq exposed
    BY <2>2, ConstantsAssumption DEF Kept, Undecided
  <2> QED BY <2>1, <2>2 DEF Kept, CrashSafe, Recoverable
<1> QED BY <1>1, KeptInvariant, PTL

\* Every operation is decided, and start-up succeeds, unless a cleanup or a crash
\* in an open window took its files.
THEOREM RecoveryAlwaysSettles == Spec => []RecoverySettles
<1>1. Kept => RecoverySettles
  BY DEF Kept, Undecided, FailsRobbed, RecoverySettles
<1> QED BY <1>1, KeptInvariant, PTL

\* A completed operation leaves no file that no later start-up deletes.
THEOREM GarbageNotLost == Spec => []NoLostGarbage
<1>1. Kept => NoLostGarbage
  BY DEF Kept
<1> QED BY <1>1, KeptInvariant, PTL

-----------------------------------------------------------------------------
(* The refinement.                                                         *)

\* The abstract state of an operation.
Batch(r) == IF intent[r] = "none" THEN {} ELSE items[r]
Outcome(r) == CASE intent[r] = "none" -> "none"
                [] intent[r] = "completed" -> "applied"
                [] intent[r] = "rolled_back" -> "rejected"
                [] OTHER -> "open"
Changing == [r \in Requests |-> Change(Batch(r))]
Outcomes == [r \in Requests |-> Outcome(r)]

\* A batch without items changes nothing.
LEMMA NoChange == Change({}) = Atomic!Nothing
<1> DEFINE touched == {i.path : i \in {}} \cup {i.to : i \in {}}
<1>1. touched = {}
  OBVIOUS
<1>2. [p \in touched |-> IF {i \in {} : i.path = p} = {} THEN NoBlob
                        ELSE (CHOOSE i \in {i \in {} : i.path = p} : TRUE).before] = <<>>
  BY <1>1
<1>3. [p \in touched |-> IF {i \in {} : i.to = p /\ i.after # NoBlob} = {} THEN NoBlob
                        ELSE (CHOOSE i \in {i \in {} : i.to = p /\ i.after # NoBlob} : TRUE).after] = <<>>
  BY <1>1
<1> QED BY <1>2, <1>3 DEF Change, Atomic!Nothing

\* What a batch expects and leaves is a change.
LEMMA ChangeTyped ==
  ASSUME NEW batch \in SUBSET Item
  PROVE  Change(batch) \in Atomic!Changes
<1> DEFINE touched == {i.path : i \in batch} \cup {i.to : i \in batch}
<1> DEFINE Into(p) == {i \in batch : i.to = p /\ i.after # NoBlob}
<1> DEFINE From(p) == {i \in batch : i.path = p}
<1> DEFINE expects == [p \in touched |-> IF From(p) = {} THEN NoBlob ELSE (CHOOSE i \in From(p) : TRUE).before]
<1> DEFINE leaves == [p \in touched |-> IF Into(p) = {} THEN NoBlob ELSE (CHOOSE i \in Into(p) : TRUE).after]
<1>1. touched \in SUBSET Paths
  BY DEF Item
<1>2. \A i \in batch : i.before \in Image /\ i.after \in Image
  BY DEF Item
<1>3. expects \in [touched -> Image] /\ leaves \in [touched -> Image]
  BY <1>2 DEF Image
<1>4. Change(batch) = [expects |-> expects, leaves |-> leaves]
  BY DEF Change
<1> HIDE DEF touched, expects, leaves
<1> QED BY <1>1, <1>3, <1>4 DEF Atomic!Changes

\* A batch whose before images hold is applied as its change says.
LEMMA AppliedIsChange ==
  ASSUME NEW batch \in SUBSET Item, WellFormed(batch), Matches(batch), TypeOK
  PROVE  LET c == Change(batch) IN
         /\ \A p \in DOMAIN c.leaves : asset[p] = c.expects[p]
         /\ Applied(batch) = [p \in Paths |-> IF p \in DOMAIN c.leaves THEN c.leaves[p] ELSE asset[p]]
<1> DEFINE touched == {i.path : i \in batch} \cup {i.to : i \in batch}
<1> DEFINE Into(p) == {i \in batch : i.to = p /\ i.after # NoBlob}
<1> DEFINE From(p) == {i \in batch : i.path = p}
<1> DEFINE c == Change(batch)
<1>1. /\ DOMAIN c.leaves = touched
      /\ \A p \in touched : /\ c.expects[p] = IF From(p) = {} THEN NoBlob ELSE (CHOOSE i \in From(p) : TRUE).before
                            /\ c.leaves[p] = IF Into(p) = {} THEN NoBlob ELSE (CHOOSE i \in Into(p) : TRUE).after
  BY DEF Change
<1> HIDE DEF c
<1>2. ASSUME NEW p \in touched PROVE asset[p] = c.expects[p]
  <2>1. CASE From(p) = {}
    <3>1. PICK i \in batch : i.to = p /\ i.path # p
      BY <2>1
    <3> QED BY <1>1, <2>1, <3>1 DEF Matches
  <2>2. CASE From(p) # {}
    <3>1. (CHOOSE i \in From(p) : TRUE) \in From(p)
      BY <2>2
    <3> QED BY <1>1, <2>2, <3>1 DEF Matches
  <2> QED BY <2>1, <2>2
<1>3. ASSUME NEW p \in Paths
      PROVE  Applied(batch)[p] = IF p \in touched THEN c.leaves[p] ELSE asset[p]
  <2>1. CASE Into(p) # {}
    <3>1. (CHOOSE i \in Into(p) : TRUE) \in Into(p)
      BY <2>1
    <3>2. (CHOOSE i \in batch : i.to = p /\ i.after # NoBlob) \in Into(p)
      BY <2>1
    <3>3. \A i, j \in Into(p) : i = j
      BY DEF WellFormed
    <3>4. (CHOOSE i \in batch : i.to = p /\ i.after # NoBlob) = (CHOOSE i \in Into(p) : TRUE)
      BY <3>1, <3>2, <3>3
    <3>5. p \in touched /\ \E i \in batch : i.to = p /\ i.after # NoBlob
      BY <2>1
    <3>6. Applied(batch)[p] = (CHOOSE i \in batch : i.to = p /\ i.after # NoBlob).after
      BY <3>5 DEF Applied
    <3> HIDE DEF touched, Into, From
    <3> QED BY <1>1, <2>1, <3>4, <3>5, <3>6
  <2>2. CASE Into(p) = {} /\ p \in touched
    <3>1. \E i \in batch : i.path = p
      BY <2>2 DEF WellFormed
    <3> QED BY <1>1, <2>2, <3>1 DEF Applied
  <2>3. CASE Into(p) = {} /\ p \notin touched
    BY <2>3 DEF Applied
  <2> QED BY <2>1, <2>2, <2>3
<1> QED BY <1>1, <1>2, <1>3 DEF c, Applied

\* A step that keeps the rows, the batches of what has begun, and the class of
\* every intent, is a stutter of AtomicAssets.
LEMMA SameImage ==
  ASSUME asset' = asset,
         \A r \in Requests : Outcome(r)' = Outcome(r) /\ Batch(r)' = Batch(r)
  PROVE  UNCHANGED <<asset, Changing, Outcomes>>
<1>1. Changing' = [r \in Requests |-> Change(Batch(r)')] /\ Outcomes' = [r \in Requests |-> Outcome(r)']
  BY DEF Changing, Outcomes, Change
<1> HIDE DEF Batch, Outcome
<1> QED BY <1>1 DEF Changing, Outcomes

\* The operation of r stays as it was, or stays undecided.
Steady(r) ==
  /\ asset' = asset
  /\ \E x \in Intents : intent' = [intent EXCEPT ![r] = x]
                        /\ (x = intent[r] \/ {x, intent[r]} \subseteq Incomplete)
  /\ \/ items' = items
     \/ intent[r] = "none" /\ \E batch : items' = [items EXCEPT ![r] = batch]

\* Such a step is a stutter of AtomicAssets.
LEMMA SteadyStutters ==
  ASSUME Shape, NEW r \in Requests, Steady(r)
  PROVE  UNCHANGED <<asset, Changing, Outcomes>>
<1>1. ASSUME NEW o \in Requests PROVE Outcome(o)' = Outcome(o) /\ Batch(o)' = Batch(o)
  <2>1. CASE o = r
    BY <2>1 DEF Steady, Outcome, Batch, Shape, TypeOK, Incomplete
  <2>2. CASE o # r
    BY <2>2 DEF Steady, Outcome, Batch, Shape, TypeOK
  <2> QED BY <2>1, <2>2
<1> QED BY <1>1, SameImage DEF Steady

\* Before the gate nothing is open yet.
LEMMA PreparationsStutter ==
  ASSUME Shape, Kept, NEW r \in Requests, Prepares(r)
  PROVE  UNCHANGED <<asset, Changing, Outcomes>>
<1>1. intent[r] = "none"
  BY DEF Prepares, Kept, Orderly, Recorded, IntentRecorded
<1>2. asset' = asset /\ intent' = intent /\ \E batch : items' = [items EXCEPT ![r] = batch]
  BY DEF Prepares
<1>3. intent = [intent EXCEPT ![r] = intent[r]] /\ "none" \in Intents
  BY DEF Shape, TypeOK, Intents
<1>4. Steady(r)
  BY <1>1, <1>2, <1>3 DEF Steady
<1> QED BY <1>4, SteadyStutters

\* No step of a request but these decides an operation.
LEMMA UndecidingSteps ==
  ASSUME Shape, Kept, NEW r \in Requests,
         \/ (Quarantining(r) /\ ~UndoDone(r)) \/ Purging(r)
         \/ (Completing(r) /\ ~Complete(r)) \/ (RollingBack(r) /\ ~MarkRolledBack(r))
         \/ Finishing(r) \/ TrashQuarantine(r) \/ RecoverFiles(r) \/ RecoverCompleted(r)
  PROVE  UNCHANGED <<asset, Changing, Outcomes>>
<1> SUFFICES Steady(r)
  BY SteadyStutters
<1> USE DEF Steady, Incomplete, Intents
<1>1. intent[r] \in Intents /\ intent = [intent EXCEPT ![r] = intent[r]]
  BY DEF Shape, TypeOK
<1>2. IntentRecorded
  BY DEF Kept, Orderly, Recorded
<1>3. CASE Quarantining(r) /\ ~UndoDone(r)
  BY <1>1, <1>2, <1>3 DEF Quarantining, StageBlob, StageFails, MarkStaged, MarkStagedFails, Undo,
       IntentRecorded
<1>4. CASE Purging(r)
  BY <1>1, <1>2, <1>4 DEF Purging, OpenSnapshot, Archive, SnapshotFails, MarkPending, Finalize,
     FinalizeFails, IntentRecorded
<1>5. CASE Completing(r) /\ ~Complete(r)
  BY <1>1, <1>2, <1>5 DEF Completing, CompleteFails, Discard, DiscardFails, Seal, IntentRecorded
<1>6. CASE RollingBack(r) /\ ~MarkRolledBack(r)
  BY <1>1, <1>6 DEF RollingBack, RestoreSnapshot, RestoreEntries, RestoreFails
<1>7. CASE Finishing(r)
  BY <1>1, <1>7 DEF Finishing, Settle, Abandon
<1>8. CASE TrashQuarantine(r) \/ RecoverFiles(r) \/ RecoverCompleted(r)
  BY <1>1, <1>8 DEF TrashQuarantine, RecoverFiles, RecoverCompleted
<1> HIDE DEF Steady
<1> QED BY <1>3, <1>4, <1>5, <1>6, <1>7, <1>8

\* Nor does a step that is not a request's.
LEMMA OtherSteps ==
  ASSUME \/ \E h \in Blobs : Reserve(h) \/ Reclaiming(h)
         \/ ListQuarantine \/ Crash \/ Resume \/ UNCHANGED vars
  PROVE  UNCHANGED <<asset, Changing, Outcomes>>
<1>1. asset' = asset /\ intent' = intent /\ items' = items
  BY DEF Reserve, Reclaiming, CountReferences, RemoveOrphan, ListQuarantine, Crash, Resume, vars
<1>2. ASSUME NEW o \in Requests PROVE Outcome(o)' = Outcome(o) /\ Batch(o)' = Batch(o)
  BY <1>1 DEF Outcome, Batch
<1> QED BY <1>1, <1>2, SameImage

\* A step that touches one operation changes its image alone.
LEMMA OneOperation ==
  ASSUME NEW r \in Requests, NEW batch, NEW x, Outcome(r)' = x, Batch(r)' = batch,
         \A o \in Requests \ {r} : Outcome(o)' = Outcome(o) /\ Batch(o)' = Batch(o)
  PROVE  /\ Outcomes' = [Outcomes EXCEPT ![r] = x]
         /\ Changing' = [Changing EXCEPT ![r] = Change(batch)]
<1>1. Changing' = [o \in Requests |-> Change(Batch(o)')] /\ Outcomes' = [o \in Requests |-> Outcome(o)']
  BY DEF Changing, Outcomes, Change
<1> HIDE DEF Batch, Outcome
<1> QED BY <1>1 DEF Changing, Outcomes

\* The step that takes the gate opens its operation.
LEMMA StartsOpens ==
  ASSUME Shape, Shape', Kept, NEW r \in Requests, Starts(r)
  PROVE  Atomic!Open(r)
<1>1. PICK batch : Begin(r, batch)
  BY DEF Starts
<1>2. intent[r] = "none"
  BY DEF Starts, Before, Kept, Orderly, Recorded, IntentRecorded
<1>3. intent' = [intent EXCEPT ![r] = "prepared"] /\ items' = [items EXCEPT ![r] = batch] /\ asset' = asset
  BY <1>1 DEF Begin
<1>4. batch \in SUBSET Item
  BY <1>3 DEF Shape, TypeOK
<1>5. Outcome(r) = "none" /\ Outcome(r)' = "open" /\ Batch(r)' = batch
  BY <1>2, <1>3 DEF Outcome, Batch, Shape, TypeOK
<1>6. \A o \in Requests \ {r} : Outcome(o)' = Outcome(o) /\ Batch(o)' = Batch(o)
  BY <1>3 DEF Outcome, Batch, Shape, TypeOK
<1>7. Outcomes' = [Outcomes EXCEPT ![r] = "open"] /\ Changing' = [Changing EXCEPT ![r] = Change(batch)]
  BY <1>5, <1>6, OneOperation
<1>8. Outcomes[r] = "none"
  BY <1>5 DEF Outcomes
<1>9. Change(batch) \in Atomic!Changes
  BY <1>4, ChangeTyped
<1> QED BY <1>3, <1>7, <1>8, <1>9 DEF Atomic!Open, Changing, Outcomes, Batch, Outcome

\* The commit applies its operation.
LEMMA CompleteApplies ==
  ASSUME Shape, Kept, NEW r \in Requests, Complete(r)
  PROVE  Atomic!Apply(r)
<1> DEFINE c == Change(items[r])
<1>1. intent[r] = "staged"
  BY DEF Complete, Kept, Orderly, Recorded, IntentRecorded
<1>2. intent' = [intent EXCEPT ![r] = "completed"] /\ items' = items /\ asset' = Applied(items[r])
  BY DEF Complete
<1>3. Outcome(r) = "open" /\ Outcome(r)' = "applied" /\ Batch(r)' = Batch(r) /\ Batch(r) = items[r]
  BY <1>1, <1>2 DEF Outcome, Batch, Shape, TypeOK
<1>4. \A o \in Requests \ {r} : Outcome(o)' = Outcome(o) /\ Batch(o)' = Batch(o)
  BY <1>2 DEF Outcome, Batch, Shape, TypeOK
<1>5. Outcomes' = [Outcomes EXCEPT ![r] = "applied"] /\ Changing' = [Changing EXCEPT ![r] = c]
  BY <1>3, <1>4, OneOperation
<1>6. Outcomes[r] = "open" /\ Changing[r] = c
  BY <1>3 DEF Outcomes, Changing
<1>7. Changing' = Changing
  BY <1>5, <1>6 DEF Changing
<1>8. /\ \A p \in DOMAIN c.leaves : asset[p] = c.expects[p]
      /\ asset' = [p \in Paths |-> IF p \in DOMAIN c.leaves THEN c.leaves[p] ELSE asset[p]]
  BY <1>2, FormOfBatch, AppliedIsChange DEF Complete, Kept, Orderly, Shape
<1> HIDE DEF c
<1> QED BY <1>5, <1>6, <1>7, <1>8 DEF Atomic!Apply, Changing, Outcomes, Batch, Outcome

\* The steps that mark an operation as rolled back reject it.
LEMMA RejectingSteps ==
  ASSUME Shape, Kept, NEW r \in Requests, UndoDone(r) \/ MarkRolledBack(r) \/ RecoverRows(r)
  PROVE  Atomic!Reject(r)
<1>1. intent[r] \in Incomplete
  BY ConstantsAssumption
     DEF UndoDone, MarkRolledBack, RecoverRows, Kept, Orderly, Recorded, IntentRecorded, GateHeld,
          Incomplete
<1>2. intent' = [intent EXCEPT ![r] = "rolled_back"] /\ items' = items /\ asset' = asset
  BY DEF UndoDone, MarkRolledBack, RecoverRows
<1>3. Outcome(r) = "open" /\ Outcome(r)' = "rejected" /\ Batch(r)' = Batch(r)
  BY <1>1, <1>2 DEF Outcome, Batch, Shape, TypeOK, Incomplete
<1>4. \A o \in Requests \ {r} : Outcome(o)' = Outcome(o) /\ Batch(o)' = Batch(o)
  BY <1>2 DEF Outcome, Batch, Shape, TypeOK
<1>5. Outcomes' = [Outcomes EXCEPT ![r] = "rejected"] /\ Changing' = [Changing EXCEPT ![r] = Change(Batch(r))]
  BY <1>3, <1>4, OneOperation
<1>6. Outcomes[r] = "open" /\ Changing' = Changing
  BY <1>3, <1>5 DEF Outcomes, Changing
<1> QED BY <1>2, <1>5, <1>6 DEF Atomic!Reject, Changing, Outcomes, Batch, Outcome

\* Every step is one of AtomicAssets, or none of its business.
LEMMA StepsMap ==
  ASSUME Shape, Shape', Kept, [Next]_vars
  PROVE  (\E r \in Requests : Atomic!Open(r) \/ Atomic!Apply(r) \/ Atomic!Reject(r))
         \/ UNCHANGED <<asset, Changing, Outcomes>>
<1>1. ASSUME NEW r \in Requests, Submit(r) \/ Staging(r)
      PROVE  Atomic!Open(r) \/ UNCHANGED <<asset, Changing, Outcomes>>
  <2>1. CASE Starts(r)
    BY <2>1, StartsOpens
  <2>2. CASE Prepares(r)
    BY <2>2, PreparationsStutter
  <2> QED BY <1>1, <2>1, <2>2, Openings
<1>2. ASSUME NEW r \in Requests,
             \/ Quarantining(r) \/ Purging(r) \/ Completing(r) \/ RollingBack(r)
             \/ Finishing(r) \/ TrashQuarantine(r) \/ Recovering(r)
      PROVE  Atomic!Apply(r) \/ Atomic!Reject(r) \/ UNCHANGED <<asset, Changing, Outcomes>>
  BY <1>2, CompleteApplies, RejectingSteps, UndecidingSteps DEF Recovering
<1>3. CASE \/ \E h \in Blobs : Reserve(h) \/ Reclaiming(h)
           \/ ListQuarantine \/ Crash \/ Resume \/ UNCHANGED vars
  BY <1>3, OtherSteps
<1> QED BY <1>1, <1>2, <1>3 DEF Next, Continue

\* Whatever fails or crashes, an operation is applied at most once, whole, over
\* the images it read, and one that was rolled back never shows.
THEOREM RowsChangeAtomically == Spec => AppliedAtomically
<1>1. Init => Atomic!Init
  <2> SUFFICES ASSUME Init PROVE Atomic!Init
    OBVIOUS
  <2>1. Changing = [r \in Requests |-> Atomic!Nothing] /\ Outcomes = [r \in Requests |-> "none"]
    BY NoChange DEF Init, Changing, Outcomes, Batch, Outcome
  <2> QED BY <2>1 DEF Init, Atomic!Init, Changing, Outcomes, Batch, Outcome
<1>2. Shape /\ Shape' /\ Kept /\ [Next]_vars => [Atomic!Next]_(Atomic!vars)
  <2> SUFFICES ASSUME Shape, Shape', Kept, [Next]_vars PROVE [Atomic!Next]_(Atomic!vars)
    OBVIOUS
  <2>1. Atomic!Next \/ UNCHANGED <<asset, Changing, Outcomes>>
    BY StepsMap DEF Atomic!Next
  <2>2. UNCHANGED <<asset, Changing, Outcomes>> => UNCHANGED Atomic!vars
    BY DEF Atomic!vars, Changing, Outcomes, Batch, Outcome
  <2> QED BY <2>1, <2>2
<1> QED BY <1>1, <1>2, KeptInvariant, PTL DEF Spec, AppliedAtomically, Atomic!Spec
=============================================================================
