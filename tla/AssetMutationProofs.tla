------------------------ MODULE AssetMutationProofs ------------------------
(***************************************************************************)
(* What AssetMutation keeps for every number of requests, paths and        *)
(* blobs: its types, the accounting of staged references, and the safety   *)
(* of an unlink that runs after the gate has been given back.              *)
(*                                                                         *)
(* The argument has three layers, each inductive relative to the one       *)
(* before.  Shape ties the kind of a request to what it stages.            *)
(* HoldAccounting then says that the count of a hash is the number of      *)
(* requests that hold it.  A reservation starts at count zero and blocks   *)
(* new uploads, so nobody holds a reserved hash, and a commit can refer to *)
(* nothing new except what its request holds or what a row already names.  *)
(***************************************************************************)
EXTENDS AssetMutation, FiniteSetTheorems, TLAPS

USE DEF rowVars, fileVars, opVars, memVars, reqVars, envVars, At, Goto, Unlock

-----------------------------------------------------------------------------
(* Types.                                                                  *)

\* The kinds of request that stage a blob.
StagingKinds == {"put", "publish", "rewrite"}

\* What a request stages and what its batch may refer to, by its kind.
RequestShape ==
  \A r \in Requests :
    /\ pc[r] = "idle" <=> kind[r] = "none"
    /\ pc[r] \in {"store", "landing", "plan"} => kind[r] \in StagingKinds
    /\ IF kind[r] \in StagingKinds THEN up[r] \in Blobs ELSE up[r] = NoBlob
    /\ kind[r] = "move" => items[r] # {} /\ \A i \in items[r] : i.after \in Blobs
    /\ \A i \in items[r] : \/ i.after = NoBlob
                           \/ i.after = up[r]
                           \/ kind[r] = "move" /\ i.after = i.before

\* TypeOK alone is not inductive: Land stores up[r], which must be a blob.
Shape == TypeOK /\ RequestShape

\* The initial states have the shape.
LEMMA ShapeInit == Init => Shape
BY ConstantsAssumption
   DEF Init, Shape, TypeOK, RequestShape, StagingKinds, Image, Intents, Rows, Steps,
       AllKinds, NoSnapshot, References

\* Reading the before images anew gives items with the same after images.
LEMMA ReadBefore ==
  ASSUME TypeOK, NEW batch \in SUBSET Item
  PROVE  LET new == {[i EXCEPT !.before = asset[i.path]] : i \in batch}
         IN  /\ new \in SUBSET Item
             /\ \A j \in new : \E i \in batch : j.after = i.after
<1> SUFFICES ASSUME NEW i \in Item
             PROVE  /\ [i EXCEPT !.before = asset[i.path]] \in Item
                    /\ [i EXCEPT !.before = asset[i.path]].after = i.after
  OBVIOUS
<1> i.path \in Paths /\ asset[i.path] \in Image
  BY DEF TypeOK, Item
<1> QED BY DEF Item

\* The before image of a publish is read from the rows.
LEMMA PlanPublishShape ==
  ASSUME Shape, NEW r \in Requests, PlanPublish(r)
  PROVE Shape'
<1> DEFINE new == {[i EXCEPT !.before = asset[i.path]] : i \in items[r]}
<1>1. /\ new \in SUBSET Item
      /\ \A i \in new : i.after = NoBlob \/ i.after = up[r]
  <2> items[r] \in SUBSET Item
    BY DEF Shape, TypeOK
  <2>1. \A i \in items[r] : i.after = NoBlob \/ i.after = up[r]
    BY DEF Shape, RequestShape, StagingKinds, PlanPublish
  <2> QED BY <2>1, ReadBefore DEF Shape
<1>2. items' = [items EXCEPT ![r] = new]
  BY DEF PlanPublish
<1> HIDE DEF new
<1>3. TypeOK'
  BY <1>1, <1>2, ConstantsAssumption DEF Shape, TypeOK, PlanPublish, Steps
<1>4. RequestShape'
  BY <1>1, <1>2, ConstantsAssumption DEF Shape, TypeOK, RequestShape, StagingKinds, PlanPublish, Steps
<1> QED BY <1>3, <1>4 DEF Shape

\* A move carries the image it reads to its target.
LEMMA PlanMoveShape ==
  ASSUME Shape, NEW r \in Requests, NEW p \in Paths, NEW q \in Paths, PlanMove(r, p, q)
  PROVE Shape'
<1> DEFINE it == [path |-> p, before |-> asset[p], to |-> q, after |-> asset[p]]
<1>1. it \in Item /\ it.after \in Blobs /\ it.after = it.before
  BY DEF Shape, TypeOK, PlanMove, Image, Item
<1>2. items' = [items EXCEPT ![r] = {it}]
  BY DEF PlanMove
<1> HIDE DEF it
<1>3. TypeOK'
  BY <1>1, <1>2, ConstantsAssumption DEF Shape, TypeOK, PlanMove, Steps, AllKinds
<1>4. RequestShape'
  BY <1>1, <1>2, ConstantsAssumption DEF Shape, TypeOK, RequestShape, StagingKinds, PlanMove, Steps, AllKinds
<1> QED BY <1>3, <1>4 DEF Shape

\* The batch keeps its targets when a put reads its before image.
LEMMA BeginPlannedShape ==
  ASSUME Shape, NEW r \in Requests, BeginPlanned(r)
  PROVE Shape'
<1> DEFINE new == IF kind[r] = "put" THEN {[i EXCEPT !.before = asset[i.path]] : i \in items[r]}
                  ELSE items[r]
<1>1. /\ new \in SUBSET Item
      /\ kind[r] = "move" => new # {} /\ \A i \in new : i.after \in Blobs
      /\ \A i \in new : i.after = NoBlob \/ i.after = up[r] \/ (kind[r] = "move" /\ i.after = i.before)
  <2>1. items[r] \in SUBSET Item
    BY DEF Shape, TypeOK
  <2>2. CASE kind[r] = "put"
    <3>1. \A i \in items[r] : i.after = NoBlob \/ i.after = up[r]
      BY <2>2 DEF Shape, RequestShape
    <3>2. /\ new \in SUBSET Item
          /\ \A j \in new : \E i \in items[r] : j.after = i.after
      BY <2>1, <2>2, ReadBefore DEF Shape
    <3> HIDE DEF new
    <3> QED BY <2>2, <3>1, <3>2
  <2>3. CASE kind[r] # "put"
    <3>1. new = items[r]
      BY <2>3
    <3> HIDE DEF new
    <3> QED BY <2>1, <3>1 DEF Shape, RequestShape
  <2> QED BY <2>2, <2>3
<1>2. Begin(r, new)
  BY DEF BeginPlanned
<1> HIDE DEF new
<1>3. TypeOK'
  BY <1>1, <1>2, ConstantsAssumption DEF Shape, TypeOK, BeginPlanned, Begin, Steps, Intents, Unreferenced
<1>4. RequestShape'
  BY <1>1, <1>2, ConstantsAssumption DEF Shape, TypeOK, RequestShape, StagingKinds, BeginPlanned, Begin, Steps
<1> QED BY <1>3, <1>4 DEF Shape

\* A snapshot that is being written holds hashes.
LEMMA ArchiveShape ==
  ASSUME Shape, NEW r \in Requests, NEW h \in Blobs, Archive(r, h)
  PROVE Shape'
<1>1. Archived(r) \cup {h} \in (SUBSET Blobs) \cup {NoSnapshot}
  BY DEF Shape, TypeOK, Archived
<1>2. TypeOK'
  BY <1>1 DEF Shape, TypeOK, Archive, Steps
<1>3. RequestShape'
  BY DEF Shape, TypeOK, RequestShape, StagingKinds, Archive, Steps
<1> QED BY <1>2, <1>3 DEF Shape

\* The rows after a commit hold images.
LEMMA CompleteShape ==
  ASSUME Shape, NEW r \in Requests, Complete(r)
  PROVE Shape'
<1>1. Applied(items[r]) \in [Paths -> Image]
  <2> SUFFICES ASSUME NEW p \in Paths PROVE Applied(items[r])[p] \in Image
    BY DEF Applied
  <2>1. \A i \in items[r] : i.after \in Image
    BY DEF Shape, TypeOK, Item
  <2>2. asset[p] \in Image /\ NoBlob \in Image
    BY DEF Shape, TypeOK, Image
  <2> QED BY <2>1, <2>2 DEF Applied
<1>2. TypeOK'
  BY <1>1, ConstantsAssumption DEF Shape, TypeOK, Complete, Steps, Intents
<1>3. RequestShape'
  BY DEF Shape, TypeOK, RequestShape, StagingKinds, Complete, Steps
<1> QED BY <1>2, <1>3 DEF Shape

\* Recovery puts back hashes, or gives up.
LEMMA RecoverFilesShape ==
  ASSUME Shape, NEW r \in Requests, RecoverFiles(r)
  PROVE Shape'
<1>1. PendingRows(r) \subseteq Blobs /\ Archived(r) \subseteq Blobs
  BY DEF Shape, TypeOK, PendingRows, Archived
<1> HIDE DEF rowVars, fileVars, opVars, memVars, reqVars, envVars
<1> DEFINE back == IF snapshot[r] # NoSnapshot THEN Archived(r) ELSE IF PendingRows(r) \subseteq quarantine[r] \cup active THEN PendingRows(r) ELSE {}
<1>2. gate' = r /\ (active' = active \/ active' = active \cup back) 
      /\ (quarantine' = quarantine \/ quarantine' = [quarantine EXCEPT ![r] = @ \ back])
      /\ (mode' = mode \/ mode' = "failed")
      /\ UNCHANGED <<rowVars, snapshot, torn, todo, entries, memVars, pc, reqVars, crashes, exposed>>
  BY DEF RecoverFiles
<1>3. TypeOK'
  BY <1>1, <1>2 DEF Shape, TypeOK, rowVars, memVars, reqVars
<1>4. RequestShape'
  BY <1>2 DEF Shape, RequestShape, reqVars
<1> QED BY <1>3, <1>4 DEF Shape

\* Recovery marks the rows of a completed operation.
LEMMA RecoverCompletedShape ==
  ASSUME Shape, NEW r \in Requests, RecoverCompleted(r)
  PROVE Shape'
<1> DEFINE marked == [h \in Blobs |-> IF row[r][h] = "none" THEN "none" ELSE "deleted"]
<1>1. marked \in [Blobs -> Rows]
  BY DEF Rows
<1>2. row' = row \/ row' = [row EXCEPT ![r] = marked]
  BY DEF RecoverCompleted
<1> HIDE DEF marked
<1>3. TypeOK'
  BY <1>1, <1>2 DEF Shape, TypeOK, RecoverCompleted
<1>4. RequestShape'
  BY DEF Shape, RequestShape, RecoverCompleted
<1> QED BY <1>3, <1>4 DEF Shape

\* A release is of the blob that the request staged, or of one that a move names.
LEMMA ReleasedIsBlob ==
  ASSUME Shape, NEW r \in Requests,
         pc[r] \in {"settled", "failed"}, kind[r] \notin {"delete", "prune"}
  PROVE  \/ up[r] \in Blobs /\ ReleasedBlob(r) = up[r]
         \/ up[r] = NoBlob /\ ReleasedBlob(r) \in Blobs
<1>1. kind[r] \in StagingKinds \/ kind[r] = "move"
  BY DEF Shape, TypeOK, RequestShape, StagingKinds, AllKinds
<1>2. CASE kind[r] \in StagingKinds
  BY <1>2 DEF Shape, RequestShape, StagingKinds, ReleasedBlob
<1>3. CASE kind[r] = "move"
  <2>1. up[r] = NoBlob /\ items[r] # {} /\ \A i \in items[r] : i.after \in Blobs
    BY <1>3 DEF Shape, RequestShape, StagingKinds
  <2>2. (CHOOSE i \in items[r] : TRUE) \in items[r]
    BY <2>1
  <2> QED BY <1>3, <2>1, <2>2 DEF ReleasedBlob
<1> QED BY <1>1, <1>2, <1>3

\* Whatever is released, counts stay natural numbers and only blobs are exposed.
LEMMA ReleaseTyped ==
  ASSUME Shape, NEW r \in Requests, NEW n \in {1, 2},
         pc[r] \in {"settled", "failed"}, kind[r] \notin {"delete", "prune"}, Release(r, n)
  PROVE  held' \in [Blobs -> Nat] /\ exposed' \subseteq Blobs
<1>1. PICK h \in Blobs : h = ReleasedBlob(r)
  BY ReleasedIsBlob
<1>2. held' = [held EXCEPT ![h] = IF @ > n THEN @ - n ELSE 0]
  BY <1>1 DEF Release
<1>3. exposed' \subseteq exposed \cup {h}
  BY <1>1 DEF Release
<1> QED BY <1>2, <1>3 DEF Shape, TypeOK

\* The end of a request keeps the shape.
LEMMA FinishingShape ==
  ASSUME Shape, NEW r \in Requests, Finishing(r)
  PROVE  Shape'
<1>1. held' \in [Blobs -> Nat] /\ exposed' \subseteq Blobs
  <2>1. CASE kind[r] \in {"delete", "prune"}
    BY <2>1 DEF Finishing, Settle, Abandon, ReleasesNothing, Shape, TypeOK
  <2>2. CASE kind[r] \notin {"delete", "prune"}
    BY <2>2, ReleaseTyped DEF Finishing, Settle, Abandon
  <2> QED BY <2>1, <2>2
<1>2. /\ pc[r] # "idle" /\ pc' = [pc EXCEPT ![r] = "done"]
      /\ UNCHANGED <<rowVars, fileVars, opVars, reclaim, listed, reqVars, mode, crashes>>
  BY DEF Finishing, Settle, Abandon
<1>3. TypeOK'
  BY <1>1, <1>2 DEF Shape, TypeOK, Steps
<1>4. RequestShape'
  BY <1>2 DEF Shape, TypeOK, RequestShape
<1> QED BY <1>3, <1>4 DEF Shape

\* Every step keeps the shape.
LEMMA ShapeStep ==
  ASSUME Shape, [Next]_vars
  PROVE  Shape'
<1> USE ConstantsAssumption DEF Shape, TypeOK, RequestShape, StagingKinds, Steps
<1>1. ASSUME NEW r \in Requests, NEW k \in {"put", "publish"}, NEW p \in Paths, NEW h \in Blobs,
             Upload(r, k, p, h)
      PROVE  Shape'
  BY <1>1 DEF Upload, AcquireStaged, Overwrite, Image, Item, AllKinds
<1>2. ASSUME NEW r \in Requests, NEW below \in SUBSET Paths, PlanPrune(r, below)
      PROVE  Shape'
  BY <1>2 DEF PlanPrune, Overwrite, Image, Item, AllKinds
<1>3. ASSUME NEW r \in Requests, NEW p \in Paths, NEW m \in Paths, NEW h \in Blobs,
             PlanRewrite(r, p, m, h)
      PROVE  Shape'
  BY <1>3 DEF PlanRewrite, Overwrite, Image, Item, AllKinds
<1>4. ASSUME NEW r \in Requests, NEW p \in Paths, NEW q \in Paths, PlanMove(r, p, q)
      PROVE  Shape'
  BY <1>4, PlanMoveShape
<1>5. ASSUME NEW r \in Requests, NEW p \in Paths, BeginDelete(r, p)
      PROVE  Shape'
  BY <1>5 DEF BeginDelete, Begin, Overwrite, Image, Item, AllKinds, Intents, Unreferenced
<1>6. ASSUME NEW r \in Requests, Land(r)
      PROVE  Shape'
  BY <1>6 DEF Land
<1>7. ASSUME NEW r \in Requests, PlanPublish(r)
      PROVE  Shape'
  BY <1>7, PlanPublishShape
<1>8. ASSUME NEW r \in Requests, StorePlanned(r)
      PROVE  Shape'
  BY <1>8 DEF StorePlanned, AcquireStaged
<1>9. ASSUME NEW r \in Requests, PlanFails(r)
      PROVE  Shape'
  BY <1>9 DEF PlanFails
<1>10. ASSUME NEW r \in Requests, BeginPlanned(r)
       PROVE  Shape'
  BY <1>10, BeginPlannedShape
<1>11. ASSUME NEW r \in Requests, NEW h \in Blobs, StageBlob(r, h)
       PROVE  Shape'
  BY <1>11 DEF StageBlob
<1>12. ASSUME NEW r \in Requests, StageFails(r)
       PROVE  Shape'
  BY <1>12 DEF StageFails, Intents
<1>13. ASSUME NEW r \in Requests, MarkStaged(r)
       PROVE  Shape'
  BY <1>13 DEF MarkStaged, Intents, Rows
<1>14. ASSUME NEW r \in Requests, MarkStagedFails(r)
       PROVE  Shape'
  BY <1>14 DEF MarkStagedFails
<1>15. ASSUME NEW r \in Requests, NEW h \in Blobs, Undo(r, h)
       PROVE  Shape'
  BY <1>15 DEF Undo
<1>16. ASSUME NEW r \in Requests, UndoDone(r)
       PROVE  Shape'
  BY <1>16 DEF UndoDone, Intents
<1>17. ASSUME NEW r \in Requests, OpenSnapshot(r)
       PROVE  Shape'
  BY <1>17 DEF OpenSnapshot
<1>18. ASSUME NEW r \in Requests, NEW h \in Blobs, Archive(r, h)
       PROVE  Shape'
  BY <1>18, ArchiveShape
<1>19. ASSUME NEW r \in Requests, SnapshotFails(r)
       PROVE  Shape'
  BY <1>19 DEF SnapshotFails, Intents
<1>20. ASSUME NEW r \in Requests, NEW h \in Blobs, MarkPending(r, h)
       PROVE  Shape'
  BY <1>20 DEF MarkPending, Rows
<1>21. ASSUME NEW r \in Requests, NEW h \in Blobs, Finalize(r, h)
       PROVE  Shape'
  BY <1>21 DEF Finalize
<1>22. ASSUME NEW r \in Requests, FinalizeFails(r)
       PROVE  Shape'
  BY <1>22 DEF FinalizeFails, Intents
<1>23. ASSUME NEW r \in Requests, Complete(r)
       PROVE  Shape'
  BY <1>23, CompleteShape
<1>24. ASSUME NEW r \in Requests, CompleteFails(r)
       PROVE  Shape'
  BY <1>24 DEF CompleteFails, Intents
<1>25. ASSUME NEW r \in Requests, Discard(r)
       PROVE  Shape'
  BY <1>25 DEF Discard
<1>26. ASSUME NEW r \in Requests, DiscardFails(r)
       PROVE  Shape'
  BY <1>26 DEF DiscardFails, Rows
<1>27. ASSUME NEW r \in Requests, Seal(r)
       PROVE  Shape'
  BY <1>27 DEF Seal, Rows
<1>28. ASSUME NEW r \in Requests, RestoreSnapshot(r)
       PROVE  Shape'
  BY <1>28 DEF RestoreSnapshot, Archived
<1>29. ASSUME NEW r \in Requests, RestoreEntries(r)
       PROVE  Shape'
  BY <1>29 DEF RestoreEntries
<1>30. ASSUME NEW r \in Requests, RestoreFails(r)
       PROVE  Shape'
  BY <1>30 DEF RestoreFails
<1>31. ASSUME NEW r \in Requests, MarkRolledBack(r)
       PROVE  Shape'
  BY <1>31 DEF MarkRolledBack, Rows, Intents
<1>32. ASSUME NEW r \in Requests, Finishing(r)
       PROVE  Shape'
  BY <1>32, FinishingShape
<1>33. ASSUME NEW r \in Requests, TrashQuarantine(r)
       PROVE  Shape'
  BY <1>33 DEF TrashQuarantine, Archived
<1>34. ASSUME NEW r \in Requests, RecoverFiles(r)
       PROVE  Shape'
  BY <1>34, RecoverFilesShape
<1>35. ASSUME NEW r \in Requests, RecoverRows(r)
       PROVE  Shape'
  BY <1>35 DEF RecoverRows, PendingRows, Rows, Intents
<1>36. ASSUME NEW r \in Requests, RecoverCompleted(r)
       PROVE  Shape'
  BY <1>36, RecoverCompletedShape
<1>37. ASSUME NEW h \in Blobs, Reserve(h)
       PROVE  Shape'
  BY <1>37 DEF Reserve
<1>38. ASSUME NEW h \in Blobs, CountReferences(h)
       PROVE  Shape'
  BY <1>38 DEF CountReferences
<1>39. ASSUME NEW h \in Blobs, RemoveOrphan(h)
       PROVE  Shape'
  BY <1>39 DEF RemoveOrphan
<1>40. CASE ListQuarantine
  BY <1>40 DEF ListQuarantine
<1>41. CASE Crash
  BY <1>41 DEF Crash, Unrecorded
<1>42. CASE Resume
  BY <1>42 DEF Resume
<1>43. CASE UNCHANGED vars
  BY <1>43 DEF vars
<1> HIDE DEF Shape, TypeOK, RequestShape
<1> QED BY <1>1, <1>2, <1>3, <1>4, <1>5, <1>6, <1>7, <1>8, <1>9, <1>10, <1>11,
           <1>12, <1>13, <1>14, <1>15, <1>16, <1>17, <1>18, <1>19, <1>20, <1>21,
           <1>22, <1>23, <1>24, <1>25, <1>26, <1>27, <1>28, <1>29, <1>30, <1>31,
           <1>32, <1>33, <1>34, <1>35, <1>36, <1>37, <1>38, <1>39, <1>40,
           <1>41, <1>42, <1>43
        DEF Next, Submit, Continue, Staging, Quarantining, Purging, Completing, RollingBack,
            Reclaiming, Recovering

\* Every variable keeps its type, for every value of the constants.
THEOREM TypeCorrect == Spec => []TypeOK
<1>1. Init => Shape
  BY ShapeInit
<1>2. Shape /\ [Next]_vars => Shape'
  BY ShapeStep
<1>3. Shape => TypeOK
  BY DEF Shape
<1> QED BY <1>1, <1>2, <1>3, PTL DEF Spec

-----------------------------------------------------------------------------
(* Staged references.                                                      *)

\* A hash that is reserved for removal has no staged reference.
Reserved == \A h \in Blobs : reclaim[h] # "no" => held[h] = 0

Accounts == HoldAccounting /\ Reserved /\ OrphanStaysOrphan

\* No count and no reservation changes, nor does the set of holders of a blob.
KeepsHolders ==
  /\ held' = held /\ reclaim' = reclaim
  /\ exposed \subseteq exposed'
  /\ \A h \in Blobs \ exposed' : Holders(h)' = Holders(h)

\* The steps of a request, and of its recovery, that neither stage nor release.
Quiet(r) ==
  \/ \E below \in SUBSET Paths : PlanPrune(r, below)
  \/ \E p, m \in Paths, h \in Blobs : PlanRewrite(r, p, m, h)
  \/ \E p, q \in Paths : PlanMove(r, p, q)
  \/ \E p \in Paths : BeginDelete(r, p)
  \/ Land(r) \/ PlanPublish(r) \/ PlanFails(r) \/ BeginPlanned(r)
  \/ Quarantining(r) \/ Purging(r) \/ Completing(r) \/ RollingBack(r)
  \/ TrashQuarantine(r) \/ Recovering(r)

\* Quiet steps keep holders, counts and reservations.
LEMMA QuietSteps ==
  ASSUME Shape, NEW r \in Requests, Quiet(r)
  PROVE  KeepsHolders
<1> USE DEF KeepsHolders, HoldingSteps, Steps
<1>1. ASSUME NEW below \in SUBSET Paths, PlanPrune(r, below) PROVE KeepsHolders
  BY <1>1, ConstantsAssumption DEF PlanPrune, Shape, TypeOK, RequestShape, StagingKinds, Holders
<1>2. ASSUME NEW p \in Paths, NEW m \in Paths, NEW h \in Blobs, PlanRewrite(r, p, m, h) PROVE KeepsHolders
  BY <1>2, ConstantsAssumption DEF PlanRewrite, Shape, TypeOK, RequestShape, StagingKinds, Holders
<1>3. ASSUME NEW p \in Paths, NEW q \in Paths, PlanMove(r, p, q) PROVE KeepsHolders
  <2>1. /\ pc[r] = "idle" /\ pc' = [pc EXCEPT ![r] = "ready"]
        /\ UNCHANGED <<up, held, reclaim, exposed>>
    BY <1>3 DEF PlanMove
  <2>2. up[r] \notin Blobs
    BY <2>1, ConstantsAssumption DEF Shape, RequestShape, StagingKinds
  <2>3. \A h \in Blobs : Holders(h)' = Holders(h)
    BY <2>1, <2>2 DEF Shape, TypeOK, Holders
  <2> QED BY <2>1, <2>3
<1>4. ASSUME NEW p \in Paths, BeginDelete(r, p) PROVE KeepsHolders
  BY <1>4, ConstantsAssumption DEF BeginDelete, Begin, Shape, TypeOK, RequestShape, StagingKinds, Holders
<1>5. CASE PlanFails(r)
  BY <1>5, ConstantsAssumption DEF PlanFails, Shape, TypeOK, RequestShape, StagingKinds, Holders
<1>6. CASE Land(r) \/ PlanPublish(r) \/ BeginPlanned(r)
  BY <1>6, ConstantsAssumption DEF Land, PlanPublish, BeginPlanned, Begin, Shape, TypeOK, Holders
<1>7. CASE Quarantining(r)
  BY <1>7, ConstantsAssumption DEF Quarantining, StageBlob, StageFails, MarkStaged, MarkStagedFails, Undo, UndoDone, Shape, TypeOK, Holders
<1>8. CASE Purging(r)
  BY <1>8, ConstantsAssumption DEF Purging, OpenSnapshot, Archive, SnapshotFails, MarkPending, Finalize, FinalizeFails, Shape, TypeOK, Holders
<1>9. CASE Completing(r)
  BY <1>9, ConstantsAssumption DEF Completing, Complete, CompleteFails, Discard, DiscardFails, Seal, Shape, TypeOK, Holders
<1>10. CASE RollingBack(r)
  BY <1>10, ConstantsAssumption DEF RollingBack, RestoreSnapshot, RestoreEntries, RestoreFails, MarkRolledBack, Shape, TypeOK, Holders
<1>11. CASE TrashQuarantine(r)
  BY <1>11 DEF TrashQuarantine, Holders
<1>12. CASE Recovering(r)
  BY <1>12 DEF Recovering, RecoverFiles, RecoverRows, RecoverCompleted, Holders
<1> QED BY <1>1, <1>2, <1>3, <1>4, <1>5, <1>6, <1>7, <1>8, <1>9, <1>10, <1>11, <1>12 DEF Quiet

\* The holders of a blob are finitely many.
LEMMA HoldersFinite ==
  \A h \in Blobs : IsFiniteSet(Holders(h)) /\ Cardinality(Holders(h)) \in Nat
BY ConstantsAssumption, FS_Subset, FS_CardinalityType DEF Holders

\* Staging adds one reference and one holder.
LEMMA Acquires ==
  ASSUME Shape, HoldAccounting, NEW r \in Requests, NEW h \in Blobs,
         pc[r] \in {"idle", "store"}, AcquireStaged(h),
         pc' = [pc EXCEPT ![r] = "landing"], up' = [up EXCEPT ![r] = h],
         UNCHANGED exposed
  PROVE  HoldAccounting'
<1> USE DEF HoldingSteps, Steps
<1>1. /\ r \notin Holders(h)
      /\ Holders(h)' = Holders(h) \cup {r}
      /\ \A g \in Blobs \ {h} : Holders(g)' = Holders(g)
  BY DEF Shape, TypeOK, Holders
<1>2. Cardinality(Holders(h)') = Cardinality(Holders(h)) + 1
  BY <1>1, HoldersFinite, FS_AddElement
<1>3. held' = [held EXCEPT ![h] = @ + 1]
  BY DEF AcquireStaged
<1> QED BY <1>1, <1>2, <1>3, HoldersFinite DEF HoldAccounting, Shape, TypeOK

\* A release takes away the reference of its request, or exposes the blob.
LEMMA Releases ==
  ASSUME Shape, HoldAccounting, NEW r \in Requests, NEW n \in {1, 2},
         pc[r] \in {"settled", "failed"}, kind[r] \notin {"delete", "prune"},
         Release(r, n), pc' = [pc EXCEPT ![r] = "done"], UNCHANGED up
  PROVE  HoldAccounting'
<1> USE DEF HoldingSteps, Steps
<1>1. PICK h \in Blobs : h = ReleasedBlob(r)
  BY ReleasedIsBlob
<1>2. /\ held' = [held EXCEPT ![h] = IF @ > n THEN @ - n ELSE 0]
      /\ exposed' = IF n > (IF up[r] = h THEN 1 ELSE 0) /\ Holders(h) \ {r} # {}
                    THEN exposed \cup {h} ELSE exposed
  BY <1>1 DEF Release
<1>3. /\ Holders(h)' = Holders(h) \ {r}
      /\ r \in Holders(h) <=> up[r] = h
  BY DEF Shape, TypeOK, Holders
<1>4. \A g \in Blobs \ {h} : up[r] # g
  BY <1>1, ReleasedIsBlob, ConstantsAssumption
<1>5. \A g \in Blobs \ {h} : Holders(g)' = Holders(g)
  BY <1>4 DEF Shape, TypeOK, Holders
<1>6. h \notin exposed' => held'[h] = Cardinality(Holders(h)')
  <2> SUFFICES ASSUME h \notin exposed' PROVE held'[h] = Cardinality(Holders(h)')
    OBVIOUS
  <2>1. held[h] = Cardinality(Holders(h)) /\ held[h] \in Nat
    BY <1>2 DEF HoldAccounting, Shape, TypeOK
  <2>2. held'[h] = IF held[h] > n THEN held[h] - n ELSE 0
    BY <1>1, <1>2 DEF Shape, TypeOK
  <2>3. CASE up[r] = h /\ n = 1
    <3>1. r \in Holders(h)
      BY <1>3, <2>3
    <3>2. Cardinality(Holders(h)') = Cardinality(Holders(h)) - 1
      BY <1>3, <3>1, HoldersFinite, FS_RemoveElement
    <3>3. Cardinality(Holders(h)) # 0
      BY <3>1, HoldersFinite, FS_EmptySet
    <3> QED BY <2>1, <2>2, <2>3, <3>2, <3>3
  <2>4. CASE ~(up[r] = h /\ n = 1)
    <3>1. Holders(h) \ {r} = {}
      BY <2>4, <1>2
    <3>2. Cardinality(Holders(h)') = 0 /\ Cardinality(Holders(h)) <= 1
      <4>1. Cardinality(Holders(h)') = 0
        BY <1>3, <3>1, FS_EmptySet
      <4>2. Cardinality(Holders(h) \ {r}) = 0
        BY <3>1, FS_EmptySet
      <4>3. Cardinality(Holders(h)) <= 1
        BY <4>2, HoldersFinite, FS_RemoveElement
      <4> QED BY <4>1, <4>3
    <3> QED BY <2>1, <2>2, <3>2
  <2> QED BY <2>3, <2>4
<1>7. \A g \in Blobs \ {h} : held'[g] = held[g] /\ (g \notin exposed' => g \notin exposed)
  BY <1>1, <1>2 DEF Shape, TypeOK
<1> QED BY <1>5, <1>6, <1>7 DEF HoldAccounting

\* Every step keeps the accounting.
LEMMA AccountingStep ==
  ASSUME Shape, HoldAccounting, [Next]_vars
  PROVE  HoldAccounting'
<1>1. ASSUME NEW r \in Requests, NEW k \in {"put", "publish"}, NEW p \in Paths, NEW h \in Blobs,
             Upload(r, k, p, h)
      PROVE  HoldAccounting'
  BY <1>1, Acquires DEF Upload
<1>2. ASSUME NEW r \in Requests, StorePlanned(r)
      PROVE  HoldAccounting'
  <2>1. up[r] \in Blobs /\ up = [up EXCEPT ![r] = up[r]]
    BY <1>2 DEF StorePlanned, Shape, TypeOK, RequestShape, StagingKinds
  <2> QED BY <1>2, <2>1, Acquires DEF StorePlanned
<1>3. ASSUME NEW r \in Requests, Settle(r) \/ Abandon(r)
      PROVE  HoldAccounting'
  <2>1. CASE kind[r] \in {"delete", "prune"}
    <3>1. up[r] \notin Blobs
      BY <2>1, ConstantsAssumption DEF Shape, RequestShape, StagingKinds
    <3>2. \A h \in Blobs : Holders(h)' = Holders(h)
      BY <1>3, <3>1 DEF Settle, Abandon, Shape, TypeOK, Holders
    <3> QED BY <1>3, <2>1, <3>2 DEF Settle, Abandon, ReleasesNothing, HoldAccounting
  <2>2. CASE kind[r] \notin {"delete", "prune"}
    <3>1. CASE Settle(r)
      BY <3>1, <2>2, Releases DEF Settle
    <3>2. CASE Abandon(r)
      BY <3>2, <2>2, Releases DEF Abandon
    <3> QED BY <1>3, <3>1, <3>2
  <2> QED BY <2>1, <2>2
<1>4. CASE Crash
  <2>1. \A h \in Blobs : Holders(h)' = {} /\ held'[h] = 0
    BY <1>4 DEF Crash, Shape, TypeOK, Holders, HoldingSteps, Steps
  <2> QED BY <2>1, FS_EmptySet DEF HoldAccounting
<1>5. ASSUME NEW r \in Requests, Quiet(r)
      PROVE  HoldAccounting'
  BY <1>5, QuietSteps DEF KeepsHolders, HoldAccounting
<1>6. CASE \/ \E h \in Blobs : Reserve(h) \/ Reclaiming(h)
           \/ ListQuarantine \/ Resume \/ UNCHANGED vars
  <2>1. UNCHANGED <<held, exposed, pc, up>>
    BY <1>6 DEF Reserve, Reclaiming, CountReferences, RemoveOrphan, ListQuarantine, Resume, vars
  <2> QED BY <2>1 DEF HoldAccounting, Holders
<1> QED BY <1>1, <1>2, <1>3, <1>4, <1>5, <1>6
        DEF Next, Submit, Continue, Staging, Finishing, Quiet

\* No staged reference to a reserved hash appears.
LEMMA ReservedStep ==
  ASSUME Shape, Reserved, [Next]_vars
  PROVE  Reserved'
<1>1. ASSUME NEW r \in Requests, NEW h \in Blobs, AcquireStaged(h), UNCHANGED reclaim
      PROVE  Reserved'
  BY <1>1 DEF AcquireStaged, Reserved, Shape, TypeOK
<1>2. ASSUME NEW r \in Requests, Settle(r) \/ Abandon(r)
      PROVE  Reserved'
  <2>1. CASE held' = held
    BY <1>2, <2>1 DEF Settle, Abandon, Reserved
  <2>2. ASSUME NEW n \in {1, 2}, Release(r, n), UNCHANGED reclaim
        PROVE  Reserved'
    BY <2>2 DEF Release, Reserved, Shape, TypeOK
  <2> QED BY <1>2, <2>1, <2>2 DEF Settle, Abandon, ReleasesNothing
<1>3. CASE Crash
  BY <1>3 DEF Crash, Reserved
<1>4. ASSUME NEW r \in Requests, Quiet(r)
      PROVE  Reserved'
  BY <1>4, QuietSteps DEF KeepsHolders, Reserved
<1>5. ASSUME NEW h \in Blobs, Reserve(h) \/ Reclaiming(h)
      PROVE  Reserved'
  BY <1>5 DEF Reserve, Reclaiming, CountReferences, RemoveOrphan, Reserved, Shape, TypeOK
<1>6. CASE ListQuarantine \/ Resume \/ UNCHANGED vars
  BY <1>6 DEF ListQuarantine, Resume, vars, Reserved
<1>7. ASSUME NEW r \in Requests, NEW k \in {"put", "publish"}, NEW p \in Paths, NEW h \in Blobs,
             Upload(r, k, p, h)
      PROVE  Reserved'
  BY <1>7, <1>1 DEF Upload
<1>8. ASSUME NEW r \in Requests, StorePlanned(r)
      PROVE  Reserved'
  BY <1>8, <1>1 DEF StorePlanned, Shape, TypeOK, RequestShape, StagingKinds
<1> QED BY <1>2, <1>3, <1>4, <1>5, <1>6, <1>7, <1>8
        DEF Next, Submit, Continue, Staging, Finishing, Quiet

\* Outside the exposed blobs an orphan has neither row nor holder.
LEMMA Untouched ==
  ASSUME Accounts, NEW h \in Blobs, reclaim[h] = "orphan", h \notin exposed
  PROVE  References(h) = {} /\ Holders(h) = {}
BY DEF Accounts, OrphanStaysOrphan

\* A commit refers to nothing new except what its request holds.
LEMMA CommitKeepsOrphans ==
  ASSUME Shape, NEW r \in Requests, Complete(r),
         NEW h \in Blobs, References(h) = {}, Holders(h) = {}
  PROVE  References(h)' = {}
<1> SUFFICES ASSUME NEW p \in Paths, Applied(items[r])[p] = h
             PROVE  FALSE
  BY DEF Complete, References
<1>1. h # NoBlob /\ asset[p] # h
  BY ConstantsAssumption DEF References
<1>2. PICK i \in items[r] : i.after = h
  BY <1>1 DEF Applied
<1>3. up[r] # h
  BY DEF Complete, Holders, HoldingSteps, Steps
<1>4. i.before = h
  BY <1>1, <1>2, <1>3 DEF Shape, RequestShape
<1>5. asset[i.path] = h /\ i.path \in Paths
  BY <1>4 DEF Complete, Matches, Shape, TypeOK, Item
<1> QED BY <1>5 DEF References

\* Between the count of its references and its unlink, an orphan stays one.
LEMMA OrphanStep ==
  ASSUME Shape, Accounts, [Next]_vars
  PROVE  OrphanStaysOrphan'
<1> SUFFICES ASSUME NEW h \in Blobs, reclaim'[h] = "orphan", h \notin exposed'
             PROVE  References(h)' = {} /\ Holders(h)' = {}
  BY DEF OrphanStaysOrphan
<1>1. ASSUME NEW r \in Requests, NEW g \in Blobs, AcquireStaged(g),
             pc' = [pc EXCEPT ![r] = "landing"], up' = [up EXCEPT ![r] = g],
             UNCHANGED <<reclaim, exposed, asset>>
      PROVE  References(h)' = {} /\ Holders(h)' = {}
  <2>1. h # g
    BY <1>1 DEF AcquireStaged
  <2> QED BY <1>1, <2>1, Untouched DEF References, Holders, Shape, TypeOK
<1>2. ASSUME NEW r \in Requests, Settle(r) \/ Abandon(r)
      PROVE  References(h)' = {} /\ Holders(h)' = {}
  <2>1. exposed \subseteq exposed'
    BY <1>2 DEF Settle, Abandon, Release, ReleasesNothing
  <2>2. pc' = [pc EXCEPT ![r] = "done"] /\ UNCHANGED <<up, asset, reclaim>>
    BY <1>2 DEF Settle, Abandon
  <2> QED BY <2>1, <2>2, Untouched DEF References, Holders, Shape, TypeOK, HoldingSteps
<1>3. CASE Crash
  BY <1>3 DEF Crash
<1>4. ASSUME NEW r \in Requests, Complete(r)
      PROVE  References(h)' = {} /\ Holders(h)' = {}
  <2>1. UNCHANGED <<reclaim, exposed>>
    BY <1>4 DEF Complete
  <2>2. KeepsHolders
    BY <1>4, QuietSteps DEF Quiet, Completing
  <2> QED BY <1>4, <2>1, <2>2, Untouched, CommitKeepsOrphans DEF KeepsHolders
<1>5. ASSUME NEW r \in Requests, Quiet(r), UNCHANGED asset
      PROVE  References(h)' = {} /\ Holders(h)' = {}
  BY <1>5, QuietSteps, Untouched DEF KeepsHolders, References
<1>6. ASSUME NEW g \in Blobs, Reserve(g) \/ Reclaiming(g)
      PROVE  References(h)' = {} /\ Holders(h)' = {}
  <2>1. UNCHANGED <<asset, pc, up, exposed>>
    BY <1>6 DEF Reserve, Reclaiming, CountReferences, RemoveOrphan
  <2>2. References(h)' = References(h) /\ Holders(h)' = Holders(h)
    BY <2>1 DEF References, Holders
  <2>3. CASE reclaim[h] = "orphan"
    BY <2>1, <2>2, <2>3, Untouched
  <2>4. CASE reclaim[h] # "orphan"
    <3>1. CountReferences(h) /\ References(h) = {}
      BY <1>6, <2>4 DEF Reserve, Reclaiming, CountReferences, RemoveOrphan, Shape, TypeOK
    <3>2. held[h] = 0
      BY <3>1 DEF CountReferences, Accounts, Reserved
    <3>3. Cardinality(Holders(h)) = 0
      BY <2>1, <3>2 DEF Accounts, HoldAccounting
    <3> QED BY <2>2, <3>1, <3>3, HoldersFinite, FS_EmptySet
  <2> QED BY <2>3, <2>4
<1>7. CASE ListQuarantine \/ Resume \/ UNCHANGED vars
  BY <1>7, Untouched DEF ListQuarantine, Resume, vars, References, Holders
<1>8. ASSUME NEW r \in Requests, NEW k \in {"put", "publish"}, NEW p \in Paths, NEW g \in Blobs,
             Upload(r, k, p, g)
      PROVE  References(h)' = {} /\ Holders(h)' = {}
  BY <1>8, <1>1 DEF Upload
<1>9. ASSUME NEW r \in Requests, StorePlanned(r)
      PROVE  References(h)' = {} /\ Holders(h)' = {}
  <2>1. up[r] \in Blobs /\ up = [up EXCEPT ![r] = up[r]]
    BY <1>9 DEF StorePlanned, Shape, TypeOK, RequestShape, StagingKinds
  <2> QED BY <1>1, <1>9, <2>1 DEF StorePlanned
<1>10. ASSUME NEW r \in Requests, Quiet(r), ~Complete(r)
       PROVE  UNCHANGED asset
  BY <1>10 DEF Quiet, PlanPrune, PlanRewrite, PlanMove, BeginDelete, Begin, Land, PlanPublish,
       PlanFails, BeginPlanned, Quarantining, StageBlob, StageFails, MarkStaged,
       MarkStagedFails, Undo, UndoDone, Purging, OpenSnapshot, Archive, SnapshotFails,
       MarkPending, Finalize, FinalizeFails, Completing, CompleteFails, Discard,
       DiscardFails, Seal, RollingBack, RestoreSnapshot, RestoreEntries, RestoreFails,
       MarkRolledBack, TrashQuarantine, Recovering, RecoverFiles, RecoverRows, RecoverCompleted
<1>11. ASSUME NEW r \in Requests, Quiet(r)
       PROVE  References(h)' = {} /\ Holders(h)' = {}
  BY <1>4, <1>5, <1>10, <1>11
<1> QED BY <1>2, <1>3, <1>6, <1>7, <1>8, <1>9, <1>11
        DEF Next, Submit, Continue, Staging, Finishing, Quiet

\* The three layers together hold at the start and after every step.
LEMMA AccountsInvariant == Spec => [](Shape /\ Accounts)
<1>1. Init => Shape /\ Accounts
  <2>1. Init => \A h \in Blobs : Holders(h) = {} /\ held[h] = 0 /\ reclaim[h] = "no"
    BY DEF Init, Holders, HoldingSteps
  <2> QED BY <2>1, ShapeInit, FS_EmptySet
          DEF Accounts, HoldAccounting, Reserved, OrphanStaysOrphan
<1>2. Shape /\ Accounts /\ [Next]_vars => (Shape /\ Accounts)'
  BY ShapeStep, AccountingStep, ReservedStep, OrphanStep DEF Accounts
<1> QED BY <1>1, <1>2, PTL DEF Spec

\* Every request that has staged a blob keeps exactly one reference to it.
THEOREM HoldsAccounted == Spec => []HoldAccounting
<1>1. Shape /\ Accounts => HoldAccounting
  BY DEF Accounts
<1> QED BY <1>1, AccountsInvariant, PTL

\* The unlink outside the gate never removes a blob that is in use.
THEOREM OrphansStayOrphans == Spec => []OrphanStaysOrphan
<1>1. Shape /\ Accounts => OrphanStaysOrphan
  BY DEF Accounts
<1> QED BY <1>1, AccountsInvariant, PTL
=============================================================================
