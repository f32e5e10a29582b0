---------------------------- MODULE AssetMutation ----------------------------
(***************************************************************************)
(* Asset references and blob reclamation on one node.                      *)
(*                                                                         *)
(* Asset rows live in SQLite, their bytes in a content-addressed           *)
(* directory, and no transaction spans the two.  AssetMutationCoordinator  *)
(* changes references under a write gate: it writes an intent, renames     *)
(* every blob the change leaves unreferenced into a quarantine directory,  *)
(* records those renames, archives the bytes in one snapshot file, deletes *)
(* the originals, commits the rows and only then deletes the snapshot.     *)
(* Beside it run uploads, which stage bytes without the gate, the removal  *)
(* of unreferenced blobs, whose unlink is outside the gate, the directed   *)
(* cleanup of the quarantine, and crashes followed by Recover.             *)
(*                                                                         *)
(* A request executes at most one operation, so a request also names the   *)
(* operation id, the quarantine directory and the snapshot of that         *)
(* operation.                                                              *)
(***************************************************************************)
EXTENDS Naturals, FiniteSets

CONSTANTS
  Requests,     \* client requests, and the operations they run
  Paths,        \* keys of asset rows: (repository, path)
  Blobs,        \* contents, named by their hash
  NoBlob,       \* the image of a path that has no asset row
  NoRequest,    \* the gate is free
  Kinds,        \* the kinds of request an instance runs
  Failures,     \* the calls that an instance lets fail
  MaxCrashes,   \* bound on crashes
  Cleaning      \* whether the quarantine may be cleaned by hand

AllKinds == {"put", "publish", "delete", "prune", "rewrite", "move"}
AllFailures == {"plan", "stage", "record", "snapshot", "finalize", "commit", "discard"}

ASSUME ConstantsAssumption ==
  /\ IsFiniteSet(Requests) /\ IsFiniteSet(Paths)
  /\ NoBlob \notin Blobs
  /\ NoRequest \notin Requests
  /\ Kinds \subseteq AllKinds
  /\ Failures \subseteq AllFailures
  /\ MaxCrashes \in Nat
  /\ Cleaning \in BOOLEAN

VARIABLES
  \* SQLite
  asset,        \* asset rows: the hash a path refers to
  intent,       \* asset_mutation.status of each operation
  row,          \* blob_quarantine.status of each operation and hash
  \* files
  active,       \* blobs in the content-addressed directory
  quarantine,   \* files in quarantine/<operation>/
  snapshot,     \* complete entries of quarantine/<operation>/rollback.tar
  torn,         \* operations whose rollback.tar ends inside an entry
  \* the process
  mode,         \* "up", "recovering" at start-up, or "failed" to start
  gate,         \* holder of the write gate
  todo,         \* hashes the holder's current loop has left
  entries,      \* hashes the holder has moved to quarantine
  held,         \* Store.staged references: uploads not yet released
  reclaim,      \* progress of RemoveIfUnreferenced for each hash
  listed,       \* quarantine directories a cleanup has picked
  pc,           \* where each request is
  kind,         \* what each request does
  items,        \* the batch of each request, with its before images
  up,           \* the content each request uploads
  created,      \* a rewrite saw no blob of that content before it staged it
  \* bounds and history
  crashes,      \* crashes so far
  exposed       \* blobs hit by a window the protocol leaves open

rowVars == <<asset, intent, row>>
fileVars == <<active, quarantine, snapshot, torn>>
opVars == <<gate, todo, entries>>
memVars == <<held, reclaim, listed>>
reqVars == <<kind, items, up, created>>
envVars == <<mode, crashes, exposed>>
vars == <<rowVars, fileVars, opVars, memVars, pc, reqVars, envVars>>

Image == Blobs \cup {NoBlob}
NoSnapshot == {NoBlob}     \* the operation has no rollback.tar
Item == [path : Paths, before : Image, to : Paths, after : Image]
Intents == {"none", "prepared", "staged", "rolling_back", "rolled_back", "completed"}
Rows == {"none", "staged", "pending_gc", "restored", "deleted"}
Incomplete == {"prepared", "staged", "rolling_back"}
Steps == {"idle", "store", "landing", "plan", "ready", "stage", "undo", "snapshot",
          "archive", "purge", "commit", "discard", "seal", "rollback", "unstage",
          "restored", "settled", "failed", "done"}
\* The steps a request takes while it holds the gate.
GateSteps == {"stage", "undo", "snapshot", "archive", "purge", "commit", "discard",
              "seal", "rollback", "unstage", "restored"}

TypeOK ==
  /\ asset \in [Paths -> Image]
  /\ intent \in [Requests -> Intents]
  /\ row \in [Requests -> [Blobs -> Rows]]
  /\ active \subseteq Blobs
  /\ quarantine \in [Requests -> SUBSET Blobs]
  /\ snapshot \in [Requests -> (SUBSET Blobs) \cup {NoSnapshot}]
  /\ torn \subseteq Requests
  /\ mode \in {"up", "recovering", "failed"}
  /\ gate \in Requests \cup {NoRequest}
  /\ todo \subseteq Blobs /\ entries \subseteq Blobs
  /\ held \in [Blobs -> Nat]
  /\ reclaim \in [Blobs -> {"no", "reserved", "orphan"}]
  /\ listed \subseteq Requests
  /\ pc \in [Requests -> Steps]
  /\ kind \in [Requests -> AllKinds \cup {"none"}]
  /\ items \in [Requests -> SUBSET Item]
  /\ up \in [Requests -> Image]
  /\ created \subseteq Requests
  /\ crashes \in 0..MaxCrashes
  /\ exposed \subseteq Blobs

-----------------------------------------------------------------------------
(* What the rows and the files say.                                        *)

References(h) == {p \in Paths : asset[p] = h}

\* The complete entries of an operation's snapshot, if it has one.
Archived(r) == IF snapshot[r] = NoSnapshot THEN {} ELSE snapshot[r]

PendingRows(r) == {h \in Blobs : row[r][h] \in {"staged", "pending_gc"}}

\* A mistake: every removed hash is reclaimed, other references or not.
UnreferencedUncounted(batch) == {h \in Blobs : \E i \in batch : i.before = h /\ i.after # h}

\* The blobs a batch leaves without a reference, by the coordinator's count:
\* rows in the table, less the batch's removals, plus its additions.  The
\* before images are the caller's, which may be out of date.
Unreferenced(batch) ==
  LET Removals(h) == {i \in batch : i.before = h /\ i.after # h}
      Additions(h) == {i \in batch : i.after = h /\ i.before # h}
  IN  {h \in Blobs :
         /\ Removals(h) # {}
         /\ Cardinality(References(h)) + Cardinality(Additions(h))
              = Cardinality(Removals(h))}

\* A mistake: the commit trusts the caller's before images.
MatchesTargetOnly(batch) == \A i \in batch : i.to # i.path => asset[i.to] = NoBlob

\* The commit transaction's check of the before images and of move targets.
Matches(batch) ==
  \A i \in batch : /\ asset[i.path] = i.before
                   /\ i.to # i.path => asset[i.to] = NoBlob

\* The asset rows after the batch.
Applied(batch) ==
  [p \in Paths |->
     IF \E i \in batch : i.to = p /\ i.after # NoBlob
     THEN (CHOOSE i \in batch : i.to = p /\ i.after # NoBlob).after
     ELSE IF \E i \in batch : i.path = p THEN NoBlob ELSE asset[p]]

Overwrite(p, old, new) == [path |-> p, before |-> old, to |-> p, after |-> new]

\* A request that has staged h and has not yet released it.
HoldingSteps == Steps \ {"idle", "store", "done"}
Holders(h) == {r \in Requests : up[r] = h /\ pc[r] \in HoldingSteps}

\* h lies in the store for a request whose batch will refer to it.
Promised(h) == \E r \in Requests : up[r] = h /\ pc[r] \in {"plan", "ready"}

At(r, step) == mode = "up" /\ pc[r] = step
Goto(r, step) == pc' = [pc EXCEPT ![r] = step]
Unlock == gate' = NoRequest /\ todo' = {} /\ entries' = {}

-----------------------------------------------------------------------------
Init ==
  /\ asset \in [Paths -> Image]
  /\ active = {h \in Blobs : References(h) # {}}
  /\ intent = [r \in Requests |-> "none"]
  /\ row = [r \in Requests |-> [h \in Blobs |-> "none"]]
  /\ quarantine = [r \in Requests |-> {}]
  /\ snapshot = [r \in Requests |-> NoSnapshot]
  /\ torn = {}
  /\ mode = "up"
  /\ gate = NoRequest /\ todo = {} /\ entries = {}
  /\ held = [h \in Blobs |-> 0]
  /\ reclaim = [h \in Blobs |-> "no"]
  /\ listed = {}
  /\ pc = [r \in Requests |-> "idle"]
  /\ kind = [r \in Requests |-> "none"]
  /\ items = [r \in Requests |-> {}]
  /\ up = [r \in Requests |-> NoBlob]
  /\ created = {}
  /\ crashes = 0
  /\ exposed = {}

-----------------------------------------------------------------------------
(* Before the gate: staging bytes and planning a batch.                    *)

\* A mistake: the upload does not wait for the reclamation.
AcquireWithoutWaiting(h) == held' = [held EXCEPT ![h] = @ + 1]

\* Store.acquireStaged: an upload waits while its hash is being reclaimed.
AcquireStaged(h) ==
  /\ reclaim[h] = "no"
  /\ held' = [held EXCEPT ![h] = @ + 1]

\* StageBlob of a put (before image read under the gate) or of a publish
\* (before image read ahead of it), up to the point where the hash is held.
Upload(r, k, p, h) ==
  /\ At(r, "idle") /\ k \in Kinds
  /\ AcquireStaged(h)
  /\ kind' = [kind EXCEPT ![r] = k]
  /\ up' = [up EXCEPT ![r] = h]
  /\ items' = [items EXCEPT ![r] = {Overwrite(p, NoBlob, h)}]
  /\ Goto(r, "landing")
  /\ UNCHANGED <<rowVars, fileVars, opVars, reclaim, listed, created, envVars>>

\* The rename into place, or the discovery that the content is already there.
Land(r) ==
  /\ At(r, "landing")
  /\ active' = active \cup {up[r]}
  /\ Goto(r, IF kind[r] = "publish" THEN "plan" ELSE "ready")
  /\ UNCHANGED <<rowVars, quarantine, snapshot, torn, opVars, memVars, reqVars, envVars>>

\* publishMutationItems: the before image, read without the gate.
PlanPublish(r) ==
  /\ At(r, "plan")
  /\ items' = [items EXCEPT ![r] = {[i EXCEPT !.before = asset[i.path]] : i \in @}]
  /\ Goto(r, "ready")
  /\ UNCHANGED <<rowVars, fileVars, opVars, memVars, kind, up, created, envVars>>

\* planDelete of a Raw directory: every asset below it, in one batch.
PlanPrune(r, below) ==
  /\ At(r, "idle") /\ "prune" \in Kinds
  /\ below # {} /\ \A p \in below : asset[p] # NoBlob
  /\ kind' = [kind EXCEPT ![r] = "prune"]
  /\ items' = [items EXCEPT ![r] = {Overwrite(p, asset[p], NoBlob) : p \in below}]
  /\ Goto(r, "ready")
  /\ UNCHANGED <<rowVars, fileVars, opVars, memVars, up, created, envVars>>

\* A format-aware delete: drop p and rewrite the metadata at m with content h.
PlanRewrite(r, p, m, h) ==
  /\ At(r, "idle") /\ "rewrite" \in Kinds
  /\ p # m /\ asset[p] # NoBlob /\ asset[m] # NoBlob
  /\ kind' = [kind EXCEPT ![r] = "rewrite"]
  /\ up' = [up EXCEPT ![r] = h]
  /\ items' = [items EXCEPT ![r] = {Overwrite(p, asset[p], NoBlob), Overwrite(m, asset[m], h)}]
  /\ created' = IF h \in active THEN created ELSE created \cup {r}
  /\ Goto(r, "store")
  /\ UNCHANGED <<rowVars, fileVars, opVars, memVars, envVars>>

\* putPlannedBlob stages the new metadata.
StorePlanned(r) ==
  /\ At(r, "store")
  /\ AcquireStaged(up[r])
  /\ Goto(r, "landing")
  /\ UNCHANGED <<rowVars, fileVars, opVars, reclaim, listed, reqVars, envVars>>

\* planDelete drops the list of planned blobs when a later target cannot be
\* planned: the content stays held until the process ends.
PlanFails(r) ==
  /\ At(r, "ready") /\ kind[r] = "rewrite" /\ "plan" \in Failures
  /\ Goto(r, "done")
  /\ exposed' = exposed \cup {up[r]}
  /\ UNCHANGED <<rowVars, fileVars, opVars, memVars, reqVars, mode, crashes>>

\* planRawMove: the target must be free now; the commit checks it again.
PlanMove(r, p, q) ==
  /\ At(r, "idle") /\ "move" \in Kinds
  /\ asset[p] # NoBlob /\ asset[q] = NoBlob
  /\ kind' = [kind EXCEPT ![r] = "move"]
  /\ items' = [items EXCEPT ![r] =
                 {[path |-> p, before |-> asset[p], to |-> q, after |-> asset[p]]}]
  /\ Goto(r, "ready")
  /\ UNCHANGED <<rowVars, fileVars, opVars, memVars, up, created, envVars>>

-----------------------------------------------------------------------------
(* Under the gate: applyLockedWithEnvelopeAndHook.                         *)

\* Take the gate, write the intent and count what the batch unreferences.
Begin(r, batch) ==
  /\ gate = NoRequest
  /\ gate' = r
  /\ items' = [items EXCEPT ![r] = batch]
  /\ intent' = [intent EXCEPT ![r] = "prepared"]
  /\ todo' = Unreferenced(batch)
  /\ Goto(r, "stage")
  /\ UNCHANGED <<asset, row, fileVars, entries, memVars, up, created, envVars>>

\* Put reads the before image under the gate, the planned kinds keep theirs.
BeginPlanned(r) ==
  /\ At(r, "ready")
  /\ Begin(r, IF kind[r] = "put"
              THEN {[i EXCEPT !.before = asset[i.path]] : i \in items[r]}
              ELSE items[r])
  /\ UNCHANGED kind

\* Delete of an existing asset; of a missing one it returns ErrNotFound.
BeginDelete(r, p) ==
  /\ At(r, "idle") /\ "delete" \in Kinds
  /\ asset[p] # NoBlob
  /\ Begin(r, {Overwrite(p, asset[p], NoBlob)})
  /\ kind' = [kind EXCEPT ![r] = "delete"]

\* Store.Stage: rename one unreferenced blob into the operation's directory.
\* The staged references of concurrent uploads are not consulted.
StageBlob(r, h) ==
  /\ At(r, "stage") /\ h \in todo /\ h \in active
  /\ active' = active \ {h}
  /\ quarantine' = [quarantine EXCEPT ![r] = @ \cup {h}]
  /\ entries' = entries \cup {h}
  /\ todo' = todo \ {h}
  /\ exposed' = IF Promised(h) THEN exposed \cup {h} ELSE exposed
  /\ UNCHANGED <<rowVars, snapshot, torn, gate, memVars, pc, reqVars, mode, crashes>>

\* A rename fails, or the blob is not there: mark rolling_back and restore.
StageFails(r) ==
  /\ At(r, "stage") /\ todo # {}
  /\ "stage" \in Failures \/ ~(todo \subseteq active)
  /\ intent' = [intent EXCEPT ![r] = "rolling_back"]
  /\ todo' = {}
  /\ Goto(r, "undo")
  /\ UNCHANGED <<asset, row, fileVars, gate, entries, memVars, reqVars, envVars>>

\* MarkStaged records every rename in one transaction.
MarkStaged(r) ==
  /\ At(r, "stage") /\ todo = {}
  /\ row' = [row EXCEPT ![r] = [h \in Blobs |-> IF h \in entries THEN "staged" ELSE @[h]]]
  /\ intent' = [intent EXCEPT ![r] = "staged"]
  /\ Goto(r, IF entries = {} THEN "commit" ELSE "snapshot")
  /\ UNCHANGED <<asset, fileVars, opVars, memVars, reqVars, envVars>>

MarkStagedFails(r) ==
  /\ At(r, "stage") /\ todo = {} /\ "record" \in Failures
  /\ Goto(r, "undo")
  /\ UNCHANGED <<rowVars, fileVars, opVars, memVars, reqVars, envVars>>

\* Store.Restore of one entry: back in place, unless the content is there.
Undo(r, h) ==
  /\ At(r, "undo") /\ h \in entries
  /\ active' = IF h \in quarantine[r] THEN active \cup {h} ELSE active
  /\ quarantine' = [quarantine EXCEPT ![r] = @ \ {h}]
  /\ entries' = entries \ {h}
  /\ UNCHANGED <<rowVars, snapshot, torn, gate, todo, memVars, pc, reqVars, envVars>>

\* A mistake: this return leaves the gate locked.
UndoDoneKeepsGate(r) ==
  /\ At(r, "undo") /\ entries = {}
  /\ intent' = [intent EXCEPT ![r] = "rolled_back"]
  /\ Goto(r, "failed")
  /\ UNCHANGED <<asset, row, fileVars, opVars, memVars, reqVars, envVars>>

\* MarkRolledBack after the renames were undone.
UndoDone(r) ==
  /\ At(r, "undo") /\ entries = {}
  /\ intent' = [intent EXCEPT ![r] = "rolled_back"]
  /\ Unlock
  /\ Goto(r, "failed")
  /\ UNCHANGED <<asset, row, fileVars, memVars, reqVars, envVars>>

\* CreateRollbackSnapshot opens the file, which truncates it ...
OpenSnapshot(r) ==
  /\ At(r, "snapshot") /\ quarantine[r] # {}
  /\ snapshot' = [snapshot EXCEPT ![r] = {}]
  /\ todo' = entries
  /\ Goto(r, "archive")
  /\ UNCHANGED <<rowVars, active, quarantine, torn, gate, entries, memVars, reqVars, envVars>>

\* A mistake: the archive is taken for complete after its first entry.
ArchiveFirstOnly(r, h) ==
  /\ At(r, "archive") /\ h \in todo /\ h \in quarantine[r]
  /\ snapshot' = [snapshot EXCEPT ![r] = Archived(r) \cup {h}]
  /\ todo' = entries /\ Goto(r, "purge")
  /\ UNCHANGED <<rowVars, active, quarantine, torn, gate, entries, memVars, reqVars, envVars>>

\* ... and writes the quarantined files one after another.
Archive(r, h) ==
  /\ At(r, "archive") /\ h \in todo /\ h \in quarantine[r]
  /\ snapshot' = [snapshot EXCEPT ![r] = Archived(r) \cup {h}]
  /\ IF todo = {h} THEN todo' = entries /\ Goto(r, "purge")
                   ELSE todo' = todo \ {h} /\ UNCHANGED pc
  /\ UNCHANGED <<rowVars, active, quarantine, torn, gate, entries, memVars, reqVars, envVars>>

\* Any error while archiving removes the file; the rollback has no snapshot.
SnapshotFails(r) ==
  /\ At(r, "snapshot") \/ At(r, "archive")
  /\ "snapshot" \in Failures \/ ~(entries \subseteq quarantine[r])
  /\ snapshot' = [snapshot EXCEPT ![r] = NoSnapshot]
  /\ intent' = [intent EXCEPT ![r] = "rolling_back"]
  /\ Goto(r, "unstage")
  /\ UNCHANGED <<asset, row, active, quarantine, torn, opVars, memVars, reqVars, envVars>>

\* One quarantined original: its row says pending_gc before the file goes.
MarkPending(r, h) ==
  /\ At(r, "purge") /\ h \in todo /\ row[r][h] = "staged"
  /\ row' = [row EXCEPT ![r][h] = "pending_gc"]
  /\ UNCHANGED <<asset, intent, fileVars, opVars, memVars, pc, reqVars, envVars>>

Finalize(r, h) ==
  /\ At(r, "purge") /\ h \in todo /\ row[r][h] = "pending_gc"
  /\ quarantine' = [quarantine EXCEPT ![r] = @ \ {h}]
  /\ todo' = todo \ {h}
  /\ IF todo = {h} THEN Goto(r, "commit") ELSE UNCHANGED pc
  /\ UNCHANGED <<rowVars, active, snapshot, torn, gate, entries, memVars, reqVars, envVars>>

\* A mistake: the rollback ignores the snapshot it has.
FinalizeFailsWithoutSnapshot(r) ==
  /\ At(r, "purge") /\ "finalize" \in Failures
  /\ intent' = [intent EXCEPT ![r] = "rolling_back"]
  /\ Goto(r, "unstage")
  /\ UNCHANGED <<asset, row, fileVars, opVars, memVars, reqVars, envVars>>

\* The file cannot be removed, or its row cannot be marked.
FinalizeFails(r) ==
  /\ At(r, "purge") /\ "finalize" \in Failures
  /\ intent' = [intent EXCEPT ![r] = "rolling_back"]
  /\ Goto(r, "rollback")
  /\ UNCHANGED <<asset, row, fileVars, opVars, memVars, reqVars, envVars>>

\* The completion transaction: before images, rows, hooks and status at once.
Complete(r) ==
  /\ At(r, "commit") /\ Matches(items[r])
  /\ asset' = Applied(items[r])
  /\ intent' = [intent EXCEPT ![r] = "completed"]
  /\ IF entries = {} THEN Unlock /\ Goto(r, "settled")
                     ELSE UNCHANGED opVars /\ Goto(r, "discard")
  /\ UNCHANGED <<row, fileVars, memVars, reqVars, envVars>>

\* A stale before image, a taken move target, or a hook such as the quota.
CompleteFails(r) ==
  /\ At(r, "commit")
  /\ "commit" \in Failures \/ ~Matches(items[r])
  /\ intent' = [intent EXCEPT ![r] = "rolling_back"]
  /\ Goto(r, IF entries = {} THEN "unstage" ELSE "rollback")
  /\ UNCHANGED <<asset, row, fileVars, opVars, memVars, reqVars, envVars>>

\* FinalizeRollbackSnapshot: after the commit the archive is redundant.
Discard(r) ==
  /\ At(r, "discard")
  /\ snapshot' = [snapshot EXCEPT ![r] = NoSnapshot]
  /\ Goto(r, "seal")
  /\ UNCHANGED <<rowVars, active, quarantine, torn, opVars, memVars, reqVars, envVars>>

\* A mistake: the rows say deleted although the snapshot is still there.
DiscardFailsSilently(r) ==
  /\ At(r, "discard") /\ "discard" \in Failures
  /\ row' = [row EXCEPT ![r] = [h \in Blobs |-> IF h \in entries THEN "deleted" ELSE @[h]]]
  /\ Unlock
  /\ Goto(r, "settled")
  /\ UNCHANGED <<asset, intent, fileVars, memVars, reqVars, envVars>>

\* It cannot be deleted: the request succeeds, start-up will try again.
DiscardFails(r) ==
  /\ At(r, "discard") /\ "discard" \in Failures
  /\ row' = [row EXCEPT ![r] = [h \in Blobs |-> IF h \in entries THEN "pending_gc" ELSE @[h]]]
  /\ Unlock
  /\ Goto(r, "settled")
  /\ UNCHANGED <<asset, intent, fileVars, memVars, reqVars, envVars>>

Seal(r) ==
  /\ At(r, "seal")
  /\ row' = [row EXCEPT ![r] = [h \in Blobs |-> IF h \in entries THEN "deleted" ELSE @[h]]]
  /\ Unlock
  /\ Goto(r, "settled")
  /\ UNCHANGED <<asset, intent, fileVars, memVars, reqVars, envVars>>

-----------------------------------------------------------------------------
(* rollbackBeforeCompletion, still under the gate.                         *)

\* RestoreRollbackSnapshot puts every archived blob back that is not there.
RestoreSnapshot(r) ==
  /\ At(r, "rollback") /\ snapshot[r] # NoSnapshot
  /\ active' = active \cup Archived(r)
  /\ Goto(r, "restored")
  /\ UNCHANGED <<rowVars, quarantine, snapshot, torn, opVars, memVars, reqVars, envVars>>

\* Without a snapshot the quarantined originals are renamed back.
RestoreEntries(r) ==
  /\ At(r, "unstage") /\ entries \subseteq quarantine[r] \cup active
  /\ active' = active \cup entries
  /\ quarantine' = [quarantine EXCEPT ![r] = @ \ entries]
  /\ Goto(r, "restored")
  /\ UNCHANGED <<rowVars, snapshot, torn, opVars, memVars, reqVars, envVars>>

\* The bytes cannot be found: the intent stays rolling_back.
RestoreFails(r) ==
  /\ \/ At(r, "rollback") /\ snapshot[r] = NoSnapshot
     \/ At(r, "unstage") /\ ~(entries \subseteq quarantine[r] \cup active)
  /\ Unlock
  /\ Goto(r, "failed")
  /\ UNCHANGED <<rowVars, fileVars, memVars, reqVars, envVars>>

MarkRolledBack(r) ==
  /\ At(r, "restored")
  /\ row' = [row EXCEPT ![r] = [h \in Blobs |-> IF h \in entries THEN "restored" ELSE @[h]]]
  /\ intent' = [intent EXCEPT ![r] = "rolled_back"]
  /\ Unlock
  /\ Goto(r, "failed")
  /\ UNCHANGED <<asset, fileVars, memVars, reqVars, envVars>>

-----------------------------------------------------------------------------
(* After the gate: releasing staged references.                            *)

\* The hash whose staged reference the request's tail releases.
ReleasedBlob(r) ==
  IF kind[r] = "move" THEN (CHOOSE i \in items[r] : TRUE).after ELSE up[r]

\* A mistake: the count is not kept from falling below zero.
ReleaseUnfloored(r, n) ==
  /\ held' = [held EXCEPT ![ReleasedBlob(r)] = @ - n]
  /\ UNCHANGED exposed

\* Store.ReleaseStaged, n times.  A release that r's own staging does not back
\* comes out of another holder's protection.
Release(r, n) ==
  LET h == ReleasedBlob(r)
      backed == IF up[r] = h THEN 1 ELSE 0
  IN  /\ held' = [held EXCEPT ![h] = IF @ > n THEN @ - n ELSE 0]
      /\ exposed' = IF n > backed /\ Holders(h) \ {r} # {} THEN exposed \cup {h} ELSE exposed

ReleasesNothing == UNCHANGED <<held, exposed>>

\* Success: one release, which a move makes without having staged anything.
Settle(r) ==
  /\ At(r, "settled")
  /\ IF kind[r] \in {"delete", "prune"} THEN ReleasesNothing ELSE Release(r, 1)
  /\ Goto(r, "done")
  /\ UNCHANGED <<rowVars, fileVars, opVars, reclaim, listed, reqVars, mode, crashes>>

\* A mistake: a failed request keeps its staged reference.
AbandonKeepsHold(r) ==
  /\ At(r, "failed")
  /\ Goto(r, "done")
  /\ UNCHANGED <<rowVars, fileVars, opVars, memVars, reqVars, envVars>>

\* Failure: ApplyOperation releases the batch's blobs and then once more those
\* it created.  RemoveIfUnreferenced of the content follows as Reserve below.
Abandon(r) ==
  /\ At(r, "failed")
  /\ IF kind[r] \in {"delete", "prune"} THEN ReleasesNothing
     ELSE Release(r, IF r \in created THEN 2 ELSE 1)
  /\ Goto(r, "done")
  /\ UNCHANGED <<rowVars, fileVars, opVars, reclaim, listed, reqVars, mode, crashes>>

-----------------------------------------------------------------------------
(* RemoveIfUnreferenced, for the garbage collector and for failed writes.  *)

\* Store.BeginUnreferencedRemoval.
Reserve(h) ==
  /\ mode = "up" /\ h \in active
  /\ reclaim[h] = "no" /\ held[h] = 0
  /\ reclaim' = [reclaim EXCEPT ![h] = "reserved"]
  /\ UNCHANGED <<rowVars, fileVars, opVars, held, listed, pc, reqVars, envVars>>

\* A mistake: a blob that is still in use stays reserved.
CountReferencesKeepsReservation(h) ==
  /\ mode = "up" /\ reclaim[h] = "reserved" /\ gate = NoRequest
  /\ References(h) = {}
  /\ reclaim' = [reclaim EXCEPT ![h] = "orphan"]
  /\ UNCHANGED <<rowVars, fileVars, opVars, held, listed, pc, reqVars, envVars>>

\* The references are counted under the gate ...
CountReferences(h) ==
  /\ mode = "up" /\ reclaim[h] = "reserved" /\ gate = NoRequest
  /\ reclaim' = [reclaim EXCEPT ![h] = IF References(h) = {} THEN "orphan" ELSE "no"]
  /\ UNCHANGED <<rowVars, fileVars, opVars, held, listed, pc, reqVars, envVars>>

\* ... and the file is removed after the gate has been given back.
RemoveOrphan(h) ==
  /\ mode = "up" /\ reclaim[h] = "orphan"
  /\ active' = active \ {h}
  /\ reclaim' = [reclaim EXCEPT ![h] = "no"]
  /\ UNCHANGED <<rowVars, quarantine, snapshot, torn, opVars, held, listed, pc, reqVars, envVars>>

-----------------------------------------------------------------------------
(* Directed cleanup of the quarantine.                                     *)

\* collectQuarantine skips the operations that still have a staged row.
ListQuarantine ==
  /\ Cleaning /\ mode = "up" /\ listed = {}
  /\ listed' = {r \in Requests :
                  /\ quarantine[r] # {} \/ snapshot[r] # NoSnapshot
                  /\ \A h \in Blobs : row[r][h] # "staged"}
  /\ UNCHANGED <<rowVars, fileVars, opVars, held, reclaim, pc, reqVars, envVars>>

\* moveToTrash of one listed directory, by path.
TrashQuarantine(r) ==
  /\ mode = "up" /\ r \in listed
  /\ quarantine' = [quarantine EXCEPT ![r] = {}]
  /\ snapshot' = [snapshot EXCEPT ![r] = NoSnapshot]
  /\ listed' = listed \ {r}
  /\ exposed' = IF intent[r] \in Incomplete
               THEN exposed \cup quarantine[r] \cup Archived(r)
                           \cup (IF gate = r THEN entries \cup todo ELSE {})
               ELSE exposed
  /\ UNCHANGED <<rowVars, active, torn, opVars, held, reclaim, pc, reqVars, mode, crashes>>

-----------------------------------------------------------------------------
(* Crashes and AssetMutationCoordinator.Recover at start-up.               *)

\* Quarantined files whose renames no row records yet.
Unrecorded(r) == {h \in quarantine[r] : row[r][h] = "none"}

\* Requests die with the process; the entry being archived may be cut short.
Crash ==
  LET archiving == IF gate # NoRequest /\ mode = "up" /\ pc[gate] = "archive"
                   THEN {gate} ELSE {}
  IN
  /\ mode \in {"up", "recovering"} /\ crashes < MaxCrashes
  /\ crashes' = crashes + 1
  /\ mode' = "recovering"
  /\ Unlock
  /\ torn' \in {torn, torn \cup archiving}
  /\ held' = [h \in Blobs |-> 0]
  /\ reclaim' = [h \in Blobs |-> "no"]
  /\ listed' = {}
  /\ pc' = [r \in Requests |-> IF pc[r] = "idle" THEN "idle" ELSE "done"]
  /\ exposed' = exposed \cup (IF gate = NoRequest THEN {} ELSE Unrecorded(gate))
                      \cup (IF archiving = {} THEN {} ELSE entries)
  /\ UNCHANGED <<rowVars, active, quarantine, snapshot, reqVars>>

\* An incomplete operation: its snapshot wins over the quarantined originals,
\* and nothing is restored that has no row.  An error stops the start-up.
RecoverFiles(r) ==
  LET pending == PendingRows(r)
      archived == snapshot[r] # NoSnapshot
      found == pending \subseteq quarantine[r] \cup active
      back == IF archived THEN Archived(r) ELSE IF found THEN pending ELSE {}
  IN
  /\ mode = "recovering" /\ gate = NoRequest /\ intent[r] \in Incomplete
  /\ gate' = r
  /\ IF pending = {} THEN UNCHANGED <<active, quarantine, mode>>
     ELSE /\ active' = active \cup back
          /\ quarantine' = IF archived THEN quarantine
                           ELSE [quarantine EXCEPT ![r] = @ \ back]
          /\ mode' = IF (archived /\ r \in torn) \/ (~archived /\ ~found)
                     THEN "failed" ELSE mode
  /\ UNCHANGED <<rowVars, snapshot, torn, todo, entries, memVars, pc, reqVars, crashes, exposed>>

RecoverRows(r) ==
  /\ mode = "recovering" /\ gate = r
  /\ row' = [row EXCEPT ![r] = [h \in Blobs |-> IF h \in PendingRows(r)
                                                THEN "restored" ELSE @[h]]]
  /\ intent' = [intent EXCEPT ![r] = "rolled_back"]
  /\ gate' = NoRequest
  /\ UNCHANGED <<asset, fileVars, todo, entries, memVars, pc, reqVars, envVars>>

\* A mistake: the snapshot is deleted but its rows stay pending.
RecoverCompletedUnmarked(r) ==
  /\ mode = "recovering" /\ gate = NoRequest
  /\ \A o \in Requests : intent[o] \notin Incomplete
  /\ intent[r] = "completed" /\ PendingRows(r) # {}
  /\ snapshot' = [snapshot EXCEPT ![r] = NoSnapshot]
  /\ UNCHANGED <<rowVars, active, quarantine, torn, opVars, memVars, pc, reqVars, envVars>>

\* A completed operation whose snapshot was not deleted, or not marked so.
RecoverCompleted(r) ==
  LET gone == snapshot[r] # NoSnapshot
              \/ quarantine[r] \cap {h \in Blobs : row[r][h] # "none"} = {}
  IN
  /\ mode = "recovering" /\ gate = NoRequest
  /\ \A o \in Requests : intent[o] \notin Incomplete
  /\ intent[r] = "completed" /\ PendingRows(r) # {}
  /\ IF gone
     THEN /\ snapshot' = [snapshot EXCEPT ![r] = NoSnapshot]
          /\ row' = [row EXCEPT ![r] = [h \in Blobs |-> IF @[h] = "none"
                                                        THEN "none" ELSE "deleted"]]
          /\ UNCHANGED mode
     ELSE mode' = "failed" /\ UNCHANGED <<snapshot, row>>
  /\ UNCHANGED <<asset, intent, active, quarantine, torn, opVars, memVars, pc, reqVars,
                 crashes, exposed>>

\* The server starts to serve.
Resume ==
  /\ mode = "recovering" /\ gate = NoRequest
  /\ \A r \in Requests : /\ intent[r] \notin Incomplete
                         /\ intent[r] = "completed" => PendingRows(r) = {}
  /\ mode' = "up"
  /\ UNCHANGED <<rowVars, fileVars, opVars, memVars, pc, reqVars, crashes, exposed>>

-----------------------------------------------------------------------------
\* What a request that has begun does next.
Staging(r) ==
  Land(r) \/ PlanPublish(r) \/ StorePlanned(r) \/ PlanFails(r) \/ BeginPlanned(r)
Quarantining(r) ==
  \/ \E h \in Blobs : StageBlob(r, h)
  \/ StageFails(r)
  \/ MarkStaged(r)
  \/ MarkStagedFails(r)
  \/ \E h \in Blobs : Undo(r, h)
  \/ UndoDone(r)
Purging(r) ==
  \/ OpenSnapshot(r)
  \/ \E h \in Blobs : Archive(r, h)
  \/ SnapshotFails(r)
  \/ \E h \in Blobs : MarkPending(r, h)
  \/ \E h \in Blobs : Finalize(r, h)
  \/ FinalizeFails(r)
Completing(r) ==
  \/ Complete(r)
  \/ CompleteFails(r)
  \/ Discard(r)
  \/ DiscardFails(r)
  \/ Seal(r)
RollingBack(r) ==
  RestoreSnapshot(r) \/ RestoreEntries(r) \/ RestoreFails(r) \/ MarkRolledBack(r)
Finishing(r) == Settle(r) \/ Abandon(r)
Continue(r) == \/ Staging(r) \/ Quarantining(r) \/ Purging(r) \/ Completing(r)
               \/ RollingBack(r) \/ Finishing(r)

Submit(r) ==
  \/ \E k \in {"put", "publish"}, p \in Paths, h \in Blobs : Upload(r, k, p, h)
  \/ \E below \in SUBSET Paths : PlanPrune(r, below)
  \/ \E p, m \in Paths, h \in Blobs : PlanRewrite(r, p, m, h)
  \/ \E p, q \in Paths : PlanMove(r, p, q)
  \/ \E p \in Paths : BeginDelete(r, p)
Reclaiming(h) == CountReferences(h) \/ RemoveOrphan(h)
Recovering(r) == RecoverFiles(r) \/ RecoverRows(r) \/ RecoverCompleted(r)

Next ==
  \/ \E r \in Requests : Submit(r) \/ Continue(r) \/ TrashQuarantine(r) \/ Recovering(r)
  \/ \E h \in Blobs : Reserve(h) \/ Reclaiming(h)
  \/ ListQuarantine
  \/ Crash
  \/ Resume

\* Goroutines that can run do run, start-up goes on, and the blob-gc job comes
\* back to every blob.  An upload that waits for a reclamation is woken by each
\* broadcast, and the job visits a hash once per period, so a waiter that can go
\* on again and again does.  Nobody has to submit a request or to clean the
\* quarantine, and no crash has to happen.
Fairness ==
  /\ \A r \in Requests : /\ WF_vars(Continue(r))
                         /\ SF_vars(StorePlanned(r))
                         /\ WF_vars(Recovering(r))
  /\ \A h \in Blobs : WF_vars(Reserve(h)) /\ WF_vars(Reclaiming(h))
  /\ WF_vars(Resume)

Spec == Init /\ [][Next]_vars
FairSpec == Spec /\ Fairness
-----------------------------------------------------------------------------
(* Safety.                                                                 *)

\* A reader finds the bytes of every row it can see.  Reads run under the gate,
\* so the property speaks of the moments at which nobody holds it.
ServedBytes ==
  mode = "up" /\ gate = NoRequest =>
    \A p \in Paths : asset[p] \in active \cup exposed \cup {NoBlob}

\* Start-up would put h back: its operation is incomplete, h has a pending row,
\* and h is in the file that recovery would read.
Recoverable(h) ==
  \E r \in Requests : /\ intent[r] \in Incomplete
                      /\ h \in PendingRows(r)
                      /\ IF snapshot[r] = NoSnapshot THEN h \in quarantine[r]
                                                     ELSE h \in Archived(r)

\* The live holder of the gate still knows where h is.
InHand(h) ==
  /\ mode = "up" /\ gate # NoRequest
  /\ pc[gate] \in {"stage", "undo", "archive"}
  /\ h \in quarantine[gate]

\* At every step, a crash at this instant included, the bytes of every row are
\* in the store or where recovery looks for them.  InHand names the two windows
\* in which only the live process can find them.
CrashSafe ==
  \A p \in Paths : \/ asset[p] \in active \cup exposed \cup {NoBlob}
                   \/ Recoverable(asset[p])
                   \/ InHand(asset[p])

\* The unlink of an orphan runs after the gate is given back: until it runs, no
\* commit refers to the blob again and no upload relies on it.
OrphanStaysOrphan ==
  \A h \in Blobs : reclaim[h] = "orphan" =>
    h \in exposed \/ (References(h) = {} /\ Holders(h) = {})

\* Every request that has staged a blob keeps exactly one reference to it until
\* it has finished, so the count neither leaks nor falls short.
HoldAccounting ==
  \A h \in Blobs \ exposed : held[h] = Cardinality(Holders(h))

\* An operation is left undecided only if its own files were taken away.  Nor
\* does start-up fail for any other reason.
RecoverySettles ==
  LET Robbed(r) == PendingRows(r) \cap exposed # {} IN
  /\ mode = "up" => \A r \in Requests : gate # r /\ intent[r] \in Incomplete => Robbed(r)
  /\ mode = "failed" => \E r \in Requests : Robbed(r)

\* A completed operation leaves no file behind that no later start-up deletes.
NoLostGarbage ==
  \A r \in Requests : intent[r] = "completed" /\ gate # r =>
    quarantine[r] = {} /\ (snapshot[r] # NoSnapshot => PendingRows(r) # {})

-----------------------------------------------------------------------------
(* The rows change only as AtomicAssets lets them.                         *)

\* The images a batch expects and leaves at the paths it touches.
Change(batch) ==
  LET touched == {i.path : i \in batch} \cup {i.to : i \in batch}
      Into(p) == {i \in batch : i.to = p /\ i.after # NoBlob}
      From(p) == {i \in batch : i.path = p}
  IN  [expects |-> [p \in touched |-> IF From(p) = {} THEN NoBlob
                                      ELSE (CHOOSE i \in From(p) : TRUE).before],
       leaves |-> [p \in touched |-> IF Into(p) = {} THEN NoBlob
                                     ELSE (CHOOSE i \in Into(p) : TRUE).after]]

Atomic == INSTANCE AtomicAssets WITH
  Operations <- Requests,
  Images <- Image,
  view <- asset,
  change <- [r \in Requests |-> Change(IF intent[r] = "none" THEN {} ELSE items[r])],
  outcome <- [r \in Requests |-> CASE intent[r] = "none" -> "none"
                                   [] intent[r] = "completed" -> "applied"
                                   [] intent[r] = "rolled_back" -> "rejected"
                                   [] OTHER -> "open"]

\* Whatever fails or crashes, an operation is applied at most once, whole, over
\* the images it read, and one that was rolled back never shows.
AppliedAtomically == Atomic!Spec

-----------------------------------------------------------------------------
(* Liveness.                                                               *)

\* The gate is given back on every path, and start-up ends.
GateFreed == gate # NoRequest ~> (gate = NoRequest \/ mode = "failed")
Recovered == mode = "recovering" ~> mode # "recovering"

\* A request that has begun comes to an end: no upload waits for ever for a
\* reclamation, and nobody waits for ever for the gate.
RequestsFinish ==
  \A r \in Requests : pc[r] # "idle" ~> (pc[r] = "done" \/ mode = "failed")

\* Bytes that nothing refers to are removed in the end: no path through a
\* failed upload leaves a staged reference behind.
OrphansReclaimed ==
  \A h \in Blobs : h \in active /\ References(h) = {}
                     ~> (h \notin active \/ References(h) # {} \/ mode = "failed")

-----------------------------------------------------------------------------
(* The promises without the exceptions, which the code does not keep.      *)

\* Shared bytes are never deleted early: every visible row has its bytes.
RowsResolve ==
  mode = "up" /\ gate = NoRequest => \A p \in Paths : asset[p] \in active \cup {NoBlob}

\* Start-up restores the whole batch of an operation that was interrupted: a
\* row that says restored speaks of bytes that are back.
RestoresWholeBatch ==
  mode = "up" /\ gate = NoRequest =>
    \A r \in Requests, h \in Blobs :
      intent[r] = "rolled_back" /\ row[r][h] = "restored" /\ References(h) # {} => h \in active
==============================================================================
