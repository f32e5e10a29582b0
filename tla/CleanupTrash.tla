---------------------------- MODULE CleanupTrash ----------------------------
(***************************************************************************)
(* Directed cleanup and its trash.                                         *)
(*                                                                         *)
(* A cleanup lists candidate directories, opens a task row, and moves each *)
(* candidate into data/trash with one rename and one row; when an item     *)
(* fails, it moves the batch back.  Restores, purges and the trash-gc job  *)
(* work on the rows meanwhile, without a lock: each reads the row, works   *)
(* on the paths it read, and then settles the row.  The blob store creates *)
(* and fills shard directories by path all the time.                       *)
(*                                                                         *)
(* Every candidate is a directory, so a rename onto an existing one works  *)
(* only if that one is empty, and RemoveAll, which holds the directory     *)
(* open, goes on in it when somebody renames it away.                      *)
(***************************************************************************)
EXTENDS Naturals, FiniteSets

CONSTANTS
  Shards,      \* directories under blobs/, candidates while they are empty
  Leavings,    \* quarantine, upload and pre-restore directories
  Tasks,       \* ids of clean_task
  TrashCalls,  \* goroutines that restore or purge
  TrashGC,     \* the one of them that is the trash-gc job
  MaxMade,     \* bound on the directories ever made at one shard's path
  TrashCap,    \* capacity guard, in rows
  TrashCrashes \* bound on crashes

ASSUME TrashAssumption ==
  /\ Shards \cap Leavings = {}
  /\ TrashGC \in TrashCalls
  /\ {"unmade", "home", "gone"} \cap Tasks = {}
  /\ MaxMade \in Nat \ {0} /\ TrashCap \in Nat /\ TrashCrashes \in Nat

VARIABLES
  dirAt,       \* where each directory is: at its path, or in a task's trash
  dirFull,     \* the directories that hold files
  cleanTask,   \* clean_task.status
  trashEntry,  \* trash_entry.status
  cleaner,     \* the goroutine of each task: its step
  todo,        \* paths that it has still to move
  moved,       \* directories that it has moved
  current,     \* the directory between its rename and its row, or none
  trashCall,   \* what each restore or purge is doing
  trashCrashes,
  \* history
  stray,       \* directories left in the trash without a row
  jammed       \* tasks whose closing or opening update failed

cleanVars == <<cleaner, todo, moved, current>>
fileVars == <<dirAt, dirFull>>
rowVars == <<cleanTask, trashEntry>>
trashHistory == <<stray, jammed>>
trashVars == <<fileVars, rowVars, cleanVars, trashCall, trashCrashes, trashHistory>>

\* The n-th directory made at path p.
Dirs == (Shards \X (1..MaxMade)) \cup (Leavings \X {1})
PathOf(x) == x[1]

Entries == Tasks \X Dirs

CleanerSteps == {"idle", "listed", "queued", "running", "moved", "undoing", "undone", "done"}

TrashIdle == [step |-> "idle"]

TrashBusy ==
  [step : {"restoring", "back", "purging", "opened", "emptied", "removed"}, entry : Entries]

TrashTypeOK ==
  /\ dirAt \in [Dirs -> {"unmade", "home", "gone"} \cup Tasks]
  /\ dirFull \subseteq Dirs
  /\ cleanTask \in [Tasks -> {"none", "queued", "running", "succeeded", "failed", "interrupted"}]
  /\ trashEntry \in [Entries -> {"none", "staged", "restored", "purged"}]
  /\ cleaner \in [Tasks -> CleanerSteps]
  /\ todo \in [Tasks -> SUBSET (Shards \cup Leavings)]
  /\ moved \in [Tasks -> SUBSET Dirs]
  /\ current \in [Tasks -> SUBSET Dirs]
  /\ \A t \in Tasks : current[t] = {} <=> cleaner[t] \notin {"moved", "undone"}
  /\ trashCall \in [TrashCalls -> TrashBusy \cup {TrashIdle}]
  /\ trashCrashes \in 0..TrashCrashes
  /\ stray \subseteq Dirs /\ jammed \subseteq Tasks

\* Shards that deletions have emptied, leavings of interrupted work, tasks
\* of earlier days, and the crashes that are still to be looked at.
TrashInit ==
  /\ \E here \in SUBSET Leavings :
       /\ dirAt = [x \in Dirs |-> IF x[2] = 1 /\ PathOf(x) \in Shards \cup here THEN "home" ELSE "unmade"]
       /\ dirFull = here \X {1}
  /\ cleanTask \in [Tasks -> {"none", "succeeded"}]
  /\ trashEntry = [e \in Entries |-> "none"]
  /\ cleaner = [t \in Tasks |-> IF cleanTask[t] = "none" THEN "idle" ELSE "done"]
  /\ todo = [t \in Tasks |-> {}]
  /\ moved = [t \in Tasks |-> {}]
  /\ current = [t \in Tasks |-> {}]
  /\ trashCall = [u \in TrashCalls |-> TrashIdle]
  /\ trashCrashes \in 0..TrashCrashes
  /\ stray = {} /\ jammed = {}

Active(t) == cleanTask[t] \in {"queued", "running"}

StagedEntries == {e \in Entries : trashEntry[e] = "staged"}

AtPath(p) == {x \in Dirs : PathOf(x) = p /\ dirAt[x] = "home"}

Settle(e, status) ==
  trashEntry' = IF trashEntry[e] = "staged" THEN [trashEntry EXCEPT ![e] = status] ELSE trashEntry

-----------------------------------------------------------------------------
(* os.Rename from the trash to the original path.                          *)

CanReturn(t, x) == dirAt[x] = t /\ AtPath(PathOf(x)) \cap dirFull = {}

\* A mistake: the target is removed first, so that the rename cannot fail.
ReturnForced(t, x) ==
  /\ dirAt[x] = t
  /\ dirAt' = [y \in Dirs |-> IF y = x THEN "home"
                              ELSE IF y \in AtPath(PathOf(x)) THEN "gone" ELSE dirAt[y]]

\* An empty directory in the way is replaced; one with files makes it fail.
Return(t, x) ==
  /\ CanReturn(t, x)
  /\ dirAt' = [y \in Dirs |-> IF y = x THEN "home"
                              ELSE IF y \in AtPath(PathOf(x)) THEN "gone" ELSE dirAt[y]]

-----------------------------------------------------------------------------
(* Execute.                                                                *)

CleanGoes(t, step) == cleaner' = [cleaner EXCEPT ![t] = step]

\* collectCandidates of one kind, the client's choice of them, and the guard.
CleanList(t) ==
  /\ cleaner[t] = "idle" /\ cleanTask[t] = "none"
  /\ Cardinality(StagedEntries) < TrashCap
  /\ \E chosen \in (SUBSET {p \in Shards : \E x \in AtPath(p) : x \notin dirFull})
            \cup (SUBSET {p \in Leavings : AtPath(p) # {}}) :
       chosen # {} /\ todo' = [todo EXCEPT ![t] = chosen]
  /\ CleanGoes(t, "listed")
  /\ UNCHANGED <<fileVars, rowVars, moved, current, trashCall, trashCrashes, trashHistory>>

\* CleanTaskRepo.Create, which refuses while another task is open.
CleanCreate(t) ==
  /\ cleaner[t] = "listed"
  /\ IF \E s \in Tasks : Active(s)
     THEN /\ CleanGoes(t, "idle") /\ todo' = [todo EXCEPT ![t] = {}]
          /\ UNCHANGED cleanTask
     ELSE /\ CleanGoes(t, "queued") /\ cleanTask' = [cleanTask EXCEPT ![t] = "queued"]
          /\ UNCHANGED todo
  /\ UNCHANGED <<fileVars, trashEntry, moved, current, trashCall, trashCrashes, trashHistory>>

CleanStart(t) ==
  /\ cleaner[t] = "queued" /\ cleanTask[t] = "queued"
  /\ cleanTask' = [cleanTask EXCEPT ![t] = "running"]
  /\ CleanGoes(t, "running")
  /\ UNCHANGED <<fileVars, trashEntry, todo, moved, current, trashCall, trashCrashes, trashHistory>>

\* moveToTrash takes what the path holds now, be it what was listed or not.
CleanMove(t) ==
  /\ cleaner[t] = "running"
  /\ \E p \in todo[t] : \E x \in AtPath(p) :
       /\ dirAt' = [dirAt EXCEPT ![x] = t]
       /\ current' = [current EXCEPT ![t] = {x}]
       /\ todo' = [todo EXCEPT ![t] = @ \ {p}]
  /\ CleanGoes(t, "moved")
  /\ UNCHANGED <<dirFull, rowVars, moved, trashCall, trashCrashes, trashHistory>>

\* The path is gone, or it cannot be renamed.
CleanMoveFails(t) ==
  /\ cleaner[t] = "running" /\ todo[t] # {}
  /\ CleanGoes(t, "undoing") /\ todo' = [todo EXCEPT ![t] = {}]
  /\ UNCHANGED <<fileVars, rowVars, moved, current, trashCall, trashCrashes, trashHistory>>

CleanRecord(t) ==
  /\ cleaner[t] = "moved"
  /\ \E x \in current[t] : trashEntry' = [trashEntry EXCEPT ![<<t, x>>] = "staged"]
  /\ moved' = [moved EXCEPT ![t] = @ \cup current[t]]
  /\ current' = [current EXCEPT ![t] = {}]
  /\ CleanGoes(t, "running")
  /\ UNCHANGED <<fileVars, cleanTask, todo, trashCall, trashCrashes, trashHistory>>

\* A mistake: the failed insert is passed over, and the loop goes on.
CleanRecordFailsGoesOn(t) ==
  /\ cleaner[t] = "moved"
  /\ CleanGoes(t, "running")
  /\ UNCHANGED <<fileVars, rowVars, todo, moved, current, trashCall, trashCrashes, trashHistory>>

\* InsertTrashEntries fails: what was just moved goes back with the rest.
CleanRecordFails(t) ==
  /\ cleaner[t] = "moved"
  /\ moved' = [moved EXCEPT ![t] = @ \cup current[t]]
  /\ current' = [current EXCEPT ![t] = {}] /\ todo' = [todo EXCEPT ![t] = {}]
  /\ CleanGoes(t, "undoing")
  /\ UNCHANGED <<fileVars, rowVars, trashCall, trashCrashes, trashHistory>>

\* rollbackMoved goes from the last to the first: the one without a row leads.
UndoNext(t) ==
  LET rowless == {x \in moved[t] : trashEntry[<<t, x>>] = "none"} IN
  IF rowless # {} THEN rowless ELSE moved[t]

\* One directory: the rename back ...
CleanUndo(t) ==
  /\ cleaner[t] = "undoing"
  /\ \E x \in UndoNext(t) :
       /\ Return(t, x)
       /\ moved' = [moved EXCEPT ![t] = @ \ {x}]
       /\ current' = [current EXCEPT ![t] = {x}]
  /\ CleanGoes(t, "undone")
  /\ UNCHANGED <<dirFull, rowVars, todo, trashCall, trashCrashes, trashHistory>>

\* ... and its row, if it got one.
CleanUndoMark(t) ==
  /\ cleaner[t] = "undone"
  /\ \E x \in current[t] : Settle(<<t, x>>, "restored")
  /\ current' = [current EXCEPT ![t] = {}]
  /\ CleanGoes(t, "undoing")
  /\ UNCHANGED <<fileVars, cleanTask, todo, moved, trashCall, trashCrashes, trashHistory>>

\* What cannot be moved back keeps its row.  One whose insert failed has none.
CleanUndoFails(t) ==
  /\ cleaner[t] = "undoing"
  /\ \E x \in UndoNext(t) :
       /\ moved' = [moved EXCEPT ![t] = @ \ {x}]
       /\ stray' = IF dirAt[x] = t /\ trashEntry[<<t, x>>] = "none" THEN stray \cup {x} ELSE stray
  /\ UNCHANGED <<fileVars, rowVars, cleaner, todo, current, trashCall, trashCrashes, jammed>>

\* MarkSucceeded after the last item, or MarkFailed after the rollback.
CleanFinish(t) ==
  /\ \/ /\ cleaner[t] = "running" /\ todo[t] = {}
        /\ cleanTask' = [cleanTask EXCEPT ![t] = "succeeded"]
     \/ /\ cleaner[t] = "undoing" /\ moved[t] = {}
        /\ cleanTask' = [cleanTask EXCEPT ![t] = "failed"]
  /\ CleanGoes(t, "done") /\ moved' = [moved EXCEPT ![t] = {}]
  /\ UNCHANGED <<fileVars, trashEntry, todo, current, trashCall, trashCrashes, trashHistory>>

\* MarkRunning, MarkSucceeded or MarkFailed fails and Execute returns.
CleanJams(t) ==
  /\ \/ cleaner[t] = "queued"
     \/ cleaner[t] = "running" /\ todo[t] = {}
     \/ cleaner[t] = "undoing" /\ moved[t] = {}
  /\ CleanGoes(t, "done")
  /\ todo' = [todo EXCEPT ![t] = {}] /\ moved' = [moved EXCEPT ![t] = {}]
  /\ jammed' = jammed \cup {t}
  /\ UNCHANGED <<fileVars, rowVars, current, trashCall, trashCrashes, stray>>

-----------------------------------------------------------------------------
(* Restore and Purge, one entry of the list they were given.               *)

CallGoes(u, step, e) == trashCall' = [trashCall EXCEPT ![u] = [step |-> step, entry |-> e]]

CallEnds(u) == trashCall' = [trashCall EXCEPT ![u] = TrashIdle]

CallAt(u, step) == trashCall[u].step = step

\* The entry is staged and nothing is at its path; otherwise it is a conflict.
RestoreCheck(u) ==
  /\ u # TrashGC /\ CallAt(u, "idle")
  /\ \E e \in StagedEntries : AtPath(PathOf(e[2])) = {} /\ CallGoes(u, "restoring", e)
  /\ UNCHANGED <<fileVars, rowVars, cleanVars, trashCrashes, trashHistory>>

RestoreRename(u) ==
  /\ CallAt(u, "restoring")
  /\ LET e == trashCall[u].entry IN Return(e[1], e[2]) /\ CallGoes(u, "back", e)
  /\ UNCHANGED <<dirFull, rowVars, cleanVars, trashCrashes, trashHistory>>

\* The rename fails, or the update after it does.
RestoreFails(u) ==
  /\ CallAt(u, "restoring") \/ CallAt(u, "back")
  /\ CallEnds(u)
  /\ UNCHANGED <<fileVars, rowVars, cleanVars, trashCrashes, trashHistory>>

RestoreMark(u) ==
  /\ CallAt(u, "back")
  /\ Settle(trashCall[u].entry, "restored")
  /\ CallEnds(u)
  /\ UNCHANGED <<fileVars, cleanTask, cleanVars, trashCrashes, trashHistory>>

PurgeRead(u, e) ==
  /\ CallAt(u, "idle") /\ trashEntry[e] = "staged"
  /\ CallGoes(u, "purging", e)
  /\ UNCHANGED <<fileVars, rowVars, cleanVars, trashCrashes, trashHistory>>

\* A mistake: a missing directory is an error, and the entry stays.
PurgeOpenStrict(u) ==
  /\ CallAt(u, "purging")
  /\ LET e == trashCall[u].entry IN
       IF dirAt[e[2]] = e[1] THEN CallGoes(u, "opened", e) ELSE CallEnds(u)
  /\ UNCHANGED <<fileVars, rowVars, cleanVars, trashCrashes, trashHistory>>

\* RemoveAll opens the directory; a path that is not there is no error.
PurgeOpen(u) ==
  /\ CallAt(u, "purging")
  /\ LET e == trashCall[u].entry IN
       CallGoes(u, IF dirAt[e[2]] = e[1] THEN "opened" ELSE "removed", e)
  /\ UNCHANGED <<fileVars, rowVars, cleanVars, trashCrashes, trashHistory>>

\* It removes the files of what it has opened, wherever that is by now ...
PurgeUnlink(u) ==
  /\ CallAt(u, "opened")
  /\ LET e == trashCall[u].entry IN
       dirFull' = dirFull \ {e[2]} /\ CallGoes(u, "emptied", e)
  /\ UNCHANGED <<dirAt, rowVars, cleanVars, trashCrashes, trashHistory>>

\* ... and then the directory by its path.
PurgeRmdir(u) ==
  /\ CallAt(u, "emptied")
  /\ LET e == trashCall[u].entry IN
       /\ dirAt' = [dirAt EXCEPT ![e[2]] = IF @ = e[1] THEN "gone" ELSE @]
       /\ CallGoes(u, "removed", e)
  /\ UNCHANGED <<dirFull, rowVars, cleanVars, trashCrashes, trashHistory>>

PurgeMark(u) ==
  /\ CallAt(u, "removed")
  /\ Settle(trashCall[u].entry, "purged")
  /\ CallEnds(u)
  /\ UNCHANGED <<fileVars, cleanTask, cleanVars, trashCrashes, trashHistory>>

-----------------------------------------------------------------------------
(* The blob store, and a restart.                                          *)

\* An upload finds no directory for its shard and makes one ...
MakeShard(p) ==
  /\ AtPath(p) = {}
  /\ \E n \in 1..MaxMade :
       /\ dirAt[<<p, n>>] = "unmade" /\ \A m \in 1..n - 1 : dirAt[<<p, m>>] # "unmade"
       /\ dirAt' = [dirAt EXCEPT ![<<p, n>>] = "home"]
  /\ UNCHANGED <<dirFull, rowVars, cleanVars, trashCall, trashCrashes, trashHistory>>

\* ... and renames its bytes into the one that is there.
LandBlob(p) ==
  /\ \E x \in AtPath(p) \ dirFull : dirFull' = dirFull \cup {x}
  /\ UNCHANGED <<dirAt, rowVars, cleanVars, trashCall, trashCrashes, trashHistory>>

\* A mistake: only tasks that had started are closed.
CloseRunningOnly ==
  cleanTask' = [t \in Tasks |-> IF cleanTask[t] = "running" THEN "interrupted" ELSE cleanTask[t]]

\* MarkInterruptedOnStartup.
CloseInterrupted ==
  cleanTask' = [t \in Tasks |-> IF Active(t) THEN "interrupted" ELSE cleanTask[t]]

\* The process dies and starts again.
TrashCrash ==
  /\ trashCrashes < TrashCrashes /\ trashCrashes' = trashCrashes + 1
  /\ CloseInterrupted
  /\ cleaner' = [t \in Tasks |-> IF cleanTask[t] = "none" THEN "idle" ELSE "done"]
  /\ todo' = [t \in Tasks |-> {}]
  /\ moved' = [t \in Tasks |-> {}] /\ current' = [t \in Tasks |-> {}]
  /\ trashCall' = [u \in TrashCalls |-> TrashIdle]
  /\ stray' = stray \cup {x \in Dirs : \E t \in Tasks : dirAt[x] = t /\ trashEntry[<<t, x>>] = "none"}
  /\ jammed' = {}
  /\ UNCHANGED <<fileVars, trashEntry>>

-----------------------------------------------------------------------------

CleanStep(t) ==
  \/ CleanCreate(t) \/ CleanStart(t) \/ CleanMove(t) \/ CleanMoveFails(t)
  \/ CleanRecord(t) \/ CleanRecordFails(t) \/ CleanUndo(t) \/ CleanUndoMark(t)
  \/ CleanUndoFails(t) \/ CleanFinish(t) \/ CleanJams(t)

CallStep(u) ==
  \/ RestoreRename(u) \/ RestoreFails(u) \/ RestoreMark(u)
  \/ PurgeOpen(u) \/ PurgeUnlink(u) \/ PurgeRmdir(u) \/ PurgeMark(u)

TrashNext ==
  \/ \E t \in Tasks : CleanList(t) \/ CleanStep(t)
  \/ \E u \in TrashCalls : RestoreCheck(u) \/ CallStep(u)
  \/ \E u \in TrashCalls, e \in Entries : PurgeRead(u, e)
  \/ \E p \in Shards : MakeShard(p) \/ LandBlob(p)
  \/ TrashCrash

TrashSpec == TrashInit /\ [][TrashNext]_trashVars

-----------------------------------------------------------------------------
(* Properties.                                                             *)

\* What is in the trash can be listed, restored and purged: it has a staged
\* row, or its task is about to write one or to move it back.  Two windows are
\* known to leave a stray: a crash between rename and row, and a failed insert
\* whose directory cannot go back.
InHand(t, x) == (cleaner[t] = "moved" /\ x \in current[t]) \/ (cleaner[t] = "undoing" /\ x \in UndoNext(t))

TrashListed ==
  \A e \in Entries :
    dirAt[e[2]] = e[1] =>
      \/ trashEntry[e] = "staged"
      \/ trashEntry[e] = "none" /\ (InHand(e[1], e[2]) \/ e[2] \in stray)

\* "Restore never overwrites": no rename out of the trash, however late after
\* its check and whoever does it, displaces a directory that holds files, so
\* blobs are lost at their place only to a cleanup that took them along.
NeverOverwritten ==
  \A x \in dirFull : dirAt[x] # "gone"

\* The database's single-cleanup guard is held only on behalf of a goroutine
\* that will give it back, save for a failed bookkeeping update, and no task
\* of an earlier process holds it.
GuardHeld == \A t \in Tasks : Active(t) => cleaner[t] \in {"queued", "running", "moved", "undoing", "undone"} \/ t \in jammed

\* Every entry is settled in the end, also one whose directory is back at its
\* path because a restore died before it could say so.
TrashDrains == \A e \in Entries : trashEntry[e] = "staged" ~> trashEntry[e] # "staged"

\* The three together.
TrashSound == TrashListed /\ NeverOverwritten /\ GuardHeld
==============================================================================
