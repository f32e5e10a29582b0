--------------------------- MODULE MigrationTasks ---------------------------
(***************************************************************************)
(* Migration tasks: artifacts of another server are copied into            *)
(* repositories of this one by a goroutine per task.                       *)
(*                                                                         *)
(* A task moves between planned, running, completed, failed and cancelled  *)
(* by plain updates of its row: the service reads the status, decides and  *)
(* writes it later, and so does the run.  A lock per task lets one run     *)
(* through, the next one goes away.  A run creates the repositories its    *)
(* plan names, copies item after item, remembers in a checkpoint what it   *)
(* has done, and when it fails deletes the repositories that it found      *)
(* missing when it began.  Resume starts a new run from the checkpoint.    *)
(***************************************************************************)
EXTENDS Naturals, FiniteSets

CONSTANTS
  Migrations,    \* tasks
  Items,         \* paths of artifacts in the target repositories
  Targets,       \* target repositories
  RepoOf,        \* the repository of each item
  Wanted,        \* the items of each task's source
  Policies,      \* conflict policies an instance tries
  Prior,         \* repositories that exist before any migration
  Immutables,    \* repositories whose artifacts may not be replaced
  Admins,        \* requests of administrators
  MaxResumes,    \* bound on resumes
  MigrationCrashes

AllPolicies == {"skip", "overwrite", "fail"}

ASSUME MigrationAssumption ==
  /\ IsFiniteSet(Items)
  /\ RepoOf \in [Items -> Targets] /\ Wanted \in [Migrations -> SUBSET Items]
  /\ Policies \subseteq AllPolicies
  /\ Prior \subseteq Targets /\ Immutables \subseteq Targets
  /\ MaxResumes \in Nat /\ MigrationCrashes \in Nat

VARIABLES
  status,      \* migration_task.status
  policy,      \* migration_task.conflict_policy
  checkpoint,  \* migration_task.checkpoint_json
  targets,     \* repositories that exist
  artifact,    \* what each path holds
  run,         \* the goroutine that holds the lock of each task
  spawned,     \* goroutines of each task that have not tried the lock yet
  admin,       \* what each administrator's request is doing
  resumes, migrationCrashes,
  rolledBack   \* items that a rollback has deleted

migrationVars == <<status, policy, checkpoint, targets, artifact, run, spawned, admin,
                   resumes, migrationCrashes, rolledBack>>

Statuses == {"planned", "running", "completed", "failed", "cancelled"}

RunSteps == {"none", "locked", "registered", "creating", "copying", "writing",
             "rolling", "cancelled", "leaving", "finalizing"}

ItemStates == {"absent", "copy", "local"}

NoRun == [step |-> "none", stop |-> FALSE, created |-> {}, left |-> {}, finished |-> {},
          known |-> {}, loaded |-> {}, now |-> {}]

AdminIdle == [op |-> "none", on |-> "none"]

MigrationRuns ==
  [step : RunSteps, stop : BOOLEAN, created : SUBSET Targets, left : SUBSET Items,
   finished : SUBSET Items, known : SUBSET Items, loaded : SUBSET Targets, now : SUBSET Items]

MigrationTypeOK ==
  /\ status \in [Migrations -> Statuses] /\ policy \in [Migrations -> AllPolicies]
  /\ checkpoint \in [Migrations -> SUBSET Items]
  /\ targets \subseteq Targets /\ artifact \in [Items -> ItemStates]
  /\ run \in [Migrations -> MigrationRuns] /\ spawned \in [Migrations -> Nat]
  /\ admin \in [Admins -> [op : {"begin", "stop", "stopPlanned", "force"}, on : Migrations]
                             \cup {AdminIdle}]
  /\ resumes \in 0 .. MaxResumes /\ migrationCrashes \in 0 .. MigrationCrashes
  /\ rolledBack \subseteq Items

MigrationInit ==
  /\ status = [t \in Migrations |-> "planned"] /\ policy \in [Migrations -> Policies]
  /\ checkpoint = [t \in Migrations |-> {}]
  /\ targets = Prior
  /\ artifact = [i \in Items |-> IF RepoOf[i] \in Prior THEN "local" ELSE "absent"]
  /\ run = [t \in Migrations |-> NoRun] /\ spawned = [t \in Migrations |-> 0]
  /\ admin = [a \in Admins |-> AdminIdle]
  /\ resumes = 0 /\ migrationCrashes = 0 /\ rolledBack = {}

PlannedRepos(t) == {RepoOf[i] : i \in Wanted[t]}

Present == {i \in Items : artifact[i] # "absent"}

StatusGoes(t, s) == status' = [status EXCEPT ![t] = s]

RunGone(t) == run' = [run EXCEPT ![t] = NoRun]

AdminGoes(a, op, t) == admin' = [admin EXCEPT ![a] = [op |-> op, on |-> t]]

AdminAnswers(a) == admin' = [admin EXCEPT ![a] = AdminIdle]

-----------------------------------------------------------------------------
(* Requests: the status is read in one step and written in a later one *)

StartReads(a, t) ==
  /\ admin[a] = AdminIdle /\ status[t] = "planned"
  /\ AdminGoes(a, "begin", t)
  /\ UNCHANGED <<status, policy, checkpoint, targets, artifact, run, spawned, resumes,
                 migrationCrashes, rolledBack>>

ResumeReads(a, t) ==
  /\ admin[a] = AdminIdle /\ status[t] \in {"failed", "cancelled"}
  /\ resumes < MaxResumes /\ resumes' = resumes + 1
  /\ AdminGoes(a, "begin", t)
  /\ UNCHANGED <<status, policy, checkpoint, targets, artifact, run, spawned,
                 migrationCrashes, rolledBack>>

\* Start and Resume write running and start a goroutine.
RunningSet(a) ==
  /\ admin[a].op = "begin"
  /\ StatusGoes(admin[a].on, "running")
  /\ spawned' = [spawned EXCEPT ![admin[a].on] = @ + 1]
  /\ AdminAnswers(a)
  /\ UNCHANGED <<policy, checkpoint, targets, artifact, run, resumes, migrationCrashes,
                 rolledBack>>

CancelReads(a, t) ==
  /\ admin[a] = AdminIdle /\ status[t] \in {"planned", "running"}
  /\ AdminGoes(a, IF status[t] = "planned" THEN "stopPlanned" ELSE "stop", t)
  /\ UNCHANGED <<status, policy, checkpoint, targets, artifact, run, spawned, resumes,
                 migrationCrashes, rolledBack>>

CancelPlanned(a) ==
  /\ admin[a].op = "stopPlanned"
  /\ StatusGoes(admin[a].on, "cancelled") /\ AdminAnswers(a)
  /\ UNCHANGED <<policy, checkpoint, targets, artifact, run, spawned, resumes,
                 migrationCrashes, rolledBack>>

\* Runner.Cancel cancels the context of a run that is registered.
CancelSignals(a) ==
  /\ admin[a].op = "stop"
  /\ LET t == admin[a].on
     IN /\ AdminGoes(a, "force", t)
        /\ run' = IF run[t].step \in {"none", "locked", "finalizing"} THEN run
                  ELSE [run EXCEPT ![t].stop = TRUE]
  /\ UNCHANGED <<status, policy, checkpoint, targets, artifact, spawned, resumes,
                 migrationCrashes, rolledBack>>

\* Whatever the run does, a status that still reads running is overwritten.
CancelForces(a) ==
  /\ admin[a].op = "force"
  /\ status' = [status EXCEPT ![admin[a].on] = IF @ = "running" THEN "cancelled" ELSE @]
  /\ AdminAnswers(a)
  /\ UNCHANGED <<policy, checkpoint, targets, artifact, run, spawned, resumes,
                 migrationCrashes, rolledBack>>

-----------------------------------------------------------------------------
(* The run *)

\* TryLock: a goroutine that finds the lock taken is gone.
RunLocks(t) ==
  /\ spawned[t] > 0 /\ spawned' = [spawned EXCEPT ![t] = @ - 1]
  /\ run' = IF run[t] = NoRun THEN [run EXCEPT ![t].step = "locked"] ELSE run
  /\ UNCHANGED <<status, policy, checkpoint, targets, artifact, admin, resumes,
                 migrationCrashes, rolledBack>>

RunRegisters(t) ==
  /\ run[t].step = "locked"
  /\ run' = [run EXCEPT ![t].step = "registered"]
  /\ UNCHANGED <<status, policy, checkpoint, targets, artifact, spawned, admin, resumes,
                 migrationCrashes, rolledBack>>

\* A mistake: every repository of the plan counts as created by this run.
RunLoadsAll(t) ==
  /\ run[t].step = "registered"
  /\ IF status[t] # "running" THEN RunGone(t)
     ELSE run' = [run EXCEPT ![t].step = "creating", ![t].finished = checkpoint[t],
                             ![t].created = PlannedRepos(t)]
  /\ UNCHANGED <<status, policy, checkpoint, targets, artifact, spawned, admin, resumes,
                 migrationCrashes, rolledBack>>

\* The row is read once; plannedNewRepositories notes what is missing.
RunLoads(t) ==
  /\ run[t].step = "registered"
  /\ IF status[t] # "running" THEN RunGone(t)
     ELSE run' = [run EXCEPT ![t].step = "creating", ![t].finished = checkpoint[t],
                             ![t].created = PlannedRepos(t) \ targets]
  /\ UNCHANGED <<status, policy, checkpoint, targets, artifact, spawned, admin, resumes,
                 migrationCrashes, rolledBack>>

\* topology creates what is missing by now, and the source is listed.
RunCreates(t) ==
  /\ run[t].step = "creating"
  /\ targets' = targets \cup PlannedRepos(t)
  /\ run' = [run EXCEPT ![t].step = "copying", ![t].left = Wanted[t]]
  /\ UNCHANGED <<status, policy, checkpoint, artifact, spawned, admin, resumes,
                 migrationCrashes, rolledBack>>

\* A repository cannot be created, or the source cannot be listed.
RunCreateFails(t) ==
  /\ run[t].step = "creating"
  /\ \E some \in SUBSET PlannedRepos(t) : targets' = targets \cup some
  /\ run' = [run EXCEPT ![t].step = "rolling"]
  /\ UNCHANGED <<status, policy, checkpoint, artifact, spawned, admin, resumes,
                 migrationCrashes, rolledBack>>

\* Between two items the run looks whether it is to stop; it then saves its
\* checkpoint before it writes the status.
RunStops(t) ==
  /\ run[t].step = "copying" /\ run[t].stop /\ run[t].left # {}
  /\ checkpoint' = [checkpoint EXCEPT ![t] = run[t].finished]
  /\ run' = [run EXCEPT ![t].step = "cancelled"]
  /\ UNCHANGED <<status, policy, targets, artifact, spawned, admin, resumes,
                 migrationCrashes, rolledBack>>

\* The paths of a repository are read once and kept up to date by this run
\* alone: LoadPathSet and pathCache.
RunReadsPaths(t, i) ==
  /\ run[t].step = "copying" /\ ~run[t].stop
  /\ i \in run[t].left \ run[t].finished /\ RepoOf[i] \notin run[t].loaded
  /\ run' = [run EXCEPT ![t].loaded = @ \cup {RepoOf[i]},
                        ![t].known = @ \cup {k \in Present : RepoOf[k] = RepoOf[i]}]
  /\ UNCHANGED <<status, policy, checkpoint, targets, artifact, spawned, admin, resumes,
                 migrationCrashes, rolledBack>>

\* Every twentieth item the checkpoint is saved.
Saved(t, finished) ==
  \/ checkpoint' = [checkpoint EXCEPT ![t] = finished]
  \/ UNCHANGED checkpoint

\* The item is in the checkpoint already, or it exists and the policy skips.
RunSkips(t, i) ==
  /\ run[t].step = "copying" /\ ~run[t].stop /\ i \in run[t].left
  /\ \/ i \in run[t].finished /\ UNCHANGED checkpoint
     \/ /\ i \notin run[t].finished /\ RepoOf[i] \in run[t].loaded
        /\ i \in run[t].known /\ policy[t] = "skip"
        /\ Saved(t, run[t].finished \cup {i})
  /\ run' = [run EXCEPT ![t].left = @ \ {i}, ![t].finished = @ \cup {i}]
  /\ UNCHANGED <<status, policy, targets, artifact, spawned, admin, resumes,
                 migrationCrashes, rolledBack>>

Conflicts(t, i) ==
  i \in run[t].known
    /\ (policy[t] = "fail" \/ (policy[t] = "overwrite" /\ RepoOf[i] \in Immutables))

\* A conflict, or an error of the check: the checkpoint is saved first.
RunConflicts(t, i) ==
  /\ run[t].step = "copying" /\ ~run[t].stop
  /\ i \in run[t].left \ run[t].finished /\ RepoOf[i] \in run[t].loaded
  /\ Conflicts(t, i)
  /\ checkpoint' = [checkpoint EXCEPT ![t] = run[t].finished]
  /\ run' = [run EXCEPT ![t].step = "rolling"]
  /\ UNCHANGED <<status, policy, targets, artifact, spawned, admin, resumes,
                 migrationCrashes, rolledBack>>

\* A mistake: the item is in the checkpoint before it is written.
RunDecidesMarked(t, i) ==
  /\ run[t].step = "copying" /\ ~run[t].stop
  /\ i \in run[t].left \ run[t].finished /\ RepoOf[i] \in run[t].loaded
  /\ ~Conflicts(t, i) /\ ~(policy[t] = "skip" /\ i \in run[t].known)
  /\ run' = [run EXCEPT ![t].step = "writing", ![t].now = {i},
                        ![t].finished = @ \cup {i}]
  /\ Saved(t, run[t].finished \cup {i})
  /\ UNCHANGED <<status, policy, targets, artifact, spawned, admin, resumes,
                 migrationCrashes, rolledBack>>

\* Nothing speaks against the item; it is fetched.
RunDecides(t, i) ==
  /\ run[t].step = "copying" /\ ~run[t].stop
  /\ i \in run[t].left \ run[t].finished /\ RepoOf[i] \in run[t].loaded
  /\ ~Conflicts(t, i) /\ ~(policy[t] = "skip" /\ i \in run[t].known)
  /\ run' = [run EXCEPT ![t].step = "writing", ![t].now = {i}]
  /\ UNCHANGED <<status, policy, checkpoint, targets, artifact, spawned, admin, resumes,
                 migrationCrashes, rolledBack>>

\* importItem stores it over whatever is there by now.
RunWrites(t, i) ==
  /\ run[t].step = "writing" /\ i \in run[t].now /\ RepoOf[i] \in targets
  /\ artifact' = [artifact EXCEPT ![i] = "copy"]
  /\ run' = [run EXCEPT ![t].step = "copying", ![t].left = @ \ {i}, ![t].now = {},
                        ![t].finished = @ \cup {i}, ![t].known = @ \cup {i}]
  /\ Saved(t, run[t].finished \cup {i})
  /\ UNCHANGED <<status, policy, targets, spawned, admin, resumes, migrationCrashes,
                 rolledBack>>

RunWriteFails(t) ==
  /\ run[t].step = "writing"
  /\ checkpoint' = [checkpoint EXCEPT ![t] = run[t].finished]
  /\ run' = [run EXCEPT ![t].step = "rolling", ![t].now = {}]
  /\ UNCHANGED <<status, policy, targets, artifact, spawned, admin, resumes,
                 migrationCrashes, rolledBack>>

\* rollbackCreatedRepositories deletes a repository with all it holds; one
\* that is gone already does not matter.
RunRollsBack(t, r) ==
  /\ run[t].step = "rolling" /\ r \in run[t].created
  /\ targets' = targets \ {r}
  /\ artifact' = [i \in Items |-> IF RepoOf[i] = r THEN "absent" ELSE artifact[i]]
  /\ rolledBack' = rolledBack \cup {i \in Present : RepoOf[i] = r}
  /\ run' = [run EXCEPT ![t].created = @ \ {r}]
  /\ UNCHANGED <<status, policy, checkpoint, spawned, admin, resumes, migrationCrashes>>

\* All are deleted, or one could not be and the others stay.
RunFails(t) ==
  /\ run[t].step = "rolling"
  /\ StatusGoes(t, "failed")
  /\ run' = [run EXCEPT ![t].step = "leaving"]
  /\ UNCHANGED <<policy, checkpoint, targets, artifact, spawned, admin, resumes,
                 migrationCrashes, rolledBack>>

RunCancelled(t) ==
  /\ run[t].step = "cancelled"
  /\ StatusGoes(t, "cancelled")
  /\ run' = [run EXCEPT ![t].step = "leaving"]
  /\ UNCHANGED <<policy, checkpoint, targets, artifact, spawned, admin, resumes,
                 migrationCrashes, rolledBack>>

RunCompletes(t) ==
  /\ run[t].step = "copying" /\ run[t].left = {}
  /\ checkpoint' = [checkpoint EXCEPT ![t] = run[t].finished]
  /\ StatusGoes(t, "completed")
  /\ run' = [run EXCEPT ![t].step = "leaving"]
  /\ UNCHANGED <<policy, targets, artifact, spawned, admin, resumes, migrationCrashes,
                 rolledBack>>

\* The audit entry is written, the run forgotten and the lock given back.
RunLeaves(t) ==
  /\ run[t].step = "leaving" /\ RunGone(t)
  /\ UNCHANGED <<status, policy, checkpoint, targets, artifact, spawned, admin, resumes,
                 migrationCrashes, rolledBack>>

-----------------------------------------------------------------------------
(* Finalize, local publications, restarts *)

FinalizeBegins(t) ==
  /\ status[t] = "completed" /\ run[t] = NoRun
  /\ targets' = targets \cup PlannedRepos(t)
  /\ run' = [run EXCEPT ![t].step = "finalizing", ![t].left = Wanted[t]]
  /\ UNCHANGED <<status, policy, checkpoint, artifact, spawned, admin, resumes,
                 migrationCrashes, rolledBack>>

\* Finalize copies what the target does not have.
FinalizeItem(t, i) ==
  /\ run[t].step = "finalizing" /\ i \in run[t].left /\ RepoOf[i] \in targets
  /\ artifact' = [artifact EXCEPT ![i] = IF @ = "absent" THEN "copy" ELSE @]
  /\ run' = [run EXCEPT ![t].left = @ \ {i}]
  /\ UNCHANGED <<status, policy, checkpoint, targets, spawned, admin, resumes,
                 migrationCrashes, rolledBack>>

\* It is done, or an error or the end of the request stops it.
FinalizeEnds(t) ==
  /\ run[t].step = "finalizing" /\ RunGone(t)
  /\ UNCHANGED <<status, policy, checkpoint, targets, artifact, spawned, admin, resumes,
                 migrationCrashes, rolledBack>>

LocalPublish(i) ==
  /\ RepoOf[i] \in targets \ Immutables
  /\ artifact' = [artifact EXCEPT ![i] = "local"]
  /\ UNCHANGED <<status, policy, checkpoint, targets, run, spawned, admin, resumes,
                 migrationCrashes, rolledBack>>

\* FailInterruptedRunning: at start-up a running task becomes a failed one.
MigrationRestart ==
  /\ migrationCrashes < MigrationCrashes /\ migrationCrashes' = migrationCrashes + 1
  /\ status' = [t \in Migrations |-> IF status[t] = "running" THEN "failed" ELSE status[t]]
  /\ run' = [t \in Migrations |-> NoRun] /\ spawned' = [t \in Migrations |-> 0]
  /\ admin' = [a \in Admins |-> AdminIdle]
  /\ UNCHANGED <<policy, checkpoint, targets, artifact, resumes, rolledBack>>

MigrationNext ==
  \/ \E a \in Admins, t \in Migrations :
       StartReads(a, t) \/ ResumeReads(a, t) \/ CancelReads(a, t)
  \/ \E a \in Admins :
       RunningSet(a) \/ CancelPlanned(a) \/ CancelSignals(a) \/ CancelForces(a)
  \/ \E t \in Migrations :
       \/ RunLocks(t) \/ RunRegisters(t) \/ RunLoads(t) \/ RunCreates(t) \/ RunCreateFails(t)
       \/ RunStops(t) \/ RunWriteFails(t) \/ RunFails(t) \/ RunCancelled(t)
       \/ RunCompletes(t) \/ RunLeaves(t) \/ FinalizeBegins(t) \/ FinalizeEnds(t)
  \/ \E t \in Migrations, i \in Items :
       \/ RunReadsPaths(t, i) \/ RunSkips(t, i) \/ RunConflicts(t, i)
       \/ RunDecides(t, i) \/ RunWrites(t, i) \/ FinalizeItem(t, i)
  \/ \E t \in Migrations, r \in Targets : RunRollsBack(t, r)
  \/ \E i \in Items : LocalPublish(i)
  \/ MigrationRestart

MigrationSpec == MigrationInit /\ [][MigrationNext]_migrationVars

-----------------------------------------------------------------------------
(* Properties *)

\* A task that reads completed has every item of its source in the target,
\* through cancellations, failures, restarts and resumes from a checkpoint,
\* but for items that a rollback has deleted: the checkpoint outlives them
\* (run, loadCheckpoint, rollbackCreatedRepositories).
CompletedWhole ==
  \A t \in Migrations :
    status[t] = "completed" => Wanted[t] \subseteq Present \cup rolledBack

\* No failing migration deletes a repository that was there before all
\* migrations, whichever runs have found it missing or not
\* (plannedNewRepositories, rollbackCreatedRepositories).
PriorReposKept == Prior \subseteq targets

\* A checkpoint names only items that are in the target or were deleted by
\* a rollback (flushCP).
CheckpointTrue ==
  \A t \in Migrations : checkpoint[t] \subseteq Present \cup rolledBack

\* A completed task has brought all it wanted, its checkpoint is true, and no
\* failure takes a repository along that was there before.
MigrationSound == CompletedWhole /\ CheckpointTrue /\ PriorReposKept
=============================================================================
