---------------------------- MODULE JobScheduler ----------------------------
(***************************************************************************)
(* The in-process scheduler of the maintenance jobs.                       *)
(*                                                                         *)
(* Every job has a loop that waits its interval, claims the job and runs   *)
(* it; an administrator's Run claims the same job and runs it in a         *)
(* goroutine of its own.  The claim is one flag under a mutex.  Whoever    *)
(* finds it taken does nothing: the loop waits another interval, Run       *)
(* answers with an error.  A panic of the job ends the run, not the loop.  *)
(***************************************************************************)
EXTENDS Naturals, FiniteSets

CONSTANTS
  Jobs,       \* the registered jobs
  Triggers    \* requests that run a job by name

ASSUME SchedulerAssumption == Jobs \cap Triggers = {}

VARIABLES
  loopAt,       \* the loop of each job
  trigger,      \* what each request is doing, and for which job
  jobRunning,   \* job.running
  jobFailed,    \* the last run of the job has failed: lastError is set
  cancelled     \* the context of Start is done

schedVars == <<loopAt, trigger, jobRunning, jobFailed, cancelled>>

LoopSteps == {"unstarted", "waiting", "due", "claimed", "invoking", "gone"}

TriggerIdle == [step |-> "idle"]

TriggerBusy == [step : {"claimed", "invoking"}, job : Jobs]

SchedulerTypeOK ==
  /\ loopAt \in [Jobs -> LoopSteps]
  /\ trigger \in [Triggers -> TriggerBusy \cup {TriggerIdle}]
  /\ jobRunning \in [Jobs -> BOOLEAN] /\ jobFailed \in [Jobs -> BOOLEAN]
  /\ cancelled \in BOOLEAN

SchedulerInit ==
  /\ loopAt = [j \in Jobs |-> "unstarted"]
  /\ trigger = [r \in Triggers |-> TriggerIdle]
  /\ jobRunning = [j \in Jobs |-> FALSE] /\ jobFailed = [j \in Jobs |-> FALSE]
  /\ cancelled = FALSE

LoopGoes(j, step) == loopAt' = [loopAt EXCEPT ![j] = step]

TriggerGoes(r, step, j) == trigger' = [trigger EXCEPT ![r] = [step |-> step, job |-> j]]

-----------------------------------------------------------------------------

SchedulerStart ==
  /\ \A j \in Jobs : loopAt[j] = "unstarted"
  /\ loopAt' = [j \in Jobs |-> "waiting"]
  /\ UNCHANGED <<trigger, jobRunning, jobFailed, cancelled>>

Cancel ==
  /\ ~cancelled /\ cancelled' = TRUE
  /\ UNCHANGED <<loopAt, trigger, jobRunning, jobFailed>>

\* The interval is over, or the context is done; both may be.
LoopWakes(j) ==
  /\ loopAt[j] = "waiting"
  /\ LoopGoes(j, "due") \/ (cancelled /\ LoopGoes(j, "gone"))
  /\ UNCHANGED <<trigger, jobRunning, jobFailed, cancelled>>

\* A mistake: a loop that finds its job taken returns.
LoopClaimsOrEnds(j) ==
  /\ loopAt[j] = "due"
  /\ IF cancelled \/ jobRunning[j] THEN LoopGoes(j, "gone") /\ UNCHANGED jobRunning
     ELSE LoopGoes(j, "claimed") /\ jobRunning' = [jobRunning EXCEPT ![j] = TRUE]
  /\ UNCHANGED <<trigger, jobFailed, cancelled>>

\* runOnce: a loop that finds its job taken waits for the next interval.
LoopClaims(j) ==
  /\ loopAt[j] = "due"
  /\ IF cancelled THEN LoopGoes(j, "gone") /\ UNCHANGED jobRunning
     ELSE IF jobRunning[j] THEN LoopGoes(j, "waiting") /\ UNCHANGED jobRunning
     ELSE LoopGoes(j, "claimed") /\ jobRunning' = [jobRunning EXCEPT ![j] = TRUE]
  /\ UNCHANGED <<trigger, jobFailed, cancelled>>

\* A mistake: the request looks at the flag and does not set it.
TriggerClaimsUnset(r, j) ==
  /\ trigger[r] = TriggerIdle /\ ~jobRunning[j]
  /\ TriggerGoes(r, "claimed", j)
  /\ UNCHANGED <<loopAt, jobRunning, jobFailed, cancelled>>

\* Run; for a job that is taken it answers ErrJobRunning and nothing changes.
TriggerClaims(r, j) ==
  /\ trigger[r] = TriggerIdle /\ ~jobRunning[j]
  /\ TriggerGoes(r, "claimed", j)
  /\ jobRunning' = [jobRunning EXCEPT ![j] = TRUE]
  /\ UNCHANGED <<loopAt, jobFailed, cancelled>>

\* The job's function begins.
LoopInvokes(j) ==
  /\ loopAt[j] = "claimed" /\ LoopGoes(j, "invoking")
  /\ UNCHANGED <<trigger, jobRunning, jobFailed, cancelled>>

TriggerInvokes(r, j) ==
  /\ trigger[r] = [step |-> "claimed", job |-> j] /\ TriggerGoes(r, "invoking", j)
  /\ UNCHANGED <<loopAt, jobRunning, jobFailed, cancelled>>

\* A mistake: a run that panics leaves the flag set.
ReleasesUnlessPanic(j) ==
  \E outcome \in {"ok", "error", "panic"} :
    /\ jobRunning' = [jobRunning EXCEPT ![j] = outcome = "panic"]
    /\ jobFailed' = [jobFailed EXCEPT ![j] = outcome # "ok"]

\* It returns, fails or panics: the flag is cleared, and lastError is set.
Releases(j) ==
  \E outcome \in {"ok", "error", "panic"} :
    /\ jobRunning' = [jobRunning EXCEPT ![j] = FALSE]
    /\ jobFailed' = [jobFailed EXCEPT ![j] = outcome # "ok"]

LoopReleases(j) ==
  /\ loopAt[j] = "invoking" /\ Releases(j) /\ LoopGoes(j, "waiting")
  /\ UNCHANGED <<trigger, cancelled>>

TriggerReleases(r, j) ==
  /\ trigger[r] = [step |-> "invoking", job |-> j] /\ Releases(j)
  /\ trigger' = [trigger EXCEPT ![r] = TriggerIdle]
  /\ UNCHANGED <<loopAt, cancelled>>

-----------------------------------------------------------------------------

LoopStep(j) == LoopWakes(j) \/ LoopClaims(j) \/ LoopInvokes(j) \/ LoopReleases(j)

TriggerStep(r, j) == TriggerInvokes(r, j) \/ TriggerReleases(r, j)

SchedulerNext ==
  \/ SchedulerStart \/ Cancel
  \/ \E j \in Jobs : LoopStep(j)
  \/ \E r \in Triggers, j \in Jobs : TriggerClaims(r, j) \/ TriggerStep(r, j)

SchedulerSpec == SchedulerInit /\ [][SchedulerNext]_schedVars

-----------------------------------------------------------------------------
(* Properties.                                                             *)

LoopHolds(j) == loopAt[j] \in {"claimed", "invoking"}

TriggerHolds(r, j) == trigger[r] # TriggerIdle /\ trigger[r].job = j

\* A job never overlaps itself, whether the clock or an administrator has begun
\* it, and its flag is set exactly while somebody runs it: neither a failure nor
\* a panic locks it out.
OneRunPerJob ==
  \A j \in Jobs :
    /\ jobRunning[j] <=> (LoopHolds(j) \/ \E r \in Triggers : TriggerHolds(r, j))
    /\ \A r \in Triggers : TriggerHolds(r, j) =>
         ~LoopHolds(j) /\ \A s \in Triggers \ {r} : ~TriggerHolds(s, j)

\* Until the shutdown every job runs again and again, whatever fails, panics or
\* is run by hand in between.
JobsComeRound == \A j \in Jobs : []<>(jobRunning[j] \/ cancelled)
=============================================================================
