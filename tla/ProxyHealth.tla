----------------------------- MODULE ProxyHealth -----------------------------
(***************************************************************************)
(* The circuit breaker of one proxy repository's upstream.                 *)
(*                                                                         *)
(* proxyHealth keeps a remoteState for each repository under one mutex.    *)
(* Requests that miss the cache pass its gate, talk to the upstream with   *)
(* the mutex free, and report what came of it.  A failure blocks the       *)
(* repository for a window and sees to it that a probing thread runs; when *)
(* the window is over the breaker is half open and one call, a request's   *)
(* or the thread's, may try the upstream.  A manual recheck probes at any  *)
(* time and past the gate.  Every action below is one critical section, or *)
(* what a goroutine does between two of them; calls that began before an   *)
(* outage report in the middle of it.                                      *)
(*                                                                         *)
(* There is no clock: a window is over or not, and a timer set for the     *)
(* current window fires once it is over.  The lengths of the windows are   *)
(* left out.                                                               *)
(***************************************************************************)
EXTENDS Naturals, FiniteSets

CONSTANTS
  Requests,    \* goroutines that serve reads and rechecks
  Threads,     \* goroutines that can be running checkStatus
  Nobody,      \* the slot of the half-open round is free
  MaxCalls     \* bound on the calls that requests make

ASSUME ConstantsAssumption ==
  /\ IsFiniteSet(Requests) /\ IsFiniteSet(Threads)
  /\ Requests \cap Threads = {}
  /\ Nobody \notin Requests \cup Threads
  /\ MaxCalls \in Nat

VARIABLES
  status,      \* remoteState.state; "READY" while the repository has no entry
  windowOver,  \* blockedUntil has passed
  slot,        \* probeInFlight, by the name of the call that set it
  round,       \* roundDone is an open channel
  stopCh,      \* stopCh is an open channel
  caller,      \* where each request is
  thread,      \* where each probing thread is
  calls,       \* calls made so far
  \* history
  tries,       \* tries of the current half-open round that are in flight
  robbed       \* this round's slot was given back by a call that did not own it

vars == <<status, windowOver, slot, round, stopCh, caller, thread, calls, tries, robbed>>

Blocked == status \in {"AUTO_BLOCKED", "HALF_OPEN"}

\* "passed" went through the closed breaker, "trying" took the slot; "starting"
\* is between the failure that opened stopCh and the go statement.
CallerSteps == {"idle", "passed", "trying", "receiving", "rechecking", "starting"}

\* A thread in its select waits for the timer of the current window, or of a
\* window that was restarted since ("outdated"), and on a channel that is open
\* or, in "stopped", closed.
ThreadSteps == {"none", "top", "waiting", "outdated", "stopped", "due", "watching", "probing"}

TypeOK ==
  /\ status \in {"READY", "AVAILABLE", "AUTO_BLOCKED", "HALF_OPEN"}
  /\ windowOver \in BOOLEAN /\ round \in BOOLEAN /\ stopCh \in BOOLEAN /\ robbed \in BOOLEAN
  /\ slot \in Requests \cup Threads \cup {Nobody}
  /\ caller \in [Requests -> CallerSteps]
  /\ thread \in [Threads -> ThreadSteps]
  /\ calls \in 0..MaxCalls
  /\ tries \subseteq Requests \cup Threads

Init ==
  /\ status = "READY" /\ windowOver = TRUE
  /\ slot = Nobody /\ round = FALSE /\ stopCh = FALSE
  /\ caller = [r \in Requests |-> "idle"]
  /\ thread = [t \in Threads |-> "none"]
  /\ calls = 0
  /\ tries = {} /\ robbed = FALSE

-----------------------------------------------------------------------------
(* The changes of remoteState that the critical sections share.  Those that *)
(* wake threads take the threads' other change as an argument.              *)

\* enterHalfOpen, if the breaker is not half open, and then the slot to x.
TakeSlot(x) ==
  /\ status' = "HALF_OPEN"
  /\ slot' = x
  /\ round' = (round \/ status # "HALF_OPEN")
  /\ tries' = (IF status = "HALF_OPEN" THEN tries ELSE {}) \cup {x}
  /\ robbed' = (robbed /\ status = "HALF_OPEN")
  /\ UNCHANGED <<windowOver, stopCh>>

\* A mistake: the round ends and the slot stays taken.
ReleaseRoundOnly(x) ==
  /\ round' = FALSE
  /\ UNCHANGED <<status, windowOver, slot, stopCh, tries, robbed>>

\* releaseProbe by x: whoever owns the slot, and whatever the state.
ReleaseProbe(x) ==
  /\ slot' = Nobody
  /\ round' = FALSE
  /\ tries' = tries \ {x}
  /\ robbed' = (robbed \/ slot \notin {x, Nobody})
  /\ UNCHANGED <<status, windowOver, stopCh>>

\* The window restarts, so a timer that is running was set for an earlier one.
Outdate(f) == [t \in Threads |-> IF f[t] = "waiting" THEN "outdated" ELSE f[t]]

\* A mistake: a failure goes to the reserved state of an unavailable upstream.
AdvanceToUnavailable(f) ==
  /\ status' = "UNAVAILABLE"
  /\ windowOver' = FALSE
  /\ slot' = Nobody /\ round' = FALSE
  /\ tries' = {} /\ robbed' = FALSE
  /\ thread' = Outdate(f)

\* advanceBlock.
AdvanceBlock(f) ==
  /\ status' = "AUTO_BLOCKED"
  /\ windowOver' = FALSE
  /\ slot' = Nobody /\ round' = FALSE
  /\ tries' = {} /\ robbed' = FALSE
  /\ thread' = Outdate(f)

\* close(stopCh) reaches every thread that waits on it.
Stop(f) == [t \in Threads |-> IF f[t] \in {"waiting", "outdated"} THEN "stopped" ELSE f[t]]

Reset(f) ==
  /\ status' = "AVAILABLE"
  /\ windowOver' = TRUE
  /\ slot' = Nobody /\ round' = FALSE /\ stopCh' = FALSE
  /\ tries' = {} /\ robbed' = FALSE
  /\ thread' = Stop(f)

\* A mistake: only a repository without an entry gets a thread.
RecordFailureStartsOnce(r) ==
  /\ AdvanceBlock(thread)
  /\ stopCh' = TRUE
  /\ caller' = [caller EXCEPT ![r] = IF status = "READY" THEN "starting" ELSE "idle"]

\* recordFailure by r, up to its unlock: the caller that finds no stopCh makes
\* one and has a thread to start.
RecordFailure(r) ==
  /\ AdvanceBlock(thread)
  /\ stopCh' = TRUE
  /\ caller' = [caller EXCEPT ![r] = IF stopCh THEN "idle" ELSE "starting"]

\* recordSuccess leaves a repository that never failed without an entry.
RecordSuccess ==
  IF status = "READY"
  THEN UNCHANGED <<status, windowOver, slot, round, stopCh, thread, tries, robbed>>
  ELSE Reset(thread)

-----------------------------------------------------------------------------
(* Requests.                                                               *)

health == <<status, windowOver, slot, round, stopCh, tries, robbed>>

Call(r, step) ==
  /\ caller[r] = "idle"
  /\ calls < MaxCalls /\ calls' = calls + 1
  /\ caller' = [caller EXCEPT ![r] = step]
  /\ UNCHANGED thread

\* beginUpstream lets everything through a closed breaker ...
PassThrough(r) ==
  /\ ~Blocked
  /\ Call(r, "passed")
  /\ UNCHANGED health

\* A mistake: the gate looks at the state and not at the slot.
TryWithoutLooking(r) ==
  /\ \/ status = "AUTO_BLOCKED" /\ windowOver
     \/ status = "HALF_OPEN"
  /\ Call(r, "trying")
  /\ TakeSlot(r)

\* ... and one call through one that is half open or whose window is over.
\* Every other call fails fast and changes nothing.  The earlier check of
\* shouldBlock only fails more calls fast, and one caller does without it.
TryUpstream(r) ==
  /\ \/ status = "AUTO_BLOCKED" /\ windowOver
     \/ status = "HALF_OPEN" /\ slot = Nobody
  /\ Call(r, "trying")
  /\ TakeSlot(r)

InCall(r) == caller[r] \in {"passed", "trying"}

Finish(r, step) == caller' = [caller EXCEPT ![r] = step]

\* 404 and, outside OCI, 410; a timeout or a cancelled request.
ReplyInconclusive(r) ==
  /\ InCall(r)
  /\ ReleaseProbe(r) /\ Finish(r, "idle")
  /\ UNCHANGED <<thread, calls>>

\* The upstream cannot be reached, or answers 5xx, 401, 403.
ReplyFails(r) ==
  /\ InCall(r)
  /\ RecordFailure(r)
  /\ UNCHANGED calls

\* A 2xx header counts as success; the body is still to come.
ReplySucceeds(r) ==
  /\ InCall(r)
  /\ RecordSuccess /\ Finish(r, "receiving")
  /\ UNCHANGED calls

\* The body arrives, the client goes away, or the local disk fails.
TransferEnds(r) ==
  /\ caller[r] = "receiving"
  /\ Finish(r, "idle")
  /\ UNCHANGED <<health, thread, calls>>

\* The body is slow or cut off: settleUpstreamFailure gives back a slot, much
\* later than the success that ended this call's own round.
TransferAborts(r) ==
  /\ caller[r] = "receiving"
  /\ ReleaseProbe(r) /\ Finish(r, "idle")
  /\ UNCHANGED <<thread, calls>>

Recheck(r) ==
  /\ Call(r, "rechecking")
  /\ UNCHANGED health

RecheckFails(r) ==
  /\ caller[r] = "rechecking"
  /\ RecordFailure(r)
  /\ UNCHANGED calls

RecheckSucceeds(r) ==
  /\ caller[r] = "rechecking"
  /\ RecordSuccess /\ Finish(r, "idle")
  /\ UNCHANGED calls

\* The go statement at the end of recordFailure, after its unlock.
StartThread(r, t) ==
  /\ caller[r] = "starting" /\ thread[t] = "none"
  /\ thread' = [thread EXCEPT ![t] = "top"]
  /\ Finish(r, "idle")
  /\ UNCHANGED <<health, calls>>

-----------------------------------------------------------------------------
(* checkStatus.                                                            *)

Go(t, step) == thread' = [thread EXCEPT ![t] = step]

\* A mistake: the loop goes on when stopCh is gone.
ReadWindowForEver(t) ==
  /\ thread[t] = "top"
  /\ Go(t, IF ~stopCh THEN "top" ELSE IF windowOver THEN "due" ELSE "waiting")
  /\ UNCHANGED <<health, caller, calls>>

\* The head of the loop reads blockedUntil and stopCh.
ReadWindow(t) ==
  /\ thread[t] = "top"
  /\ Go(t, IF ~stopCh THEN "none" ELSE IF windowOver THEN "due" ELSE "waiting")
  /\ UNCHANGED <<health, caller, calls>>

\* The timer fires.  A select that finds the channel closed too may still take
\* the timer.
TimerFires(t) ==
  /\ \/ thread[t] = "waiting" /\ windowOver
     \/ thread[t] \in {"outdated", "stopped"}
  /\ Go(t, "top")
  /\ UNCHANGED <<health, caller, calls>>

Interrupted(t) ==
  /\ thread[t] = "stopped"
  /\ Go(t, "none")
  /\ UNCHANGED <<health, caller, calls>>

\* The second critical section does not look at the window again.
Enter(t) ==
  /\ thread[t] = "due" /\ stopCh
  /\ status = "HALF_OPEN" => slot = Nobody
  /\ TakeSlot(t) /\ Go(t, "probing")
  /\ UNCHANGED <<caller, calls>>

\* It is too late to probe, or another call holds the slot; with no round to
\* wait for the thread goes straight back to the head of its loop.
StayOut(t) ==
  /\ thread[t] = "due"
  /\ \/ ~stopCh /\ Go(t, "none")
     \/ /\ stopCh /\ status = "HALF_OPEN" /\ slot # Nobody
        /\ Go(t, IF round THEN "watching" ELSE "top")
  /\ UNCHANGED <<health, caller, calls>>

\* The round is concluded, stopCh is closed, or probeTimeout has passed.
Rejudge(t) ==
  /\ thread[t] = "watching"
  /\ Go(t, "top")
  /\ UNCHANGED <<health, caller, calls>>

\* A mistake: a failed probe does not look at stopCh.
ProbeFailsRegardless(t) ==
  /\ thread[t] = "probing"
  /\ AdvanceBlock([thread EXCEPT ![t] = "top"])
  /\ UNCHANGED <<stopCh, caller, calls>>

ProbeFails(t) ==
  /\ thread[t] = "probing" /\ stopCh
  /\ AdvanceBlock([thread EXCEPT ![t] = "top"])
  /\ UNCHANGED <<stopCh, caller, calls>>

\* A mistake: the thread leaves stopCh open when it returns.
ProbeSucceedsKeepsChannel(t) ==
  /\ thread[t] = "probing" /\ stopCh
  /\ status' = "AVAILABLE" /\ windowOver' = TRUE
  /\ slot' = Nobody /\ round' = FALSE
  /\ tries' = {} /\ robbed' = FALSE
  /\ Go(t, "none")
  /\ UNCHANGED <<stopCh, caller, calls>>

ProbeSucceeds(t) ==
  /\ thread[t] = "probing" /\ stopCh
  /\ Reset([thread EXCEPT ![t] = "none"])
  /\ UNCHANGED <<caller, calls>>

\* A success elsewhere has cleared stopCh during the probe.
ProbeDiscarded(t) ==
  /\ thread[t] = "probing" /\ ~stopCh
  /\ Go(t, "none")
  /\ UNCHANGED <<health, caller, calls>>

-----------------------------------------------------------------------------

WindowPasses ==
  /\ ~windowOver /\ windowOver' = TRUE
  /\ UNCHANGED <<status, slot, round, stopCh, caller, thread, calls, tries, robbed>>

Reply(r) ==
  \/ ReplyInconclusive(r) \/ ReplyFails(r) \/ ReplySucceeds(r)
  \/ TransferEnds(r) \/ TransferAborts(r)
  \/ RecheckFails(r) \/ RecheckSucceeds(r)

Starts(r) == \E t \in Threads : StartThread(r, t)

ThreadStep(t) ==
  \/ ReadWindow(t) \/ TimerFires(t) \/ Interrupted(t) \/ Enter(t) \/ StayOut(t)
  \/ Rejudge(t) \/ ProbeFails(t) \/ ProbeSucceeds(t) \/ ProbeDiscarded(t)

Next ==
  \/ \E r \in Requests : PassThrough(r) \/ TryUpstream(r) \/ Recheck(r)
  \/ \E r \in Requests : Reply(r) \/ Starts(r)
  \/ \E t \in Threads : ThreadStep(t)
  \/ WindowPasses

\* Calls end, because their contexts have deadlines; goroutines are scheduled;
\* time passes.  Of the upstream: a thread that probes over and over is answered.
Fairness ==
  /\ \A r \in Requests : WF_vars(Reply(r)) /\ WF_vars(Starts(r))
  /\ \A t \in Threads : WF_vars(ThreadStep(t)) /\ SF_vars(ProbeSucceeds(t))
  /\ WF_vars(WindowPasses)

Spec == Init /\ [][Next]_vars
FairSpec == Spec /\ Fairness

-----------------------------------------------------------------------------
(* Properties.                                                             *)

\* checkStatus promises that a thread runs whenever the breaker is open: there
\* is one that will not leave before a success, or it is about to be started.
Stays(t) == thread[t] \notin {"none", "stopped"}

Watched ==
  Blocked => \/ \E t \in Threads : Stays(t)
             \/ \E r \in Requests : caller[r] = "starting"

\* The slot never outlives the call that took it, which would shut out every
\* later call, and exists only while the breaker is half open.
Trying(x) == (x \in Requests /\ caller[x] = "trying") \/ (x \in Threads /\ thread[x] = "probing")

SlotHasOwner == slot # Nobody => status = "HALF_OPEN" /\ Trying(slot)

\* One try per round, as long as no call gives back a slot it does not own.
OneTry == robbed \/ Cardinality(tries) <= 1

\* A thread's late conclusion never blocks a repository that a success has
\* opened in the meantime: only a call of a request's does.
ThreadsOnlyReblock ==
  [][~Blocked /\ Blocked' => \E r \in Requests : caller'[r] # caller[r]]_vars

\* No order of replies leaves the breaker open for ever: without any further
\* traffic the repository comes back once the upstream answers.
Recovers == Blocked ~> status = "AVAILABLE"

\* The threads of past outages end.
ThreadsEnd == <>[](~Blocked) => <>[](\A t \in Threads : thread[t] = "none")

-----------------------------------------------------------------------------
(* What the comments promise without the exception.                        *)

\* "Exactly one upstream probe is in flight in each half-open round."
OneTryPerRound == Cardinality(tries) <= 1

\* "When a request has taken the slot, the thread waits for the round's end
\* instead": there is a roundDone to wait for.
RoundToWaitFor ==
  \A t \in Threads : thread[t] = "due" /\ slot \in Requests => round
==============================================================================
