-------------------------- MODULE ProxyHealthProofs --------------------------
(* Theorems about ProxyHealth, for any number of requests, threads and calls. *)
EXTENDS ProxyHealth, FiniteSetTheorems, TLAPS

\* What ties the fields of remoteState together at the end of every critical
\* section: stopCh is open exactly while the breaker is, and the slot is taken
\* only in a half-open round, by a call that is still out.
Consistent ==
  /\ TypeOK
  /\ stopCh <=> Blocked
  /\ SlotHasOwner

\* As long as nobody gives back another's slot, the round's only try is its owner's.
OwnerOnly == robbed \/ tries = (IF slot = Nobody THEN {} ELSE {slot})

\* The breaker starts closed, with nobody in it.
LEMMA InitConsistent == Init => Consistent /\ Watched /\ OwnerOnly
<1> SUFFICES ASSUME Init PROVE Consistent /\ Watched /\ OwnerOnly
  OBVIOUS
<1>1. TypeOK
  <2>1. calls \in 0..MaxCalls
    BY ConstantsAssumption DEF Init
  <2> QED BY <2>1, Zenon DEF Init, TypeOK, CallerSteps, ThreadSteps
<1>2. ~Blocked /\ ~stopCh /\ slot = Nobody /\ tries = {}
  BY DEF Init, Blocked
<1> QED BY <1>1, <1>2 DEF Consistent, SlotHasOwner, Watched, OwnerOnly

-----------------------------------------------------------------------------
(* Consistent is inductive.                                                *)

\* The threads' functions stay typed.
LEMMA StoppedTyped ==
  ASSUME NEW f \in [Threads -> ThreadSteps]
  PROVE  Stop(f) \in [Threads -> ThreadSteps] /\ Outdate(f) \in [Threads -> ThreadSteps]
  BY DEF Stop, Outdate, ThreadSteps

\* Every step keeps the fields consistent.
LEMMA ConsistentStep ==
  ASSUME Consistent, [Next]_vars
  PROVE  Consistent'
<1> USE ConstantsAssumption DEF Consistent, TypeOK, Blocked, SlotHasOwner, Trying, CallerSteps, health
<1>1. ASSUME NEW r \in Requests, PassThrough(r)
      PROVE  Consistent'
  BY <1>1 DEF PassThrough, Call
<1>2. ASSUME NEW r \in Requests, TryUpstream(r)
      PROVE  Consistent'
  BY <1>2 DEF TryUpstream, Call, TakeSlot
<1>3. ASSUME NEW r \in Requests, Recheck(r)
      PROVE  Consistent'
  BY <1>3 DEF Recheck, Call
<1>4. ASSUME NEW r \in Requests, ReplyInconclusive(r)
      PROVE  Consistent'
  BY <1>4 DEF ReplyInconclusive, InCall, ReleaseProbe, Finish
<1>5. ASSUME NEW r \in Requests, ReplyFails(r)
      PROVE  Consistent'
  BY <1>5, StoppedTyped DEF ReplyFails, RecordFailure, AdvanceBlock
<1>6. ASSUME NEW r \in Requests, ReplySucceeds(r)
      PROVE  Consistent'
  BY <1>6, StoppedTyped DEF ReplySucceeds, InCall, RecordSuccess, Reset, Finish
<1>7. ASSUME NEW r \in Requests, TransferEnds(r)
      PROVE  Consistent'
  BY <1>7 DEF TransferEnds, Finish
<1>8. ASSUME NEW r \in Requests, TransferAborts(r)
      PROVE  Consistent'
  BY <1>8 DEF TransferAborts, ReleaseProbe, Finish
<1>9. ASSUME NEW r \in Requests, RecheckFails(r)
      PROVE  Consistent'
  BY <1>9, StoppedTyped DEF RecheckFails, RecordFailure, AdvanceBlock
<1>10. ASSUME NEW r \in Requests, RecheckSucceeds(r)
       PROVE  Consistent'
  BY <1>10, StoppedTyped DEF RecheckSucceeds, RecordSuccess, Reset, Finish
<1>11. ASSUME NEW r \in Requests, NEW t \in Threads, StartThread(r, t)
       PROVE  Consistent'
  BY <1>11 DEF StartThread, Finish, ThreadSteps
<1>12. ASSUME NEW t \in Threads, ReadWindow(t) \/ TimerFires(t) \/ Interrupted(t) \/ StayOut(t) \/ Rejudge(t)
       PROVE  Consistent'
  BY <1>12 DEF ReadWindow, TimerFires, Interrupted, StayOut, Rejudge, Go, ThreadSteps
<1>13. ASSUME NEW t \in Threads, Enter(t)
       PROVE  Consistent'
  BY <1>13 DEF Enter, TakeSlot, Go, ThreadSteps
<1>14. ASSUME NEW t \in Threads, ProbeFails(t)
       PROVE  Consistent'
  <2>1. [thread EXCEPT ![t] = "top"] \in [Threads -> ThreadSteps]
    BY DEF ThreadSteps
  <2> QED BY <1>14, <2>1, StoppedTyped DEF ProbeFails, AdvanceBlock
<1>15. ASSUME NEW t \in Threads, ProbeSucceeds(t)
       PROVE  Consistent'
  <2>1. [thread EXCEPT ![t] = "none"] \in [Threads -> ThreadSteps]
    BY DEF ThreadSteps
  <2> QED BY <1>15, <2>1, StoppedTyped DEF ProbeSucceeds, Reset
<1>16. ASSUME NEW t \in Threads, ProbeDiscarded(t)
       PROVE  Consistent'
  BY <1>16 DEF ProbeDiscarded, Go, ThreadSteps
<1>17. CASE WindowPasses
  BY <1>17 DEF WindowPasses
<1>18. CASE UNCHANGED vars
  BY <1>18 DEF vars
<1> QED
  BY <1>1, <1>2, <1>3, <1>4, <1>5, <1>6, <1>7, <1>8, <1>9, <1>10, <1>11, <1>12, <1>13,
     <1>14, <1>15, <1>16, <1>17, <1>18 DEF Next, Reply, Starts, ThreadStep

\* The fields of remoteState are consistent in every reachable state.
LEMMA AlwaysConsistent == Spec => []Consistent
  BY InitConsistent, ConsistentStep, PTL DEF Spec

\* Every variable of the breaker keeps its type (remoteState and checkStatus).
THEOREM BreakerTypeCorrect == Spec => []TypeOK
<1>1. Consistent => TypeOK
  BY DEF Consistent
<1> QED BY <1>1, AlwaysConsistent, PTL

\* The half-open slot never outlives the call that took it (beginUpstream,
\* releaseProbe), whatever order the replies of earlier calls come in.
THEOREM SlotAlwaysOwned == Spec => []SlotHasOwner
<1>1. Consistent => SlotHasOwner
  BY DEF Consistent
<1> QED BY <1>1, AlwaysConsistent, PTL

-----------------------------------------------------------------------------
(* An open breaker is watched.                                             *)

\* A failure leaves the threads that stay, and opens stopCh with one to start.
LEMMA FailureWatched ==
  ASSUME Consistent, Watched, NEW r \in Requests, caller[r] # "starting", RecordFailure(r)
  PROVE  Watched'
<1>1. CASE stopCh
  <2>1. \A t \in Threads : Stays(t) => Stays(t)'
    BY DEF RecordFailure, AdvanceBlock, Outdate, Stays, Consistent, TypeOK
  <2>2. \A q \in Requests : caller[q] = "starting" => caller'[q] = "starting"
    BY DEF RecordFailure, Consistent, TypeOK
  <2> QED BY <1>1, <2>1, <2>2 DEF Consistent, Watched
<1>2. CASE ~stopCh
  BY <1>2 DEF RecordFailure, Consistent, TypeOK, Watched
<1> QED BY <1>1, <1>2

\* A success closes the breaker, and on a repository without an entry there is none.
LEMMA SuccessCloses ==
  ASSUME RecordSuccess PROVE ~Blocked'
  BY DEF RecordSuccess, Reset, Blocked

\* A step that leaves the breaker and the starting requests alone need only
\* keep the thread it moves.
LEMMA MovesWatched ==
  ASSUME Consistent, Watched, NEW t \in Threads, NEW step \in ThreadSteps,
         Blocked' => Blocked, Go(t, step), caller' = caller,
         Blocked' => (Stays(t) => step \notin {"none", "stopped"})
  PROVE  Watched'
<1> SUFFICES ASSUME Blocked' PROVE Watched'
  BY DEF Watched
<1>1. CASE \E u \in Threads : Stays(u)
  <2>1. PICK u \in Threads : Stays(u)
    BY <1>1
  <2>2. Stays(u)'
    BY <2>1 DEF Stays, Go, Consistent, TypeOK
  <2> QED BY <2>2 DEF Watched
<1>2. CASE \E r \in Requests : caller[r] = "starting"
  BY <1>2 DEF Watched
<1> QED BY <1>1, <1>2 DEF Watched

\* A request that ends a call, or begins one, keeps the starting ones.
LEMMA CallsWatched ==
  ASSUME Consistent, Watched, NEW r \in Requests, NEW step, caller[r] # "starting",
         Finish(r, step), Blocked' => Blocked, thread' = thread
  PROVE  Watched'
<1>1. \A q \in Requests : caller[q] = "starting" => caller'[q] = "starting"
  BY DEF Finish, Consistent, TypeOK
<1>2. \A t \in Threads : Stays(t) => Stays(t)'
  BY DEF Stays
<1> QED BY <1>1, <1>2 DEF Watched

\* Every step leaves an open breaker watched.
LEMMA WatchedStep ==
  ASSUME Consistent, Watched, [Next]_vars
  PROVE  Watched'
<1>1. ASSUME NEW r \in Requests, PassThrough(r) \/ TryUpstream(r) \/ Recheck(r)
      PROVE  Watched'
  <2>1. \E step : caller[r] # "starting" /\ Finish(r, step)
    BY <1>1 DEF PassThrough, TryUpstream, Recheck, Call, Finish
  <2>2. (Blocked' => Blocked) /\ thread' = thread
    BY <1>1 DEF PassThrough, TryUpstream, Recheck, Call, Blocked, health
  <2> QED BY <2>1, <2>2, CallsWatched
<1>2. ASSUME NEW r \in Requests, ReplyInconclusive(r) \/ TransferEnds(r) \/ TransferAborts(r)
      PROVE  Watched'
  <2>1. caller[r] # "starting" /\ Finish(r, "idle")
    BY <1>2 DEF ReplyInconclusive, TransferEnds, TransferAborts, InCall
  <2>2. (Blocked' => Blocked) /\ thread' = thread
    BY <1>2 DEF ReplyInconclusive, TransferEnds, TransferAborts, ReleaseProbe, Blocked, health
  <2> QED BY <2>1, <2>2, CallsWatched
<1>3. ASSUME NEW r \in Requests, ReplyFails(r) \/ RecheckFails(r)
      PROVE  Watched'
  BY <1>3, FailureWatched DEF ReplyFails, RecheckFails, InCall
<1>4. ASSUME NEW r \in Requests, ReplySucceeds(r) \/ RecheckSucceeds(r)
      PROVE  Watched'
  BY <1>4, SuccessCloses DEF ReplySucceeds, RecheckSucceeds, Watched
<1>5. ASSUME NEW r \in Requests, NEW t \in Threads, StartThread(r, t)
      PROVE  Watched'
  BY <1>5 DEF StartThread, Watched, Stays, Consistent, TypeOK
<1>6. ASSUME NEW t \in Threads, ReadWindow(t) \/ StayOut(t)
      PROVE  Watched'
  <2>1. PICK step \in ThreadSteps : Go(t, step) /\ (stopCh => step # "none" /\ step # "stopped")
    BY <1>6 DEF ReadWindow, StayOut, Go, ThreadSteps
  <2>2. caller' = caller /\ Blocked' = Blocked
    BY <1>6 DEF ReadWindow, StayOut, health, Blocked
  <2> QED BY <2>1, <2>2, MovesWatched DEF Consistent
<1>7. ASSUME NEW t \in Threads, TimerFires(t) \/ Rejudge(t)
      PROVE  Watched'
  BY <1>7, MovesWatched DEF TimerFires, Rejudge, health, Blocked, ThreadSteps
<1>8. ASSUME NEW t \in Threads, Interrupted(t)
      PROVE  Watched'
  BY <1>8, MovesWatched DEF Interrupted, health, Blocked, ThreadSteps, Stays
<1>9. ASSUME NEW t \in Threads, Enter(t)
      PROVE  Watched'
  BY <1>9, MovesWatched DEF Enter, Consistent, ThreadSteps
<1>10. ASSUME NEW t \in Threads, ProbeFails(t)
       PROVE  Watched'
  BY <1>10 DEF ProbeFails, AdvanceBlock, Outdate, Watched, Stays, Consistent, TypeOK
<1>11. ASSUME NEW t \in Threads, ProbeSucceeds(t) \/ ProbeDiscarded(t)
       PROVE  Watched'
  BY <1>11 DEF ProbeSucceeds, ProbeDiscarded, Reset, health, Consistent, Watched, Blocked
<1>12. CASE WindowPasses
  BY <1>12 DEF WindowPasses, Watched, Stays, Blocked
<1>13. CASE UNCHANGED vars
  BY <1>13 DEF vars, Watched, Stays, Blocked
<1> QED
  BY <1>1, <1>2, <1>3, <1>4, <1>5, <1>6, <1>7, <1>8, <1>9, <1>10, <1>11, <1>12, <1>13
  DEF Next, Reply, Starts, ThreadStep

\* While the breaker is open a probing thread runs that will not leave before a
\* success, or is about to start: the invariant that checkStatus states.
THEOREM AlwaysWatched == Spec => []Watched
  BY InitConsistent, ConsistentStep, WatchedStep, PTL DEF Spec

-----------------------------------------------------------------------------
(* One try per round.                                                      *)

\* Every step keeps the owner the round's only try, until somebody robs it.
LEMMA OwnerOnlyStep ==
  ASSUME Consistent, OwnerOnly, [Next]_vars
  PROVE  OwnerOnly'
<1> USE DEF OwnerOnly
<1>1. ASSUME NEW x, x # Nobody, TakeSlot(x), status = "HALF_OPEN" => slot = Nobody
      PROVE  OwnerOnly'
  BY <1>1 DEF TakeSlot
<1>2. ASSUME NEW x, ReleaseProbe(x)
      PROVE  OwnerOnly'
  BY <1>2 DEF ReleaseProbe
<1>3. ASSUME NEW f, AdvanceBlock(f) \/ Reset(f)
      PROVE  OwnerOnly'
  BY <1>3 DEF AdvanceBlock, Reset
<1>4. ASSUME UNCHANGED <<slot, tries, robbed>>
      PROVE  OwnerOnly'
  BY <1>4
<1>5. ASSUME NEW r \in Requests, PassThrough(r) \/ TryUpstream(r) \/ Recheck(r)
      PROVE  OwnerOnly'
  BY <1>1, <1>4, <1>5, ConstantsAssumption DEF PassThrough, TryUpstream, Recheck, health
<1>6. ASSUME NEW r \in Requests, Reply(r) \/ Starts(r)
      PROVE  OwnerOnly'
  BY <1>2, <1>3, <1>4, <1>6
  DEF Reply, Starts, ReplyInconclusive, ReplyFails, ReplySucceeds, TransferEnds, TransferAborts,
      RecheckFails, RecheckSucceeds, RecordFailure, RecordSuccess, StartThread, health
<1>7. ASSUME NEW t \in Threads, ThreadStep(t)
      PROVE  OwnerOnly'
  BY <1>1, <1>3, <1>4, <1>7, ConstantsAssumption
  DEF ThreadStep, ReadWindow, TimerFires, Interrupted, Enter, StayOut, Rejudge, ProbeFails,
      ProbeSucceeds, ProbeDiscarded, health
<1>8. CASE WindowPasses \/ UNCHANGED vars
  BY <1>4, <1>8 DEF WindowPasses, vars
<1> QED BY <1>5, <1>6, <1>7, <1>8 DEF Next

\* A half-open round has one try in flight unless a call has given back a slot
\* that was not its own: beginUpstream and checkStatus share one gate.
THEOREM OneTryUnlessRobbed == Spec => []OneTry
<1>1. Consistent /\ OwnerOnly => OneTry
  <2>1. Cardinality({}) = 0 /\ Cardinality({slot}) = 1
    BY FS_EmptySet, FS_Singleton
  <2> QED BY <2>1 DEF OwnerOnly, OneTry
<1> QED BY <1>1, InitConsistent, ConsistentStep, OwnerOnlyStep, PTL DEF Spec

-----------------------------------------------------------------------------
(* Late conclusions.                                                       *)

\* A probing thread that reports after a success has closed the breaker never
\* opens it again: checkStatus looks at stopCh first.
THEOREM LateProbesIgnored == Spec => ThreadsOnlyReblock
<1>1. ASSUME Consistent, [Next]_vars, ~Blocked, Blocked'
      PROVE  \E r \in Requests : caller'[r] # caller[r]
  <2> USE <1>1 DEF Consistent, TypeOK
  <2>1. ASSUME NEW r \in Requests, PassThrough(r) \/ TryUpstream(r) \/ Recheck(r) \/ Reply(r) \/ Starts(r)
        PROVE  caller'[r] # caller[r]
    BY <2>1
    DEF PassThrough, TryUpstream, Recheck, Call, Reply, Starts, ReplyInconclusive, ReplyFails,
        ReplySucceeds, TransferEnds, TransferAborts, RecheckFails, RecheckSucceeds, InCall,
        RecordFailure, StartThread, Finish
  <2>2. ASSUME NEW t \in Threads, ThreadStep(t)
        PROVE  FALSE
    BY <2>2
    DEF ThreadStep, ReadWindow, TimerFires, Interrupted, Enter, StayOut, Rejudge, ProbeFails,
        ProbeSucceeds, ProbeDiscarded, health, Blocked
  <2>3. ~WindowPasses /\ ~UNCHANGED vars
    BY DEF WindowPasses, vars, Blocked
  <2> QED BY <2>1, <2>2, <2>3 DEF Next
<1>2. Consistent /\ [Next]_vars
        => [~Blocked /\ Blocked' => \E r \in Requests : caller'[r] # caller[r]]_vars
  BY <1>1
<1> QED BY <1>2, AlwaysConsistent, PTL DEF Spec, ThreadsOnlyReblock
==============================================================================
