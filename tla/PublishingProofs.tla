------------------------- MODULE PublishingProofs ---------------------------
(***************************************************************************)
(* What publishing keeps, for every value of the constants: the upload     *)
(* sessions of the registry, the blobs its images need, and the limits of  *)
(* every publication.                                                      *)
(***************************************************************************)
EXTENDS OCIUploads, OCIPush, PublishGates, WellFoundedInduction,
        FiniteSetTheorems, TLAPS

-----------------------------------------------------------------------------
(***************************************************************************)
(* OCIUploads.                                                             *)
(* For any number of sessions, requests and restarts: a session is charged *)
(* with the one blob it brought into the store, nobody touches it once it  *)
(* is closed, and what it holds is known to whoever gives it back.         *)
(***************************************************************************)

ActiveSteps == {"waiting", "appending", "checking", "storing"}

Handles(q) == chunker[q].step \in ActiveSteps

\* A session can be found only between its POST and its end.
Lives(s) ==
  /\ posted[s] # "done" => s \notin listed /\ s \notin closed /\ intoStore[s] = {}
  /\ posted[s] \in {"reserved", "filed"} => s \in reserved
  /\ s \in listed => s \notin closed /\ s \in reserved /\ intoStore[s] = {}
  /\ timer[s] # "off" => s \in listed \cup closed

\* A request waits for a session that was found, and owns one that still is.
KnowsSession(q) ==
  /\ Handles(q) => chunker[q].on \in listed \cup closed
  /\ Owning(q) => chunker[q].on \in listed
  /\ \A p \in Chunkers : Owning(p) /\ Owning(q) /\ chunker[p].on = chunker[q].on => p = q

\* What is to be cleaned up belongs to one closer, and a session that brought
\* a blob into the store is still reserved until then.
Closers ==
  /\ \A k \in cleanups :
       k.of \in closed /\ (k.success => k.of \in reserved /\ intoStore[k.of] = {k.size})
  /\ \A k, l \in cleanups : k.of = l.of => k = l

\* ChargedForBlob without its cardinality.
Charges(s) ==
  /\ intoStore[s] = {} \/ \E n \in Nat : intoStore[s] = {n}
  /\ \/ charged[s] = intoStore[s]
     \/ charged[s] = {} /\ (sessionCrashes > 0 \/ \E k \in cleanups : k.of = s /\ k.success)

\* The inductive invariant.
SessionsTrue ==
  /\ SessionTypeOK
  /\ \A s \in Sessions : Lives(s)
  /\ \A q \in Chunkers : KnowsSession(q)
  /\ Closers
  /\ \A s \in Sessions : Charges(s)
  /\ OwnedByOne

-----------------------------------------------------------------------------
(* What the steps have in common *)

\* A request that is doing something has a session.
LEMMA ActiveHasSession ==
  ASSUME SessionTypeOK, NEW q \in Chunkers, Handles(q)
  PROVE  chunker[q] \in [step : ActiveSteps, on : Sessions, put : BOOLEAN]
BY DEF SessionTypeOK, ChunkerStates, IdleChunker, Handles, ActiveSteps

\* A request that goes on keeps its session, and the others keep still.
LEMMA GoesOn ==
  ASSUME SessionTypeOK, NEW q \in Chunkers, Handles(q), NEW step \in ActiveSteps, ChunkerGoes(q, step)
  PROVE  /\ chunker' \in [Chunkers -> ChunkerStates]
         /\ chunker'[q].step = step /\ chunker'[q].on = chunker[q].on
         /\ chunker[q].on \in Sessions
         /\ \A p \in Chunkers : p # q => chunker'[p] = chunker[p]
<1>1. chunker[q] \in [step : ActiveSteps, on : Sessions, put : BOOLEAN]
  BY ActiveHasSession
<1>2. chunker' = [chunker EXCEPT ![q] = [chunker[q] EXCEPT !.step = step]]
  BY DEF ChunkerGoes
<1>3. [chunker[q] EXCEPT !.step = step] \in [step : ActiveSteps, on : Sessions, put : BOOLEAN]
  BY <1>1
<1>4. [chunker[q] EXCEPT !.step = step] \in ChunkerStates
  BY <1>3 DEF ChunkerStates, ActiveSteps
<1>5. chunker \in [Chunkers -> ChunkerStates]
  BY DEF SessionTypeOK
<1> QED BY <1>1, <1>2, <1>4, <1>5

\* A request that ends does nothing any more.
LEMMA Ends ==
  ASSUME SessionTypeOK, NEW q \in Chunkers, ChunkerEnds(q)
  PROVE  /\ chunker' \in [Chunkers -> ChunkerStates]
         /\ chunker'[q].step = "done"
         /\ \A p \in Chunkers : p # q => chunker'[p] = chunker[p]
BY DEF SessionTypeOK, ChunkerEnds, ChunkerStates

\* What closing a session does.
LEMMA Closes ==
  ASSUME SessionTypeOK, NEW s \in Sessions, NEW success \in BOOLEAN, CloseLocked(s, success)
  PROVE  /\ listed' = listed \ {s} /\ closed' = closed \cup {s}
         /\ listed' \subseteq Sessions /\ closed' \subseteq Sessions /\ cleanups' \subseteq Cleanup
         /\ s \in closed => cleanups' = cleanups
         /\ s \notin closed =>
              cleanups' = cleanups \cup {[of |-> s, success |-> success, size |-> length[s]]}
BY DEF SessionTypeOK, CloseLocked, Cleanup

\* A request closes the session it owns: what it finds, and what it leaves.
Shut(q, s, success) ==
  /\ s = chunker[q].on /\ s \in Sessions
  /\ s \in listed /\ s \notin closed /\ posted[s] = "done"
  /\ s \in reserved /\ intoStore[s] = {} /\ length[s] \in 0 .. SessionLimit
  /\ \A p \in Chunkers : p # q /\ Owning(p) => chunker[p].on # s
  /\ listed' = listed \ {s} /\ closed' = closed \cup {s}
  /\ listed' \subseteq Sessions /\ closed' \subseteq Sessions /\ cleanups' \subseteq Cleanup
  /\ cleanups' = cleanups \cup {[of |-> s, success |-> success, size |-> length[s]]}
  /\ chunker' \in [Chunkers -> ChunkerStates] /\ chunker'[q].step = "done"
  /\ \A p \in Chunkers : p # q => chunker'[p] = chunker[p]

LEMMA Shuts ==
  ASSUME SessionsTrue, NEW q \in Chunkers, Owning(q), NEW success \in BOOLEAN,
         CloseLocked(chunker[q].on, success), ChunkerEnds(q)
  PROVE  Shut(q, chunker[q].on, success)
<1>1. SessionTypeOK /\ KnowsSession(q)
  BY DEF SessionsTrue
<1>2. Handles(q)
  BY DEF Owning, Handles, ActiveSteps
<1>3. chunker[q].on \in Sessions
  BY <1>1, <1>2, ActiveHasSession
<1>4. chunker[q].on \in listed
  BY <1>1 DEF KnowsSession
<1>5. Lives(chunker[q].on)
  BY <1>3 DEF SessionsTrue
<1>6. \A p \in Chunkers : p # q /\ Owning(p) => chunker[p].on # chunker[q].on
  BY <1>1 DEF KnowsSession
<1>7. length[chunker[q].on] \in 0 .. SessionLimit
  BY <1>1, <1>3 DEF SessionTypeOK
<1>8. chunker[q].on \notin closed
  BY <1>4, <1>5 DEF Lives
<1>9. /\ listed' = listed \ {chunker[q].on} /\ closed' = closed \cup {chunker[q].on}
      /\ cleanups' = cleanups \cup
           {[of |-> chunker[q].on, success |-> success, size |-> length[chunker[q].on]]}
      /\ listed' \subseteq Sessions /\ closed' \subseteq Sessions /\ cleanups' \subseteq Cleanup
  BY <1>1, <1>3, <1>8, Closes
<1> QED BY <1>1, <1>3, <1>4, <1>5, <1>6, <1>7, <1>8, <1>9, Ends DEF Lives, Shut

\* One more closer, of a session that was open.
LEMMA OneMoreCloser ==
  ASSUME SessionTypeOK, Closers, NEW s \in Sessions, s \notin closed, NEW c,
         c.of = s, c.success => s \in reserved /\ intoStore'[s] = {c.size},
         cleanups' = cleanups \cup {c}, closed' = closed \cup {s}, reserved' = reserved,
         \A z \in Sessions \ {s} : intoStore'[z] = intoStore[z]
  PROVE  Closers'
<1>1. ASSUME NEW k \in cleanups PROVE k.of \in Sessions /\ k.of # s
  BY DEF SessionTypeOK, Cleanup, Closers
<1>2. ASSUME NEW k \in cleanups'
      PROVE  k.of \in closed' /\ (k.success => k.of \in reserved' /\ intoStore'[k.of] = {k.size})
  <2>1. CASE k = c BY <2>1
  <2>2. CASE k \in cleanups BY <1>1, <2>2 DEF Closers
  <2> QED BY <2>1, <2>2
<1>3. ASSUME NEW k \in cleanups', NEW l \in cleanups', k.of = l.of PROVE k = l
  BY <1>1, <1>3 DEF Closers
<1> QED BY <1>2, <1>3 DEF Closers

\* What the session held is its closer's.
LEMMA CloserOwns ==
  ASSUME OwnedByOne, NEW s \in Sessions, NEW c, c.of = s, cleanups' = cleanups \cup {c},
         listed' = listed \ {s}, closed' = closed \cup {s}, UNCHANGED <<posted, tempFiles, reserved>>
  PROVE  OwnedByOne'
BY DEF OwnedByOne

-----------------------------------------------------------------------------
(* Every step keeps the invariant *)

PostStep(s) ==
  \/ PostReserves(s) \/ PostMakesFile(s) \/ PostFails(s) \/ PostStores(s)
  \/ TimerExpires(s) \/ TimerCloses(s)

\* Every step keeps the types.
LEMMA SessionTypesStep == SessionsTrue /\ [SessionsNext]_sessionVars => SessionTypeOK'
<1> SUFFICES ASSUME SessionsTrue, [SessionsNext]_sessionVars PROVE SessionTypeOK'
  OBVIOUS
<1> USE SessionAssumption DEF SessionsTrue, SessionTypeOK, StopTimer, sessionState, Handles,
      ActiveSteps, Owning
<1>1. ASSUME NEW s \in Sessions, PostStep(s) PROVE SessionTypeOK'
  <2>1. CASE PostReserves(s) BY <2>1 DEF PostReserves
  <2>2. CASE PostMakesFile(s) BY <2>2 DEF PostMakesFile
  <2>3. CASE PostFails(s) BY <2>3 DEF PostFails
  <2>4. CASE PostStores(s) BY <2>4 DEF PostStores
  <2>5. CASE TimerExpires(s) BY <2>5 DEF TimerExpires
  <2>6. CASE TimerCloses(s) BY <2>6, Closes DEF TimerCloses
  <2> QED BY <1>1, <2>1, <2>2, <2>3, <2>4, <2>5, <2>6 DEF PostStep
<1>2. ASSUME NEW k \in Cleanup, CleanUp(k) PROVE SessionTypeOK'
  BY <1>2 DEF CleanUp, Cleanup
<1>3. ASSUME NEW q \in Chunkers, NEW s \in Sessions, NEW put \in BOOLEAN, LookUp(q, s, put)
     PROVE  SessionTypeOK'
  BY <1>3 DEF LookUp, ChunkerStates, IdleChunker
<1>4. ASSUME NEW q \in Chunkers, ChunkerStep(q) PROVE SessionTypeOK'
  <2>1. CASE LockOpen(q) BY <2>1, GoesOn DEF LockOpen
  <2>2. CASE LockClosed(q) BY <2>2, Ends, ActiveHasSession DEF LockClosed
  <2>3. CASE ChunkAppends(q) BY <2>3, ActiveHasSession DEF ChunkAppends
  <2>4. CASE ChunkEnds(q) BY <2>4, Ends, ActiveHasSession DEF ChunkEnds
  <2>5. CASE PutRead(q) BY <2>5, GoesOn DEF PutRead
  <2>6. CASE ChunkRefused(q)
    <3>1. Owning(q) /\ CloseLocked(chunker[q].on, FALSE) /\ ChunkerEnds(q) BY <2>6 DEF ChunkRefused
    <3>2. PICK y \in Sessions : Shut(q, y, FALSE) BY <3>1, Shuts DEF Shut
    <3> QED BY <2>6, <3>2 DEF Shut, ChunkRefused
  <2>7. CASE PutAdmitted(q) BY <2>7, GoesOn DEF PutAdmitted
  <2>8. CASE PutMismatch(q) BY <2>8, Ends, ActiveHasSession DEF PutMismatch
  <2>9. CASE PutStores(q)
    <3>1. Owning(q) /\ CloseLocked(chunker[q].on, TRUE) /\ ChunkerEnds(q) BY <2>9 DEF PutStores
    <3>2. PICK y \in Sessions : Shut(q, y, TRUE) BY <3>1, Shuts DEF Shut
    <3> QED BY <2>9, <3>2 DEF Shut, PutStores
  <2> QED BY <1>4, <2>1, <2>2, <2>3, <2>4, <2>5, <2>6, <2>7, <2>8, <2>9 DEF ChunkerStep
<1>5. CASE SessionsRestart
  <2>1. chunker' \in [Chunkers -> ChunkerStates]
    BY <1>5 DEF SessionsRestart, ChunkerStates, IdleChunker
  <2>2. posted' \in [Sessions -> {"no", "reserved", "filed", "done"}] BY <1>5 DEF SessionsRestart
  <2> QED BY <1>5, <2>1, <2>2 DEF SessionsRestart
<1>6. CASE UNCHANGED sessionVars BY <1>6 DEF sessionVars, sessionState
<1> QED BY <1>1, <1>2, <1>3, <1>4, <1>5, <1>6 DEF SessionsNext, PostStep

\* Every step keeps a session that is found alive.
LEMMA LivesStep == SessionsTrue /\ [SessionsNext]_sessionVars => \A s \in Sessions : Lives(s)'
<1> SUFFICES ASSUME SessionsTrue, [SessionsNext]_sessionVars, NEW s \in Sessions PROVE Lives(s)'
  OBVIOUS
<1>0. SessionTypeOK /\ Lives(s) /\ Closers
  BY DEF SessionsTrue
<1> USE <1>0 DEF SessionTypeOK, Lives, StopTimer, sessionState, Handles, ActiveSteps, Owning
<1>1. ASSUME NEW z \in Sessions, PostStep(z) PROVE Lives(s)'
  <2>1. CASE PostReserves(z) BY <2>1 DEF PostReserves
  <2>2. CASE PostMakesFile(z) BY <2>2 DEF PostMakesFile
  <2>3. CASE PostFails(z) BY <2>3 DEF PostFails
  <2>4. CASE PostStores(z) BY <2>4 DEF PostStores
  <2>5. CASE TimerExpires(z) BY <2>5 DEF TimerExpires
  <2>6. CASE TimerCloses(z) BY <2>6, Closes DEF TimerCloses
  <2> QED BY <1>1, <2>1, <2>2, <2>3, <2>4, <2>5, <2>6 DEF PostStep
<1>2. ASSUME NEW k \in Cleanup, CleanUp(k) PROVE Lives(s)'
  BY <1>2 DEF CleanUp, Closers
<1>3. ASSUME NEW q \in Chunkers, NEW z \in Sessions, NEW put \in BOOLEAN, LookUp(q, z, put)
     PROVE  Lives(s)'
  BY <1>3 DEF LookUp
<1>4. ASSUME NEW q \in Chunkers, ChunkerStep(q) PROVE Lives(s)'
  <2>1. CASE LockOpen(q) BY <2>1, GoesOn DEF LockOpen
  <2>2. CASE LockClosed(q) BY <2>2, Ends, ActiveHasSession DEF LockClosed
  <2>3. CASE ChunkAppends(q) BY <2>3, ActiveHasSession DEF ChunkAppends
  <2>4. CASE ChunkEnds(q) BY <2>4, Ends, ActiveHasSession DEF ChunkEnds
  <2>5. CASE PutRead(q) BY <2>5, GoesOn DEF PutRead
  <2>6. CASE ChunkRefused(q)
    <3>1. Owning(q) /\ CloseLocked(chunker[q].on, FALSE) /\ ChunkerEnds(q) BY <2>6 DEF ChunkRefused
    <3>2. PICK y \in Sessions : Shut(q, y, FALSE) BY <3>1, Shuts DEF Shut
    <3> QED BY <2>6, <3>2 DEF Shut, ChunkRefused
  <2>7. CASE PutAdmitted(q) BY <2>7, GoesOn DEF PutAdmitted
  <2>8. CASE PutMismatch(q) BY <2>8, Ends, ActiveHasSession DEF PutMismatch
  <2>9. CASE PutStores(q)
    <3>1. Owning(q) /\ CloseLocked(chunker[q].on, TRUE) /\ ChunkerEnds(q) BY <2>9 DEF PutStores
    <3>2. PICK y \in Sessions : Shut(q, y, TRUE) BY <3>1, Shuts DEF Shut
    <3> QED BY <2>9, <3>2 DEF Shut, PutStores
  <2> QED BY <1>4, <2>1, <2>2, <2>3, <2>4, <2>5, <2>6, <2>7, <2>8, <2>9 DEF ChunkerStep
<1>5. CASE SessionsRestart BY <1>5 DEF SessionsRestart
<1>6. CASE UNCHANGED sessionVars BY <1>6 DEF sessionVars, sessionState
<1> QED BY <1>1, <1>2, <1>3, <1>4, <1>5, <1>6 DEF SessionsNext, PostStep

\* Every step keeps the mutex.
LEMMA WaitsStep == SessionsTrue /\ [SessionsNext]_sessionVars => \A q \in Chunkers : KnowsSession(q)'
<1> SUFFICES ASSUME SessionsTrue, [SessionsNext]_sessionVars, NEW q \in Chunkers PROVE KnowsSession(q)'
  OBVIOUS
<1>0. SessionTypeOK /\ \A p \in Chunkers : KnowsSession(p)
  BY DEF SessionsTrue
<1> USE <1>0 DEF SessionTypeOK, KnowsSession, sessionState, Handles, ActiveSteps, Owning
<1>1. ASSUME NEW s \in Sessions, PostStep(s) PROVE KnowsSession(q)'
  <2>1. CASE PostReserves(s) BY <2>1 DEF PostReserves
  <2>2. CASE PostMakesFile(s) BY <2>2 DEF PostMakesFile
  <2>3. CASE PostFails(s) BY <2>3 DEF PostFails
  <2>4. CASE PostStores(s) BY <2>4 DEF PostStores
  <2>5. CASE TimerExpires(s) BY <2>5 DEF TimerExpires
  <2>6. CASE TimerCloses(s)
    <3>1. listed' = listed \ {s} /\ closed' = closed \cup {s} BY <2>6, Closes DEF TimerCloses
    <3>2. \A p \in Chunkers : Owning(p) => chunker[p].on # s BY <2>6 DEF TimerCloses, Unlocked
    <3> QED BY <2>6, <3>1, <3>2 DEF TimerCloses
  <2> QED BY <1>1, <2>1, <2>2, <2>3, <2>4, <2>5, <2>6 DEF PostStep
<1>2. ASSUME NEW k \in Cleanup, CleanUp(k) PROVE KnowsSession(q)'
  BY <1>2 DEF CleanUp
<1>3. ASSUME NEW p \in Chunkers, NEW s \in Sessions, NEW put \in BOOLEAN, LookUp(p, s, put)
     PROVE  KnowsSession(q)'
  BY <1>3 DEF LookUp
<1>4. ASSUME NEW p \in Chunkers, ChunkerStep(p) PROVE KnowsSession(q)'
  <2>1. CASE LockOpen(p)
    BY <2>1, GoesOn DEF LockOpen, Unlocked
  <2>2. CASE LockClosed(p) BY <2>2, Ends, ActiveHasSession DEF LockClosed
  <2>3. CASE ChunkAppends(p) BY <2>3, ActiveHasSession DEF ChunkAppends
  <2>4. CASE ChunkEnds(p) BY <2>4, Ends, ActiveHasSession DEF ChunkEnds
  <2>5. CASE PutRead(p) BY <2>5, GoesOn DEF PutRead
  <2>6. CASE ChunkRefused(p)
    <3>1. Owning(p) /\ CloseLocked(chunker[p].on, FALSE) /\ ChunkerEnds(p) BY <2>6 DEF ChunkRefused
    <3>2. PICK y \in Sessions : Shut(p, y, FALSE) BY <3>1, Shuts DEF Shut
    <3> QED BY <2>6, <3>2 DEF Shut, ChunkRefused
  <2>7. CASE PutAdmitted(p) BY <2>7, GoesOn DEF PutAdmitted
  <2>8. CASE PutMismatch(p) BY <2>8, Ends, ActiveHasSession DEF PutMismatch
  <2>9. CASE PutStores(p)
    <3>1. Owning(p) /\ CloseLocked(chunker[p].on, TRUE) /\ ChunkerEnds(p) BY <2>9 DEF PutStores
    <3>2. PICK y \in Sessions : Shut(p, y, TRUE) BY <3>1, Shuts DEF Shut
    <3> QED BY <2>9, <3>2 DEF Shut, PutStores
  <2> QED BY <1>4, <2>1, <2>2, <2>3, <2>4, <2>5, <2>6, <2>7, <2>8, <2>9 DEF ChunkerStep
<1>5. CASE SessionsRestart
  BY <1>5 DEF SessionsRestart, IdleChunker
<1>6. CASE UNCHANGED sessionVars BY <1>6 DEF sessionVars, sessionState
<1> QED BY <1>1, <1>2, <1>3, <1>4, <1>5, <1>6 DEF SessionsNext, PostStep

\* Every step leaves one closer to a session.
LEMMA ClosersStep == SessionsTrue /\ [SessionsNext]_sessionVars => Closers'
<1> SUFFICES ASSUME SessionsTrue, [SessionsNext]_sessionVars PROVE Closers'
  OBVIOUS
<1>0. SessionTypeOK /\ Closers /\ \A z \in Sessions : Lives(z)
  BY DEF SessionsTrue
<1> USE <1>0 DEF SessionTypeOK, Closers, Lives, sessionState, Handles, ActiveSteps, Owning
<1>1. ASSUME NEW s \in Sessions, PostStep(s) PROVE Closers'
  <2>1. CASE PostReserves(s) BY <2>1 DEF PostReserves
  <2>2. CASE PostMakesFile(s) BY <2>2 DEF PostMakesFile
  <2>3. CASE PostFails(s) BY <2>3 DEF PostFails
  <2>4. CASE PostStores(s) BY <2>4 DEF PostStores
  <2>5. CASE TimerExpires(s) BY <2>5 DEF TimerExpires
  <2>6. CASE TimerCloses(s)
    <3>1. listed' = listed \ {s} /\ closed' = closed \cup {s} BY <2>6, Closes DEF TimerCloses
    <3>2. CASE s \in closed BY <2>6, <3>1, <3>2, Closes DEF TimerCloses
    <3>3. CASE s \notin closed
      <4> DEFINE c == [of |-> s, success |-> FALSE, size |-> length[s]]
      <4>1. c.of = s /\ c.success = FALSE OBVIOUS
      <4>2. cleanups' = cleanups \cup {c} BY <2>6, <3>3, Closes DEF TimerCloses
      <4> HIDE DEF c
      <4> QED BY <2>6, <3>1, <3>3, <4>1, <4>2, OneMoreCloser DEF TimerCloses
    <3> QED BY <3>2, <3>3
  <2> QED BY <1>1, <2>1, <2>2, <2>3, <2>4, <2>5, <2>6 DEF PostStep
<1>2. ASSUME NEW k \in Cleanup, CleanUp(k) PROVE Closers'
  BY <1>2 DEF CleanUp
<1>3. ASSUME NEW q \in Chunkers, NEW s \in Sessions, NEW put \in BOOLEAN, LookUp(q, s, put)
     PROVE  Closers'
  BY <1>3 DEF LookUp
<1>4. ASSUME NEW q \in Chunkers, ChunkerStep(q) PROVE Closers'
  <2>1. CASE LockOpen(q) BY <2>1, GoesOn DEF LockOpen
  <2>2. CASE LockClosed(q) BY <2>2, Ends, ActiveHasSession DEF LockClosed
  <2>3. CASE ChunkAppends(q) BY <2>3, ActiveHasSession DEF ChunkAppends
  <2>4. CASE ChunkEnds(q) BY <2>4, Ends, ActiveHasSession DEF ChunkEnds
  <2>5. CASE PutRead(q) BY <2>5, GoesOn DEF PutRead
  <2>6. CASE ChunkRefused(q)
    <3>1. Owning(q) /\ CloseLocked(chunker[q].on, FALSE) /\ ChunkerEnds(q) BY <2>6 DEF ChunkRefused
    <3>2. PICK y \in Sessions : Shut(q, y, FALSE) BY <3>1, Shuts DEF Shut
    <3> DEFINE c == [of |-> y, success |-> FALSE, size |-> length[y]]
    <3>3. c.of = y /\ c.success = FALSE /\ c.size = length[y] OBVIOUS
    <3>4. cleanups' = cleanups \cup {c} BY <3>2 DEF Shut
    <3> HIDE DEF c
    <3> QED BY <2>6, <3>2, <3>3, <3>4, OneMoreCloser DEF Shut, ChunkRefused
  <2>7. CASE PutAdmitted(q) BY <2>7, GoesOn DEF PutAdmitted
  <2>8. CASE PutMismatch(q) BY <2>8, Ends, ActiveHasSession DEF PutMismatch
  <2>9. CASE PutStores(q)
    <3>1. Owning(q) /\ CloseLocked(chunker[q].on, TRUE) /\ ChunkerEnds(q) BY <2>9 DEF PutStores
    <3>2. PICK y \in Sessions : Shut(q, y, TRUE) BY <3>1, Shuts DEF Shut
    <3> DEFINE c == [of |-> y, success |-> TRUE, size |-> length[y]]
    <3>3. c.of = y /\ c.success = TRUE /\ c.size = length[y] OBVIOUS
    <3>4. cleanups' = cleanups \cup {c} BY <3>2 DEF Shut
    <3> HIDE DEF c
    <3> QED BY <2>9, <3>2, <3>3, <3>4, OneMoreCloser DEF Shut, PutStores
  <2> QED BY <1>4, <2>1, <2>2, <2>3, <2>4, <2>5, <2>6, <2>7, <2>8, <2>9 DEF ChunkerStep
<1>5. CASE SessionsRestart BY <1>5 DEF SessionsRestart
<1>6. CASE UNCHANGED sessionVars BY <1>6 DEF sessionVars, sessionState
<1> HIDE DEF Closers
<1> QED BY <1>1, <1>2, <1>3, <1>4, <1>5, <1>6 DEF SessionsNext, PostStep

\* Every step keeps the charges.
LEMMA ChargesStep == SessionsTrue /\ [SessionsNext]_sessionVars => \A s \in Sessions : Charges(s)'
<1> SUFFICES ASSUME SessionsTrue, [SessionsNext]_sessionVars, NEW s \in Sessions PROVE Charges(s)'
  OBVIOUS
<1>0. SessionTypeOK /\ Charges(s) /\ Closers
  BY DEF SessionsTrue
<1> USE <1>0 DEF SessionTypeOK, Charges, sessionState, Handles, ActiveSteps, Owning
<1>1. ASSUME NEW z \in Sessions, PostStep(z) PROVE Charges(s)'
  <2>1. CASE PostReserves(z) BY <2>1 DEF PostReserves
  <2>2. CASE PostMakesFile(z) BY <2>2 DEF PostMakesFile
  <2>3. CASE PostFails(z) BY <2>3 DEF PostFails
  <2>4. CASE PostStores(z) BY <2>4 DEF PostStores
  <2>5. CASE TimerExpires(z) BY <2>5 DEF TimerExpires
  <2>6. CASE TimerCloses(z) BY <2>6, Closes DEF TimerCloses
  <2> QED BY <1>1, <2>1, <2>2, <2>3, <2>4, <2>5, <2>6 DEF PostStep
<1>2. ASSUME NEW k \in Cleanup, CleanUp(k) PROVE Charges(s)'
  BY <1>2 DEF CleanUp, Closers, Cleanup
<1>3. ASSUME NEW q \in Chunkers, NEW z \in Sessions, NEW put \in BOOLEAN, LookUp(q, z, put)
     PROVE  Charges(s)'
  BY <1>3 DEF LookUp
<1>4. ASSUME NEW q \in Chunkers, ChunkerStep(q) PROVE Charges(s)'
  <2>1. CASE LockOpen(q) BY <2>1, GoesOn DEF LockOpen
  <2>2. CASE LockClosed(q) BY <2>2, Ends, ActiveHasSession DEF LockClosed
  <2>3. CASE ChunkAppends(q) BY <2>3, ActiveHasSession DEF ChunkAppends
  <2>4. CASE ChunkEnds(q) BY <2>4, Ends, ActiveHasSession DEF ChunkEnds
  <2>5. CASE PutRead(q) BY <2>5, GoesOn DEF PutRead
  <2>6. CASE ChunkRefused(q)
    <3>1. Owning(q) /\ CloseLocked(chunker[q].on, FALSE) /\ ChunkerEnds(q) BY <2>6 DEF ChunkRefused
    <3>2. PICK y \in Sessions : Shut(q, y, FALSE) BY <3>1, Shuts DEF Shut
    <3> QED BY <2>6, <3>2 DEF Shut, ChunkRefused
  <2>7. CASE PutAdmitted(q) BY <2>7, GoesOn DEF PutAdmitted
  <2>8. CASE PutMismatch(q) BY <2>8, Ends, ActiveHasSession DEF PutMismatch
  <2>9. CASE PutStores(q)
    <3>1. Owning(q) /\ CloseLocked(chunker[q].on, TRUE) /\ ChunkerEnds(q) BY <2>9 DEF PutStores
    <3>2. PICK y \in Sessions : Shut(q, y, TRUE) BY <3>1, Shuts DEF Shut
    <3> DEFINE c == [of |-> y, success |-> TRUE, size |-> length[y]]
    <3>3. c.of = y /\ c.success = TRUE /\ c.size = length[y] OBVIOUS
    <3>4. cleanups' = cleanups \cup {c} BY <3>2 DEF Shut
    <3> HIDE DEF c
    <3> QED BY <2>9, <3>2, <3>3, <3>4 DEF Shut, PutStores
  <2> QED BY <1>4, <2>1, <2>2, <2>3, <2>4, <2>5, <2>6, <2>7, <2>8, <2>9 DEF ChunkerStep
<1>5. CASE SessionsRestart BY <1>5 DEF SessionsRestart
<1>6. CASE UNCHANGED sessionVars BY <1>6 DEF sessionVars, sessionState
<1> QED BY <1>1, <1>2, <1>3, <1>4, <1>5, <1>6 DEF SessionsNext, PostStep

\* Every step leaves what a session holds to somebody.
LEMMA OwnedStep == SessionsTrue /\ [SessionsNext]_sessionVars => OwnedByOne'
<1> SUFFICES ASSUME SessionsTrue, [SessionsNext]_sessionVars PROVE OwnedByOne'
  OBVIOUS
<1>0. SessionTypeOK /\ OwnedByOne /\ \A z \in Sessions : Lives(z)
  BY DEF SessionsTrue
<1> USE <1>0 DEF SessionTypeOK, OwnedByOne, Lives, sessionState, Handles, ActiveSteps, Owning
<1>1. ASSUME NEW s \in Sessions, PostStep(s) PROVE OwnedByOne'
  <2>1. CASE PostReserves(s) BY <2>1 DEF PostReserves
  <2>2. CASE PostMakesFile(s) BY <2>2 DEF PostMakesFile
  <2>3. CASE PostFails(s) BY <2>3 DEF PostFails
  <2>4. CASE PostStores(s) BY <2>4 DEF PostStores
  <2>5. CASE TimerExpires(s) BY <2>5 DEF TimerExpires
  <2>6. CASE TimerCloses(s)
    <3>1. listed' = listed \ {s} /\ closed' = closed \cup {s} BY <2>6, Closes DEF TimerCloses
    <3>2. CASE s \in closed BY <2>6, <3>1, <3>2, Closes DEF TimerCloses
    <3>3. CASE s \notin closed
      <4> DEFINE c == [of |-> s, success |-> FALSE, size |-> length[s]]
      <4>1. c.of = s /\ c.success = FALSE OBVIOUS
      <4>2. cleanups' = cleanups \cup {c} BY <2>6, <3>3, Closes DEF TimerCloses
      <4> HIDE DEF c
      <4> QED BY <2>6, <3>1, <3>3, <4>1, <4>2, CloserOwns DEF TimerCloses
    <3> QED BY <3>2, <3>3
  <2> QED BY <1>1, <2>1, <2>2, <2>3, <2>4, <2>5, <2>6 DEF PostStep
<1>2. ASSUME NEW k \in Cleanup, CleanUp(k) PROVE OwnedByOne'
  BY <1>2 DEF CleanUp
<1>3. ASSUME NEW q \in Chunkers, NEW s \in Sessions, NEW put \in BOOLEAN, LookUp(q, s, put)
     PROVE  OwnedByOne'
  BY <1>3 DEF LookUp
<1>4. ASSUME NEW q \in Chunkers, ChunkerStep(q) PROVE OwnedByOne'
  <2>1. CASE LockOpen(q) BY <2>1, GoesOn DEF LockOpen
  <2>2. CASE LockClosed(q) BY <2>2, Ends, ActiveHasSession DEF LockClosed
  <2>3. CASE ChunkAppends(q) BY <2>3, ActiveHasSession DEF ChunkAppends
  <2>4. CASE ChunkEnds(q) BY <2>4, Ends, ActiveHasSession DEF ChunkEnds
  <2>5. CASE PutRead(q) BY <2>5, GoesOn DEF PutRead
  <2>6. CASE ChunkRefused(q)
    <3>1. Owning(q) /\ CloseLocked(chunker[q].on, FALSE) /\ ChunkerEnds(q) BY <2>6 DEF ChunkRefused
    <3>2. PICK y \in Sessions : Shut(q, y, FALSE) BY <3>1, Shuts DEF Shut
    <3> DEFINE c == [of |-> y, success |-> FALSE, size |-> length[y]]
    <3>3. c.of = y /\ c.success = FALSE /\ c.size = length[y] OBVIOUS
    <3>4. cleanups' = cleanups \cup {c} BY <3>2 DEF Shut
    <3> HIDE DEF c
    <3> QED BY <2>6, <3>2, <3>3, <3>4, CloserOwns DEF Shut, ChunkRefused
  <2>7. CASE PutAdmitted(q) BY <2>7, GoesOn DEF PutAdmitted
  <2>8. CASE PutMismatch(q) BY <2>8, Ends, ActiveHasSession DEF PutMismatch
  <2>9. CASE PutStores(q)
    <3>1. Owning(q) /\ CloseLocked(chunker[q].on, TRUE) /\ ChunkerEnds(q) BY <2>9 DEF PutStores
    <3>2. PICK y \in Sessions : Shut(q, y, TRUE) BY <3>1, Shuts DEF Shut
    <3> DEFINE c == [of |-> y, success |-> TRUE, size |-> length[y]]
    <3>3. c.of = y /\ c.success = TRUE /\ c.size = length[y] OBVIOUS
    <3>4. cleanups' = cleanups \cup {c} BY <3>2 DEF Shut
    <3> HIDE DEF c
    <3> QED BY <2>9, <3>2, <3>3, <3>4, CloserOwns DEF Shut, PutStores
  <2> QED BY <1>4, <2>1, <2>2, <2>3, <2>4, <2>5, <2>6, <2>7, <2>8, <2>9 DEF ChunkerStep
<1>5. CASE SessionsRestart BY <1>5 DEF SessionsRestart
<1>6. CASE UNCHANGED sessionVars BY <1>6 DEF sessionVars, sessionState
<1> QED BY <1>1, <1>2, <1>3, <1>4, <1>5, <1>6 DEF SessionsNext, PostStep

LEMMA SessionsTrueStep == SessionsTrue /\ [SessionsNext]_sessionVars => SessionsTrue'
BY SessionTypesStep, LivesStep, WaitsStep, ClosersStep, ChargesStep, OwnedStep DEF SessionsTrue

LEMMA SessionsTrueAtFirst == SessionsInit => SessionsTrue
<1> SUFFICES ASSUME SessionsInit PROVE SessionsTrue
  OBVIOUS
<1> USE SessionAssumption DEF SessionsInit
<1>1. SessionTypeOK BY DEF SessionTypeOK, ChunkerStates
<1>2. \A s \in Sessions : Lives(s) /\ Charges(s) BY DEF Lives, Charges
<1>3. \A q \in Chunkers : KnowsSession(q) BY DEF KnowsSession, Handles, ActiveSteps, Owning, IdleChunker
<1>4. Closers /\ OwnedByOne BY DEF Closers, OwnedByOne
<1> QED BY <1>1, <1>2, <1>3, <1>4 DEF SessionsTrue

\* The invariant says what the run checks.
LEMMA SessionsTrueIsEnough == SessionsTrue => SessionsSound
<1> SUFFICES ASSUME SessionsTrue PROVE SessionsSound
  OBVIOUS
<1>1. ASSUME NEW s \in Sessions PROVE Cardinality(intoStore[s]) <= 1
  <2>1. intoStore[s] = {} \/ \E n \in Nat : intoStore[s] = {n}
    BY DEF SessionsTrue, Charges
  <2>2. CASE intoStore[s] = {} BY <2>2, FS_EmptySet
  <2>3. ASSUME NEW n \in Nat, intoStore[s] = {n} PROVE Cardinality(intoStore[s]) <= 1
    <3>1. Cardinality({n}) = 1 BY FS_Singleton
    <3> QED BY <2>3, <3>1
  <2> QED BY <2>1, <2>2, <2>3
<1>2. ChargedForBlob
  BY <1>1 DEF SessionsTrue, ChargedForBlob, Charges
<1>3. ClosedIsClosed
  <2> SUFFICES ASSUME NEW q \in Chunkers, Owning(q) PROVE chunker[q].on \notin closed
    BY DEF ClosedIsClosed
  <2>1. chunker[q].on \in listed /\ listed \subseteq Sessions
    BY DEF SessionsTrue, SessionTypeOK, KnowsSession
  <2> QED BY <2>1 DEF SessionsTrue, Lives
<1> QED BY <1>2, <1>3 DEF SessionsSound, SessionsTrue

\* SessionsTrue holds in every state of SessionsSpec.
LEMMA SessionsStayTrue == SessionsSpec => []SessionsTrue
BY SessionsTrueAtFirst, SessionsTrueStep, PTL DEF SessionsSpec

\* One charge for the one blob of a session, no write after its end, and
\* nothing held that nobody knows of: for any number of sessions, of requests
\* and of restarts (OCIHandler.completeUpload, closeUploadLocked,
\* expireUpload).
THEOREM SessionsAreSound == SessionsSpec => []SessionsSound
<1> QED BY SessionsStayTrue, SessionsTrueIsEnough, PTL

-----------------------------------------------------------------------------
(***************************************************************************)
(* OCIPush.                                                                *)
(* Why an image that is listed can be pulled.  The staged references of a  *)
(* blob are counted against those that need one: pushes that staged it,    *)
(* manifests that have taken it, and the entry of the map.  What is held   *)
(* is on disk, so what a manifest has taken is there when its rows commit. *)
(***************************************************************************)

\* 1 when a push in state s has staged blob l, else 0.
StagedIn(s, l) == IF s.step = "staged" /\ s.layer = l THEN 1 ELSE 0

\* 1 when l is in S, else 0.
In(l, S) == IF l \in S THEN 1 ELSE 0

\* What has a row or a staged reference is on disk, and a manifest that is being
\* published holds its own bytes.
BytesStay ==
  /\ rows \subseteq onDisk
  /\ \A c \in Contents : holds[c] > 0 => c \in onDisk
  /\ \A m \in Manifests : manifest[m].step \in {"publishing", "committed"} => holds[m] > 0

\* Every blob a manifest names is still to be looked for, taken or in a row; a
\* manifest with a row has all of them in rows.
AllFound ==
  \A m \in Manifests :
    /\ manifest[m].step = "idle" => manifest[m].taken = {}
    /\ manifest[m].step = "looking" => Refs[m] \subseteq manifest[m].left \cup manifest[m].taken \cup rows
    /\ manifest[m].step = "publishing" => Refs[m] \subseteq manifest[m].taken \cup rows
    /\ m \in rows => Refs[m] \subseteq rows

\* The inductive invariant.
PushTrue == PushTypeOK /\ HoldsCover /\ BytesStay /\ AllFound

\* The pushes and the manifests that need a blob are finitely many.
LEMMA StagedCounts ==
  ASSUME PushTypeOK, NEW l \in Layers
  PROVE  /\ IsFiniteSet(StagedBy(l)) /\ Cardinality(StagedBy(l)) \in Nat
         /\ IsFiniteSet(TakenBy(l)) /\ Cardinality(TakenBy(l)) \in Nat
<1>1. IsFiniteSet(StagedBy(l))
  BY PushAssumption, FS_Subset DEF StagedBy
<1>2. IsFiniteSet(TakenBy(l))
  BY PushAssumption, FS_Subset DEF TakenBy
<1> QED BY <1>1, <1>2, FS_CardinalityType

\* A push that is idle, open or done has staged nothing.
LEMMA NotStaged ==
  /\ {PushIdle, PushOpen, PushDone} \subseteq PushStates
  /\ \A l \in Layers : \A s \in {PushIdle, PushOpen, PushDone} : StagedIn(s, l) = 0
BY DEF PushStates, PushIdle, PushOpen, PushDone, StagedIn

\* What the step of one push does to the number of pushes that have staged a blob.
LEMMA PushMoves ==
  ASSUME PushTypeOK, NEW p \in Pushes, NEW s \in PushStates, PushGoes(p, s), NEW l \in Layers
  PROVE  Cardinality(StagedBy(l)') = Cardinality(StagedBy(l))
           - StagedIn(push[p], l)
           + StagedIn(s, l)
<1>1. /\ push'[p] = s /\ \A q \in Pushes \ {p} : push'[q] = push[q]
  BY DEF PushGoes, PushTypeOK
<1> DEFINE Rest == StagedBy(l) \ {p}
<1>2. IsFiniteSet(StagedBy(l)) /\ IsFiniteSet(Rest) /\ Cardinality(StagedBy(l)) \in Nat /\ Cardinality(Rest) \in Nat
  BY StagedCounts, FS_Subset, FS_CardinalityType
<1>3. Cardinality(Rest) = Cardinality(StagedBy(l)) - StagedIn(push[p], l)
  <2>1. CASE p \in StagedBy(l)
    BY <1>2, <2>1, FS_RemoveElement DEF StagedBy, StagedIn, In
  <2>2. CASE p \notin StagedBy(l)
    <3>1. Rest = StagedBy(l)
      BY <2>2
    <3>2. StagedIn(push[p], l) = 0
      BY <2>2 DEF StagedBy, StagedIn
    <3> QED BY <1>2, <3>1, <3>2
  <2> QED BY <2>1, <2>2
<1>4. CASE s.step = "staged" /\ s.layer = l
  <2>1. StagedBy(l)' = Rest \cup {p} /\ p \notin Rest
    BY <1>1, <1>4 DEF StagedBy
  <2>2. Cardinality(StagedBy(l)') = Cardinality(Rest) + 1
    BY <1>2, <2>1, FS_AddElement
  <2> QED BY <1>2, <1>3, <1>4, <2>2 DEF StagedIn, In
<1>5. CASE ~(s.step = "staged" /\ s.layer = l)
  <2>1. StagedBy(l)' = Rest
    BY <1>1, <1>5 DEF StagedBy
  <2> QED BY <1>2, <1>3, <1>5, <2>1 DEF StagedIn, In
<1> QED BY <1>4, <1>5

\* What the step of one manifest does to the number of manifests that have taken a
\* blob.
LEMMA ManifestMoves ==
  ASSUME PushTypeOK, NEW m \in Manifests, NEW step, NEW left, NEW taken, ManifestGoes(m, step, left, taken),
         NEW l \in Layers
  PROVE  Cardinality(TakenBy(l)') = Cardinality(TakenBy(l))
           - In(l, manifest[m].taken) + In(l, taken)
<1>1. manifest'[m].taken = taken /\ \A n \in Manifests \ {m} : manifest'[n] = manifest[n]
  BY DEF ManifestGoes, PushTypeOK
<1> DEFINE Rest == TakenBy(l) \ {m}
<1>2. IsFiniteSet(TakenBy(l)) /\ IsFiniteSet(Rest) /\ Cardinality(TakenBy(l)) \in Nat /\ Cardinality(Rest) \in Nat
  BY StagedCounts, FS_Subset, FS_CardinalityType
<1>3. Cardinality(Rest) = Cardinality(TakenBy(l)) - In(l, manifest[m].taken)
  <2>1. CASE m \in TakenBy(l)
    BY <1>2, <2>1, FS_RemoveElement DEF TakenBy, StagedIn, In
  <2>2. CASE m \notin TakenBy(l)
    <3>1. Rest = TakenBy(l) /\ l \notin manifest[m].taken
      BY <2>2 DEF TakenBy
    <3> QED BY <1>2, <3>1 DEF StagedIn, In
  <2> QED BY <2>1, <2>2
<1>4. CASE l \in taken
  <2>1. TakenBy(l)' = Rest \cup {m} /\ m \notin Rest
    BY <1>1, <1>4 DEF TakenBy
  <2>2. Cardinality(TakenBy(l)') = Cardinality(Rest) + 1
    BY <1>2, <2>1, FS_AddElement
  <2> QED BY <1>2, <1>3, <1>4, <2>2 DEF StagedIn, In
<1>5. CASE l \notin taken
  <2>1. TakenBy(l)' = Rest
    BY <1>1, <1>5 DEF TakenBy
  <2> QED BY <1>2, <1>3, <1>5, <2>1 DEF StagedIn, In
<1> QED BY <1>4, <1>5

\* Those who need a blob stay the same when nobody moves.
LEMMA StagedKept ==
  ASSUME NEW l \in Layers
  PROVE  /\ UNCHANGED push => StagedBy(l)' = StagedBy(l)
         /\ UNCHANGED manifest => TakenBy(l)' = TakenBy(l)
BY DEF StagedBy, TakenBy

\* Each blob has a reference for everybody that needs it: HoldsCover at one blob.
LEMMA CoverNow ==
  ASSUME PushTypeOK, HoldsCover, NEW k \in Layers
  PROVE  /\ Cardinality(StagedBy(k)) + Cardinality(TakenBy(k)) + (IF pending[k] = 0 THEN 0 ELSE 1) <= holds[k]
         /\ Cardinality(StagedBy(k)) \in Nat /\ Cardinality(TakenBy(k)) \in Nat /\ holds[k] \in Nat
BY StagedCounts DEF HoldsCover, StagedIn, In, PushTypeOK, Contents

\* And HoldsCover of the next state follows from its blobs.
LEMMA CoverNext ==
  ASSUME \A k \in Layers :
           Cardinality(StagedBy(k)') + Cardinality(TakenBy(k)') + (IF pending'[k] = 0 THEN 0 ELSE 1) <= holds'[k]
  PROVE  HoldsCover'
BY DEF HoldsCover, StagedIn, In

\* A blob that a manifest has taken has a staged reference.
LEMMA TakenFewer ==
  ASSUME PushTypeOK, HoldsCover, NEW m \in Manifests, NEW k \in manifest[m].taken
  PROVE  Cardinality(TakenBy(k)) > 0 /\ holds[k] > 0
<1>1. k \in Layers /\ m \in TakenBy(k)
  BY DEF PushTypeOK, TakenBy
<1>2. Cardinality(TakenBy(k)) # 0
  BY <1>1, StagedCounts, FS_EmptySet
<1> QED BY <1>1, <1>2, CoverNow DEF StagedIn, In

\* A blob that a push has staged has a staged reference.
LEMMA StagedFewer ==
  ASSUME PushTypeOK, HoldsCover, NEW p \in Pushes, NEW k \in Layers, push[p].step = "staged", push[p].layer = k
  PROVE  Cardinality(StagedBy(k)) > 0 /\ holds[k] > 0
<1>1. p \in StagedBy(k)
  BY DEF StagedBy
<1>2. Cardinality(StagedBy(k)) # 0
  BY <1>1, StagedCounts, FS_EmptySet
<1> QED BY <1>2, CoverNow DEF StagedIn, In

\* Every step keeps the types.
LEMMA PushTypesStep ==
  ASSUME PushTypeOK, [PushNext]_pushVars
  PROVE  PushTypeOK'
<1> USE PushAssumption DEF PushTypeOK, Contents, PushStates, PushIdle, PushOpen, PushDone, ManifestSteps
<1>1. ASSUME NEW p \in Pushes, SessionOpen(p) PROVE PushTypeOK'
  BY <1>1 DEF SessionOpen, PushGoes
<1>2. ASSUME NEW p \in Pushes, SessionClosed(p) PROVE PushTypeOK'
  BY <1>2 DEF SessionClosed, PushGoes
<1>3. ASSUME NEW p \in Pushes, PushMismatch(p) PROVE PushTypeOK'
  BY <1>3 DEF PushMismatch, PushGoes, RemoveUnreferenced, Released
<1>4. ASSUME NEW p \in Pushes, PushStored(p) PROVE PushTypeOK'
  BY <1>4 DEF PushStored, PushGoes, StorePending
<1>5. ASSUME NEW p \in Pushes, NEW l \in Layers, PushStage(p, l) PROVE PushTypeOK'
  BY <1>5 DEF PushStage, PushGoes, Acquired
<1>6. ASSUME NEW l \in Layers, TimerFires(l) PROVE PushTypeOK'
  BY <1>6 DEF TimerFires
<1>7. ASSUME NEW t \in fired, Expire(t) PROVE PushTypeOK'
  BY <1>7 DEF Expire, RemoveUnreferenced, Released
<1>8. ASSUME NEW m \in Manifests, ManifestBegin(m) PROVE PushTypeOK'
  BY <1>8 DEF ManifestBegin, ManifestGoes
<1>9. ASSUME NEW m \in Manifests, ManifestStage(m) PROVE PushTypeOK'
  BY <1>9 DEF ManifestStage, ManifestGoes, Acquired
<1>10. ASSUME NEW m \in Manifests, ManifestRefused(m) PROVE PushTypeOK'
  BY <1>10 DEF ManifestRefused, ManifestGoes
<1>11. ASSUME NEW m \in Manifests, ManifestCommit(m) PROVE PushTypeOK'
  BY <1>11 DEF ManifestCommit, ManifestGoes
<1>12. ASSUME NEW m \in Manifests, ManifestRelease(m) PROVE PushTypeOK'
  BY <1>12 DEF ManifestRelease, ManifestGoes, Released
<1>13. ASSUME NEW m \in Manifests, ManifestFails(m) PROVE PushTypeOK'
  BY <1>13 DEF ManifestFails, ManifestGoes, RemoveUnreferenced, Released
<1>14. ASSUME NEW m \in Manifests, ManifestEnds(m) PROVE PushTypeOK'
  BY <1>14 DEF ManifestEnds, ManifestGoes
<1>15. ASSUME NEW m \in Manifests, NEW l \in Layers, TakeBlob(m, l) PROVE PushTypeOK'
  BY <1>15 DEF TakeBlob, ManifestGoes
<1>16. ASSUME NEW m \in Manifests, NEW l \in Layers, FindBlob(m, l) PROVE PushTypeOK'
  BY <1>16 DEF FindBlob, ManifestGoes
<1>17. ASSUME NEW m \in Manifests, NEW l \in Layers, RestoreBlob(m, l) PROVE PushTypeOK'
  BY <1>17 DEF RestoreBlob, ManifestGoes, StorePending
<1>18. ASSUME NEW c \in Contents, GarbageJob(c) PROVE PushTypeOK'
  BY <1>18 DEF GarbageJob
<1>19. CASE PushRestart
  BY <1>19 DEF PushRestart
<1>20. CASE UNCHANGED pushVars
  BY <1>20 DEF pushVars
<1> HIDE DEF PushTypeOK, Contents, PushStates, PushIdle, PushOpen, PushDone, ManifestSteps
<1> QED BY <1>1, <1>2, <1>3, <1>4, <1>5, <1>6, <1>7, <1>8, <1>9, <1>10, <1>11, <1>12, <1>13, <1>14,
     <1>15, <1>16, <1>17, <1>18, <1>19, <1>20 DEF PushNext

\* Every step leaves a staged reference to everybody that needs one.
LEMMA CoverStep ==
  ASSUME PushTypeOK, HoldsCover, AllFound, [PushNext]_pushVars
  PROVE  HoldsCover'
<1>1. ASSUME NEW p \in Pushes, SessionOpen(p) PROVE HoldsCover'
  <2> SUFFICES ASSUME NEW k \in Layers
                PROVE  Cardinality(StagedBy(k)') + Cardinality(TakenBy(k)') + (IF pending'[k] = 0 THEN 0 ELSE 1) <= holds'[k]
    BY CoverNext
  <2>1. Cardinality(StagedBy(k)') = Cardinality(StagedBy(k))
    BY <1>1, StagedCounts, NotStaged, PushMoves DEF SessionOpen
  <2>2. Cardinality(TakenBy(k)') = Cardinality(TakenBy(k))
    BY <1>1, StagedKept DEF SessionOpen
  <2>3. UNCHANGED <<pending, holds>>
    BY <1>1 DEF PushTypeOK, Contents, SessionOpen
  <2> QED BY <2>1, <2>2, <2>3, CoverNow DEF StagedIn, In
<1>2. ASSUME NEW p \in Pushes, SessionClosed(p) PROVE HoldsCover'
  <2> SUFFICES ASSUME NEW k \in Layers
                PROVE  Cardinality(StagedBy(k)') + Cardinality(TakenBy(k)') + (IF pending'[k] = 0 THEN 0 ELSE 1) <= holds'[k]
    BY CoverNext
  <2>1. Cardinality(StagedBy(k)') = Cardinality(StagedBy(k))
    BY <1>2, StagedCounts, NotStaged, PushMoves DEF SessionClosed
  <2>2. Cardinality(TakenBy(k)') = Cardinality(TakenBy(k))
    BY <1>2, StagedKept DEF SessionClosed
  <2>3. UNCHANGED <<pending, holds>>
    BY <1>2 DEF PushTypeOK, Contents, SessionClosed
  <2> QED BY <2>1, <2>2, <2>3, CoverNow DEF StagedIn, In
<1>3. ASSUME NEW p \in Pushes, PushMismatch(p) PROVE HoldsCover'
  <2> SUFFICES ASSUME NEW k \in Layers
                PROVE  Cardinality(StagedBy(k)') + Cardinality(TakenBy(k)') + (IF pending'[k] = 0 THEN 0 ELSE 1) <= holds'[k]
    BY CoverNext
  <2>0. push[p] \in PushStates /\ push[p].step = "staged" /\ push[p].layer \in Layers
    BY <1>3 DEF PushTypeOK, PushStates, PushMismatch, PushIdle, PushOpen, PushDone
  <2>9. StagedIn(push[p], k) = IF push[p].layer = k THEN 1 ELSE 0
    BY <2>0 DEF StagedIn
  <2>1. Cardinality(StagedBy(k)') = Cardinality(StagedBy(k)) - (IF push[p].layer = k THEN 1 ELSE 0)
    BY <1>3, <2>0, <2>9, StagedCounts, NotStaged, PushMoves DEF PushMismatch
  <2>2. Cardinality(TakenBy(k)') = Cardinality(TakenBy(k))
    BY <1>3, StagedKept DEF PushMismatch
  <2>3. UNCHANGED pending /\ holds'[k] = IF push[p].layer = k THEN Released(holds, k)[k] ELSE holds[k]
    BY <1>3, <2>0 DEF PushTypeOK, Contents, PushMismatch, RemoveUnreferenced, Released
  <2>4. Released(holds, k)[k] = IF holds[k] <= 1 THEN 0 ELSE holds[k] - 1
    BY DEF Released, PushTypeOK, Contents
  <2> QED BY <2>0, <2>1, <2>2, <2>3, <2>4, StagedFewer, CoverNow DEF StagedIn, In
<1>4. ASSUME NEW p \in Pushes, PushStored(p) PROVE HoldsCover'
  <2> SUFFICES ASSUME NEW k \in Layers
                PROVE  Cardinality(StagedBy(k)') + Cardinality(TakenBy(k)') + (IF pending'[k] = 0 THEN 0 ELSE 1) <= holds'[k]
    BY CoverNext
  <2>0. push[p] \in PushStates /\ push[p].step = "staged" /\ push[p].layer \in Layers
    BY <1>4 DEF PushTypeOK, PushStates, PushStored, PushIdle, PushOpen, PushDone
  <2>9. StagedIn(push[p], k) = IF push[p].layer = k THEN 1 ELSE 0
    BY <2>0 DEF StagedIn
  <2>1. Cardinality(StagedBy(k)') = Cardinality(StagedBy(k)) - (IF push[p].layer = k THEN 1 ELSE 0)
    BY <1>4, <2>0, <2>9, StagedCounts, NotStaged, PushMoves DEF PushStored
  <2>2. Cardinality(TakenBy(k)') = Cardinality(TakenBy(k))
    BY <1>4, StagedKept DEF PushStored
  <2>3. UNCHANGED holds /\ (k # push[p].layer => pending'[k] = pending[k])
    BY <1>4 DEF PushTypeOK, Contents, PushStored, StorePending
  <2> QED BY <2>1, <2>2, <2>3, CoverNow DEF StagedIn, In
<1>5. ASSUME NEW p \in Pushes, NEW l \in Layers, PushStage(p, l) PROVE HoldsCover'
  <2> SUFFICES ASSUME NEW k \in Layers
                PROVE  Cardinality(StagedBy(k)') + Cardinality(TakenBy(k)') + (IF pending'[k] = 0 THEN 0 ELSE 1) <= holds'[k]
    BY CoverNext
  <2>0. [step |-> "staged", layer |-> l, session |-> push[p] = PushOpen] \in PushStates
    BY DEF PushStates
  <2>9. StagedIn([step |-> "staged", layer |-> l, session |-> push[p] = PushOpen], k) = IF l = k THEN 1 ELSE 0
    BY DEF StagedIn
  <2>1. Cardinality(StagedBy(k)') = Cardinality(StagedBy(k)) + (IF l = k THEN 1 ELSE 0)
    BY <1>5, <2>0, <2>9, StagedCounts, NotStaged, PushMoves DEF PushStage
  <2>2. Cardinality(TakenBy(k)') = Cardinality(TakenBy(k))
    BY <1>5, StagedKept DEF PushStage
  <2>3. UNCHANGED pending /\ holds'[k] = holds[k] + (IF l = k THEN 1 ELSE 0)
    BY <1>5 DEF PushTypeOK, Contents, PushStage, Acquired, StagedIn, In
  <2> QED BY <2>1, <2>2, <2>3, CoverNow DEF StagedIn, In
<1>6. ASSUME NEW l \in Layers, TimerFires(l) PROVE HoldsCover'
  <2> SUFFICES ASSUME NEW k \in Layers
                PROVE  Cardinality(StagedBy(k)') + Cardinality(TakenBy(k)') + (IF pending'[k] = 0 THEN 0 ELSE 1) <= holds'[k]
    BY CoverNext
  <2>1. Cardinality(StagedBy(k)') = Cardinality(StagedBy(k))
    BY <1>6, StagedKept DEF TimerFires
  <2>2. Cardinality(TakenBy(k)') = Cardinality(TakenBy(k))
    BY <1>6, StagedKept DEF TimerFires
  <2>3. UNCHANGED <<pending, holds>>
    BY <1>6 DEF PushTypeOK, Contents, TimerFires
  <2> QED BY <2>1, <2>2, <2>3, CoverNow DEF StagedIn, In
<1>7. ASSUME NEW t \in fired, Expire(t) PROVE HoldsCover'
  <2> SUFFICES ASSUME NEW k \in Layers
                PROVE  Cardinality(StagedBy(k)') + Cardinality(TakenBy(k)') + (IF pending'[k] = 0 THEN 0 ELSE 1) <= holds'[k]
    BY CoverNext
  <2>1. Cardinality(StagedBy(k)') = Cardinality(StagedBy(k))
    BY <1>7, StagedKept DEF Expire
  <2>2. Cardinality(TakenBy(k)') = Cardinality(TakenBy(k))
    BY <1>7, StagedKept DEF Expire
  <2>3. \/ UNCHANGED <<pending, holds>>
        \/ k # t[2] /\ pending'[k] = pending[k] /\ holds'[k] = holds[k]
        \/ /\ k = t[2] /\ pending[k] # 0 /\ pending'[k] = 0
           /\ holds'[k] = IF holds[k] <= 1 THEN 0 ELSE holds[k] - 1
    BY <1>7 DEF PushTypeOK, Contents, Expire, RemoveUnreferenced, Released
  <2> QED BY <2>1, <2>2, <2>3, CoverNow DEF StagedIn, In
<1>8. ASSUME NEW m \in Manifests, ManifestBegin(m) PROVE HoldsCover'
  <2> SUFFICES ASSUME NEW k \in Layers
                PROVE  Cardinality(StagedBy(k)') + Cardinality(TakenBy(k)') + (IF pending'[k] = 0 THEN 0 ELSE 1) <= holds'[k]
    BY CoverNext
  <2>1. Cardinality(StagedBy(k)') = Cardinality(StagedBy(k))
    BY <1>8, StagedKept DEF ManifestBegin
  <2>2. Cardinality(TakenBy(k)') = Cardinality(TakenBy(k)) - In(k, manifest[m].taken)
    BY <1>8, StagedCounts, ManifestMoves DEF ManifestBegin, In
  <2>3. UNCHANGED <<pending, holds>>
    BY <1>8 DEF PushTypeOK, Contents, ManifestBegin
  <2> QED BY <2>1, <2>2, <2>3, CoverNow DEF StagedIn, In
<1>9. ASSUME NEW m \in Manifests, ManifestStage(m) PROVE HoldsCover'
  <2> SUFFICES ASSUME NEW k \in Layers
                PROVE  Cardinality(StagedBy(k)') + Cardinality(TakenBy(k)') + (IF pending'[k] = 0 THEN 0 ELSE 1) <= holds'[k]
    BY CoverNext
  <2>0. Cardinality(TakenBy(k)) \in Nat
    BY StagedCounts
  <2>1. Cardinality(StagedBy(k)') = Cardinality(StagedBy(k))
    BY <1>9, StagedKept DEF ManifestStage
  <2>2. Cardinality(TakenBy(k)') = Cardinality(TakenBy(k))
    BY <1>9, <2>0, StagedCounts, ManifestMoves DEF ManifestStage, StagedIn, In
  <2>3. UNCHANGED pending /\ holds'[k] = holds[k]
    BY <1>9, PushAssumption DEF PushTypeOK, Contents, ManifestStage, Acquired
  <2> QED BY <2>1, <2>2, <2>3, CoverNow DEF StagedIn, In
<1>10. ASSUME NEW m \in Manifests, ManifestRefused(m) PROVE HoldsCover'
  <2> SUFFICES ASSUME NEW k \in Layers
                PROVE  Cardinality(StagedBy(k)') + Cardinality(TakenBy(k)') + (IF pending'[k] = 0 THEN 0 ELSE 1) <= holds'[k]
    BY CoverNext
  <2>0. Cardinality(TakenBy(k)) \in Nat
    BY StagedCounts
  <2>1. Cardinality(StagedBy(k)') = Cardinality(StagedBy(k))
    BY <1>10, StagedKept DEF ManifestRefused
  <2>2. Cardinality(TakenBy(k)') = Cardinality(TakenBy(k))
    BY <1>10, <2>0, StagedCounts, ManifestMoves DEF ManifestRefused, StagedIn, In
  <2>3. UNCHANGED pending /\ holds'[k] = holds[k]
    BY <1>10, PushAssumption DEF PushTypeOK, Contents, ManifestRefused
  <2> QED BY <2>1, <2>2, <2>3, CoverNow DEF StagedIn, In
<1>11. ASSUME NEW m \in Manifests, ManifestCommit(m) PROVE HoldsCover'
  <2> SUFFICES ASSUME NEW k \in Layers
                PROVE  Cardinality(StagedBy(k)') + Cardinality(TakenBy(k)') + (IF pending'[k] = 0 THEN 0 ELSE 1) <= holds'[k]
    BY CoverNext
  <2>0. Cardinality(TakenBy(k)) \in Nat
    BY StagedCounts
  <2>1. Cardinality(StagedBy(k)') = Cardinality(StagedBy(k))
    BY <1>11, StagedKept DEF ManifestCommit
  <2>2. Cardinality(TakenBy(k)') = Cardinality(TakenBy(k))
    BY <1>11, <2>0, StagedCounts, ManifestMoves DEF ManifestCommit, StagedIn, In
  <2>3. UNCHANGED pending /\ holds'[k] = holds[k]
    BY <1>11, PushAssumption DEF PushTypeOK, Contents, ManifestCommit
  <2> QED BY <2>1, <2>2, <2>3, CoverNow DEF StagedIn, In
<1>12. ASSUME NEW m \in Manifests, ManifestRelease(m) PROVE HoldsCover'
  <2> SUFFICES ASSUME NEW k \in Layers
                PROVE  Cardinality(StagedBy(k)') + Cardinality(TakenBy(k)') + (IF pending'[k] = 0 THEN 0 ELSE 1) <= holds'[k]
    BY CoverNext
  <2>1. Cardinality(StagedBy(k)') = Cardinality(StagedBy(k))
    BY <1>12, StagedKept DEF ManifestRelease
  <2>2. Cardinality(TakenBy(k)') = Cardinality(TakenBy(k)) - In(k, manifest[m].taken)
    BY <1>12, StagedCounts, ManifestMoves DEF ManifestRelease, StagedIn, In
  <2>3. UNCHANGED pending /\ holds'[k] = IF k \in manifest[m].taken THEN (IF holds[k] <= 1 THEN 0 ELSE holds[k] - 1) ELSE holds[k]
    BY <1>12, PushAssumption DEF PushTypeOK, Contents, ManifestRelease, Released
  <2> QED BY <2>1, <2>2, <2>3, CoverNow, TakenFewer DEF StagedIn, In
<1>13. ASSUME NEW m \in Manifests, ManifestFails(m) PROVE HoldsCover'
  <2> SUFFICES ASSUME NEW k \in Layers
                PROVE  Cardinality(StagedBy(k)') + Cardinality(TakenBy(k)') + (IF pending'[k] = 0 THEN 0 ELSE 1) <= holds'[k]
    BY CoverNext
  <2>0. Cardinality(TakenBy(k)) \in Nat
    BY StagedCounts
  <2>1. Cardinality(StagedBy(k)') = Cardinality(StagedBy(k))
    BY <1>13, StagedKept DEF ManifestFails
  <2>2. Cardinality(TakenBy(k)') = Cardinality(TakenBy(k))
    BY <1>13, <2>0, StagedCounts, ManifestMoves DEF ManifestFails, StagedIn, In
  <2>3. UNCHANGED pending /\ holds'[k] = holds[k]
    BY <1>13, PushAssumption DEF PushTypeOK, Contents, ManifestFails, RemoveUnreferenced, Released
  <2> QED BY <2>1, <2>2, <2>3, CoverNow DEF StagedIn, In
<1>14. ASSUME NEW m \in Manifests, ManifestEnds(m) PROVE HoldsCover'
  <2> SUFFICES ASSUME NEW k \in Layers
                PROVE  Cardinality(StagedBy(k)') + Cardinality(TakenBy(k)') + (IF pending'[k] = 0 THEN 0 ELSE 1) <= holds'[k]
    BY CoverNext
  <2>1. Cardinality(StagedBy(k)') = Cardinality(StagedBy(k))
    BY <1>14, StagedKept DEF ManifestEnds
  <2>2. Cardinality(TakenBy(k)') = Cardinality(TakenBy(k)) - In(k, manifest[m].taken)
    BY <1>14, StagedCounts, ManifestMoves DEF ManifestEnds, StagedIn, In
  <2>3. UNCHANGED <<pending, holds>>
    BY <1>14 DEF PushTypeOK, Contents, ManifestEnds
  <2> QED BY <2>1, <2>2, <2>3, CoverNow DEF StagedIn, In
<1>15. ASSUME NEW m \in Manifests, NEW l \in Layers, TakeBlob(m, l) PROVE HoldsCover'
  <2> SUFFICES ASSUME NEW k \in Layers
                PROVE  Cardinality(StagedBy(k)') + Cardinality(TakenBy(k)') + (IF pending'[k] = 0 THEN 0 ELSE 1) <= holds'[k]
    BY CoverNext
  <2>1. Cardinality(StagedBy(k)') = Cardinality(StagedBy(k))
    BY <1>15, StagedKept DEF TakeBlob
  <2>2. Cardinality(TakenBy(k)') = Cardinality(TakenBy(k)) - In(k, manifest[m].taken) + In(k, manifest[m].taken \cup {l})
    BY <1>15, ManifestMoves DEF TakeBlob
  <2>3. UNCHANGED holds /\ pending[l] # 0 /\ pending'[k] = IF k = l THEN 0 ELSE pending[k]
    BY <1>15 DEF PushTypeOK, Contents, TakeBlob
  <2> QED BY <2>1, <2>2, <2>3, CoverNow DEF StagedIn, In
<1>16. ASSUME NEW m \in Manifests, NEW l \in Layers, FindBlob(m, l) PROVE HoldsCover'
  <2> SUFFICES ASSUME NEW k \in Layers
                PROVE  Cardinality(StagedBy(k)') + Cardinality(TakenBy(k)') + (IF pending'[k] = 0 THEN 0 ELSE 1) <= holds'[k]
    BY CoverNext
  <2>1. Cardinality(StagedBy(k)') = Cardinality(StagedBy(k))
    BY <1>16, StagedKept DEF FindBlob
  <2>2. Cardinality(TakenBy(k)') = Cardinality(TakenBy(k))
    BY <1>16, StagedCounts, ManifestMoves DEF FindBlob, StagedIn, In
  <2>3. UNCHANGED <<pending, holds>>
    BY <1>16 DEF PushTypeOK, Contents, FindBlob
  <2> QED BY <2>1, <2>2, <2>3, CoverNow DEF StagedIn, In
<1>17. ASSUME NEW m \in Manifests, NEW l \in Layers, RestoreBlob(m, l) PROVE HoldsCover'
  <2> SUFFICES ASSUME NEW k \in Layers
                PROVE  Cardinality(StagedBy(k)') + Cardinality(TakenBy(k)') + (IF pending'[k] = 0 THEN 0 ELSE 1) <= holds'[k]
    BY CoverNext
  <2>1. Cardinality(StagedBy(k)') = Cardinality(StagedBy(k))
    BY <1>17, StagedKept DEF RestoreBlob
  <2>2. Cardinality(TakenBy(k)') = Cardinality(TakenBy(k)) - In(k, manifest[m].taken) + In(k, manifest[m].taken \ {l})
    BY <1>17, ManifestMoves DEF RestoreBlob
  <2>3. UNCHANGED holds /\ l \in manifest[m].taken /\ (k # l => pending'[k] = pending[k])
    BY <1>17 DEF PushTypeOK, Contents, RestoreBlob, StorePending
  <2> QED BY <2>1, <2>2, <2>3, CoverNow DEF StagedIn, In
<1>18. ASSUME NEW c \in Contents, GarbageJob(c) PROVE HoldsCover'
  BY <1>18, StagedKept, CoverNow, CoverNext DEF GarbageJob
<1>19. CASE PushRestart
  <2>1. ASSUME NEW k \in Layers
        PROVE  StagedBy(k)' = {} /\ TakenBy(k)' = {} /\ pending'[k] = 0 /\ holds'[k] = 0
    <3>1. \A p \in Pushes : push'[p].step # "staged"
      BY <1>19 DEF PushRestart, PushIdle, PushDone
    <3>2. \A m \in Manifests : manifest'[m].taken = {} \/ (manifest'[m] = manifest[m] /\ manifest[m].step = "idle")
      BY <1>19 DEF PushRestart
    <3>3. pending'[k] = 0 /\ holds'[k] = 0
      BY <1>19 DEF PushRestart, Contents
    <3> QED BY <3>1, <3>2, <3>3, AllFound DEF AllFound, StagedBy, TakenBy
  <2> QED BY <2>1, FS_EmptySet, CoverNext
<1>20. CASE UNCHANGED pushVars
  BY <1>20, StagedKept, CoverNow, CoverNext DEF pushVars
<1> QED BY <1>1, <1>2, <1>3, <1>4, <1>5, <1>6, <1>7, <1>8, <1>9, <1>10, <1>11, <1>12, <1>13, <1>14,
     <1>15, <1>16, <1>17, <1>18, <1>19, <1>20 DEF PushNext

\* No step removes bytes that are held or have a row.
LEMMA BytesStep ==
  ASSUME PushTypeOK, HoldsCover, BytesStay, [PushNext]_pushVars
  PROVE  BytesStay'
<1> USE PushAssumption DEF PushTypeOK, Contents, PushStates, PushIdle, PushOpen, PushDone,
     ManifestSteps, BytesStay
<1>1. ASSUME NEW p \in Pushes, SessionOpen(p) PROVE BytesStay'
  BY <1>1 DEF SessionOpen, PushGoes
<1>2. ASSUME NEW p \in Pushes, SessionClosed(p) PROVE BytesStay'
  BY <1>2 DEF SessionClosed, PushGoes
<1>3. ASSUME NEW p \in Pushes, PushMismatch(p) PROVE BytesStay'
  BY <1>3 DEF PushMismatch, PushGoes, RemoveUnreferenced, Released
<1>4. ASSUME NEW p \in Pushes, PushStored(p) PROVE BytesStay'
  BY <1>4 DEF PushStored, PushGoes, StorePending
<1>5. ASSUME NEW p \in Pushes, NEW l \in Layers, PushStage(p, l) PROVE BytesStay'
  BY <1>5 DEF PushStage, PushGoes, Acquired
<1>6. ASSUME NEW l \in Layers, TimerFires(l) PROVE BytesStay'
  BY <1>6 DEF TimerFires
<1>7. ASSUME NEW t \in fired, Expire(t) PROVE BytesStay'
  BY <1>7 DEF Expire, RemoveUnreferenced, Released
<1>8. ASSUME NEW m \in Manifests, ManifestBegin(m) PROVE BytesStay'
  BY <1>8 DEF ManifestBegin, ManifestGoes
<1>9. ASSUME NEW m \in Manifests, ManifestStage(m) PROVE BytesStay'
  BY <1>9 DEF ManifestStage, ManifestGoes, Acquired
<1>10. ASSUME NEW m \in Manifests, ManifestRefused(m) PROVE BytesStay'
  BY <1>10 DEF ManifestRefused, ManifestGoes
<1>11. ASSUME NEW m \in Manifests, ManifestCommit(m) PROVE BytesStay'
  <2>1. manifest[m].taken \cup {m} \subseteq onDisk
    BY <1>11, TakenFewer DEF ManifestCommit
  <2>2. UNCHANGED <<holds, onDisk>> /\ rows' \subseteq onDisk
    BY <1>11, <2>1 DEF ManifestCommit
  <2>3. \A n \in Manifests : manifest'[n].step \in {"publishing", "committed"} => manifest[n].step \in {"publishing", "committed"}
    BY <1>11 DEF ManifestCommit, ManifestGoes
  <2> QED BY ONLY <2>2, <2>3, BytesStay
<1>12. ASSUME NEW m \in Manifests, ManifestRelease(m) PROVE BytesStay'
  BY <1>12 DEF ManifestRelease, ManifestGoes, Released
<1>13. ASSUME NEW m \in Manifests, ManifestFails(m) PROVE BytesStay'
  BY <1>13 DEF ManifestFails, ManifestGoes, RemoveUnreferenced, Released
<1>14. ASSUME NEW m \in Manifests, ManifestEnds(m) PROVE BytesStay'
  BY <1>14 DEF ManifestEnds, ManifestGoes
<1>15. ASSUME NEW m \in Manifests, NEW l \in Layers, TakeBlob(m, l) PROVE BytesStay'
  BY <1>15 DEF TakeBlob, ManifestGoes
<1>16. ASSUME NEW m \in Manifests, NEW l \in Layers, FindBlob(m, l) PROVE BytesStay'
  BY <1>16 DEF FindBlob, ManifestGoes
<1>17. ASSUME NEW m \in Manifests, NEW l \in Layers, RestoreBlob(m, l) PROVE BytesStay'
  BY <1>17 DEF RestoreBlob, ManifestGoes, StorePending
<1>18. ASSUME NEW c \in Contents, GarbageJob(c) PROVE BytesStay'
  BY <1>18 DEF GarbageJob
<1>19. CASE PushRestart
  BY <1>19 DEF PushRestart
<1>20. CASE UNCHANGED pushVars
  BY <1>20 DEF pushVars
<1> HIDE DEF PushTypeOK, Contents, PushStates, PushIdle, PushOpen, PushDone, ManifestSteps, BytesStay
<1> QED BY <1>1, <1>2, <1>3, <1>4, <1>5, <1>6, <1>7, <1>8, <1>9, <1>10, <1>11, <1>12, <1>13, <1>14,
     <1>15, <1>16, <1>17, <1>18, <1>19, <1>20 DEF PushNext

\* No step publishes a manifest whose blobs are not taken or in rows.
LEMMA FoundStep ==
  ASSUME PushTypeOK, AllFound, [PushNext]_pushVars
  PROVE  AllFound'
<1> USE PushAssumption DEF PushTypeOK, Contents, AllFound
<1>1. ASSUME NEW p \in Pushes, SessionOpen(p) PROVE AllFound'
  BY <1>1 DEF SessionOpen, PushGoes
<1>2. ASSUME NEW p \in Pushes, SessionClosed(p) PROVE AllFound'
  BY <1>2 DEF SessionClosed, PushGoes
<1>3. ASSUME NEW p \in Pushes, PushMismatch(p) PROVE AllFound'
  BY <1>3 DEF PushMismatch, PushGoes, RemoveUnreferenced, Released
<1>4. ASSUME NEW p \in Pushes, PushStored(p) PROVE AllFound'
  BY <1>4 DEF PushStored, PushGoes, StorePending
<1>5. ASSUME NEW p \in Pushes, NEW l \in Layers, PushStage(p, l) PROVE AllFound'
  BY <1>5 DEF PushStage, PushGoes, Acquired
<1>6. ASSUME NEW l \in Layers, TimerFires(l) PROVE AllFound'
  BY <1>6 DEF TimerFires
<1>7. ASSUME NEW t \in fired, Expire(t) PROVE AllFound'
  BY <1>7 DEF Expire, RemoveUnreferenced, Released
<1>8. ASSUME NEW m \in Manifests, ManifestBegin(m) PROVE AllFound'
  BY <1>8 DEF ManifestBegin, ManifestGoes
<1>9. ASSUME NEW m \in Manifests, ManifestStage(m) PROVE AllFound'
  BY <1>9 DEF ManifestStage, ManifestGoes, Acquired
<1>10. ASSUME NEW m \in Manifests, ManifestRefused(m) PROVE AllFound'
  BY <1>10 DEF ManifestRefused, ManifestGoes
<1>11. ASSUME NEW m \in Manifests, ManifestCommit(m) PROVE AllFound'
  BY <1>11 DEF ManifestCommit, ManifestGoes
<1>12. ASSUME NEW m \in Manifests, ManifestRelease(m) PROVE AllFound'
  BY <1>12 DEF ManifestRelease, ManifestGoes, Released
<1>13. ASSUME NEW m \in Manifests, ManifestFails(m) PROVE AllFound'
  BY <1>13 DEF ManifestFails, ManifestGoes, RemoveUnreferenced, Released
<1>14. ASSUME NEW m \in Manifests, ManifestEnds(m) PROVE AllFound'
  BY <1>14 DEF ManifestEnds, ManifestGoes
<1>15. ASSUME NEW m \in Manifests, NEW l \in Layers, TakeBlob(m, l) PROVE AllFound'
  BY <1>15 DEF TakeBlob, ManifestGoes
<1>16. ASSUME NEW m \in Manifests, NEW l \in Layers, FindBlob(m, l) PROVE AllFound'
  BY <1>16 DEF FindBlob, ManifestGoes
<1>17. ASSUME NEW m \in Manifests, NEW l \in Layers, RestoreBlob(m, l) PROVE AllFound'
  BY <1>17 DEF RestoreBlob, ManifestGoes, StorePending
<1>18. ASSUME NEW c \in Contents, GarbageJob(c) PROVE AllFound'
  BY <1>18 DEF GarbageJob
<1>19. CASE PushRestart
  BY <1>19 DEF PushRestart
<1>20. CASE UNCHANGED pushVars
  BY <1>20 DEF pushVars
<1> HIDE DEF PushTypeOK, Contents, AllFound
<1> QED BY <1>1, <1>2, <1>3, <1>4, <1>5, <1>6, <1>7, <1>8, <1>9, <1>10, <1>11, <1>12, <1>13, <1>14,
     <1>15, <1>16, <1>17, <1>18, <1>19, <1>20 DEF PushNext

\* The invariant holds when nothing has been pushed.
LEMMA PushBegins ==
  ASSUME PushInit
  PROVE  PushTrue
<1> USE PushAssumption DEF PushInit, Contents
<1>1. PushTypeOK
  BY DEF PushTypeOK, PushStates, ManifestSteps
<1>2. HoldsCover
  <2>1. ASSUME NEW l \in Layers PROVE StagedBy(l) = {} /\ TakenBy(l) = {}
    BY DEF StagedBy, TakenBy, PushIdle
  <2>2. ASSUME NEW l \in Layers PROVE pending[l] = 0 /\ holds[l] = 0
    OBVIOUS
  <2>3. ASSUME NEW l \in Layers PROVE Cardinality(StagedBy(l)) = 0 /\ Cardinality(TakenBy(l)) = 0
    BY <2>1, FS_EmptySet
  <2>4. ASSUME NEW l \in Layers
        PROVE  Cardinality(StagedBy(l)) + Cardinality(TakenBy(l)) + (IF pending[l] = 0 THEN 0 ELSE 1) <= holds[l]
    BY ONLY <2>2, <2>3, l \in Layers
  <2> QED BY ONLY <2>4 DEF HoldsCover
<1>3. BytesStay /\ AllFound
  BY DEF BytesStay, AllFound
<1> QED BY <1>1, <1>2, <1>3 DEF PushTrue

\* Every step keeps the invariant.
LEMMA PushStep ==
  ASSUME PushTrue, [PushNext]_pushVars
  PROVE  PushTrue'
BY PushTypesStep, CoverStep, BytesStep, FoundStep DEF PushTrue

\* The invariant implies that images are whole.
LEMMA PushPromises ==
  ASSUME PushTrue
  PROVE  ImagesSound
BY DEF PushTrue, ImagesSound, ImageWhole, BytesStay, AllFound, PushTypeOK

\* PushTrue holds in every state of PushSpec.
LEMMA PushStaysTrue == PushSpec => []PushTrue
<1>1. PushInit => PushTrue
  BY PushBegins
<1>2. PushTrue /\ [PushNext]_pushVars => PushTrue'
  BY PushStep
<1> QED BY <1>1, <1>2, PTL DEF PushSpec

\* For any pushes, manifests and restarts, whoever needs a pending blob has a staged
\* reference for it, and an image that the registry lists has its rows and bytes
\* (PutBlob, PutManifest, storePending, takePending, expirePending).
THEOREM ImagesAlwaysSound == PushSpec => []ImagesSound
<1>1. PushTrue => ImagesSound BY PushPromises
<1> QED BY <1>1, PushStaysTrue, PTL

-----------------------------------------------------------------------------
(***************************************************************************)
(* PublishGates.                                                           *)
(* Why neither quota is ever exceeded.  What the repository and the day hold*)
(* are sums over sets; the first lemmas say what a sum does when a member is*)
(* taken out or replaced, by induction on the size of the set.  The rest shows*)
(* that no publication is charged more than it had reserved.               *)
(***************************************************************************)

\* Induction on the natural numbers, for the members of a set.
LEMMA NaturalSet ==
  ASSUME NEW S, 0 \in S, \A n \in Nat : n \in S => n + 1 \in S
  PROVE  Nat \subseteq S
<1> SUFFICES ASSUME Nat \ S # {} PROVE FALSE
  OBVIOUS
<1>1. IsWellFoundedOn(OpToRel(<, Nat), Nat)
  BY NatLessThanWellFounded
<1>2. \E x \in Nat \ S : \A y \in Nat \ S : ~(<<y, x>> \in OpToRel(<, Nat))
  BY <1>1, WFMin
<1>3. PICK x \in Nat \ S : \A y \in Nat \ S : ~(y < x)
  BY <1>2 DEF OpToRel
<1>4. x # 0 /\ x - 1 \in Nat /\ x - 1 \in S
  BY <1>3
<1> QED BY <1>3, <1>4

\* The member of a set that a fold takes first.
Picked(s) == CHOOSE x \in s : TRUE

\* g is the sum of f over every set of D.
SumsOn(f, D, g) ==
  /\ g \in [D -> Nat]
  /\ \A s \in D : g[s] = IF s = {} THEN 0 ELSE f[Picked(s)] + g[s \ {Picked(s)}]

\* The sums of f over the subsets of S, as SumFunctionOnSet folds them.
Sums(f, S) == CHOOSE g : g = [s \in SUBSET S |-> IF s = {} THEN 0 ELSE f[Picked(s)] + g[s \ {Picked(s)}]]

\* The subsets of S that have at most n members.
UpTo(n, S) == {s \in SUBSET S : Cardinality(s) <= n}

\* The member that a fold takes is one of the set.
LEMMA PickedIsIn == ASSUME NEW s, s # {} PROVE Picked(s) \in s
BY DEF Picked

\* A subset without one of its members is smaller by one.
LEMMA Smaller ==
  ASSUME NEW S, IsFiniteSet(S), NEW s \in SUBSET S, NEW x \in s
  PROVE  /\ s \ {x} \in SUBSET S /\ IsFiniteSet(s) /\ IsFiniteSet(s \ {x})
         /\ Cardinality(s) \in Nat /\ Cardinality(s \ {x}) = Cardinality(s) - 1 /\ Cardinality(s) > 0
<1>1. IsFiniteSet(s) /\ IsFiniteSet(s \ {x}) /\ Cardinality(s) \in Nat
  BY FS_Subset, FS_CardinalityType
<1>2. Cardinality(s \ {x}) = Cardinality(s) - 1
  BY <1>1, FS_RemoveElement
<1>3. Cardinality(s \ {x}) \in Nat
  BY <1>1, FS_CardinalityType
<1> QED BY <1>1, <1>2, <1>3

\* The subset of no members is the empty one.
LEMMA NoneIsEmpty ==
  ASSUME NEW S, IsFiniteSet(S), NEW s \in UpTo(0, S)
  PROVE  s = {}
<1>1. s \in SUBSET S /\ IsFiniteSet(s) /\ Cardinality(s) \in Nat
  BY FS_Subset, FS_CardinalityType DEF UpTo
<1>2. Cardinality(s) = 0
  BY <1>1 DEF UpTo
<1> QED BY <1>1, <1>2, FS_EmptySet

\* The sums over the subsets of at most n members exist, for every n.
LEMMA SumsExistUpTo ==
  ASSUME NEW S, IsFiniteSet(S), NEW f, \A x \in S : f[x] \in Nat
  PROVE  \A n \in Nat : \E g : SumsOn(f, UpTo(n, S), g)
<1> DEFINE Good == {n \in Nat : \E g : SumsOn(f, UpTo(n, S), g)}
<1>1. 0 \in Good
  <2> DEFINE g == [s \in UpTo(0, S) |-> 0]
  <2>1. ASSUME NEW s \in UpTo(0, S) PROVE s = {}
    BY NoneIsEmpty
  <2>2. SumsOn(f, UpTo(0, S), g)
    BY <2>1 DEF SumsOn
  <2> QED BY <2>2
<1>2. ASSUME NEW n \in Nat, n \in Good PROVE n + 1 \in Good
  <2>1. PICK h : SumsOn(f, UpTo(n, S), h)
    BY <1>2
  <2> DEFINE g == [s \in UpTo(n + 1, S) |-> IF s = {} THEN 0 ELSE f[Picked(s)] + h[s \ {Picked(s)}]]
  <2>2. ASSUME NEW s \in UpTo(n + 1, S), s # {}
        PROVE  s \ {Picked(s)} \in UpTo(n, S) /\ s \ {Picked(s)} \in UpTo(n + 1, S) /\ f[Picked(s)] \in Nat
    <3>1. s \in SUBSET S /\ Picked(s) \in s
      BY <2>2, PickedIsIn DEF UpTo
    <3>2. Cardinality(s) \in Nat /\ Cardinality(s) <= n + 1
      BY <3>1, Smaller DEF UpTo
    <3>3. Cardinality(s \ {Picked(s)}) = Cardinality(s) - 1 /\ s \ {Picked(s)} \in SUBSET S
      BY <3>1, Smaller
    <3> QED BY <3>1, <3>2, <3>3 DEF UpTo
  <2>3. g \in [UpTo(n + 1, S) -> Nat]
    BY <2>1, <2>2 DEF SumsOn
  <2>4. ASSUME NEW s \in UpTo(n, S) PROVE g[s] = h[s]
    <3>1. s \in UpTo(n + 1, S)
      BY Smaller, FS_Subset, FS_CardinalityType DEF UpTo
    <3>2. g[s] = IF s = {} THEN 0 ELSE f[Picked(s)] + h[s \ {Picked(s)}]
      BY <3>1
    <3> QED BY <2>1, <3>2 DEF SumsOn
  <2> HIDE DEF g
  <2>5. ASSUME NEW s \in UpTo(n + 1, S)
        PROVE  g[s] = IF s = {} THEN 0 ELSE f[Picked(s)] + g[s \ {Picked(s)}]
    <3>1. g[s] = IF s = {} THEN 0 ELSE f[Picked(s)] + h[s \ {Picked(s)}]
      BY DEF g
    <3>2. CASE s = {}
      BY <3>1, <3>2
    <3>3. CASE s # {}
      BY <3>1, <3>3, <2>2, <2>4
    <3> QED BY <3>2, <3>3
  <2>6. SumsOn(f, UpTo(n + 1, S), g)
    BY <2>3, <2>5 DEF SumsOn
  <2> QED BY <2>6
<1> HIDE DEF Good
<1>3. Nat \subseteq Good
  BY <1>1, <1>2, NaturalSet
<1> QED BY <1>3 DEF Good

\* The recursive definition of the sums has a solution, and it is the one chosen.
LEMMA SumsExist ==
  ASSUME NEW S, IsFiniteSet(S), NEW f, \A x \in S : f[x] \in Nat
  PROVE  SumsOn(f, SUBSET S, Sums(f, S))
<1>1. UpTo(Cardinality(S), S) = SUBSET S
  <2>1. ASSUME NEW s \in SUBSET S PROVE Cardinality(s) <= Cardinality(S)
    BY FS_Subset
  <2> QED BY <2>1 DEF UpTo
<1>2. PICK g : SumsOn(f, SUBSET S, g)
  <2>1. \A n \in Nat : \E g : SumsOn(f, UpTo(n, S), g)
    BY SumsExistUpTo
  <2>2. Cardinality(S) \in Nat
    BY FS_CardinalityType
  <2>3. \E g : SumsOn(f, UpTo(Cardinality(S), S), g)
    BY <2>1, <2>2
  <2> QED BY <1>1, <2>3
<1>3. g = [s \in SUBSET S |-> IF s = {} THEN 0 ELSE f[Picked(s)] + g[s \ {Picked(s)}]]
  BY <1>2 DEF SumsOn
<1> DEFINE h == Sums(f, S)
<1>4. h = [s \in SUBSET S |-> IF s = {} THEN 0 ELSE f[Picked(s)] + h[s \ {Picked(s)}]]
  BY <1>3 DEF Sums
<1> HIDE DEF h
<1>5. ASSUME NEW s \in SUBSET S
      PROVE  h[s] = IF s = {} THEN 0 ELSE f[Picked(s)] + h[s \ {Picked(s)}]
  BY <1>4
<1> DEFINE Same == {n \in Nat : \A s \in UpTo(n, S) : h[s] = g[s]}
<1>6. 0 \in Same
  <2>1. ASSUME NEW s \in UpTo(0, S) PROVE s = {}
    BY NoneIsEmpty
  <2> QED BY <1>2, <1>5, <2>1 DEF SumsOn
<1>7. ASSUME NEW n \in Nat, n \in Same PROVE n + 1 \in Same
  <2>1. ASSUME NEW s \in UpTo(n + 1, S) PROVE h[s] = g[s]
    <3>1. s \in SUBSET S
      BY DEF UpTo
    <3>2. CASE s = {}
      BY <1>2, <1>5, <3>1, <3>2 DEF SumsOn
    <3>3. CASE s # {}
      <4>1. Picked(s) \in s
        BY <3>3, PickedIsIn
      <4>2. Cardinality(s) \in Nat /\ Cardinality(s) <= n + 1 /\ s \ {Picked(s)} \in SUBSET S
            /\ Cardinality(s \ {Picked(s)}) = Cardinality(s) - 1
        BY <3>1, <4>1, Smaller DEF UpTo
      <4>3. s \ {Picked(s)} \in UpTo(n, S)
        BY <4>2 DEF UpTo
      <4>4. h[s \ {Picked(s)}] = g[s \ {Picked(s)}]
        BY <1>7, <4>3
      <4>5. g[s] = f[Picked(s)] + g[s \ {Picked(s)}]
        BY <1>2, <3>1, <3>3 DEF SumsOn
      <4>6. h[s] = f[Picked(s)] + h[s \ {Picked(s)}]
        BY <1>5, <3>1, <3>3
      <4> QED BY <4>4, <4>5, <4>6
    <3> QED BY <3>2, <3>3
  <2> QED BY <2>1
<1>8. Nat \subseteq Same
  <2> HIDE DEF Same
  <2> QED BY <1>6, <1>7, NaturalSet
<1>9. \A s \in SUBSET S : h[s] = g[s]
  BY <1>1, <1>8, FS_CardinalityType
<1>10. h = g
  BY <1>2, <1>4, <1>9 DEF SumsOn
<1> QED BY <1>2, <1>10 DEF h

\* SumFunctionOnSet is one of these sums.
LEMMA SumIsSums ==
  ASSUME NEW f, NEW S
  PROVE  SumFunctionOnSet(f, S) = Sums(f, S)[S]
BY Zenon DEF SumFunctionOnSet, FoldFunctionOnSet, MapThenFoldSet, Sums, Picked

\* The sums of two functions agree on a set where the functions do.
LEMMA SumsAgree ==
  ASSUME NEW S, IsFiniteSet(S), NEW T, IsFiniteSet(T), NEW f, \A x \in S : f[x] \in Nat,
         NEW h, \A x \in T : h[x] \in Nat, NEW U \in SUBSET S, U \subseteq T, \A x \in U : f[x] = h[x]
  PROVE  Sums(f, S)[U] = Sums(h, T)[U]
<1> DEFINE Same == {n \in Nat : \A s \in UpTo(n, U) : Sums(f, S)[s] = Sums(h, T)[s]}
<1>1. IsFiniteSet(U) /\ Cardinality(U) \in Nat /\ U \in UpTo(Cardinality(U), U)
  BY FS_Subset, FS_CardinalityType DEF UpTo
<1>2. SumsOn(f, SUBSET S, Sums(f, S)) /\ SumsOn(h, SUBSET T, Sums(h, T))
  BY SumsExist
<1>3. Sums(f, S)[{}] = 0 /\ Sums(h, T)[{}] = 0
  BY <1>2 DEF SumsOn
<1>4. 0 \in Same
  <2>1. ASSUME NEW s \in UpTo(0, U) PROVE s = {}
    BY <1>1, NoneIsEmpty
  <2> QED BY <1>3, <2>1
<1>5. ASSUME NEW n \in Nat, n \in Same PROVE n + 1 \in Same
  <2>1. ASSUME NEW s \in UpTo(n + 1, U), s # {} PROVE Sums(f, S)[s] = Sums(h, T)[s]
    <3>1. Picked(s) \in s /\ s \in SUBSET U
      BY <2>1, PickedIsIn DEF UpTo
    <3>2. Cardinality(s) \in Nat /\ Cardinality(s) <= n + 1 /\ s \ {Picked(s)} \in SUBSET U
          /\ Cardinality(s \ {Picked(s)}) = Cardinality(s) - 1
      BY <1>1, <3>1, Smaller DEF UpTo
    <3>3. s \ {Picked(s)} \in UpTo(n, U)
      BY <3>2 DEF UpTo
    <3>4. Sums(f, S)[s \ {Picked(s)}] = Sums(h, T)[s \ {Picked(s)}]
      BY <1>5, <3>3
    <3>5. Sums(f, S)[s] = f[Picked(s)] + Sums(f, S)[s \ {Picked(s)}]
      BY <1>2, <2>1, <3>1 DEF SumsOn
    <3>6. Sums(h, T)[s] = h[Picked(s)] + Sums(h, T)[s \ {Picked(s)}]
      BY <1>2, <2>1, <3>1 DEF SumsOn
    <3> QED BY <3>1, <3>4, <3>5, <3>6
  <2>2. \A s \in UpTo(n + 1, U) : Sums(f, S)[s] = Sums(h, T)[s]
    BY <1>3, <2>1
  <2> QED BY <2>2
<1>6. Nat \subseteq Same
  <2> HIDE DEF Same
  <2> QED BY <1>4, <1>5, NaturalSet
<1> QED BY <1>1, <1>6

\* A sum is that of any member and of the others, whichever the fold takes first.
LEMMA SumsTakeOut ==
  ASSUME NEW S, IsFiniteSet(S), NEW f, \A x \in S : f[x] \in Nat
  PROVE  \A s \in SUBSET S : \A x \in s : Sums(f, S)[s] = f[x] + Sums(f, S)[s \ {x}]
<1> DEFINE g == Sums(f, S)
<1>1. SumsOn(f, SUBSET S, g)
  BY SumsExist
<1> HIDE DEF g
<1> DEFINE Good == {n \in Nat : \A s \in UpTo(n, S) : \A x \in s : g[s] = f[x] + g[s \ {x}]}
<1>2. 0 \in Good
  <2>1. ASSUME NEW s \in UpTo(0, S) PROVE s = {}
    BY NoneIsEmpty
  <2> QED BY <2>1
<1>3. ASSUME NEW n \in Nat, n \in Good PROVE n + 1 \in Good
  <2>1. ASSUME NEW s \in UpTo(n + 1, S), NEW x \in s PROVE g[s] = f[x] + g[s \ {x}]
    <3> DEFINE y == Picked(s)
    <3>1. y \in s /\ s \in SUBSET S
      BY PickedIsIn DEF UpTo
    <3>2. g[s] = f[y] + g[s \ {y}]
      BY <1>1, <3>1 DEF SumsOn
    <3> HIDE DEF y
    <3>3. CASE x = y
      BY <3>2, <3>3
    <3>4. CASE x # y
      <4>1. Cardinality(s) \in Nat /\ Cardinality(s) <= n + 1
            /\ s \ {x} \in SUBSET S /\ Cardinality(s \ {x}) = Cardinality(s) - 1
            /\ s \ {y} \in SUBSET S /\ Cardinality(s \ {y}) = Cardinality(s) - 1
        BY <3>1, Smaller DEF UpTo
      <4>2. s \ {x} \in UpTo(n, S) /\ s \ {y} \in UpTo(n, S)
        BY <4>1 DEF UpTo
      <4>3. y \in s \ {x} /\ x \in s \ {y} /\ (s \ {x}) \ {y} = (s \ {y}) \ {x}
        BY <3>1, <3>4
      <4>4. g[s \ {x}] = f[y] + g[(s \ {x}) \ {y}] /\ g[s \ {y}] = f[x] + g[(s \ {y}) \ {x}]
        BY <1>3, <4>2, <4>3
      <4>5. f[x] \in Nat /\ f[y] \in Nat /\ g[(s \ {y}) \ {x}] \in Nat
        BY <1>1, <3>1 DEF SumsOn
      <4>6. g[s \ {x}] = f[y] + g[(s \ {y}) \ {x}]
        BY <4>3, <4>4
      <4>7. g[s] = f[y] + (f[x] + g[(s \ {y}) \ {x}])
        BY <3>2, <4>4
      <4> QED BY ONLY <4>5, <4>6, <4>7
    <3> QED BY <3>3, <3>4
  <2> QED BY <2>1
<1>4. Nat \subseteq Good
  <2> HIDE DEF Good
  <2> QED BY <1>2, <1>3, NaturalSet
<1>5. ASSUME NEW s \in SUBSET S PROVE Cardinality(s) \in Nat /\ s \in UpTo(Cardinality(s), S)
  BY FS_Subset, FS_CardinalityType DEF UpTo
<1> QED BY <1>4, <1>5 DEF g

\* The same of SumFunctionOnSet.
LEMMA SumTakesOut ==
  ASSUME NEW S, IsFiniteSet(S), NEW f, \A x \in S : f[x] \in Nat, NEW x \in S
  PROVE  /\ SumFunctionOnSet(f, S) = f[x] + SumFunctionOnSet(f, S \ {x})
         /\ SumFunctionOnSet(f, S \ {x}) \in Nat
<1>1. IsFiniteSet(S \ {x})
  BY FS_Subset
<1>2. Sums(f, S)[S] = f[x] + Sums(f, S)[S \ {x}]
  BY SumsTakeOut
<1>3. Sums(f, S)[S \ {x}] = Sums(f, S \ {x})[S \ {x}]
  BY <1>1, SumsAgree
<1>4. Sums(f, S)[S \ {x}] \in Nat
  <2>1. SumsOn(f, SUBSET S, Sums(f, S)) /\ S \ {x} \in SUBSET S
    BY SumsExist
  <2> QED BY <2>1 DEF SumsOn
<1> QED BY <1>2, <1>3, <1>4, SumIsSums

\* The sum of natural numbers is one, and the empty sum is 0.
LEMMA SumIsNat ==
  ASSUME NEW S, IsFiniteSet(S), NEW f, \A x \in S : f[x] \in Nat
  PROVE  SumFunctionOnSet(f, S) \in Nat /\ SumFunctionOnSet(f, {}) = 0
<1>1. Sums(f, S)[S] \in Nat
  BY SumsExist DEF SumsOn
<1>2. IsFiniteSet({}) /\ \A x \in {} : f[x] \in Nat
  BY FS_EmptySet
<1>3. Sums(f, {})[{}] = 0
  BY <1>2, SumsExist DEF SumsOn
<1> QED BY <1>1, <1>3, SumIsSums

\* Functions that agree on a set have the same sum.
LEMMA SumAgrees ==
  ASSUME NEW S, IsFiniteSet(S), NEW f, \A x \in S : f[x] \in Nat, NEW h, \A x \in S : h[x] = f[x]
  PROVE  SumFunctionOnSet(h, S) = SumFunctionOnSet(f, S)
<1>1. Sums(h, S)[S] = Sums(f, S)[S]
  BY SumsAgree
<1> QED BY <1>1, SumIsSums

\* The sum of zeros is 0.
LEMMA SumIsZero ==
  ASSUME NEW S, IsFiniteSet(S), NEW f, \A x \in S : f[x] = 0
  PROVE  SumFunctionOnSet(f, S) = 0
<1> DEFINE Zeros == {n \in Nat : \A s \in UpTo(n, S) : Sums(f, S)[s] = 0}
<1>1. SumsOn(f, SUBSET S, Sums(f, S)) /\ Sums(f, S)[{}] = 0
  <2>1. \A x \in S : f[x] \in Nat
    OBVIOUS
  <2>2. SumsOn(f, SUBSET S, Sums(f, S))
    BY <2>1, SumsExist
  <2> QED BY <2>2 DEF SumsOn
<1>2. 0 \in Zeros
  <2>1. ASSUME NEW s \in UpTo(0, S) PROVE s = {}
    BY NoneIsEmpty
  <2> QED BY <1>1, <2>1
<1>3. ASSUME NEW n \in Nat, n \in Zeros PROVE n + 1 \in Zeros
  <2>1. ASSUME NEW s \in UpTo(n + 1, S), s # {} PROVE Sums(f, S)[s] = 0
    <3>1. Picked(s) \in s /\ s \in SUBSET S
      BY <2>1, PickedIsIn DEF UpTo
    <3>2. Cardinality(s) \in Nat /\ Cardinality(s) <= n + 1 /\ s \ {Picked(s)} \in SUBSET S
          /\ Cardinality(s \ {Picked(s)}) = Cardinality(s) - 1
      BY <3>1, Smaller DEF UpTo
    <3>3. s \ {Picked(s)} \in UpTo(n, S)
      BY <3>2 DEF UpTo
    <3>4. Sums(f, S)[s \ {Picked(s)}] = 0
      BY <1>3, <3>3
    <3>5. Sums(f, S)[s] = f[Picked(s)] + Sums(f, S)[s \ {Picked(s)}]
      BY <1>1, <2>1, <3>1 DEF SumsOn
    <3> QED BY <3>1, <3>4, <3>5
  <2>2. \A s \in UpTo(n + 1, S) : Sums(f, S)[s] = 0
    BY <1>1, <2>1
  <2> QED BY <2>2
<1>4. Nat \subseteq Zeros
  <2> HIDE DEF Zeros
  <2> QED BY <1>2, <1>3, NaturalSet
<1>5. Cardinality(S) \in Nat /\ S \in UpTo(Cardinality(S), S)
  BY FS_CardinalityType DEF UpTo
<1> QED BY <1>4, <1>5, SumIsSums

\* The steps of a publication whose reservation has a row.
HasRow == {"reserved", "spooled", "valid", "writing", "committed", "settling", "failing", "kept"}

\* The rows are those of the publications at these steps, and a published one is
\* counted.
RowsFollow ==
  \A p \in Publishers :
    /\ p \in reservations <=> publish[p].step \in HasRow
    /\ publish[p].step = "published" => p \in counted

\* Nobody can have read more than was reserved: a known length asks for itself, the
\* limit of a reader is at most what was asked, and what was read is within it.
AsksEnough ==
  \A p \in Publishers :
    /\ publish[p].step = "measured" => publish[p].kind # "known"
    /\ publish[p].kind = "known" /\ publish[p].step \in HasRow => publish[p].size <= publish[p].asked
    /\ publish[p].kind # "known" /\ publish[p].step \in HasRow \cup {"measured"} =>
         0 < publish[p].limit /\ publish[p].limit <= publish[p].asked
    /\ publish[p].step \in {"writing", "committed", "settling"} => publish[p].size <= publish[p].asked

\* A version that is listed was committed for its path.
VersionsKnown ==
  \A a \in Artifacts : versions[a] # NoVersion =>
    /\ publish[versions[a]].path = a
    /\ publish[versions[a]].step \in {"committed", "settling", "published", "kept", "lost"}

\* The inductive invariant.
GatesTrue == GatesTypeOK /\ RowsFollow /\ AsksEnough /\ VersionsKnown /\ QuotasHold

\* The repository holds a number of bytes, at least those of any version.
LEMMA RepoIsNat ==
  ASSUME GatesTypeOK
  PROVE  RepoUsed \in Nat /\ \A a \in Artifacts : SizeOf(versions[a]) \in Nat /\ SizeOf(versions[a]) <= RepoUsed
<1> DEFINE sizes == [a \in Artifacts |-> SizeOf(versions[a])]
<1>1. \A a \in Artifacts : SizeOf(versions[a]) \in Nat
  BY GatesAssumption DEF GatesTypeOK, SizeOf, PublishStates
<1>2. \A a \in Artifacts : sizes[a] \in Nat
  BY <1>1
<1>3. RepoUsed = SumFunctionOnSet(sizes, Artifacts)
  BY DEF RepoUsed
<1> HIDE DEF sizes
<1>4. RepoUsed \in Nat
  BY <1>2, <1>3, GatesAssumption, SumIsNat
<1>5. ASSUME NEW a \in Artifacts PROVE sizes[a] <= RepoUsed
  <2>1. RepoUsed = sizes[a] + SumFunctionOnSet(sizes, Artifacts \ {a}) /\ SumFunctionOnSet(sizes, Artifacts \ {a}) \in Nat
    BY <1>2, <1>3, GatesAssumption, SumTakesOut
  <2> QED BY <1>2, <2>1
<1> QED BY <1>1, <1>4, <1>5 DEF sizes

\* It holds the same while no version and no size changes.
LEMMA RepoSame ==
  ASSUME UNCHANGED versions, \A a \in Artifacts : SizeOf(versions[a])' = SizeOf(versions[a])
  PROVE  RepoUsed' = RepoUsed
<1>1. [a \in Artifacts |-> SizeOf(versions[a])]' = [a \in Artifacts |-> SizeOf(versions[a])]
  OBVIOUS
<1> QED BY <1>1 DEF RepoUsed

\* Replacing the version of one artifact changes it by the two sizes.
LEMMA RepoReplaces ==
  ASSUME GatesTypeOK, GatesTypeOK', NEW a \in Artifacts, NEW v \in Publishers \cup {NoVersion},
         versions' = [versions EXCEPT ![a] = v],
         \A w \in Publishers \cup {NoVersion} : SizeOf(w)' = SizeOf(w)
  PROVE  RepoUsed' = RepoUsed - SizeOf(versions[a]) + SizeOf(v)
<1> DEFINE old == [b \in Artifacts |-> SizeOf(versions[b])]
           new == [b \in Artifacts |-> SizeOf(versions[b])']
           Rest == Artifacts \ {a}
<1>1. /\ \A b \in Artifacts : old[b] \in Nat /\ new[b] \in Nat
      /\ old[a] = SizeOf(versions[a]) /\ new[a] = SizeOf(v)
      /\ \A b \in Rest : new[b] = old[b]
  <2>1. \A b \in Artifacts : SizeOf(versions[b]) \in Nat
    BY RepoIsNat
  <2>3. versions'[a] = v /\ \A b \in Rest : versions'[b] = versions[b]
    BY DEF GatesTypeOK
  <2>4. \A b \in Artifacts : versions[b] \in Publishers \cup {NoVersion} /\ versions'[b] \in Publishers \cup {NoVersion}
    BY DEF GatesTypeOK
  <2>5. \A b \in Artifacts : SizeOf(versions[b])' = SizeOf(versions'[b])
    BY <2>4 DEF SizeOf
  <2>2. \A b \in Artifacts : SizeOf(versions[b])' \in Nat
    BY <2>4, <2>5, GatesAssumption DEF GatesTypeOK, SizeOf, PublishStates
  <2> QED BY <2>1, <2>2, <2>3, <2>4, <2>5
<1>2. RepoUsed = SumFunctionOnSet(old, Artifacts) /\ RepoUsed' = SumFunctionOnSet(new, Artifacts)
  BY DEF RepoUsed
<1> HIDE DEF old, new
<1>3. SumFunctionOnSet(old, Artifacts) = old[a] + SumFunctionOnSet(old, Rest) /\ SumFunctionOnSet(old, Rest) \in Nat
  BY <1>1, GatesAssumption, SumTakesOut
<1>4. SumFunctionOnSet(new, Artifacts) = new[a] + SumFunctionOnSet(new, Rest) /\ SumFunctionOnSet(new, Rest) \in Nat
  BY <1>1, GatesAssumption, SumTakesOut
<1>5. SumFunctionOnSet(new, Rest) = SumFunctionOnSet(old, Rest)
  <2>1. IsFiniteSet(Rest)
    BY GatesAssumption, FS_Subset
  <2> QED BY <1>1, <2>1, SumAgrees
<1> QED BY <1>1, <1>2, <1>3, <1>4, <1>5

\* What each publication has asked for.
Asked == [p \in Publishers |-> publish[p].asked]

\* What is reserved is a number of bytes.
LEMMA ReservedIsNat ==
  ASSUME GatesTypeOK
  PROVE  /\ Reserved \in Nat /\ IsFiniteSet(reservations) /\ Reserved = SumFunctionOnSet(Asked, reservations)
         /\ \A p \in Publishers : Asked[p] = publish[p].asked /\ Asked[p] \in Nat
<1>1. IsFiniteSet(reservations) /\ \A p \in Publishers : Asked[p] = publish[p].asked /\ Asked[p] \in Nat
  BY GatesAssumption, FS_Subset DEF GatesTypeOK, Asked, PublishStates
<1>2. Reserved = SumFunctionOnSet(Asked, reservations)
  BY DEF Reserved, Asked
<1>3. \A p \in reservations : Asked[p] \in Nat
  BY <1>1 DEF GatesTypeOK
<1> QED BY <1>1, <1>2, <1>3, SumIsNat

\* It stays the same while the rows do and nobody with a row asks anew.
LEMMA ReservedSame ==
  ASSUME GatesTypeOK, reservations' = reservations, \A p \in reservations : publish'[p].asked = publish[p].asked
  PROVE  Reserved' = Reserved
<1>1. \A p \in reservations : Asked'[p] = Asked[p]
  BY DEF Asked, GatesTypeOK
<1>2. Reserved' = SumFunctionOnSet(Asked', reservations)
  BY DEF Reserved, Asked
<1>3. \A p \in reservations : Asked[p] \in Nat
  BY ReservedIsNat DEF GatesTypeOK
<1> QED BY <1>1, <1>2, <1>3, ReservedIsNat, SumAgrees

\* A new row adds what it asks for (Reserve).
LEMMA ReservedAdds ==
  ASSUME GatesTypeOK, NEW p \in Publishers \ reservations, reservations' = reservations \cup {p},
         publish'[p].asked \in Nat, \A q \in reservations : publish'[q].asked = publish[q].asked
  PROVE  Reserved' = Reserved + publish'[p].asked
<1> DEFINE All == reservations \cup {p}
<1>1. Asked'[p] = publish'[p].asked /\ \A q \in reservations : Asked'[q] = Asked[q] /\ Asked[q] \in Nat
  BY ReservedIsNat DEF Asked, GatesTypeOK
<1>2. Reserved' = SumFunctionOnSet(Asked', All)
  BY DEF Reserved, Asked
<1>3. IsFiniteSet(All) /\ All \ {p} = reservations /\ p \in All /\ \A q \in All : Asked'[q] \in Nat
  BY <1>1, ReservedIsNat, FS_AddElement
<1>4. SumFunctionOnSet(Asked', All) = Asked'[p] + SumFunctionOnSet(Asked', All \ {p})
  BY <1>3, SumTakesOut
<1>5. SumFunctionOnSet(Asked', reservations) = SumFunctionOnSet(Asked, reservations)
  BY <1>1, ReservedIsNat, SumAgrees
<1>6. Reserved' = publish'[p].asked + Reserved
  BY <1>1, <1>2, <1>3, <1>4, <1>5, ReservedIsNat
<1> QED BY <1>6, ReservedIsNat

\* A row that is settled or deleted takes it away (SettleBytes).
LEMMA ReservedDrops ==
  ASSUME GatesTypeOK, NEW p \in reservations, reservations' = reservations \ {p},
         \A q \in Publishers : publish'[q].asked = publish[q].asked
  PROVE  Reserved' = Reserved - publish[p].asked /\ publish[p].asked \in Nat /\ Reserved' \in Nat
<1>1. Asked' = Asked
  BY DEF Asked
<1>2. Reserved' = SumFunctionOnSet(Asked, reservations \ {p})
  BY <1>1 DEF Reserved, Asked
<1>3. \A q \in reservations : Asked[q] \in Nat
  BY ReservedIsNat DEF GatesTypeOK
<1>4. /\ Reserved = Asked[p] + SumFunctionOnSet(Asked, reservations \ {p})
      /\ SumFunctionOnSet(Asked, reservations \ {p}) \in Nat
  BY <1>3, ReservedIsNat, SumTakesOut
<1>5. Asked[p] = publish[p].asked /\ Asked[p] \in Nat
  BY ReservedIsNat DEF GatesTypeOK
<1> QED BY <1>2, <1>4, <1>5


\* The lesser of two limits is at most each, where 0 stands for none (minLimit).
LEMMA MinLimitIsLess ==
  ASSUME NEW a \in Nat, NEW b \in Nat
  PROVE  /\ MinLimit(a, b) \in Nat
         /\ a > 0 => 0 < MinLimit(a, b) /\ MinLimit(a, b) <= a
         /\ b > 0 => 0 < MinLimit(a, b) /\ MinLimit(a, b) <= b
BY DEF MinLimit


\* Giving a publication a step and a limit keeps its type.
LEMMA LimitIsKept ==
  ASSUME NEW c \in PublishStates, NEW step \in PublishSteps, NEW limit \in Nat
  PROVE  [c EXCEPT !.step = step, !.limit = limit] \in PublishStates
BY DEF PublishStates

\* What the publications are about stays the same.
SameOrders ==
  \A q \in Publishers :
    /\ publish'[q].size = publish[q].size
    /\ publish'[q].path = publish[q].path
    /\ publish'[q].kind = publish[q].kind

\* Every step keeps the types.
LEMMA GatesTypesStep ==
  ASSUME GatesTypeOK, QuotasHold, [GatesNext]_gateVars
  PROVE  GatesTypeOK'
<1> USE GatesAssumption DEF GatesTypeOK, PublishStates, PublishKinds, PublishSteps
<1>1. ASSUME NEW p \in Publishers, Admission(p) PROVE GatesTypeOK'
  <2>1. PICK room \in BOOLEAN, limit \in Nat :
          publish' = [publish EXCEPT ![p].step = IF room THEN "admitted" ELSE "done", ![p].limit = limit]
    <3>1. publish[p].path \in Artifacts /\ publish[p].kind \in PublishKinds
      BY DEF GatesTypeOK, PublishStates
    <3> DEFINE old == SizeOf(versions[publish[p].path])
    <3>2. old \in Nat /\ old <= RepoUsed /\ RepoUsed \in Nat /\ RepoUsed <= RepoBytes /\ RepoBytes \in Nat
      BY <3>1, RepoIsNat, GatesAssumption DEF QuotasHold
    <3> HIDE DEF old
    <3>3. RepoBytes - (RepoUsed - old) \in Nat
      BY <3>2
    <3>4. CASE publish[p].kind = "known"
      BY <1>1, <3>4 DEF Admission, old
    <3>5. CASE publish[p].kind = "stream"
      BY <1>1, <3>3, <3>5 DEF Admission, old
    <3>6. CASE publish[p].kind = "unresolved"
      BY <1>1, <3>2, <3>6 DEF Admission, old
    <3> QED BY <3>1, <3>4, <3>5, <3>6 DEF PublishKinds
  <2>2. PICK step \in PublishSteps :
          publish' = [publish EXCEPT ![p].step = step, ![p].limit = limit]
    BY <2>1 DEF PublishSteps
  <2>3. publish' \in [Publishers -> PublishStates]
    <3>1. \A q \in Publishers : publish'[q] =
            IF q = p THEN [publish[p] EXCEPT !.step = step, !.limit = limit] ELSE publish[q]
      BY <2>2
    <3>2. publish[p] \in PublishStates
      BY DEF GatesTypeOK
    <3> HIDE DEF PublishStates, PublishSteps, GatesTypeOK
    <3>3. [publish[p] EXCEPT !.step = step, !.limit = limit] \in PublishStates
      BY <3>2, LimitIsKept
    <3> QED BY <2>2, <3>1, <3>3 DEF GatesTypeOK
  <2> QED BY <1>1, <2>3 DEF Admission
<1>2. ASSUME NEW p \in Publishers, BeginKnown(p) PROVE GatesTypeOK'
  BY <1>2 DEF BeginKnown, PublisherGoes, At
<1>3. ASSUME NEW p \in Publishers, MeasureRest(p) PROVE GatesTypeOK'
  BY <1>3 DEF MeasureRest, PublisherGoes, At
<1>4. ASSUME NEW p \in Publishers, ReserveRest(p) PROVE GatesTypeOK'
  BY <1>4 DEF ReserveRest, PublisherGoes, At
<1>5. ASSUME NEW p \in Publishers, Spool(p) PROVE GatesTypeOK'
  BY <1>5 DEF Spool, PublisherGoes, At
<1>6. ASSUME NEW p \in Publishers, ValidateUnresolved(p) PROVE GatesTypeOK'
  BY <1>6 DEF ValidateUnresolved, PublisherGoes, At
<1>7. ASSUME NEW p \in Publishers, PublishPlanned(p) PROVE GatesTypeOK'
  BY <1>7 DEF PublishPlanned, PublisherGoes, At
<1>8. ASSUME NEW p \in Publishers, PublishBroken(p) PROVE GatesTypeOK'
  BY <1>8 DEF PublishBroken, PublisherGoes, At
<1>9. ASSUME NEW p \in Publishers, PublishCommit(p) PROVE GatesTypeOK'
  BY <1>9 DEF PublishCommit, PublisherGoes, At
<1>10. ASSUME NEW p \in Publishers, ReadBack(p) PROVE GatesTypeOK'
  BY <1>10 DEF ReadBack, PublisherGoes, At
<1>11. ASSUME NEW p \in Publishers, SettlePublished(p) PROVE GatesTypeOK'
  BY <1>11 DEF SettlePublished, PublisherGoes, At
<1>12. ASSUME NEW p \in Publishers, SettleFailed(p) PROVE GatesTypeOK'
  BY <1>12 DEF SettleFailed, PublisherGoes, At
<1>13. ASSUME NEW p \in Publishers, SettleRefused(p) PROVE GatesTypeOK'
  BY <1>13 DEF SettleRefused, PublisherGoes, At
<1>14. ASSUME NEW a \in Artifacts, ArtifactDeleted(a) PROVE GatesTypeOK'
  BY <1>14 DEF ArtifactDeleted
<1>15. CASE FreezeOrThaw
  BY <1>15 DEF FreezeOrThaw
<1>16. CASE NextDay
  BY <1>16 DEF NextDay
<1>17. CASE GatesRestart
  <2>1. publish' \in [Publishers -> PublishStates]
    <3>1. ASSUME NEW q \in Publishers PROVE publish'[q] \in PublishStates
      <4>1. PICK step \in PublishSteps : publish'[q] = [publish[q] EXCEPT !.step = step]
        BY <1>17 DEF GatesRestart
      <4> QED BY <4>1
    <3>2. publish' = [q \in Publishers |-> publish'[q]]
      BY <1>17 DEF GatesRestart
    <3> QED BY <3>1, <3>2
  <2>2. restarts' \in 0 .. GateRestarts
    BY <1>17 DEF GatesRestart
  <2> QED BY <1>17, <2>1, <2>2 DEF GatesRestart
<1>18. CASE UNCHANGED gateVars
  BY <1>18 DEF gateVars
<1> HIDE DEF GatesTypeOK, PublishStates, PublishKinds, PublishSteps
<1> QED BY <1>1, <1>2, <1>3, <1>4, <1>5, <1>6, <1>7, <1>8, <1>9, <1>10, <1>11, <1>12, <1>13, <1>14,
     <1>15, <1>16, <1>17, <1>18 DEF GatesNext

\* What a publication is about never changes.
LEMMA SizesStay ==
  ASSUME GatesTypeOK, [GatesNext]_gateVars
  PROVE  SameOrders
<1> USE DEF GatesTypeOK, PublishStates, SameOrders
<1>1. ASSUME NEW p \in Publishers, Admission(p) PROVE SameOrders
  BY <1>1 DEF Admission, PublisherGoes, At
<1>2. ASSUME NEW p \in Publishers, BeginKnown(p) PROVE SameOrders
  BY <1>2 DEF BeginKnown, PublisherGoes, At
<1>3. ASSUME NEW p \in Publishers, MeasureRest(p) PROVE SameOrders
  BY <1>3 DEF MeasureRest, PublisherGoes, At
<1>4. ASSUME NEW p \in Publishers, ReserveRest(p) PROVE SameOrders
  BY <1>4 DEF ReserveRest, PublisherGoes, At
<1>5. ASSUME NEW p \in Publishers, Spool(p) PROVE SameOrders
  BY <1>5 DEF Spool, PublisherGoes, At
<1>6. ASSUME NEW p \in Publishers, ValidateUnresolved(p) PROVE SameOrders
  BY <1>6 DEF ValidateUnresolved, PublisherGoes, At
<1>7. ASSUME NEW p \in Publishers, PublishPlanned(p) PROVE SameOrders
  BY <1>7 DEF PublishPlanned, PublisherGoes, At
<1>8. ASSUME NEW p \in Publishers, PublishBroken(p) PROVE SameOrders
  BY <1>8 DEF PublishBroken, PublisherGoes, At
<1>9. ASSUME NEW p \in Publishers, PublishCommit(p) PROVE SameOrders
  BY <1>9 DEF PublishCommit, PublisherGoes, At
<1>10. ASSUME NEW p \in Publishers, ReadBack(p) PROVE SameOrders
  BY <1>10 DEF ReadBack, PublisherGoes, At
<1>11. ASSUME NEW p \in Publishers, SettlePublished(p) PROVE SameOrders
  BY <1>11 DEF SettlePublished, PublisherGoes, At
<1>12. ASSUME NEW p \in Publishers, SettleFailed(p) PROVE SameOrders
  BY <1>12 DEF SettleFailed, PublisherGoes, At
<1>13. ASSUME NEW p \in Publishers, SettleRefused(p) PROVE SameOrders
  BY <1>13 DEF SettleRefused, PublisherGoes, At
<1>14. ASSUME NEW a \in Artifacts, ArtifactDeleted(a) PROVE SameOrders
  BY <1>14 DEF ArtifactDeleted
<1>15. CASE FreezeOrThaw
  BY <1>15 DEF FreezeOrThaw
<1>16. CASE NextDay
  BY <1>16 DEF NextDay
<1>17. CASE GatesRestart
  BY <1>17 DEF GatesRestart
<1>18. CASE UNCHANGED gateVars
  BY <1>18 DEF gateVars
<1> HIDE DEF GatesTypeOK, PublishStates, SameOrders
<1> QED BY <1>1, <1>2, <1>3, <1>4, <1>5, <1>6, <1>7, <1>8, <1>9, <1>10, <1>11, <1>12, <1>13, <1>14,
     <1>15, <1>16, <1>17, <1>18 DEF GatesNext

\* Nor does the size of a version.
LEMMA SizesKept ==
  ASSUME GatesTypeOK, [GatesNext]_gateVars
  PROVE  \A w \in Publishers \cup {NoVersion} : SizeOf(w)' = SizeOf(w)
BY SizesStay DEF SameOrders, SizeOf

\* The quota holds on while no version changes.
LEMMA RepoKept ==
  ASSUME GatesTypeOK, QuotasHold, [GatesNext]_gateVars, UNCHANGED versions
  PROVE  RepoUsed' <= RepoBytes
<1>1. \A a \in Artifacts : SizeOf(versions[a])' = SizeOf(versions[a])
  BY SizesStay DEF SameOrders, SizeOf, GatesTypeOK
<1> QED BY <1>1, RepoSame DEF QuotasHold

\* The volume holds on while nothing is spent, reserved or settled.
LEMMA DayKept ==
  ASSUME GatesTypeOK, QuotasHold, UNCHANGED <<spent, reservations>>,
         \A q \in reservations : publish'[q].asked = publish[q].asked
  PROVE  spent' + Reserved' <= DayBytes
<1>1. Reserved' = Reserved
  BY ReservedSame
<1> QED BY <1>1 DEF QuotasHold

\* Every step keeps the rows with the publications that settle them.
LEMMA RowsStep ==
  ASSUME GatesTypeOK, RowsFollow, [GatesNext]_gateVars
  PROVE  RowsFollow'
<1> USE GatesAssumption DEF GatesTypeOK, PublishStates, RowsFollow, HasRow
<1>1. ASSUME NEW p \in Publishers, Admission(p) PROVE RowsFollow'
  BY <1>1 DEF Admission, PublisherGoes, At
<1>2. ASSUME NEW p \in Publishers, BeginKnown(p) PROVE RowsFollow'
  BY <1>2 DEF BeginKnown, PublisherGoes, At
<1>3. ASSUME NEW p \in Publishers, MeasureRest(p) PROVE RowsFollow'
  BY <1>3 DEF MeasureRest, PublisherGoes, At
<1>4. ASSUME NEW p \in Publishers, ReserveRest(p) PROVE RowsFollow'
  BY <1>4 DEF ReserveRest, PublisherGoes, At
<1>5. ASSUME NEW p \in Publishers, Spool(p) PROVE RowsFollow'
  BY <1>5 DEF Spool, PublisherGoes, At
<1>6. ASSUME NEW p \in Publishers, ValidateUnresolved(p) PROVE RowsFollow'
  BY <1>6 DEF ValidateUnresolved, PublisherGoes, At
<1>7. ASSUME NEW p \in Publishers, PublishPlanned(p) PROVE RowsFollow'
  BY <1>7 DEF PublishPlanned, PublisherGoes, At
<1>8. ASSUME NEW p \in Publishers, PublishBroken(p) PROVE RowsFollow'
  BY <1>8 DEF PublishBroken, PublisherGoes, At
<1>9. ASSUME NEW p \in Publishers, PublishCommit(p) PROVE RowsFollow'
  BY <1>9 DEF PublishCommit, PublisherGoes, At
<1>10. ASSUME NEW p \in Publishers, ReadBack(p) PROVE RowsFollow'
  BY <1>10 DEF ReadBack, PublisherGoes, At
<1>11. ASSUME NEW p \in Publishers, SettlePublished(p) PROVE RowsFollow'
  BY <1>11 DEF SettlePublished, PublisherGoes, At
<1>12. ASSUME NEW p \in Publishers, SettleFailed(p) PROVE RowsFollow'
  BY <1>12 DEF SettleFailed, PublisherGoes, At
<1>13. ASSUME NEW p \in Publishers, SettleRefused(p) PROVE RowsFollow'
  BY <1>13 DEF SettleRefused, PublisherGoes, At
<1>14. ASSUME NEW a \in Artifacts, ArtifactDeleted(a) PROVE RowsFollow'
  BY <1>14 DEF ArtifactDeleted
<1>15. CASE FreezeOrThaw
  BY <1>15 DEF FreezeOrThaw
<1>16. CASE NextDay
  BY <1>16 DEF NextDay
<1>17. CASE GatesRestart
  BY <1>17 DEF GatesRestart
<1>18. CASE UNCHANGED gateVars
  BY <1>18 DEF gateVars
<1> HIDE DEF GatesTypeOK, PublishStates, RowsFollow, HasRow
<1> QED BY <1>1, <1>2, <1>3, <1>4, <1>5, <1>6, <1>7, <1>8, <1>9, <1>10, <1>11, <1>12, <1>13, <1>14,
     <1>15, <1>16, <1>17, <1>18 DEF GatesNext

\* No step lets a publication read more than it has asked for.
LEMMA QuotaAsksStep ==
  ASSUME GatesTypeOK, GatesTypeOK', QuotasHold, AsksEnough, [GatesNext]_gateVars
  PROVE  AsksEnough'
<1> USE GatesAssumption DEF GatesTypeOK, PublishStates, AsksEnough, HasRow
<1>1. ASSUME NEW p \in Publishers, Admission(p) PROVE AsksEnough'
  BY <1>1 DEF Admission, PublisherGoes, At
<1>2. ASSUME NEW p \in Publishers, BeginKnown(p) PROVE AsksEnough'
  BY <1>2 DEF BeginKnown, PublisherGoes, At
<1>3. ASSUME NEW p \in Publishers, MeasureRest(p) PROVE AsksEnough'
  <2>1. CASE PublisherGoes(p, "done")
    BY <2>1 DEF PublisherGoes, GatesTypeOK, PublishStates, AsksEnough, HasRow
  <2>2. CASE ~PublisherGoes(p, "done")
    <3> DEFINE left == DayBytes - spent - Reserved
               rest == MinLimit(FileBytes, left)
               limit == MinLimit(rest, publish[p].limit)
    <3>1. /\ spent + Reserved < DayBytes /\ publish[p].kind # "known"
          /\ publish' = [publish EXCEPT ![p].step = "measured", ![p].asked = rest, ![p].limit = limit]
      BY <1>3, <2>2 DEF MeasureRest
    <3>2. left \in Nat /\ left > 0
      BY <3>1, ReservedIsNat, GatesAssumption DEF GatesTypeOK
    <3> HIDE DEF left
    <3>3. rest \in Nat /\ rest > 0
      BY <3>2, GatesAssumption, MinLimitIsLess
    <3>4. publish[p].limit \in Nat
      BY DEF GatesTypeOK, PublishStates
    <3> HIDE DEF rest
    <3>5. limit \in Nat /\ 0 < limit /\ limit <= rest
      BY <3>3, <3>4, MinLimitIsLess
    <3> HIDE DEF limit
    <3> QED BY <3>1, <3>5 DEF GatesTypeOK, PublishStates, AsksEnough, HasRow
  <2> QED BY <2>1, <2>2
<1>4. ASSUME NEW p \in Publishers, ReserveRest(p) PROVE AsksEnough'
  <2>1. PICK step \in {"reserved", "done"} : PublisherGoes(p, step)
    BY <1>4 DEF ReserveRest
  <2>2. At(p, "measured") /\ publish[p].kind \in PublishKinds
    BY <1>4 DEF ReserveRest, GatesTypeOK, PublishStates
  <2>3. publish[p].kind # "known"
    BY <2>2 DEF At, AsksEnough
  <2> QED BY <2>1, <2>2, <2>3 DEF PublisherGoes, At, GatesTypeOK, PublishStates, AsksEnough, HasRow
<1>5. ASSUME NEW p \in Publishers, Spool(p) PROVE AsksEnough'
  BY <1>5 DEF Spool, PublisherGoes, At
<1>6. ASSUME NEW p \in Publishers, ValidateUnresolved(p) PROVE AsksEnough'
  BY <1>6 DEF ValidateUnresolved, PublisherGoes, At
<1>7. ASSUME NEW p \in Publishers, PublishPlanned(p) PROVE AsksEnough'
  <2>1. /\ publish[p].step \in HasRow /\ publish[p].kind \in PublishKinds
        /\ publish[p].size \in Nat /\ publish[p].limit \in Nat /\ publish[p].asked \in Nat
    BY <1>7, GatesAssumption DEF PublishPlanned, At, HasRow, GatesTypeOK, PublishStates
  <2>2. CASE PublisherGoes(p, "failing")
    BY <2>1, <2>2 DEF PublisherGoes, GatesTypeOK, PublishStates, AsksEnough, HasRow
  <2>3. CASE Fits(p) /\ publish' = [publish EXCEPT ![p].step = "writing", ![p].before = versions[publish[p].path]]
    <3>1. publish[p].size <= publish[p].asked
      <4>1. CASE publish[p].kind = "known"
        BY <2>1, <4>1 DEF AsksEnough
      <4>2. CASE publish[p].kind # "known"
        BY <2>1, <2>3, <4>2 DEF AsksEnough, Fits
      <4> QED BY <4>1, <4>2
    <3> QED BY <2>1, <2>3, <3>1 DEF GatesTypeOK, PublishStates, AsksEnough, HasRow
  <2> QED BY <1>7, <2>2, <2>3 DEF PublishPlanned
<1>8. ASSUME NEW p \in Publishers, PublishBroken(p) PROVE AsksEnough'
  BY <1>8 DEF PublishBroken, PublisherGoes, At
<1>9. ASSUME NEW p \in Publishers, PublishCommit(p) PROVE AsksEnough'
  BY <1>9 DEF PublishCommit, PublisherGoes, At
<1>10. ASSUME NEW p \in Publishers, ReadBack(p) PROVE AsksEnough'
  BY <1>10 DEF ReadBack, PublisherGoes, At
<1>11. ASSUME NEW p \in Publishers, SettlePublished(p) PROVE AsksEnough'
  BY <1>11 DEF SettlePublished, PublisherGoes, At
<1>12. ASSUME NEW p \in Publishers, SettleFailed(p) PROVE AsksEnough'
  BY <1>12 DEF SettleFailed, PublisherGoes, At
<1>13. ASSUME NEW p \in Publishers, SettleRefused(p) PROVE AsksEnough'
  BY <1>13 DEF SettleRefused, PublisherGoes, At
<1>14. ASSUME NEW a \in Artifacts, ArtifactDeleted(a) PROVE AsksEnough'
  BY <1>14 DEF ArtifactDeleted
<1>15. CASE FreezeOrThaw
  BY <1>15 DEF FreezeOrThaw
<1>16. CASE NextDay
  BY <1>16 DEF NextDay
<1>17. CASE GatesRestart
  BY <1>17 DEF GatesRestart
<1>18. CASE UNCHANGED gateVars
  BY <1>18 DEF gateVars
<1> HIDE DEF GatesTypeOK, PublishStates, AsksEnough, HasRow
<1> QED BY <1>1, <1>2, <1>3, <1>4, <1>5, <1>6, <1>7, <1>8, <1>9, <1>10, <1>11, <1>12, <1>13, <1>14,
     <1>15, <1>16, <1>17, <1>18 DEF GatesNext

\* Every step lists only what is committed.
LEMMA VersionsStep ==
  ASSUME GatesTypeOK, VersionsKnown, [GatesNext]_gateVars
  PROVE  VersionsKnown'
<1> USE GatesAssumption DEF GatesTypeOK, PublishStates, VersionsKnown
<1>1. ASSUME NEW p \in Publishers, Admission(p) PROVE VersionsKnown'
  BY <1>1 DEF Admission, PublisherGoes, At
<1>2. ASSUME NEW p \in Publishers, BeginKnown(p) PROVE VersionsKnown'
  BY <1>2 DEF BeginKnown, PublisherGoes, At
<1>3. ASSUME NEW p \in Publishers, MeasureRest(p) PROVE VersionsKnown'
  BY <1>3 DEF MeasureRest, PublisherGoes, At
<1>4. ASSUME NEW p \in Publishers, ReserveRest(p) PROVE VersionsKnown'
  BY <1>4 DEF ReserveRest, PublisherGoes, At
<1>5. ASSUME NEW p \in Publishers, Spool(p) PROVE VersionsKnown'
  BY <1>5 DEF Spool, PublisherGoes, At
<1>6. ASSUME NEW p \in Publishers, ValidateUnresolved(p) PROVE VersionsKnown'
  BY <1>6 DEF ValidateUnresolved, PublisherGoes, At
<1>7. ASSUME NEW p \in Publishers, PublishPlanned(p) PROVE VersionsKnown'
  BY <1>7 DEF PublishPlanned, PublisherGoes, At
<1>8. ASSUME NEW p \in Publishers, PublishBroken(p) PROVE VersionsKnown'
  BY <1>8 DEF PublishBroken, PublisherGoes, At
<1>9. ASSUME NEW p \in Publishers, PublishCommit(p) PROVE VersionsKnown'
  BY <1>9 DEF PublishCommit, PublisherGoes, At
<1>10. ASSUME NEW p \in Publishers, ReadBack(p) PROVE VersionsKnown'
  BY <1>10 DEF ReadBack, PublisherGoes, At
<1>11. ASSUME NEW p \in Publishers, SettlePublished(p) PROVE VersionsKnown'
  BY <1>11 DEF SettlePublished, PublisherGoes, At
<1>12. ASSUME NEW p \in Publishers, SettleFailed(p) PROVE VersionsKnown'
  BY <1>12 DEF SettleFailed, PublisherGoes, At
<1>13. ASSUME NEW p \in Publishers, SettleRefused(p) PROVE VersionsKnown'
  BY <1>13 DEF SettleRefused, PublisherGoes, At
<1>14. ASSUME NEW a \in Artifacts, ArtifactDeleted(a) PROVE VersionsKnown'
  BY <1>14 DEF ArtifactDeleted
<1>15. CASE FreezeOrThaw
  BY <1>15 DEF FreezeOrThaw
<1>16. CASE NextDay
  BY <1>16 DEF NextDay
<1>17. CASE GatesRestart
  BY <1>17 DEF GatesRestart
<1>18. CASE UNCHANGED gateVars
  BY <1>18 DEF gateVars
<1> HIDE DEF GatesTypeOK, PublishStates, VersionsKnown
<1> QED BY <1>1, <1>2, <1>3, <1>4, <1>5, <1>6, <1>7, <1>8, <1>9, <1>10, <1>11, <1>12, <1>13, <1>14,
     <1>15, <1>16, <1>17, <1>18 DEF GatesNext

\* No step takes the repository over its quota: CheckCommit counts the version that
\* is replaced.
LEMMA RepoStep ==
  ASSUME GatesTypeOK, GatesTypeOK', QuotasHold, [GatesNext]_gateVars
  PROVE  RepoUsed' <= RepoBytes
<1>1. ASSUME NEW p \in Publishers, Admission(p) PROVE RepoUsed' <= RepoBytes
  BY <1>1, RepoKept DEF Admission
<1>2. ASSUME NEW p \in Publishers, BeginKnown(p) PROVE RepoUsed' <= RepoBytes
  BY <1>2, RepoKept DEF BeginKnown
<1>3. ASSUME NEW p \in Publishers, MeasureRest(p) PROVE RepoUsed' <= RepoBytes
  BY <1>3, RepoKept DEF MeasureRest
<1>4. ASSUME NEW p \in Publishers, ReserveRest(p) PROVE RepoUsed' <= RepoBytes
  BY <1>4, RepoKept DEF ReserveRest
<1>5. ASSUME NEW p \in Publishers, Spool(p) PROVE RepoUsed' <= RepoBytes
  BY <1>5, RepoKept DEF Spool
<1>6. ASSUME NEW p \in Publishers, ValidateUnresolved(p) PROVE RepoUsed' <= RepoBytes
  BY <1>6, RepoKept DEF ValidateUnresolved
<1>7. ASSUME NEW p \in Publishers, PublishPlanned(p) PROVE RepoUsed' <= RepoBytes
  BY <1>7, RepoKept DEF PublishPlanned
<1>8. ASSUME NEW p \in Publishers, PublishBroken(p) PROVE RepoUsed' <= RepoBytes
  BY <1>8, RepoKept DEF PublishBroken
<1>9. ASSUME NEW p \in Publishers, PublishCommit(p) PROVE RepoUsed' <= RepoBytes
  <2>1. CASE versions' = [versions EXCEPT ![publish[p].path] = p] /\ versions[publish[p].path] = publish[p].before
             /\ RepoUsed - SizeOf(publish[p].before) + publish[p].size <= RepoBytes
    <3>1. RepoUsed' = RepoUsed - SizeOf(versions[publish[p].path]) + SizeOf(p)
      <4>1. publish[p].path \in Artifacts
        BY DEF GatesTypeOK, PublishStates
      <4> QED BY <2>1, <4>1, SizesKept, RepoReplaces
    <3>2. SizeOf(p) = publish[p].size
      BY GatesAssumption DEF SizeOf
    <3> QED BY <2>1, <3>1, <3>2
  <2>2. CASE UNCHANGED versions
    BY <2>2, RepoKept
  <2> QED BY <1>9, <2>1, <2>2 DEF PublishCommit
<1>10. ASSUME NEW p \in Publishers, ReadBack(p) PROVE RepoUsed' <= RepoBytes
  BY <1>10, RepoKept DEF ReadBack
<1>11. ASSUME NEW p \in Publishers, SettlePublished(p) PROVE RepoUsed' <= RepoBytes
  BY <1>11, RepoKept DEF SettlePublished
<1>12. ASSUME NEW p \in Publishers, SettleFailed(p) PROVE RepoUsed' <= RepoBytes
  BY <1>12, RepoKept DEF SettleFailed
<1>13. ASSUME NEW p \in Publishers, SettleRefused(p) PROVE RepoUsed' <= RepoBytes
  BY <1>13, RepoKept DEF SettleRefused
<1>14. ASSUME NEW a \in Artifacts, ArtifactDeleted(a) PROVE RepoUsed' <= RepoBytes
  <2>1. RepoUsed' = RepoUsed - SizeOf(versions[a]) + SizeOf(NoVersion)
    BY <1>14, SizesKept, RepoReplaces DEF ArtifactDeleted
  <2>2. SizeOf(NoVersion) = 0
    BY DEF SizeOf
  <2> QED BY <2>1, <2>2, RepoIsNat, GatesAssumption DEF QuotasHold
<1>15. CASE FreezeOrThaw
  BY <1>15, RepoKept DEF FreezeOrThaw
<1>16. CASE NextDay
  BY <1>16, RepoKept DEF NextDay
<1>17. CASE GatesRestart
  BY <1>17, RepoKept DEF GatesRestart
<1>18. CASE UNCHANGED gateVars
  BY <1>18, RepoKept DEF gateVars
<1> QED BY <1>1, <1>2, <1>3, <1>4, <1>5, <1>6, <1>7, <1>8, <1>9, <1>10, <1>11, <1>12, <1>13, <1>14,
     <1>15, <1>16, <1>17, <1>18 DEF GatesNext

\* No step takes the day over its volume: Reserve counts what is reserved, and a
\* settlement moves at most what was reserved.
LEMMA DayStep ==
  ASSUME GatesTypeOK, GatesTypeOK', RowsFollow, AsksEnough, QuotasHold, [GatesNext]_gateVars
  PROVE  spent' + Reserved' <= DayBytes
<1>1. ASSUME NEW p \in Publishers, Admission(p) PROVE spent' + Reserved' <= DayBytes
  <2>1. \A q \in Publishers : publish'[q].asked = publish[q].asked
    BY <1>1 DEF Admission, PublisherGoes, GatesTypeOK, PublishStates
  <2>2. \A q \in reservations : publish'[q].asked = publish[q].asked
    BY <2>1 DEF GatesTypeOK
  <2> QED BY <1>1, <2>2, DayKept DEF Admission
<1>2. ASSUME NEW p \in Publishers, BeginKnown(p) PROVE spent' + Reserved' <= DayBytes
  <2>1. CASE UNCHANGED reservations /\ PublisherGoes(p, "done")
    <3>1. \A q \in Publishers : publish'[q].asked = publish[q].asked
      BY <2>1 DEF PublisherGoes, GatesTypeOK, PublishStates
    <3>2. \A q \in reservations : publish'[q].asked = publish[q].asked
      BY <3>1 DEF GatesTypeOK
    <3> QED BY <1>2, <2>1, <3>2, DayKept DEF BeginKnown
  <2>2. CASE /\ spent + Reserved + publish[p].size <= DayBytes /\ reservations' = reservations \cup {p}
             /\ publish' = [publish EXCEPT ![p].step = "reserved", ![p].asked = publish[p].size]
    <3>1. p \notin reservations
      BY <1>2 DEF BeginKnown, At, RowsFollow, HasRow
    <3>2. /\ publish'[p].asked = publish[p].size /\ publish[p].size \in Nat
          /\ \A q \in reservations : publish'[q].asked = publish[q].asked
      BY <2>2, <3>1, GatesAssumption DEF GatesTypeOK, PublishStates
    <3>3. Reserved' = Reserved + publish[p].size
      BY <2>2, <3>1, <3>2, ReservedAdds
    <3>4. spent' = spent /\ spent \in Nat
      BY <1>2 DEF BeginKnown, GatesTypeOK
    <3> QED BY <2>2, <3>2, <3>3, <3>4, ReservedIsNat, GatesAssumption
  <2> QED BY <1>2, <2>1, <2>2 DEF BeginKnown
<1>3. ASSUME NEW p \in Publishers, MeasureRest(p) PROVE spent' + Reserved' <= DayBytes
  <2>1. p \notin reservations
    BY <1>3 DEF MeasureRest, At, RowsFollow, HasRow
  <2>2. \A q \in reservations : publish'[q].asked = publish[q].asked
    BY <1>3, <2>1 DEF MeasureRest, PublisherGoes, GatesTypeOK, PublishStates
  <2> QED BY <1>3, <2>2, DayKept DEF MeasureRest
<1>4. ASSUME NEW p \in Publishers, ReserveRest(p) PROVE spent' + Reserved' <= DayBytes
  <2>1. \A q \in Publishers : publish'[q].asked = publish[q].asked /\ publish[q].asked \in Nat
    BY <1>4 DEF ReserveRest, PublisherGoes, GatesTypeOK, PublishStates
  <2>2. CASE UNCHANGED reservations
    <3>1. \A q \in reservations : publish'[q].asked = publish[q].asked
      BY <2>1 DEF GatesTypeOK
    <3> QED BY <1>4, <2>2, <3>1, DayKept DEF ReserveRest
  <2>3. CASE spent + Reserved + publish[p].asked <= DayBytes /\ reservations' = reservations \cup {p}
    <3>1. p \notin reservations
      BY <1>4 DEF ReserveRest, At, RowsFollow, HasRow
    <3>2. \A q \in reservations : publish'[q].asked = publish[q].asked
      BY <2>1 DEF GatesTypeOK
    <3>3. Reserved' = Reserved + publish[p].asked
      BY <2>1, <2>3, <3>1, <3>2, ReservedAdds
    <3>4. spent' = spent /\ spent \in Nat
      BY <1>4 DEF ReserveRest, GatesTypeOK
    <3> QED BY <2>1, <2>3, <3>3, <3>4, ReservedIsNat, GatesAssumption
  <2> QED BY <1>4, <2>2, <2>3 DEF ReserveRest
<1>5. ASSUME NEW p \in Publishers, Spool(p) PROVE spent' + Reserved' <= DayBytes
  <2>1. \A q \in Publishers : publish'[q].asked = publish[q].asked
    BY <1>5 DEF Spool, PublisherGoes, GatesTypeOK, PublishStates
  <2>2. \A q \in reservations : publish'[q].asked = publish[q].asked
    BY <2>1 DEF GatesTypeOK
  <2> QED BY <1>5, <2>2, DayKept DEF Spool
<1>6. ASSUME NEW p \in Publishers, ValidateUnresolved(p) PROVE spent' + Reserved' <= DayBytes
  <2>1. \A q \in Publishers : publish'[q].asked = publish[q].asked
    BY <1>6 DEF ValidateUnresolved, PublisherGoes, GatesTypeOK, PublishStates
  <2>2. \A q \in reservations : publish'[q].asked = publish[q].asked
    BY <2>1 DEF GatesTypeOK
  <2> QED BY <1>6, <2>2, DayKept DEF ValidateUnresolved
<1>7. ASSUME NEW p \in Publishers, PublishPlanned(p) PROVE spent' + Reserved' <= DayBytes
  <2>1. \A q \in Publishers : publish'[q].asked = publish[q].asked
    BY <1>7 DEF PublishPlanned, PublisherGoes, GatesTypeOK, PublishStates
  <2>2. \A q \in reservations : publish'[q].asked = publish[q].asked
    BY <2>1 DEF GatesTypeOK
  <2> QED BY <1>7, <2>2, DayKept DEF PublishPlanned
<1>8. ASSUME NEW p \in Publishers, PublishBroken(p) PROVE spent' + Reserved' <= DayBytes
  <2>1. \A q \in Publishers : publish'[q].asked = publish[q].asked
    BY <1>8 DEF PublishBroken, PublisherGoes, GatesTypeOK, PublishStates
  <2>2. \A q \in reservations : publish'[q].asked = publish[q].asked
    BY <2>1 DEF GatesTypeOK
  <2> QED BY <1>8, <2>2, DayKept DEF PublishBroken
<1>9. ASSUME NEW p \in Publishers, PublishCommit(p) PROVE spent' + Reserved' <= DayBytes
  <2>1. \A q \in Publishers : publish'[q].asked = publish[q].asked
    BY <1>9 DEF PublishCommit, PublisherGoes, GatesTypeOK, PublishStates
  <2>2. \A q \in reservations : publish'[q].asked = publish[q].asked
    BY <2>1 DEF GatesTypeOK
  <2> QED BY <1>9, <2>2, DayKept DEF PublishCommit
<1>10. ASSUME NEW p \in Publishers, ReadBack(p) PROVE spent' + Reserved' <= DayBytes
  <2>1. \A q \in Publishers : publish'[q].asked = publish[q].asked
    BY <1>10 DEF ReadBack, PublisherGoes, GatesTypeOK, PublishStates
  <2>2. \A q \in reservations : publish'[q].asked = publish[q].asked
    BY <2>1 DEF GatesTypeOK
  <2> QED BY <1>10, <2>2, DayKept DEF ReadBack
<1>11. ASSUME NEW p \in Publishers, SettlePublished(p) PROVE spent' + Reserved' <= DayBytes
  <2>1. \A q \in Publishers : publish'[q].asked = publish[q].asked
    BY <1>11 DEF SettlePublished, PublisherGoes, GatesTypeOK, PublishStates
  <2>2. p \in reservations
    BY <1>11 DEF SettlePublished, At, RowsFollow, HasRow
  <2>3. Reserved' = Reserved - publish[p].asked /\ publish[p].asked \in Nat /\ Reserved' \in Nat
    BY <1>11, <2>1, <2>2, ReservedDrops DEF SettlePublished
  <2>4. spent' = spent + publish[p].size /\ spent \in Nat /\ publish[p].size \in Nat /\ publish[p].size <= publish[p].asked
    BY <1>11, GatesAssumption DEF SettlePublished, GatesTypeOK, PublishStates, At, AsksEnough
  <2> QED BY <2>3, <2>4, ReservedIsNat, GatesAssumption DEF QuotasHold
<1>12. ASSUME NEW p \in Publishers, SettleFailed(p) PROVE spent' + Reserved' <= DayBytes
  <2>1. \A q \in Publishers : publish'[q].asked = publish[q].asked
    BY <1>12 DEF SettleFailed, PublisherGoes, GatesTypeOK, PublishStates
  <2>2. p \in reservations
    BY <1>12 DEF SettleFailed, At, RowsFollow, HasRow
  <2>3. Reserved' = Reserved - publish[p].asked /\ publish[p].asked \in Nat /\ Reserved' \in Nat
    BY <1>12, <2>1, <2>2, ReservedDrops DEF SettleFailed
  <2>4. spent' = spent /\ spent \in Nat
    BY <1>12 DEF SettleFailed, GatesTypeOK
  <2> QED BY <2>3, <2>4, ReservedIsNat, GatesAssumption DEF QuotasHold
<1>13. ASSUME NEW p \in Publishers, SettleRefused(p) PROVE spent' + Reserved' <= DayBytes
  <2>1. \A q \in Publishers : publish'[q].asked = publish[q].asked
    BY <1>13 DEF SettleRefused, PublisherGoes, GatesTypeOK, PublishStates
  <2>2. \A q \in reservations : publish'[q].asked = publish[q].asked
    BY <2>1 DEF GatesTypeOK
  <2> QED BY <1>13, <2>2, DayKept DEF SettleRefused
<1>14. ASSUME NEW a \in Artifacts, ArtifactDeleted(a) PROVE spent' + Reserved' <= DayBytes
  BY <1>14, DayKept DEF ArtifactDeleted
<1>15. CASE FreezeOrThaw
  BY <1>15, DayKept DEF FreezeOrThaw
<1>16. CASE NextDay
  <2>1. Reserved' = Reserved
    BY <1>16, ReservedSame DEF NextDay
  <2> QED BY <1>16, <2>1, ReservedIsNat, GatesAssumption DEF NextDay, QuotasHold, GatesTypeOK
<1>17. CASE GatesRestart
  <2>1. Reserved' = 0
    BY <1>17, SumIsNat, FS_EmptySet DEF GatesRestart, Reserved
  <2> QED BY <1>17, <2>1, ReservedIsNat, GatesAssumption DEF GatesRestart, QuotasHold, GatesTypeOK
<1>18. CASE UNCHANGED gateVars
  BY <1>18, DayKept DEF gateVars
<1> QED BY <1>1, <1>2, <1>3, <1>4, <1>5, <1>6, <1>7, <1>8, <1>9, <1>10, <1>11, <1>12, <1>13, <1>14,
     <1>15, <1>16, <1>17, <1>18 DEF GatesNext

\* The invariant holds before anything is published.
LEMMA GatesBegin ==
  ASSUME GatesInit
  PROVE  GatesTrue
<1>1. GatesTypeOK
  <2>1. [step : {"idle"}, kind : PublishKinds, path : Artifacts, size : BodySizes,
         limit : {0}, asked : {0}, before : {NoVersion}] \subseteq PublishStates
    BY DEF PublishStates, PublishSteps
  <2>2. publish \in [Publishers -> PublishStates]
    BY <2>1 DEF GatesInit, AnyPublish
  <2>3. versions \in [Artifacts -> Publishers \cup {NoVersion}] /\ restarts \in 0 .. GateRestarts
    BY GatesAssumption DEF GatesInit
  <2> QED BY <2>2, <2>3 DEF GatesInit, GatesTypeOK
<1>2. RowsFollow /\ AsksEnough /\ VersionsKnown
  BY DEF GatesInit, AnyPublish, RowsFollow, HasRow, AsksEnough, VersionsKnown
<1>4. RepoUsed = 0
  <2> DEFINE sizes == [a \in Artifacts |-> SizeOf(versions[a])]
  <2>1. \A a \in Artifacts : sizes[a] = 0
    BY DEF GatesInit, SizeOf
  <2>2. RepoUsed = SumFunctionOnSet(sizes, Artifacts)
    BY DEF RepoUsed
  <2> HIDE DEF sizes
  <2> QED BY <2>1, <2>2, GatesAssumption, SumIsZero
<1>5. Reserved = 0
  BY SumIsNat, FS_EmptySet DEF GatesInit, Reserved
<1> QED BY <1>1, <1>2, <1>4, <1>5, GatesAssumption DEF GatesTrue, QuotasHold, GatesInit

\* Every step keeps the invariant.
LEMMA GatesStep ==
  ASSUME GatesTrue, [GatesNext]_gateVars
  PROVE  GatesTrue'
<1>1. GatesTypeOK'
  BY GatesTypesStep DEF GatesTrue
<1>2. RowsFollow' /\ AsksEnough' /\ VersionsKnown'
  BY <1>1, RowsStep, QuotaAsksStep, VersionsStep DEF GatesTrue
<1>3. QuotasHold'
  BY <1>1, RepoStep, DayStep DEF GatesTrue, QuotasHold
<1> QED BY <1>1, <1>2, <1>3 DEF GatesTrue

\* The invariant implies the limits and the balance of the books.
LEMMA GatesPromise ==
  ASSUME GatesTrue
  PROVE  GatesSound
BY DEF GatesTrue, GatesSound, BooksBalance, RowsFollow, VersionsKnown, HasRow, At, GatesTypeOK

\* GatesTrue holds in every state of GatesSpec.
LEMMA GatesStayTrue == GatesSpec => []GatesTrue
<1>1. GatesInit => GatesTrue
  BY GatesBegin
<1>2. GatesTrue /\ [GatesNext]_gateVars => GatesTrue'
  BY GatesStep
<1> QED BY <1>1, <1>2, PTL DEF GatesSpec

\* Whatever is admitted side by side, for any quota, volume and limit of a file, the
\* repository stays within its quota and the account within its volume, and a
\* version that is listed was charged for or has its reservation, save when a restart
\* came in between (CheckCommit, Reserve, SettleBytes, ReleaseExpired).
THEOREM GatesAlwaysSound == GatesSpec => []GatesSound
<1>1. GatesTrue => GatesSound BY GatesPromise
<1> QED BY <1>1, GatesStayTrue, PTL
=============================================================================
