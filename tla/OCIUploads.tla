----------------------------- MODULE OCIUploads -----------------------------
(***************************************************************************)
(* Upload sessions of the OCI protocol.                                    *)
(*                                                                         *)
(* A POST reserves quota, makes a temporary file and puts a session in a   *)
(* map; PATCH appends to the file, PUT appends the last piece and hands    *)
(* the file to the blob store.  Whoever comes first of a PUT that stored   *)
(* the blob, a request that was over the limit and the session's timer     *)
(* closes the session; all have to find out under its mutex whether they   *)
(* are too late, because they looked it up before they waited.  The file   *)
(* and the reservation are given back after the mutex, so a restart may    *)
(* come between.                                                           *)
(*                                                                         *)
(* What happens to a stored blob is OCIPush, and to a reservation          *)
(* PublishGates.                                                           *)
(***************************************************************************)
EXTENDS Naturals, FiniteSets

CONSTANTS
  Sessions,       \* upload sessions, by their random id
  Chunkers,       \* PATCH and PUT requests
  SessionLimit,   \* bytes a session may take
  SessionCrashes  \* bound on restarts

ASSUME SessionAssumption ==
  /\ IsFiniteSet(Sessions) /\ IsFiniteSet(Chunkers)
  /\ SessionLimit \in Nat \ {0} /\ SessionCrashes \in Nat

VARIABLES
  posted,    \* the POST of each session: how far it is
  listed,    \* OCIHandler.sessions
  closed,    \* sessions with the closed flag
  length,    \* bytes in the session's file, and session.size
  tempFiles, \* sessions with a file on disk
  reserved,  \* sessions with a reservation that is not settled
  timer,     \* the timer of each session
  chunker,   \* what each request is doing
  cleanups,  \* closed sessions whose closer has not cleaned up yet
  intoStore, \* history: what each session brought into the blob store
  charged,   \* history: what was charged for each session
  sessionCrashes

sessionVars == <<posted, listed, closed, length, tempFiles, reserved,
                 timer, chunker, cleanups, intoStore, charged, sessionCrashes>>

\* A session's file and size, its reservation and its place in the map.
sessionState == <<posted, listed, closed, length, tempFiles, reserved>>

IdleChunker == [step |-> "idle"]

ChunkerStates ==
  {IdleChunker, [step |-> "done"]}
    \cup [step : {"waiting", "appending", "checking", "storing"}, on : Sessions, put : BOOLEAN]

Cleanup == [of : Sessions, success : BOOLEAN, size : 0 .. SessionLimit]

SessionTypeOK ==
  /\ posted \in [Sessions -> {"no", "reserved", "filed", "done"}]
  /\ listed \subseteq Sessions /\ closed \subseteq Sessions
  /\ length \in [Sessions -> 0 .. SessionLimit]
  /\ tempFiles \subseteq Sessions /\ reserved \subseteq Sessions
  /\ timer \in [Sessions -> {"off", "set", "waiting"}]
  /\ chunker \in [Chunkers -> ChunkerStates]
  /\ cleanups \subseteq Cleanup
  /\ intoStore \in [Sessions -> SUBSET Nat] /\ charged \in [Sessions -> SUBSET Nat]
  /\ sessionCrashes \in 0 .. SessionCrashes

SessionsInit ==
  /\ posted = [s \in Sessions |-> "no"]
  /\ listed = {} /\ closed = {}
  /\ length = [s \in Sessions |-> 0] /\ tempFiles = {} /\ reserved = {}
  /\ timer = [s \in Sessions |-> "off"]
  /\ chunker = [q \in Chunkers |-> IdleChunker] /\ cleanups = {}
  /\ intoStore = [s \in Sessions |-> {}] /\ charged = [s \in Sessions |-> {}]
  /\ sessionCrashes = 0

Owning(q) == chunker[q].step \in {"appending", "checking", "storing"}

\* Nobody holds the mutex of the session.
Unlocked(s) == \A q \in Chunkers : Owning(q) => chunker[q].on # s

ChunkerGoes(q, step) == chunker' = [chunker EXCEPT ![q].step = step]

ChunkerEnds(q) == chunker' = [chunker EXCEPT ![q] = [step |-> "done"]]

-----------------------------------------------------------------------------
(* POST *)

\* beginUnresolvedPublish reserves what the policy has left.
PostReserves(s) ==
  /\ posted[s] = "no" /\ posted' = [posted EXCEPT ![s] = "reserved"]
  /\ reserved' = reserved \cup {s}
  /\ UNCHANGED <<listed, closed, length, tempFiles, timer, chunker, cleanups,
                 intoStore, charged, sessionCrashes>>

PostMakesFile(s) ==
  /\ posted[s] = "reserved" /\ posted' = [posted EXCEPT ![s] = "filed"]
  /\ tempFiles' = tempFiles \cup {s}
  /\ UNCHANGED <<listed, closed, length, reserved, timer, chunker, cleanups,
                 intoStore, charged, sessionCrashes>>

\* The file cannot be made or closed: all is given back at once.
PostFails(s) ==
  /\ posted[s] \in {"reserved", "filed"} /\ posted' = [posted EXCEPT ![s] = "done"]
  /\ reserved' = reserved \ {s} /\ tempFiles' = tempFiles \ {s}
  /\ UNCHANGED <<listed, closed, length, timer, chunker, cleanups,
                 intoStore, charged, sessionCrashes>>

\* storeUpload starts the timer and publishes the session.
PostStores(s) ==
  /\ posted[s] = "filed" /\ posted' = [posted EXCEPT ![s] = "done"]
  /\ listed' = listed \cup {s}
  /\ timer' = [timer EXCEPT ![s] = "set"]
  /\ UNCHANGED <<closed, length, tempFiles, reserved, chunker, cleanups, intoStore, charged,
                 sessionCrashes>>

-----------------------------------------------------------------------------
(* Closing, with the mutex held *)

\* A mistake: the flag is not looked at, and every closer cleans up.
CloseBlindly(s, success) ==
  /\ listed' = listed \ {s} /\ closed' = closed \cup {s}
  /\ cleanups' = cleanups \cup {[of |-> s, success |-> success, size |-> length[s]]}

\* closeUploadLocked.  A session that is closed already is only taken off the
\* map; for any other the caller is handed what it has to clean up.
CloseLocked(s, success) ==
  /\ listed' = listed \ {s} /\ closed' = closed \cup {s}
  /\ cleanups' = cleanups \cup
       {k \in {[of |-> s, success |-> success, size |-> length[s]]} : s \notin closed}

\* A timer that has fired already is not stopped.
StopTimer(s) == timer' = [timer EXCEPT ![s] = IF @ = "set" THEN "off" ELSE @]

\* The function it returns, run without the mutex: the file goes, and the
\* reservation is settled with the size.  Only the first settlement counts.
CleanUp(k) ==
  /\ k \in cleanups /\ cleanups' = cleanups \ {k}
  /\ tempFiles' = tempFiles \ {k.of}
  /\ reserved' = reserved \ {k.of}
  /\ charged' = IF k.success /\ k.of \in reserved
                THEN [charged EXCEPT ![k.of] = @ \cup {k.size}] ELSE charged
  /\ UNCHANGED <<posted, listed, closed, length, timer, chunker, intoStore, sessionCrashes>>

-----------------------------------------------------------------------------
(* PATCH and PUT *)

\* The session is looked up; then the request waits for its mutex.
LookUp(q, s, put) ==
  /\ chunker[q] = IdleChunker /\ s \in listed
  /\ chunker' = [chunker EXCEPT ![q] = [step |-> "waiting", on |-> s, put |-> put]]
  /\ UNCHANGED <<sessionState, timer, cleanups, intoStore, charged, sessionCrashes>>

\* With the mutex the session is found open and its file is opened.
LockOpen(q) ==
  /\ chunker[q].step = "waiting" /\ Unlocked(chunker[q].on)
  /\ chunker[q].on \notin closed /\ chunker[q].on \in tempFiles
  /\ ChunkerGoes(q, "appending")
  /\ UNCHANGED <<sessionState, timer, cleanups, intoStore, charged, sessionCrashes>>

\* It was closed meanwhile.
LockClosed(q) ==
  /\ chunker[q].step = "waiting" /\ Unlocked(chunker[q].on)
  /\ chunker[q].on \in closed
  /\ ChunkerEnds(q)
  /\ UNCHANGED <<sessionState, timer, cleanups, intoStore, charged, sessionCrashes>>

\* copyUploadChunk: one more piece of the body, up to the limit.
ChunkAppends(q) ==
  /\ chunker[q].step = "appending" /\ length[chunker[q].on] < SessionLimit
  /\ length' = [length EXCEPT ![chunker[q].on] = @ + 1]
  /\ UNCHANGED <<posted, listed, closed, tempFiles, reserved, timer, chunker,
                 cleanups, intoStore, charged, sessionCrashes>>

\* The file cannot be opened, the body ends or is cut short: what was written
\* stays, and the session stays open for the next request.
ChunkEnds(q) ==
  /\ chunker[q].step = "appending"
  /\ ChunkerEnds(q)
  /\ UNCHANGED <<sessionState, timer, cleanups, intoStore, charged, sessionCrashes>>

\* The body of a PUT has been read.
PutRead(q) ==
  /\ chunker[q].step = "appending" /\ chunker[q].put
  /\ ChunkerGoes(q, "checking")
  /\ UNCHANGED <<sessionState, timer, cleanups, intoStore, charged, sessionCrashes>>

\* There is more than the limit allows, or validateUnresolvedPublish refuses
\* the path: this is the end of the session.
ChunkRefused(q) ==
  /\ \/ chunker[q].step = "appending" /\ length[chunker[q].on] = SessionLimit
     \/ chunker[q].step = "checking"
  /\ ChunkerEnds(q)
  /\ CloseLocked(chunker[q].on, FALSE) /\ StopTimer(chunker[q].on)
  /\ UNCHANGED <<posted, length, tempFiles, reserved, intoStore, charged, sessionCrashes>>

PutAdmitted(q) ==
  /\ chunker[q].step = "checking"
  /\ ChunkerGoes(q, "storing")
  /\ UNCHANGED <<sessionState, timer, cleanups, intoStore, charged, sessionCrashes>>

\* PutBlob finds another digest, or fails: the session stays open.
PutMismatch(q) ==
  /\ chunker[q].step = "storing"
  /\ ChunkerEnds(q)
  /\ UNCHANGED <<sessionState, timer, cleanups, intoStore, charged, sessionCrashes>>

\* PutBlob has stored the whole file.
PutStores(q) ==
  /\ chunker[q].step = "storing"
  /\ ChunkerEnds(q)
  /\ intoStore' = [intoStore EXCEPT ![chunker[q].on] = @ \cup {length[chunker[q].on]}]
  /\ CloseLocked(chunker[q].on, TRUE) /\ StopTimer(chunker[q].on)
  /\ UNCHANGED <<posted, length, tempFiles, reserved, charged, sessionCrashes>>

-----------------------------------------------------------------------------
(* The timer, and restarts *)

\* expireUpload finds the session in the map and waits for its mutex.
TimerExpires(s) ==
  /\ timer[s] = "set" /\ s \in listed
  /\ timer' = [timer EXCEPT ![s] = "waiting"]
  /\ UNCHANGED <<sessionState, chunker, cleanups, intoStore, charged, sessionCrashes>>

TimerCloses(s) ==
  /\ timer[s] = "waiting" /\ Unlocked(s)
  /\ timer' = [timer EXCEPT ![s] = "off"]
  /\ CloseLocked(s, FALSE)
  /\ UNCHANGED <<posted, length, tempFiles, reserved, chunker, intoStore, charged, sessionCrashes>>

\* Sessions are memory.  CleanupUploadTemps removes the files and
\* ReleaseExpired the reservations, whatever they were for.
SessionsRestart ==
  /\ sessionCrashes < SessionCrashes /\ sessionCrashes' = sessionCrashes + 1
  /\ posted' = [s \in Sessions |-> IF posted[s] = "no" THEN "no" ELSE "done"]
  /\ listed' = {} /\ closed' = {} /\ tempFiles' = {} /\ reserved' = {}
  /\ timer' = [s \in Sessions |-> "off"] /\ cleanups' = {}
  /\ chunker' = [q \in Chunkers |-> IF chunker[q] = IdleChunker THEN IdleChunker ELSE [step |-> "done"]]
  /\ UNCHANGED <<length, intoStore, charged>>

ChunkerStep(q) ==
  \/ LockOpen(q) \/ LockClosed(q) \/ ChunkAppends(q) \/ ChunkEnds(q) \/ PutRead(q)
  \/ ChunkRefused(q) \/ PutAdmitted(q) \/ PutMismatch(q) \/ PutStores(q)

SessionsNext ==
  \/ \E s \in Sessions :
       \/ PostReserves(s) \/ PostMakesFile(s) \/ PostFails(s) \/ PostStores(s)
       \/ TimerExpires(s) \/ TimerCloses(s)
  \/ \E k \in Cleanup : CleanUp(k)
  \/ \E q \in Chunkers, s \in Sessions, put \in BOOLEAN : LookUp(q, s, put)
  \/ \E q \in Chunkers : ChunkerStep(q)
  \/ SessionsRestart

SessionsSpec == SessionsInit /\ [][SessionsNext]_sessionVars

-----------------------------------------------------------------------------
(* Properties *)

\* A session brings at most one blob into the store, and once everything has
\* been cleaned up it was charged with exactly the bytes of that blob, or
\* with nothing if there is none, unless a restart came before the settlement
\* (completeUpload, closeUploadLocked, SettleSize).
ChargedForBlob ==
  \A s \in Sessions :
    /\ Cardinality(intoStore[s]) <= 1
    /\ \/ charged[s] = intoStore[s]
       \/ charged[s] = {} /\ \/ \E k \in cleanups : k.of = s /\ k.success
                             \/ sessionCrashes > 0

\* Nobody writes to the file of a session that is closed, or takes it for a
\* whole blob, although requests and the timer wait for the mutex in any
\* order (Patch, completeUpload, expireUpload).
ClosedIsClosed == \A q \in Chunkers : Owning(q) => chunker[q].on \notin closed

\* A file and a reservation exist only while their POST runs, their session
\* can be found, or somebody is about to give them back: nothing else knows
\* of them before a restart (Post, closeUploadLocked).
OwnedByOne ==
  \A s \in tempFiles \cup reserved :
    \/ posted[s] \in {"reserved", "filed"}
    \/ s \in listed /\ s \notin closed
    \/ \E k \in cleanups : k.of = s

\* The three together.
SessionsSound == ChargedForBlob /\ ClosedIsClosed /\ OwnedByOne

\* What an abandoned session holds is given back in the end (expireUpload).
SessionsEnd ==
  \A s \in Sessions : s \in tempFiles \cup reserved ~> s \notin tempFiles \cup reserved
=============================================================================
