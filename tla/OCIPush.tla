------------------------------ MODULE OCIPush ------------------------------
(***************************************************************************)
(* Pushing an OCI image: blobs first, then the manifest that names them.   *)
(*                                                                         *)
(* A pushed blob is on disk without an asset row.  OCIService.pending      *)
(* remembers it, a staged reference of the blob store holds its bytes and  *)
(* a timer lets go of both.  A manifest takes the entries of its blobs out *)
(* of the map, commits them with itself in one transaction and, when that  *)
(* fails, puts them back under new timers.  A timer that has already fired *)
(* cannot be stopped: it waits for the lock of the map and must find out   *)
(* there whether the entry is still its own.  The blob-gc job and crashes  *)
(* run beside all this.                                                    *)
(*                                                                         *)
(* Removing an unreferenced blob is one step here: its interleavings are   *)
(* those of AssetMutation.  So are deletions of asset rows.                *)
(***************************************************************************)
EXTENDS Naturals, FiniteSets

CONSTANTS
  Pushes,      \* blob uploads, each of them a session or one request
  Manifests,   \* manifest requests, and the bytes of each manifest
  Layers,      \* contents that pushes bring, named by their digest
  Refs,        \* the blobs each manifest names
  PushCrashes  \* bound on restarts

ASSUME PushAssumption ==
  /\ IsFiniteSet(Pushes) /\ IsFiniteSet(Manifests)
  /\ Manifests \cap Layers = {}
  /\ Refs \in [Manifests -> SUBSET Layers]
  /\ PushCrashes \in Nat

Contents == Layers \cup Manifests

VARIABLES
  push,        \* what each push is doing
  manifest,    \* what each manifest request is doing
  pending,     \* OCIService.pending: the entry of a digest, 0 if none
  entriesMade, \* numbers the entries, which the code compares as pointers
  fired,       \* timers waiting for the lock: <<entry, digest>>
  holds,       \* staged references of the blob store
  onDisk,      \* contents in the blob store
  rows,        \* contents with an asset row in the repository
  pushCrashes  \* restarts so far

pushVars == <<push, manifest, pending, entriesMade, fired, holds, onDisk, rows,
              pushCrashes>>

PushIdle == [step |-> "idle"]
PushOpen == [step |-> "open"]
PushDone == [step |-> "done"]

PushStates == {PushIdle, PushOpen, PushDone}
                \cup [step : {"staged"}, layer : Layers, session : BOOLEAN]

ManifestSteps == {"idle", "looking", "publishing", "committed", "restoring", "done"}

PushTypeOK ==
  /\ push \in [Pushes -> PushStates]
  /\ manifest \in [Manifests -> [step : ManifestSteps, left : SUBSET Layers, taken : SUBSET Layers]]
  /\ entriesMade \in Nat /\ pending \in [Layers -> 0 .. entriesMade]
  /\ fired \subseteq (1 .. entriesMade) \X Layers
  /\ holds \in [Contents -> Nat]
  /\ onDisk \subseteq Contents /\ rows \subseteq Contents
  /\ pushCrashes \in 0 .. PushCrashes

PushInit ==
  /\ push = [p \in Pushes |-> PushIdle]
  /\ manifest = [m \in Manifests |-> [step |-> "idle", left |-> {}, taken |-> {}]]
  /\ pending = [l \in Layers |-> 0] /\ entriesMade = 0 /\ fired = {}
  /\ holds = [c \in Contents |-> 0] /\ onDisk = {} /\ rows = {}
  /\ pushCrashes = 0

PushGoes(p, state) == push' = [push EXCEPT ![p] = state]

ManifestGoes(m, step, left, taken) ==
  manifest' = [manifest EXCEPT ![m] = [step |-> step, left |-> left, taken |-> taken]]

Acquired(c) == [holds EXCEPT ![c] = @ + 1]

Released(h, c) == [h EXCEPT ![c] = IF @ <= 1 THEN 0 ELSE @ - 1]

\* removeUnreferencedBlob gives one staged reference back and deletes the
\* bytes that neither a staged reference nor a row keeps.
RemoveUnreferenced(c) ==
  /\ holds' = Released(holds, c)
  /\ onDisk' = IF holds'[c] > 0 \/ c \in rows THEN onDisk ELSE onDisk \ {c}

\* storePending replaces the entry of the digest, whoever made it; the timer
\* of the old one is stopped and the reference it stood for is not released.
StorePending(l) ==
  /\ entriesMade' = entriesMade + 1
  /\ pending' = [pending EXCEPT ![l] = entriesMade + 1]

-----------------------------------------------------------------------------
(* Blob uploads *)

\* Post opens a session: a temporary file, a reservation and a timer.
SessionOpen(p) ==
  /\ push[p] = PushIdle
  /\ PushGoes(p, PushOpen)
  /\ UNCHANGED <<manifest, pending, entriesMade, fired, holds, onDisk, rows, pushCrashes>>

\* The session is closed and its file removed: a chunk went over the quota,
\* the path was refused, or the timer of the session came first.  A chunk
\* that fits, and one cut short, leave the session as it is.
SessionClosed(p) ==
  /\ push[p] = PushOpen
  /\ PushGoes(p, PushDone)
  /\ UNCHANGED <<manifest, pending, entriesMade, fired, holds, onDisk, rows, pushCrashes>>

\* PutBlob writes the bytes: from a session, whose lock it keeps until the
\* end, or from the body of a single request.
PushStage(p, l) ==
  /\ push[p] \in {PushIdle, PushOpen}
  /\ PushGoes(p, [step |-> "staged", layer |-> l, session |-> push[p] = PushOpen])
  /\ holds' = Acquired(l) /\ onDisk' = onDisk \cup {l}
  /\ UNCHANGED <<manifest, pending, entriesMade, fired, rows, pushCrashes>>

\* The bytes are not those of the digest asked for.  A session stays open.
PushMismatch(p) ==
  /\ push[p].step = "staged"
  /\ PushGoes(p, IF push[p].session THEN PushOpen ELSE PushDone)
  /\ RemoveUnreferenced(push[p].layer)
  /\ UNCHANGED <<manifest, pending, entriesMade, fired, rows, pushCrashes>>

PushStored(p) ==
  /\ push[p].step = "staged"
  /\ PushGoes(p, PushDone)
  /\ StorePending(push[p].layer)
  /\ UNCHANGED <<manifest, fired, holds, onDisk, rows, pushCrashes>>

-----------------------------------------------------------------------------
(* Timers of pending blobs *)

TimerFires(l) ==
  /\ pending[l] # 0
  /\ fired' = fired \cup {<<pending[l], l>>}
  /\ UNCHANGED <<push, manifest, pending, entriesMade, holds, onDisk, rows, pushCrashes>>

\* expirePending: the entry goes if it is still the one of this timer.
Expire(t) ==
  /\ t \in fired /\ fired' = fired \ {t}
  /\ IF pending[t[2]] = t[1]
     THEN pending' = [pending EXCEPT ![t[2]] = 0] /\ RemoveUnreferenced(t[2])
     ELSE UNCHANGED <<pending, holds, onDisk>>
  /\ UNCHANGED <<push, manifest, entriesMade, rows, pushCrashes>>

-----------------------------------------------------------------------------
(* Manifests *)

ManifestBegin(m) ==
  /\ manifest[m].step = "idle"
  /\ ManifestGoes(m, "looking", Refs[m], {})
  /\ UNCHANGED <<push, pending, entriesMade, fired, holds, onDisk, rows, pushCrashes>>

\* takePending: from here on the blob is this request's alone, and another
\* manifest that names it does not find it.
TakeBlob(m, l) ==
  /\ manifest[m].step = "looking" /\ l \in manifest[m].left /\ pending[l] # 0
  /\ ManifestGoes(m, "looking", manifest[m].left \ {l}, manifest[m].taken \cup {l})
  /\ pending' = [pending EXCEPT ![l] = 0]
  /\ UNCHANGED <<push, entriesMade, fired, holds, onDisk, rows, pushCrashes>>

\* A mistake: a blob that is nowhere to be found is taken for a remote one.
FindBlobOrSkip(m, l) ==
  /\ manifest[m].step = "looking" /\ l \in manifest[m].left /\ pending[l] = 0
  /\ ManifestGoes(m, "looking", manifest[m].left \ {l}, manifest[m].taken)
  /\ UNCHANGED <<push, pending, entriesMade, fired, holds, onDisk, rows, pushCrashes>>

\* The blob is not pending: it must be in the repository already.
FindBlob(m, l) ==
  /\ manifest[m].step = "looking" /\ l \in manifest[m].left /\ pending[l] = 0
  /\ IF l \in rows
     THEN ManifestGoes(m, "looking", manifest[m].left \ {l}, manifest[m].taken)
     ELSE ManifestGoes(m, "restoring", {}, manifest[m].taken)
  /\ UNCHANGED <<push, pending, entriesMade, fired, holds, onDisk, rows, pushCrashes>>

\* The bytes of the manifest (and of its tag) are staged.
ManifestStage(m) ==
  /\ manifest[m].step = "looking" /\ manifest[m].left = {}
  /\ ManifestGoes(m, "publishing", {}, manifest[m].taken)
  /\ holds' = Acquired(m) /\ onDisk' = onDisk \cup {m}
  /\ UNCHANGED <<push, pending, entriesMade, fired, rows, pushCrashes>>

\* The tag is immutable and taken, or the manifest cannot be staged.
ManifestRefused(m) ==
  /\ manifest[m].step = "looking" /\ manifest[m].left = {}
  /\ ManifestGoes(m, "restoring", {}, manifest[m].taken)
  /\ UNCHANGED <<push, pending, entriesMade, fired, holds, onDisk, rows, pushCrashes>>

\* PublishOCIAssets commits all rows together.
ManifestCommit(m) ==
  /\ manifest[m].step = "publishing"
  /\ ManifestGoes(m, "committed", {}, manifest[m].taken)
  /\ rows' = rows \cup manifest[m].taken \cup {m}
  /\ UNCHANGED <<push, pending, entriesMade, fired, holds, onDisk, pushCrashes>>

\* releasePublishedBlobs: the rows keep the bytes from now on.
ManifestRelease(m) ==
  /\ manifest[m].step = "committed"
  /\ ManifestGoes(m, "done", {}, {})
  /\ holds' = [c \in Contents |-> IF c \in manifest[m].taken \cup {m}
                                  THEN Released(holds, c)[c] ELSE holds[c]]
  /\ UNCHANGED <<push, pending, entriesMade, fired, onDisk, rows, pushCrashes>>

\* A mistake: a failed publication lets go of all it was to publish, as if
\* the entries that are put back had references of their own.
ManifestFailsReleasing(m) ==
  /\ manifest[m].step = "publishing"
  /\ ManifestGoes(m, "restoring", {}, manifest[m].taken)
  /\ holds' = [c \in Contents |-> IF c \in manifest[m].taken \cup {m}
                                  THEN Released(holds, c)[c] ELSE holds[c]]
  /\ onDisk' = IF holds'[m] > 0 \/ m \in rows THEN onDisk ELSE onDisk \ {m}
  /\ UNCHANGED <<push, pending, entriesMade, fired, rows, pushCrashes>>

\* The transaction fails: only what this request has staged is given up.
ManifestFails(m) ==
  /\ manifest[m].step = "publishing"
  /\ ManifestGoes(m, "restoring", {}, manifest[m].taken)
  /\ RemoveUnreferenced(m)
  /\ UNCHANGED <<push, pending, entriesMade, fired, rows, pushCrashes>>

\* The deferred restore puts one taken entry back, over any newer one.
RestoreBlob(m, l) ==
  /\ manifest[m].step = "restoring" /\ l \in manifest[m].taken
  /\ ManifestGoes(m, "restoring", {}, manifest[m].taken \ {l})
  /\ StorePending(l)
  /\ UNCHANGED <<push, fired, holds, onDisk, rows, pushCrashes>>

ManifestEnds(m) ==
  /\ manifest[m].step = "restoring" /\ manifest[m].taken = {}
  /\ ManifestGoes(m, "done", {}, {})
  /\ UNCHANGED <<push, pending, entriesMade, fired, holds, onDisk, rows, pushCrashes>>

-----------------------------------------------------------------------------
(* The garbage job, and restarts *)

GarbageJob(c) ==
  /\ c \in onDisk \ rows /\ holds[c] = 0
  /\ onDisk' = onDisk \ {c}
  /\ UNCHANGED <<push, manifest, pending, entriesMade, fired, holds, rows, pushCrashes>>

\* The map, the timers and the staged references are memory; the files of
\* open sessions are removed at start-up.
PushRestart ==
  /\ pushCrashes < PushCrashes /\ pushCrashes' = pushCrashes + 1
  /\ push' = [p \in Pushes |-> IF push[p] = PushIdle THEN PushIdle ELSE PushDone]
  /\ manifest' = [m \in Manifests |->
                    IF manifest[m].step = "idle" THEN manifest[m]
                    ELSE [step |-> "done", left |-> {}, taken |-> {}]]
  /\ pending' = [l \in Layers |-> 0] /\ fired' = {}
  /\ holds' = [c \in Contents |-> 0]
  /\ UNCHANGED <<entriesMade, onDisk, rows>>

PushNext ==
  \/ \E p \in Pushes :
       SessionOpen(p) \/ SessionClosed(p) \/ PushMismatch(p) \/ PushStored(p)
  \/ \E p \in Pushes, l \in Layers : PushStage(p, l)
  \/ \E l \in Layers : TimerFires(l)
  \/ \E t \in fired : Expire(t)
  \/ \E m \in Manifests :
       \/ ManifestBegin(m) \/ ManifestStage(m) \/ ManifestRefused(m)
       \/ ManifestCommit(m) \/ ManifestRelease(m) \/ ManifestFails(m) \/ ManifestEnds(m)
  \/ \E m \in Manifests, l \in Layers : TakeBlob(m, l) \/ FindBlob(m, l) \/ RestoreBlob(m, l)
  \/ \E c \in Contents : GarbageJob(c)
  \/ PushRestart

PushSpec == PushInit /\ [][PushNext]_pushVars

-----------------------------------------------------------------------------
(* Properties *)

StagedBy(l) == {p \in Pushes : push[p].step = "staged" /\ push[p].layer = l}

TakenBy(l) == {m \in Manifests : l \in manifest[m].taken}

\* Every push that has staged a blob, every request that has taken it and
\* the entry of the map have a staged reference of their own, whatever
\* timers, replaced entries and failed publications have done (storePending,
\* takePending, expirePending).  There may be more references than that: an
\* entry that is replaced leaves its reference behind until a restart.
HoldsCover ==
  \A l \in Layers :
    Cardinality(StagedBy(l)) + Cardinality(TakenBy(l)) + (IF pending[l] = 0 THEN 0 ELSE 1) <= holds[l]

\* An image that the registry lists can be pulled: the manifest and every
\* blob it names have a row and their bytes, although the manifest was
\* checked against a map that timers and other manifests empty meanwhile
\* (PutManifest).
ImageWhole ==
  \A m \in Manifests \cap rows : Refs[m] \cup {m} \subseteq rows \cap onDisk

\* The two together.
ImagesSound == HoldsCover /\ ImageWhole
=============================================================================
