---------------------------- MODULE BackupUpload ----------------------------
(***************************************************************************)
(* The chunked upload of a backup package: one session and its directory.  *)
(*                                                                         *)
(* PutChunk writes <index>.tmp and renames it to <index>; Complete joins   *)
(* the chunks into package.tar.gz, checks the sum while it writes, and     *)
(* hands the file to AdoptUploaded, which renames it into backups/ and     *)
(* registers it.  Nothing is locked: two puts of one index share its .tmp, *)
(* two Completes share the package file, and whoever has a file open goes  *)
(* on writing it wherever it has been renamed to.  The client declares the *)
(* package's digest.                                                       *)
(***************************************************************************)
EXTENDS Naturals, FiniteSets

CONSTANTS
  ChunkCount,   \* chunks of the package
  Puts,         \* requests that put a chunk
  Completes,    \* requests to complete
  UploadsAtOnce, \* bound on the puts and Completes under way at once, one less after each death
  UploadCrashes \* bound on deaths of the process

ASSUME UploadAssumption == ChunkCount \in Nat \ {0} /\ UploadsAtOnce \in Nat /\ UploadCrashes \in Nat

VARIABLES
  uploadStatus, \* backup_upload.status
  sessionDir,   \* the session's directory is there
  chunkFile,    \* what <index> holds
  chunkTemp,    \* what <index>.tmp holds
  packFile,     \* what package.tar.gz holds
  stored,       \* what backups/<id>.tar.gz holds
  storedRow,    \* the package is registered
  putCall,      \* what each put is doing
  completeCall, \* what each Complete is doing
  aborting,     \* an Abort is between its update and its RemoveAll
  uploadCrashes,
  \* history
  accepted,     \* chunks whose put was answered with success
  reput,        \* chunks whose file was removed for a new one
  contested,    \* chunks that two puts have written at once
  overlapped,   \* two Completes were at work at once
  swept         \* the directory was removed

chunkVars == <<sessionDir, chunkFile, chunkTemp>>
storeVars == <<stored, storedRow>>
requestVars == <<putCall, completeCall, aborting>>
uploadHistory == <<accepted, reput, contested, overlapped, swept>>
uploadVars == <<uploadStatus, chunkVars, packFile, storeVars, requestVars,
                uploadCrashes, uploadHistory>>

Chunks == 0..ChunkCount - 1

\* Bytes on disk: no file, an unfinished one, a chunk that is shorter than it
\* should be, the bytes that were meant.
Bytes == {"none", "part", "short", "full"}

\* A chunk has two units and a short one has one; an unfinished file may have none.
Size(b) == CASE b = "full" -> 2 [] b = "short" -> 1 [] OTHER -> 0

PutIdle == [step |-> "idle"]

PutBusy == [step : {"checked", "writing", "written", "cleared", "renamed"},
            chunk : Chunks, sends : {"short", "full"}, fresh : BOOLEAN,
            at : {"none", "temp", "file", "lost"}]

CompleteIdle == [step |-> "idle"]

CompleteBusy == [step : {"listed", "joining", "joined", "opened", "stored", "registered"},
                 next : 0..ChunkCount, good : BOOLEAN, at : {"none", "pack", "stored", "lost"}]

UploadTypeOK ==
  /\ uploadStatus \in {"initialized", "receiving", "completed", "aborted", "gone"}
  /\ sessionDir \in BOOLEAN
  /\ chunkFile \in [Chunks -> Bytes] /\ chunkTemp \in [Chunks -> Bytes]
  /\ packFile \in {"none", "part", "full"} /\ stored \in {"none", "part", "full"}
  /\ storedRow \in BOOLEAN
  /\ putCall \in [Puts -> PutBusy \cup {PutIdle}]
  /\ completeCall \in [Completes -> CompleteBusy \cup {CompleteIdle}]
  /\ aborting \in BOOLEAN /\ uploadCrashes \in 0..UploadCrashes
  /\ accepted \subseteq Chunks /\ reput \subseteq Chunks /\ contested \subseteq Chunks
  /\ overlapped \in BOOLEAN /\ swept \in BOOLEAN

UploadInit ==
  /\ uploadStatus = "initialized" /\ sessionDir = FALSE
  /\ chunkFile = [c \in Chunks |-> "none"] /\ chunkTemp = [c \in Chunks |-> "none"]
  /\ packFile = "none" /\ stored = "none" /\ storedRow = FALSE
  /\ putCall = [p \in Puts |-> PutIdle]
  /\ completeCall = [k \in Completes |-> CompleteIdle]
  /\ aborting = FALSE /\ uploadCrashes = 0
  /\ accepted = {} /\ reput = {} /\ contested = {} /\ overlapped = FALSE /\ swept = FALSE

Admits ==
  Cardinality({p \in Puts : putCall[p] # PutIdle})
    + Cardinality({k \in Completes : completeCall[k] # CompleteIdle}) < UploadsAtOnce - uploadCrashes

Receives == uploadStatus \in {"initialized", "receiving"}

-----------------------------------------------------------------------------
(* PutChunk.                                                               *)

PutAt(p, c, step) == putCall[p].step = step /\ putCall[p].chunk = c

\* Does q have the file open that is `from' now?
Writes(q, c, from) == PutAt(q, c, "writing") /\ putCall[q].at = from

\* Whoever writes the file of chunk c that is `from' writes it as `to' now.
Moved(calls, c, from, to) ==
  [q \in Puts |-> IF Writes(q, c, from) THEN [calls[q] EXCEPT !.at = to] ELSE calls[q]]

\* All bytes on disk, without the chunk that is replaced.
Elsewhere(c) ==
  LET sum[n \in 0..ChunkCount] ==
        IF n = 0 THEN 0
        ELSE sum[n - 1] + Size(chunkTemp[n - 1]) + (IF n - 1 = c THEN 0 ELSE Size(chunkFile[n - 1]))
  IN sum[ChunkCount]

\* The session takes chunks and has not expired, and this one does not exceed
\* the declared total.
PutBegin(p) ==
  /\ putCall[p] = PutIdle /\ Admits /\ Receives
  /\ \E c \in Chunks, b \in {"short", "full"} :
       /\ Elsewhere(c) + Size(b) <= 2 * ChunkCount
       /\ putCall' = [putCall EXCEPT ![p] =
            [step |-> "checked", chunk |-> c, sends |-> b,
             fresh |-> uploadStatus = "initialized", at |-> "none"]]
  /\ UNCHANGED <<uploadStatus, chunkVars, packFile, storeVars, completeCall, aborting,
                 uploadCrashes, uploadHistory>>

\* MkdirAll and Create, which truncates the .tmp that another put writes.
PutCreate(p, c) ==
  /\ PutAt(p, c, "checked")
  /\ sessionDir' = TRUE /\ chunkTemp' = [chunkTemp EXCEPT ![c] = "part"]
  /\ putCall' = [Moved(putCall, c, "temp", "lost") EXCEPT ![p].step = "writing", ![p].at = "temp"]
  /\ contested' = IF \E q \in Puts \ {p} : \E s \in {"writing", "written", "cleared"} : PutAt(q, c, s)
                  THEN contested \cup {c} ELSE contested
  /\ UNCHANGED <<uploadStatus, chunkFile, packFile, storeVars, completeCall, aborting,
                 uploadCrashes, accepted, reput, overlapped, swept>>

\* The file this put has open, wherever it is, holds b now.
Fills(p, c, b) ==
  /\ chunkTemp' = IF putCall[p].at = "temp" THEN [chunkTemp EXCEPT ![c] = b] ELSE chunkTemp
  /\ chunkFile' = IF putCall[p].at = "file" THEN [chunkFile EXCEPT ![c] = b] ELSE chunkFile

PutWrite(p, c) ==
  /\ PutAt(p, c, "writing") /\ Fills(p, c, putCall[p].sends)
  /\ putCall' = [putCall EXCEPT ![p].step = "written", ![p].at = "none"]
  /\ UNCHANGED <<uploadStatus, sessionDir, packFile, storeVars, completeCall, aborting,
                 uploadCrashes, uploadHistory>>

\* A mistake: what an earlier put of this index has left is removed with it.
PutWriteFailsBoth(p, c) ==
  /\ PutAt(p, c, "writing")
  /\ chunkTemp' = [chunkTemp EXCEPT ![c] = "none"] /\ chunkFile' = [chunkFile EXCEPT ![c] = "none"]
  /\ putCall' = [Moved(putCall, c, "temp", "lost") EXCEPT ![p] = PutIdle]
  /\ UNCHANGED <<uploadStatus, sessionDir, packFile, storeVars, completeCall,
                 aborting, uploadCrashes, uploadHistory>>

\* The write fails, and the .tmp is removed, be it this put's or not.
PutWriteFails(p, c) ==
  /\ PutAt(p, c, "writing")
  /\ chunkTemp' = [chunkTemp EXCEPT ![c] = "none"]
  /\ putCall' = [Moved(putCall, c, "temp", "lost") EXCEPT ![p] = PutIdle]
  /\ UNCHANGED <<uploadStatus, sessionDir, chunkFile, packFile, storeVars, completeCall,
                 aborting, uploadCrashes, uploadHistory>>

\* The file of an earlier put of this index is removed ...
PutClear(p, c) ==
  /\ PutAt(p, c, "written")
  /\ chunkFile' = [chunkFile EXCEPT ![c] = "none"]
  /\ reput' = IF chunkFile[c] = "none" THEN reput ELSE reput \cup {c}
  /\ putCall' = [Moved(putCall, c, "file", "lost") EXCEPT ![p].step = "cleared"]
  /\ UNCHANGED <<uploadStatus, sessionDir, chunkTemp, packFile, storeVars, completeCall,
                 aborting, uploadCrashes, accepted, contested, overlapped, swept>>

\* ... and the .tmp renamed, which fails if another put has taken it.
PutRename(p, c) ==
  /\ PutAt(p, c, "cleared")
  /\ IF chunkTemp[c] = "none"
     THEN /\ putCall' = [putCall EXCEPT ![p] = PutIdle]
          /\ UNCHANGED <<chunkFile, chunkTemp, reput>>
     ELSE /\ chunkFile' = [chunkFile EXCEPT ![c] = chunkTemp[c]]
          /\ chunkTemp' = [chunkTemp EXCEPT ![c] = "none"]
          /\ putCall' = [Moved(Moved(putCall, c, "file", "lost"), c, "temp", "file")
                           EXCEPT ![p].step = "renamed"]
          /\ reput' = reput \ {c}
  /\ UNCHANGED <<uploadStatus, sessionDir, packFile, storeVars, completeCall, aborting,
                 uploadCrashes, accepted, contested, overlapped, swept>>

\* AddChunk, and the status that was read at the beginning decides.
PutSettle(p, c) ==
  /\ PutAt(p, c, "renamed")
  /\ putCall' = [putCall EXCEPT ![p] = PutIdle]
  /\ \/ /\ uploadStatus' = IF putCall[p].fresh THEN "receiving" ELSE uploadStatus
        /\ accepted' = accepted \cup {c}
     \/ UNCHANGED <<uploadStatus, accepted>>
  /\ UNCHANGED <<chunkVars, packFile, storeVars, completeCall, aborting,
                 uploadCrashes, reput, contested, overlapped, swept>>

-----------------------------------------------------------------------------
(* Complete and AdoptUploaded.                                             *)

CompleteAt(k, step) == completeCall[k].step = step

Rivals(k) == \E j \in Completes \ {k} : completeCall[j].step \in {"joining", "joined", "opened", "stored"}

\* Whoever writes the package file that is `from' writes it as `to' now.
MovedPack(calls, from, to) ==
  [j \in Completes |-> IF CompleteAt(j, "joining") /\ completeCall[j].at = from
                       THEN [calls[j] EXCEPT !.at = to] ELSE calls[j]]

\* The session is open and every index is on disk.
CompleteBegin(k) ==
  /\ completeCall[k] = CompleteIdle /\ Admits /\ Receives
  /\ \A c \in Chunks : chunkFile[c] # "none"
  /\ completeCall' = [completeCall EXCEPT ![k] =
       [step |-> "listed", next |-> 0, good |-> TRUE, at |-> "none"]]
  /\ UNCHANGED <<uploadStatus, chunkVars, packFile, storeVars, putCall, aborting,
                 uploadCrashes, uploadHistory>>

CompleteCreate(k) ==
  /\ CompleteAt(k, "listed") /\ sessionDir
  /\ packFile' = "part"
  /\ completeCall' = [MovedPack(completeCall, "pack", "lost") EXCEPT ![k].step = "joining", ![k].at = "pack"]
  /\ overlapped' = (overlapped \/ Rivals(k))
  /\ UNCHANGED <<uploadStatus, chunkVars, storeVars, putCall, aborting,
                 uploadCrashes, accepted, reput, contested, swept>>

CompleteAppend(k) ==
  /\ CompleteAt(k, "joining") /\ completeCall[k].next < ChunkCount
  /\ LET call == completeCall[k]
         bytes == chunkFile[call.next] IN
       completeCall' = [completeCall EXCEPT ![k] =
         IF bytes = "none" THEN CompleteIdle
         ELSE [call EXCEPT !.next = call.next + 1, !.good = call.good /\ bytes = "full"]]
  /\ UNCHANGED <<uploadStatus, chunkVars, packFile, storeVars, putCall, aborting,
                 uploadCrashes, uploadHistory>>

\* The file this Complete has open, wherever it is, is finished.
Joins(k) ==
  LET bytes == IF completeCall[k].good THEN "full" ELSE "part" IN
    /\ packFile' = IF completeCall[k].at = "pack" THEN bytes ELSE packFile
    /\ stored' = IF completeCall[k].at = "stored" THEN bytes ELSE stored

CompleteClose(k) ==
  /\ CompleteAt(k, "joining") /\ completeCall[k].next = ChunkCount
  /\ Joins(k)
  /\ completeCall' = [completeCall EXCEPT ![k].step = "joined", ![k].at = "none"]
  /\ UNCHANGED <<uploadStatus, chunkVars, storedRow, putCall, aborting,
                 uploadCrashes, uploadHistory>>

\* A mistake: only the number of the chunks is checked.
CompleteCheckUnsummed(k) ==
  /\ CompleteAt(k, "joined")
  /\ completeCall' = [completeCall EXCEPT ![k].step = "opened"]
  /\ ~storedRow /\ packFile # "none"
  /\ UNCHANGED <<uploadStatus, chunkVars, packFile, storeVars, putCall, aborting,
                 uploadCrashes, uploadHistory>>

\* A wrong sum removes the package file.  Open finds the manifest also in an
\* unfinished file; a registered package is refused.
CompleteCheck(k) ==
  /\ CompleteAt(k, "joined")
  /\ IF ~completeCall[k].good
     THEN /\ packFile' = "none"
          /\ completeCall' = [MovedPack(completeCall, "pack", "lost") EXCEPT ![k] = CompleteIdle]
     ELSE /\ UNCHANGED packFile
          /\ completeCall' = [completeCall EXCEPT ![k] =
               IF storedRow \/ packFile = "none" THEN CompleteIdle ELSE [@ EXCEPT !.step = "opened"]]
  /\ UNCHANGED <<uploadStatus, chunkVars, storeVars, putCall, aborting,
                 uploadCrashes, uploadHistory>>

\* moveFile renames the package over whatever has its name in backups/.
CompleteStore(k) ==
  /\ CompleteAt(k, "opened")
  /\ IF packFile = "none"
     THEN /\ completeCall' = [completeCall EXCEPT ![k] = CompleteIdle]
          /\ UNCHANGED <<packFile, stored>>
     ELSE /\ stored' = packFile /\ packFile' = "none"
          /\ completeCall' = [MovedPack(MovedPack(completeCall, "stored", "lost"), "pack", "stored")
                                EXCEPT ![k].step = "stored"]
  /\ UNCHANGED <<uploadStatus, chunkVars, storedRow, putCall, aborting,
                 uploadCrashes, uploadHistory>>

\* The insert; when it fails, as it does for a package that has a row by now,
\* the file is removed again.
CompleteRegister(k) ==
  /\ CompleteAt(k, "stored")
  /\ \/ /\ ~storedRow /\ storedRow' = TRUE
        /\ completeCall' = [completeCall EXCEPT ![k].step = "registered"]
        /\ UNCHANGED stored
     \/ /\ stored' = "none"
        /\ completeCall' = [MovedPack(completeCall, "stored", "lost") EXCEPT ![k] = CompleteIdle]
        /\ UNCHANGED storedRow
  /\ UNCHANGED <<uploadStatus, chunkVars, packFile, putCall, aborting,
                 uploadCrashes, uploadHistory>>

CompleteSettle(k) ==
  /\ CompleteAt(k, "registered")
  /\ uploadStatus' = "completed" \/ UNCHANGED uploadStatus
  /\ completeCall' = [completeCall EXCEPT ![k] = CompleteIdle]
  /\ UNCHANGED <<chunkVars, packFile, storeVars, putCall, aborting,
                 uploadCrashes, uploadHistory>>

\* A file cannot be created, read, written or renamed.
CompleteFails(k) ==
  /\ completeCall[k].step \in {"listed", "joining", "opened"}
  /\ completeCall' = [completeCall EXCEPT ![k] = CompleteIdle]
  /\ UNCHANGED <<uploadStatus, chunkVars, packFile, storeVars, putCall, aborting,
                 uploadCrashes, uploadHistory>>

-----------------------------------------------------------------------------
(* Abort, expiry and restart.                                              *)

\* Whatever the session's state: the status first ...
UploadAbort ==
  /\ ~aborting /\ uploadStatus # "gone"
  /\ aborting' = TRUE /\ uploadStatus' = "aborted"
  /\ UNCHANGED <<chunkVars, packFile, storeVars, putCall, completeCall,
                 uploadCrashes, uploadHistory>>

Sweep ==
  /\ sessionDir' = FALSE /\ packFile' = "none" /\ swept' = TRUE
  /\ chunkFile' = [c \in Chunks |-> "none"] /\ chunkTemp' = [c \in Chunks |-> "none"]

\* ... then the directory.
UploadRemove ==
  /\ aborting /\ aborting' = FALSE /\ Sweep
  /\ putCall' = [q \in Puts |-> IF putCall[q].step = "writing" THEN [putCall[q] EXCEPT !.at = "lost"] ELSE putCall[q]]
  /\ completeCall' = MovedPack(completeCall, "pack", "lost")
  /\ UNCHANGED <<uploadStatus, storeVars, uploadCrashes, accepted, reput, contested, overlapped>>

\* The process dies; at its start ReconcileExpired removes a session whose time
\* is over.
UploadCrash ==
  /\ uploadCrashes < UploadCrashes /\ uploadCrashes' = uploadCrashes + 1
  /\ putCall' = [p \in Puts |-> PutIdle] /\ completeCall' = [k \in Completes |-> CompleteIdle]
  /\ aborting' = FALSE
  /\ \/ Sweep /\ uploadStatus' = "gone"
     \/ UNCHANGED <<uploadStatus, chunkVars, packFile, swept>>
  /\ UNCHANGED <<storeVars, accepted, reput, contested, overlapped>>

-----------------------------------------------------------------------------

PutStep(p, c) ==
  \/ PutCreate(p, c) \/ PutWrite(p, c) \/ PutWriteFails(p, c)
  \/ PutClear(p, c) \/ PutRename(p, c) \/ PutSettle(p, c)

CompleteStep(k) ==
  \/ CompleteCreate(k) \/ CompleteAppend(k) \/ CompleteClose(k) \/ CompleteCheck(k)
  \/ CompleteStore(k) \/ CompleteRegister(k) \/ CompleteSettle(k) \/ CompleteFails(k)

UploadNext ==
  \/ \E p \in Puts : PutBegin(p) \/ \E c \in Chunks : PutStep(p, c)
  \/ \E k \in Completes : CompleteBegin(k) \/ CompleteStep(k)
  \/ UploadAbort \/ UploadRemove \/ UploadCrash

UploadSpec == UploadInit /\ [][UploadNext]_uploadVars

-----------------------------------------------------------------------------
(* Properties.                                                             *)

\* A registered package is whole, whatever was put, aborted, repeated or cut
\* off by a crash meanwhile, as long as two Completes were not at work at once.
RegisteredWhole == storedRow => stored = "full" \/ overlapped

\* A chunk that was answered for stays on disk whatever becomes of later puts
\* of the same index, save in the window between Remove and Rename and after
\* two puts have written one .tmp.
ChunkKept ==
  \A c \in accepted : chunkFile[c] \in {"short", "full"} \/ c \in reput \cup contested \/ swept

\* The two together.
UploadSound == RegisteredWhole /\ ChunkKept
==============================================================================
