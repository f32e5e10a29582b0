------------------------- MODULE ObservationBuffers -------------------------
(***************************************************************************)
(* Counters on their way to the database.                                  *)
(*                                                                         *)
(* Requests add to counters in memory, one for each minute and subject; a  *)
(* goroutine takes them out from time to time and adds them to rows, and   *)
(* puts back what could not be written.  Three services do it alike: the   *)
(* protocol metrics and the samples of upstreams write counter after       *)
(* counter, the downloads write all of them in one transaction.  A         *)
(* behaviour has one of them.                                              *)
(***************************************************************************)
EXTENDS Naturals, FiniteSets, Functions

CONSTANTS
  Counters,     \* keys of the buffer
  PendingCap,   \* upstreamHealthMaxPending
  MaxRecorded,  \* bounds: on what requests record,
  MaxFailed,    \* on transactions that fail for no fault of a counter
  MaxEnds       \* and on ends of the process

ASSUME BuffersAssumption ==
  /\ PendingCap \in Nat \ {0} /\ IsFiniteSet(Counters)
  /\ MaxRecorded \in Nat /\ MaxFailed \in Nat /\ MaxEnds \in Nat

VARIABLES
  buffer,       \* the service: "protocol", "downloads" or "health"
  waiting,     \* counts in memory
  taken,        \* counts the goroutine has taken out
  kept,         \* counts in the rows
  gone,         \* counts that are gone: refused, deleted with their repository,
                \* or in memory when a process ended
  recorded,     \* counts requests have reported
  orphaned,     \* counters whose repository is deleted
  process,      \* "up"; "stopping" and, past its last turn, "last" from the signal on
  failed, ends  \* counters of the bounds

bufferVars ==
  <<buffer, waiting, taken, kept, gone, recorded, orphaned, process, failed, ends>>

Zero == [k \in Counters |-> 0]

BufferTypeOK ==
  /\ buffer \in {"protocol", "downloads", "health"}
  /\ \A f \in {waiting, taken, kept, gone, recorded} : f \in [Counters -> 0..MaxRecorded]
  /\ orphaned \subseteq Counters /\ process \in {"up", "stopping", "last"}
  /\ failed \in 0..MaxFailed /\ ends \in 0..MaxEnds

BufferInit ==
  /\ buffer \in {"protocol", "downloads", "health"}
  /\ waiting = Zero /\ taken = Zero /\ kept = Zero /\ gone = Zero /\ recorded = Zero
  /\ orphaned = {} /\ process = "up" /\ failed = 0 /\ ends = 0

Plus(f, g) == [k \in Counters |-> f[k] + g[k]]

Keys(f) == {k \in Counters : f[k] > 0}

\* A request ends; requests end until the process does.
Reported(k) ==
  /\ SumFunctionOnSet(recorded, Counters) < MaxRecorded
  /\ recorded' = [recorded EXCEPT ![k] = @ + 1]
  /\ UNCHANGED <<buffer, taken, kept, orphaned, process, failed, ends>>

Waits(k) == waiting' = [waiting EXCEPT ![k] = @ + 1] /\ UNCHANGED gone

RecordProtocol(k) == buffer = "protocol" /\ Reported(k) /\ Waits(k)

RecordDownload(k) == buffer = "downloads" /\ Reported(k) /\ Waits(k)

\* The samples of upstreams refuse a new counter when there are too many.
RecordSample(k) ==
  /\ buffer = "health" /\ Reported(k)
  /\ IF k \in Keys(waiting) \/ Cardinality(Keys(waiting)) < PendingCap
     THEN Waits(k)
     ELSE gone' = [gone EXCEPT ![k] = @ + 1] /\ UNCHANGED waiting

\* The loop takes everything out.  At the signal it ends; that of the samples
\* takes out what there is once more.
TakeOut ==
  /\ Keys(taken) = {} /\ Keys(waiting) # {}
  /\ \/ process = "up" /\ UNCHANGED process
     \/ process = "stopping" /\ buffer = "health" /\ process' = "last"
  /\ taken' = waiting /\ waiting' = Zero
  /\ UNCHANGED <<buffer, kept, gone, recorded, orphaned, failed, ends>>

\* A mistake: a counter that is written is not crossed out.
AddOneKept(k) ==
  /\ buffer # "downloads" /\ k \in Keys(taken) \ orphaned
  /\ kept' = [kept EXCEPT ![k] = @ + taken[k]]
  /\ UNCHANGED <<buffer, waiting, taken, gone, recorded, orphaned, process, failed, ends>>

\* One counter is added to its row, in an order that the map gives; the foreign
\* key refuses a sample whose repository is deleted.
AddOne(k) ==
  /\ buffer # "downloads" /\ k \in Keys(taken) \ orphaned
  /\ kept' = [kept EXCEPT ![k] = @ + taken[k]]
  /\ taken' = [taken EXCEPT ![k] = 0]
  /\ UNCHANGED <<buffer, waiting, gone, recorded, orphaned, process, failed, ends>>

\* All counters in one transaction.
AddAll ==
  /\ buffer = "downloads" /\ Keys(taken) # {}
  /\ kept' = Plus(kept, taken) /\ taken' = Zero
  /\ UNCHANGED <<buffer, waiting, gone, recorded, orphaned, process, failed, ends>>

\* A statement fails: what is not written yet goes back to what has come
\* meanwhile.
PutBack ==
  /\ Keys(taken) # {}
  /\ \/ Keys(taken) \cap orphaned # {} /\ UNCHANGED failed
     \/ failed < MaxFailed /\ failed' = failed + 1
  /\ waiting' = Plus(waiting, taken) /\ taken' = Zero
  /\ UNCHANGED <<buffer, kept, gone, recorded, orphaned, process, ends>>

\* A repository is deleted, and the rows of its samples with it.
RepositoryGoes(k) ==
  /\ buffer = "health" /\ k \notin orphaned
  /\ orphaned' = orphaned \cup {k}
  /\ gone' = [gone EXCEPT ![k] = @ + kept[k]]
  /\ kept' = [kept EXCEPT ![k] = 0]
  /\ UNCHANGED <<buffer, waiting, taken, recorded, process, failed, ends>>

Signal ==
  /\ process = "up" /\ process' = "stopping"
  /\ UNCHANGED <<buffer, waiting, taken, kept, gone, recorded, orphaned, failed, ends>>

\* The process ends, by a crash, a restart by request, which sends no signal to
\* the loops, or behind the signal, without a wait for the loops.
ProcessEnds ==
  /\ ends < MaxEnds /\ ends' = ends + 1
  /\ gone' = Plus(gone, Plus(waiting, taken))
  /\ waiting' = Zero /\ taken' = Zero /\ process' = "up"
  /\ UNCHANGED <<buffer, kept, recorded, orphaned, failed>>

FlushStep == TakeOut \/ (\E k \in Counters : AddOne(k)) \/ AddAll \/ PutBack

BufferNext ==
  \/ \E k \in Counters : RecordProtocol(k) \/ RecordDownload(k) \/ RecordSample(k)
  \/ \E k \in Counters : RepositoryGoes(k)
  \/ FlushStep \/ Signal \/ ProcessEnds

BufferSpec == BufferInit /\ [][BufferNext]_bufferVars

-----------------------------------------------------------------------------
(* Properties *)

\* Every count is in one place: none is written twice and none is lost while a
\* process runs, whatever fails between two counters and whatever requests add
\* meanwhile (Flush of the three services).
CountsKept ==
  \A k \in Counters : recorded[k] = waiting[k] + taken[k] + kept[k] + gone[k]

\* No sample outlives its repository (AddSamples).
NoOrphanRow == \A k \in orphaned : kept[k] = 0

BuffersSound == CountsKept /\ NoOrphanRow

\* In a process that runs on and when requests pause, counts reach their rows,
\* also past a sample that the foreign key refuses for ever.
CountsArrive == <>[](process = "up" => Keys(waiting) \cup Keys(taken) \subseteq orphaned)
=============================================================================
