---------------------------- MODULE SearchIndex ----------------------------
(***************************************************************************)
(* The full-text index of asset paths and its backfill.                    *)
(*                                                                         *)
(* The index is derived from the asset rows.  Every write of the server    *)
(* keeps it in step inside the transaction that changes the rows, but for  *)
(* the rows that a deleted repository takes along.  Rows that are older    *)
(* than the index are written by a backfill that goes up the ids in short  *)
(* transactions, remembers how far it got, and marks the index complete    *)
(* after a comparison with the rows.  A rebuild empties the index and      *)
(* starts the backfill over while the server serves searches.  A search    *)
(* uses the index only if it reads complete.                               *)
(***************************************************************************)
EXTENDS Integers, FiniteSets

CONSTANTS
  MaxId,          \* ids an instance gives out; they are never used again
  Legacy,         \* rows that were there before the index
  BatchSize,      \* rows per batch
  MaxTries,       \* tries of a batch
  Searches,       \* search and suggest requests
  MaxRebuilds,    \* bound on rebuilds
  MaxSlips,       \* bound on rows that something else than the server inserts
  MaxErrors,      \* bound on batches that cannot be written
  IndexRestarts   \* bound on restarts

ASSUME IndexAssumption ==
  /\ MaxId \in Nat /\ Legacy \in Nat /\ Legacy <= MaxId
  /\ BatchSize \in Nat \ {0} /\ MaxTries \in Nat \ {0}
  /\ MaxRebuilds \in Nat /\ MaxSlips \in Nat /\ MaxErrors \in Nat /\ IndexRestarts \in Nat

Ids == 1 .. MaxId

VARIABLES
  assets,     \* ids of the asset rows
  nextId,     \* the id AUTOINCREMENT gives next
  docs,       \* rowids in asset_path_fts
  lastId,     \* search_index_state.last_id
  complete,   \* search_index_state.completed_at is set
  fill,       \* the goroutine that holds the running slot
  starting,   \* the goroutine of Start has not claimed the slot yet
  search,     \* what each search is doing, and what its answer left out
  slipped,    \* rows that were inserted behind the server's back
  rebuilds, indexErrors, indexRestarts

indexVars == <<assets, nextId, docs, lastId, complete, fill, starting, search, slipped,
               rebuilds, indexErrors, indexRestarts>>

NoFill == [step |-> "none", after |-> 0, upper |-> 0, batch |-> {}, tries |-> 0]

FillSteps == {"none", "clearing", "loading", "fetching", "writing", "comparing", "marking",
              "demoting"}

SearchSteps == {"none", "plain", "indexed"}

IndexTypeOK ==
  /\ assets \subseteq Ids /\ docs \subseteq Ids /\ slipped \subseteq Ids
  /\ nextId \in 1 .. MaxId + 1 /\ lastId \in 0 .. MaxId
  /\ complete \in BOOLEAN /\ starting \in BOOLEAN
  /\ fill \in [step : FillSteps, after : 0 .. MaxId, upper : 0 .. MaxId,
               batch : SUBSET Ids, tries : 0 .. MaxTries - 1]
  /\ search \in [Searches -> [step : SearchSteps, missed : SUBSET Ids]]
  /\ rebuilds \in 0 .. MaxRebuilds /\ indexErrors \in 0 .. MaxErrors
  /\ indexRestarts \in 0 .. IndexRestarts

IndexInit ==
  /\ assets = 1 .. Legacy /\ nextId = Legacy + 1
  /\ docs = {} /\ lastId = 0 /\ complete = FALSE
  /\ fill = NoFill /\ starting = TRUE
  /\ search = [s \in Searches |-> [step |-> "none", missed |-> {}]]
  /\ slipped = {} /\ rebuilds = 0 /\ indexErrors = 0 /\ indexRestarts = 0

Missing == assets \ docs

FillVars == <<lastId, complete, fill, starting, rebuilds, indexErrors>>

RowVars == <<assets, nextId, slipped>>

-----------------------------------------------------------------------------
(* Writes of the rows.  One that leaves the path alone leaves the index.   *)

\* A new path: the row and its index entry in one transaction.
InsertAsset ==
  /\ nextId <= MaxId /\ nextId' = nextId + 1
  /\ assets' = assets \cup {nextId} /\ docs' = docs \cup {nextId}
  /\ UNCHANGED <<FillVars, search, slipped, indexRestarts>>

\* The entry goes first, then the row, in one transaction.
DeleteAsset(i) ==
  /\ i \in assets
  /\ assets' = assets \ {i} /\ docs' = docs \ {i}
  /\ UNCHANGED <<FillVars, search, nextId, slipped, indexRestarts>>

\* A mistake: the moved row keeps the entry of its old id.
MoveAssetKeepsEntry(i) ==
  /\ i \in assets /\ nextId <= MaxId /\ nextId' = nextId + 1
  /\ assets' = (assets \ {i}) \cup {nextId}
  /\ UNCHANGED <<FillVars, docs, search, slipped, indexRestarts>>

\* A move, or the return of a before image, is a new row for an old one.
MoveAsset(i) ==
  /\ i \in assets /\ nextId <= MaxId /\ nextId' = nextId + 1
  /\ assets' = (assets \ {i}) \cup {nextId} /\ docs' = (docs \ {i}) \cup {nextId}
  /\ UNCHANGED <<FillVars, search, slipped, indexRestarts>>

\* A repository goes with its rows, whose entries stay.
CascadeDelete(rows) ==
  /\ rows # {} /\ assets' = assets \ rows
  /\ UNCHANGED <<FillVars, docs, search, nextId, slipped, indexRestarts>>

\* A script of an operator inserts a row and no entry.
SlipIn ==
  /\ Cardinality(slipped) < MaxSlips
  /\ nextId <= MaxId /\ nextId' = nextId + 1
  /\ assets' = assets \cup {nextId} /\ slipped' = slipped \cup {nextId}
  /\ UNCHANGED <<FillVars, docs, search, indexRestarts>>

-----------------------------------------------------------------------------
(* The backfill and the rebuild share one running slot *)

FillGoes(step) == fill' = [fill EXCEPT !.step = step]

\* Run gives up if the slot is taken: a rebuild is under way.
StartFill ==
  /\ starting /\ starting' = FALSE
  /\ IF fill = NoFill THEN FillGoes("loading") ELSE UNCHANGED fill
  /\ UNCHANGED <<RowVars, docs, lastId, complete, search, rebuilds, indexErrors,
                 indexRestarts>>

Rebuild ==
  /\ fill = NoFill /\ rebuilds < MaxRebuilds /\ rebuilds' = rebuilds + 1
  /\ FillGoes("clearing")
  /\ UNCHANGED <<RowVars, docs, lastId, complete, starting, search, indexErrors,
                 indexRestarts>>

\* A mistake: the backfill after it goes on from the old watermark.
ClearKeepsWatermark ==
  /\ fill.step = "clearing"
  /\ docs' = {} /\ complete' = FALSE
  /\ FillGoes("loading")
  /\ UNCHANGED <<RowVars, lastId, starting, search, rebuilds, indexErrors, indexRestarts>>

\* Reset: the entries, the watermark and the mark go in one transaction.
Clear ==
  /\ fill.step = "clearing"
  /\ docs' = {} /\ lastId' = 0 /\ complete' = FALSE
  /\ FillGoes("loading")
  /\ UNCHANGED <<RowVars, starting, search, rebuilds, indexErrors, indexRestarts>>

\* A complete index is only compared; otherwise the upper bound is taken
\* once and the backfill goes on from the watermark.
LoadState ==
  /\ fill.step = "loading"
  /\ IF complete
     THEN IF Missing = {} THEN fill' = NoFill ELSE FillGoes("demoting")
     ELSE \E upper \in Ids \cup {0} :
            /\ upper \in assets \cup {0} /\ \A i \in assets : i <= upper
            /\ fill' = [step |-> "fetching", after |-> lastId, upper |-> upper,
                        batch |-> {}, tries |-> 0]
  /\ UNCHANGED <<RowVars, docs, lastId, complete, starting, search, rebuilds, indexErrors,
                 indexRestarts>>

Due == {i \in assets : i > fill.after /\ i <= fill.upper}

\* The first rows in the order of their ids.
FirstDue ==
  {i \in Due : Cardinality({k \in Due : k <= i}) <= BatchSize}

FetchBatch ==
  /\ fill.step = "fetching"
  /\ fill' = IF Due = {} THEN [fill EXCEPT !.step = "comparing"]
             ELSE [fill EXCEPT !.step = "writing", !.batch = FirstDue]
  /\ UNCHANGED <<RowVars, docs, lastId, complete, starting, search, rebuilds, indexErrors,
                 indexRestarts>>

\* The entries and the watermark in one transaction.  A row that went since
\* it was fetched gets an entry all the same.
WriteBatch ==
  /\ fill.step = "writing"
  /\ docs' = docs \cup fill.batch
  /\ \E last \in fill.batch :
       /\ \A i \in fill.batch : i <= last
       /\ lastId' = last
       /\ fill' = [fill EXCEPT !.step = "fetching", !.after = last, !.batch = {},
                               !.tries = 0]
  /\ UNCHANGED <<RowVars, complete, starting, search, rebuilds, indexErrors, indexRestarts>>

\* The batch is fetched again, or the goroutine gives up until a restart.
BatchFails ==
  /\ fill.step \in {"fetching", "writing"}
  /\ indexErrors < MaxErrors /\ indexErrors' = indexErrors + 1
  /\ fill' = IF fill.tries + 1 = MaxTries THEN NoFill
             ELSE [fill EXCEPT !.step = "fetching", !.batch = {}, !.tries = @ + 1]
  /\ UNCHANGED <<RowVars, docs, lastId, complete, starting, search, rebuilds, indexRestarts>>

\* checkDrift: a missing row keeps the index from being marked complete.
Compare ==
  /\ fill.step = "comparing"
  /\ FillGoes(IF Missing = {} THEN "marking" ELSE "demoting")
  /\ UNCHANGED <<RowVars, docs, lastId, complete, starting, search, rebuilds, indexErrors,
                 indexRestarts>>

MarkCompleted ==
  /\ fill.step = "marking"
  /\ complete' = TRUE /\ fill' = NoFill
  /\ UNCHANGED <<RowVars, docs, lastId, starting, search, rebuilds, indexErrors,
                 indexRestarts>>

\* The watermark stays where it is.
DemoteOnMissing ==
  /\ fill.step = "demoting"
  /\ complete' = FALSE /\ fill' = NoFill
  /\ UNCHANGED <<RowVars, docs, lastId, starting, search, rebuilds, indexErrors,
                 indexRestarts>>

\* The comparison, the mark or the state cannot be read or written.
FillGivesUp ==
  /\ fill.step \in {"clearing", "loading", "comparing", "marking", "demoting"}
  /\ indexErrors < MaxErrors /\ indexErrors' = indexErrors + 1
  /\ fill' = NoFill
  /\ UNCHANGED <<RowVars, docs, lastId, complete, starting, search, rebuilds, indexRestarts>>

IndexRestart ==
  /\ indexRestarts < IndexRestarts /\ indexRestarts' = indexRestarts + 1
  /\ fill' = NoFill /\ starting' = TRUE
  /\ search' = [s \in Searches |-> [search[s] EXCEPT !.step = "none"]]
  /\ UNCHANGED <<RowVars, docs, lastId, complete, rebuilds, indexErrors>>

-----------------------------------------------------------------------------
(* Searches *)

\* SearchIndexReady, before the query.
SearchBegins(s) ==
  /\ search[s].step = "none"
  /\ search' = [search EXCEPT ![s] = [step |-> IF complete THEN "indexed" ELSE "plain",
                                      missed |-> {}]]
  /\ UNCHANGED <<RowVars, docs, FillVars, indexRestarts>>

\* A mistake: the query trusts what was read before it.
SearchQueriesBlind(s) ==
  /\ search[s].step # "none"
  /\ search' = [search EXCEPT ![s] =
                  [step |-> "none",
                   missed |-> IF search[s].step = "indexed" THEN Missing ELSE {}]]
  /\ UNCHANGED <<RowVars, docs, FillVars, indexRestarts>>

\* searchSnapshot reads the mark again in the snapshot of the query.  All
\* of the matching rows are looked at if there is no index to use; an entry
\* without a row finds nothing.
SearchQueries(s) ==
  /\ search[s].step # "none"
  /\ search' = [search EXCEPT ![s] =
                  [step |-> "none",
                   missed |-> IF search[s].step = "indexed" /\ complete
                              THEN Missing ELSE {}]]
  /\ UNCHANGED <<RowVars, docs, FillVars, indexRestarts>>

-----------------------------------------------------------------------------

FillStep ==
  \/ StartFill \/ Clear \/ LoadState \/ FetchBatch \/ WriteBatch \/ Compare
  \/ MarkCompleted \/ DemoteOnMissing

IndexNext ==
  \/ InsertAsset \/ SlipIn
  \/ \E i \in Ids : DeleteAsset(i) \/ MoveAsset(i)
  \/ \E rows \in SUBSET assets : CascadeDelete(rows)
  \/ FillStep \/ Rebuild \/ BatchFails \/ FillGivesUp \/ IndexRestart
  \/ \E s \in Searches : SearchBegins(s) \/ SearchQueries(s)

IndexSpec == IndexInit /\ [][IndexNext]_indexVars

-----------------------------------------------------------------------------
(* Properties *)

\* An index that reads complete has an entry of every row the server wrote,
\* while writes go on, through interrupted backfills, failing batches and
\* rebuilds (backfill, WriteBatch, Reset, UpsertWithTime, applyMutationItem).
CompleteIsWhole == complete => Missing \subseteq slipped

\* Below the watermark nothing is missing: a backfill that goes on from it
\* skips no row (WriteBatch).
WatermarkTrue == \A i \in Missing : i <= lastId => i \in slipped

\* No answer leaves out a row that is there when its query runs, whenever a
\* rebuild empties the index (searchSnapshot).
SearchesSeeAll == \A s \in Searches : search[s].missed \subseteq slipped

\* A backfill or a rebuild that began ends in a complete index, across
\* restarts and whatever is written meanwhile, unless it met an error or a
\* row behind the server's back (Start, Rebuild, backfill).
IndexCompletes ==
  (starting \/ fill # NoFill) ~> (complete \/ slipped # {} \/ indexErrors > 0)

\* A complete index is whole, and no backfill and no answer leaves a row out.
IndexSound == CompleteIsWhole /\ WatermarkTrue /\ SearchesSeeAll
=============================================================================
