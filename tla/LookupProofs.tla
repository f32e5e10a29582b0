--------------------------- MODULE LookupProofs -----------------------------
(***************************************************************************)
(* What the answers that are not read from the rows of the assets keep, for*)
(* every value of the constants: the search index, the cache of negatives, *)
(* and the documents of npm, of PyPI and NuGet, and of Cargo.              *)
(***************************************************************************)
EXTENDS SearchIndex, NegativeCache, NpmPackage, PackageIndex, CargoCrate,
        FiniteSetTheorems, TLAPS

-----------------------------------------------------------------------------
(***************************************************************************)
(* SearchIndex.                                                            *)
(* For any number of rows, batches, searches, rebuilds and restarts: a     *)
(* complete index is whole, nothing is missing below the watermark, and no *)
(* answer leaves a row out.                                                *)
(***************************************************************************)

\* The backfill goes on from the watermark that is stored.
AtWatermark == fill.step \in {"fetching", "writing"} => fill.after = lastId

\* A fetched batch leaves no hole below its last row that is not filled already.
BatchDense ==
  fill.step = "writing" =>
    \A i \in assets, last \in fill.batch :
      lastId < i /\ i <= last => i \in fill.batch \cup docs \cup slipped

\* A comparison without a finding stays true until the mark is set.
ComparisonHolds == fill.step = "marking" => Missing \subseteq slipped

FillTrue == AtWatermark /\ BatchDense /\ ComparisonHolds

IndexTrue == IndexTypeOK /\ FillTrue /\ IndexSound

LEMMA IndexTrueAtFirst == IndexInit => IndexTrue
<1> SUFFICES ASSUME IndexInit PROVE IndexTrue
  OBVIOUS
<1> USE IndexAssumption
<1>1. IndexTypeOK
  <2>1. assets \subseteq Ids /\ nextId \in 1 .. MaxId + 1 BY DEF IndexInit, Ids
  <2>2. NoFill \in [step : FillSteps, after : 0 .. MaxId, upper : 0 .. MaxId,
                    batch : SUBSET Ids, tries : 0 .. MaxTries - 1]
    BY DEF NoFill, FillSteps
  <2>3. search \in [Searches -> [step : SearchSteps, missed : SUBSET Ids]]
    BY DEF IndexInit, SearchSteps
  <2>4. lastId \in 0 .. MaxId /\ rebuilds \in 0 .. MaxRebuilds /\ indexErrors \in 0 .. MaxErrors
          /\ indexRestarts \in 0 .. IndexRestarts
    BY DEF IndexInit
  <2>5. docs \subseteq Ids /\ slipped \subseteq Ids /\ complete \in BOOLEAN /\ starting \in BOOLEAN
          /\ fill = NoFill
    BY Zenon DEF IndexInit
  <2> QED BY <2>1, <2>2, <2>3, <2>4, <2>5, Zenon DEF IndexTypeOK
<1>2. FillTrue
  BY DEF IndexInit, FillTrue, AtWatermark, BatchDense, ComparisonHolds, NoFill
<1>3. IndexSound
  BY DEF IndexInit, IndexSound, CompleteIsWhole, WatermarkTrue, SearchesSeeAll, Missing
<1> QED BY <1>1, <1>2, <1>3 DEF IndexTrue

LEMMA DueFinite == IndexTypeOK => Due \subseteq Ids /\ IsFiniteSet(Due)
<1> SUFFICES ASSUME IndexTypeOK PROVE Due \subseteq Ids /\ IsFiniteSet(Due)
  OBVIOUS
<1>1. Due \subseteq Ids BY DEF Due, IndexTypeOK
<1>2. IsFiniteSet(Ids) BY FS_Interval, IndexAssumption DEF Ids
<1> QED BY <1>1, <1>2, FS_Subset

\* The first due rows are closed downwards: a due row below one of them is one
\* of them.
LEMMA FirstDueDense ==
  ASSUME IndexTypeOK, NEW last \in FirstDue, NEW i \in Due, i <= last
  PROVE  i \in FirstDue
<1> DEFINE upTo(k) == {m \in Due : m <= k}
<1>1. Due \subseteq Ids /\ IsFiniteSet(Due) BY DueFinite
<1>2. upTo(i) \subseteq upTo(last)
  <2>1. last \in Due BY DEF FirstDue
  <2>2. Due \subseteq Int BY <1>1 DEF Ids
  <2>3. ASSUME NEW m \in Due, m <= i PROVE m <= last BY <2>1, <2>2, <2>3
  <2> QED BY <2>3
<1>3. IsFiniteSet(upTo(last)) BY <1>1, FS_Subset
<1>4. Cardinality(upTo(i)) <= Cardinality(upTo(last))
  <2> HIDE DEF upTo
  <2> QED BY <1>2, <1>3, FS_Subset
<1>5. Cardinality(upTo(last)) <= BatchSize BY DEF FirstDue
<1>6. Cardinality(upTo(i)) \in Nat /\ Cardinality(upTo(last)) \in Nat
  <2>1. IsFiniteSet(upTo(i)) BY <1>2, <1>3, FS_Subset
  <2> HIDE DEF upTo
  <2> QED BY <2>1, <1>3, FS_CardinalityType
<1>7. Cardinality(upTo(i)) <= BatchSize BY <1>4, <1>5, <1>6, IndexAssumption
<1> QED BY <1>7 DEF FirstDue

-----------------------------------------------------------------------------
(* Writes of the rows *)

RowStep ==
  \/ InsertAsset \/ SlipIn
  \/ \E i \in Ids : DeleteAsset(i) \/ MoveAsset(i)
  \/ \E rows \in SUBSET assets : CascadeDelete(rows)

\* A write of the server leaves no row without an entry that had one, and only
\* a script adds one.
LEMMA RowsMiss ==
  ASSUME IndexTypeOK, RowStep
  PROVE  /\ slipped \subseteq slipped' /\ UNCHANGED <<FillVars, search, indexRestarts>>
         /\ Missing' \subseteq Missing \cup slipped'
         /\ \A i \in assets' : i \in assets \/ i \in docs' \cup slipped'
         /\ \A i \in assets \cap assets' : i \in docs => i \in docs'
<1> USE DEF Missing, FillVars
<1>1. CASE InsertAsset BY <1>1 DEF InsertAsset
<1>2. CASE SlipIn BY <1>2 DEF SlipIn
<1>3. ASSUME NEW i \in Ids, DeleteAsset(i) PROVE (Missing' \subseteq Missing)
        /\ assets' = assets \ {i} /\ docs' = docs \ {i} /\ UNCHANGED <<FillVars, search, slipped, indexRestarts>>
  BY <1>3 DEF DeleteAsset
<1>4. ASSUME NEW i \in Ids, MoveAsset(i) PROVE (Missing' \subseteq Missing)
        /\ assets' = (assets \ {i}) \cup {nextId} /\ docs' = (docs \ {i}) \cup {nextId}
        /\ UNCHANGED <<FillVars, search, slipped, indexRestarts>>
  BY <1>4 DEF MoveAsset
<1>5. ASSUME NEW rows \in SUBSET assets, CascadeDelete(rows) PROVE (Missing' \subseteq Missing)
        /\ assets' = assets \ rows /\ docs' = docs /\ UNCHANGED <<FillVars, search, slipped, indexRestarts>>
  BY <1>5 DEF CascadeDelete
<1> QED BY <1>1, <1>2, <1>3, <1>4, <1>5 DEF RowStep, InsertAsset, SlipIn

LEMMA RowTypes == IndexTypeOK /\ RowStep => IndexTypeOK'
<1> SUFFICES ASSUME IndexTypeOK, RowStep PROVE IndexTypeOK'
  OBVIOUS
<1> USE IndexAssumption DEF IndexTypeOK, Ids, FillVars
<1>1. CASE InsertAsset BY <1>1 DEF InsertAsset
<1>2. CASE SlipIn BY <1>2 DEF SlipIn
<1>3. ASSUME NEW i \in Ids, DeleteAsset(i) PROVE IndexTypeOK' BY <1>3 DEF DeleteAsset
<1>4. ASSUME NEW i \in Ids, MoveAsset(i) PROVE IndexTypeOK' BY <1>4 DEF MoveAsset
<1>5. ASSUME NEW rows \in SUBSET assets, CascadeDelete(rows) PROVE IndexTypeOK'
  BY <1>5 DEF CascadeDelete
<1> QED BY <1>1, <1>2, <1>3, <1>4, <1>5 DEF RowStep

LEMMA RowsKeepTrue == IndexTrue /\ RowStep => IndexTrue'
<1> SUFFICES ASSUME IndexTrue, RowStep PROVE IndexTrue'
  OBVIOUS
<1>1. IndexTypeOK /\ IndexTypeOK' BY RowTypes DEF IndexTrue
<1>2. /\ slipped \subseteq slipped' /\ UNCHANGED <<lastId, complete, fill, search>>
      /\ Missing' \subseteq Missing \cup slipped'
      /\ \A i \in assets' : i \in assets \/ i \in docs' \cup slipped'
      /\ \A i \in assets \cap assets' : i \in docs => i \in docs'
  BY <1>1, RowsMiss DEF FillVars
<1>3. FillTrue'
  <2>1. AtWatermark' BY <1>2 DEF IndexTrue, FillTrue, AtWatermark
  <2>2. BatchDense' BY <1>2 DEF IndexTrue, FillTrue, BatchDense
  <2>3. ComparisonHolds' BY <1>2 DEF IndexTrue, FillTrue, ComparisonHolds
  <2> QED BY <2>1, <2>2, <2>3 DEF FillTrue
<1>4. IndexSound'
  <2>1. CompleteIsWhole' BY <1>2 DEF IndexTrue, IndexSound, CompleteIsWhole
  <2>2. WatermarkTrue' BY <1>2 DEF IndexTrue, IndexSound, WatermarkTrue
  <2>3. SearchesSeeAll' BY <1>2 DEF IndexTrue, IndexSound, SearchesSeeAll
  <2> QED BY <2>1, <2>2, <2>3 DEF IndexSound
<1> QED BY <1>1, <1>3, <1>4 DEF IndexTrue
-----------------------------------------------------------------------------
(* The backfill *)

\* A step of the backfill that changes nothing but where the goroutine is, and
\* maybe clears the mark.
LEMMA QuietFill ==
  ASSUME IndexTrue, UNCHANGED <<RowVars, docs, lastId, search>>,
         complete' \in {complete, FALSE},
         fill'.step \notin {"fetching", "writing"},
         fill'.step = "marking" => Missing \subseteq slipped
  PROVE  FillTrue' /\ IndexSound'
<1> USE DEF IndexTrue, FillTrue, IndexSound, RowVars
<1>1. AtWatermark' BY DEF AtWatermark
<1>2. BatchDense' BY DEF BatchDense
<1>3. ComparisonHolds' BY DEF ComparisonHolds, Missing
<1>4. CompleteIsWhole' BY DEF CompleteIsWhole, Missing
<1>5. WatermarkTrue' BY DEF WatermarkTrue, Missing
<1>6. SearchesSeeAll' BY DEF SearchesSeeAll
<1> QED BY <1>1, <1>2, <1>3, <1>4, <1>5, <1>6

LEMMA StartKeeps == IndexTrue /\ StartFill => FillTrue' /\ IndexSound'
<1> SUFFICES ASSUME IndexTrue, StartFill PROVE FillTrue' /\ IndexSound'
  OBVIOUS
<1>1. CASE fill = NoFill
  BY <1>1, QuietFill DEF StartFill, FillGoes, NoFill, IndexTrue, IndexTypeOK
<1>2. CASE fill # NoFill
  <2>1. UNCHANGED <<assets, slipped, docs, lastId, complete, fill, search>>
    BY <1>2 DEF StartFill, RowVars
  <2> QED
    BY <2>1 DEF IndexTrue, FillTrue, IndexSound, AtWatermark, BatchDense, ComparisonHolds,
                CompleteIsWhole, WatermarkTrue, SearchesSeeAll, Missing
<1> QED BY <1>1, <1>2

LEMMA ClearKeeps == IndexTrue /\ Clear => FillTrue' /\ IndexSound'
<1> SUFFICES ASSUME IndexTrue, Clear PROVE FillTrue' /\ IndexSound'
  OBVIOUS
<1>1. fill'.step = "loading" BY DEF Clear, FillGoes, IndexTrue, IndexTypeOK
<1>2. FillTrue' BY <1>1 DEF FillTrue, AtWatermark, BatchDense, ComparisonHolds
<1>3. CompleteIsWhole' BY DEF Clear, CompleteIsWhole
<1>4. WatermarkTrue'
  BY IndexAssumption DEF Clear, WatermarkTrue, Missing, RowVars, IndexTrue, IndexTypeOK, Ids
<1>5. SearchesSeeAll' BY DEF Clear, SearchesSeeAll, RowVars, IndexTrue, IndexSound
<1> QED BY <1>2, <1>3, <1>4, <1>5 DEF IndexSound

LEMMA LoadKeeps == IndexTrue /\ LoadState => FillTrue' /\ IndexSound'
<1> SUFFICES ASSUME IndexTrue, LoadState PROVE FillTrue' /\ IndexSound'
  OBVIOUS
<1>1. CASE complete
  BY <1>1, QuietFill DEF LoadState, FillGoes, NoFill, IndexTrue, IndexTypeOK
<1>2. CASE ~complete
  <2>1. fill'.step = "fetching" /\ fill'.after = lastId
        /\ UNCHANGED <<assets, slipped, docs, lastId, complete, search>>
    BY <1>2 DEF LoadState, RowVars
  <2> QED
    BY <2>1 DEF IndexTrue, FillTrue, IndexSound, AtWatermark, BatchDense, ComparisonHolds,
                CompleteIsWhole, WatermarkTrue, SearchesSeeAll, Missing
<1> QED BY <1>1, <1>2

LEMMA FetchKeeps == IndexTrue /\ FetchBatch => FillTrue' /\ IndexSound'
<1> SUFFICES ASSUME IndexTrue, FetchBatch PROVE FillTrue' /\ IndexSound'
  OBVIOUS
<1>1. CASE Due = {}
  BY <1>1, QuietFill DEF FetchBatch, IndexTrue, IndexTypeOK
<1>2. CASE Due # {}
  <2>1. /\ fill'.step = "writing" /\ fill'.batch = FirstDue /\ fill'.after = fill.after
        /\ UNCHANGED <<assets, slipped, docs, lastId, complete, search>>
    BY <1>2 DEF FetchBatch, RowVars, IndexTrue, IndexTypeOK
  <2>2. fill.after = lastId BY DEF FetchBatch, IndexTrue, FillTrue, AtWatermark
  <2>3. ASSUME NEW i \in assets, NEW last \in FirstDue, lastId < i, i <= last
        PROVE  i \in FirstDue
    <3>1. last \in Due BY DEF FirstDue
    <3>2. i \in Due
      BY <2>2, <2>3, <3>1, IndexAssumption DEF Due, IndexTrue, IndexTypeOK, Ids
    <3> QED BY <2>3, <3>2, FirstDueDense DEF IndexTrue
  <2>4. BatchDense' BY <2>1, <2>3 DEF BatchDense
  <2> QED
    BY <2>1, <2>2, <2>4 DEF IndexTrue, FillTrue, IndexSound, AtWatermark, ComparisonHolds,
                CompleteIsWhole, WatermarkTrue, SearchesSeeAll, Missing
<1> QED BY <1>1, <1>2

\* The watermark moves to the last row of the batch; the rows between the old
\* one and it are in the batch or were filled before.
LEMMA WriteKeeps == IndexTrue /\ WriteBatch => FillTrue' /\ IndexSound'
<1> SUFFICES ASSUME IndexTrue, WriteBatch PROVE FillTrue' /\ IndexSound'
  OBVIOUS
<1>1. PICK last \in fill.batch :
        /\ lastId' = last
        /\ fill' = [fill EXCEPT !.step = "fetching", !.after = last, !.batch = {}, !.tries = 0]
  BY DEF WriteBatch
<1>2. /\ docs' = docs \cup fill.batch /\ fill.step = "writing"
      /\ UNCHANGED <<assets, slipped, complete, search>>
  BY DEF WriteBatch, RowVars
<1>3. fill'.step = "fetching" /\ fill'.after = lastId'
  BY <1>1 DEF IndexTrue, IndexTypeOK
<1>4. FillTrue' BY <1>3 DEF FillTrue, AtWatermark, BatchDense, ComparisonHolds
<1>5. Missing' \subseteq Missing BY <1>2 DEF Missing
<1>6. CompleteIsWhole' BY <1>2, <1>5 DEF CompleteIsWhole, IndexTrue, IndexSound
<1>7. SearchesSeeAll' BY <1>2 DEF SearchesSeeAll, IndexTrue, IndexSound
<1>8. WatermarkTrue'
  <2> SUFFICES ASSUME NEW i \in Missing', i <= last PROVE i \in slipped
    BY <1>1, <1>2 DEF WatermarkTrue
  <2>1. i \in Missing /\ i \in assets /\ i \notin docs /\ i \notin fill.batch
    BY <1>2, <1>5 DEF Missing
  <2>2. CASE i <= lastId BY <2>1, <2>2 DEF IndexTrue, IndexSound, WatermarkTrue
  <2>3. CASE lastId < i
    BY <1>2, <2>1, <2>3 DEF IndexTrue, FillTrue, BatchDense
  <2>4. lastId \in Nat /\ i \in Nat BY <2>1, IndexAssumption DEF IndexTrue, IndexTypeOK, Ids
  <2> QED BY <2>2, <2>3, <2>4
<1> QED BY <1>4, <1>6, <1>7, <1>8 DEF IndexSound

LEMMA BatchFailsKeeps == IndexTrue /\ BatchFails => FillTrue' /\ IndexSound'
<1> SUFFICES ASSUME IndexTrue, BatchFails PROVE FillTrue' /\ IndexSound'
  OBVIOUS
<1>1. CASE fill' = NoFill
  <2>1. UNCHANGED <<RowVars, docs, lastId, complete, search>> BY Zenon DEF BatchFails
  <2>2. fill'.step = "none" BY <1>1 DEF NoFill
  <2> QED BY <2>1, <2>2, QuietFill
<1>2. CASE fill' # NoFill
  <2>1. fill' = [fill EXCEPT !.step = "fetching", !.batch = {}, !.tries = @ + 1]
        /\ fill.step \in {"fetching", "writing"}
        /\ UNCHANGED <<assets, slipped, docs, lastId, complete, search>>
    BY <1>2, Zenon DEF BatchFails, RowVars
  <2>2. fill'.step = "fetching" /\ fill'.after = fill.after
    BY <2>1 DEF IndexTrue, IndexTypeOK
  <2> QED
    BY <2>1, <2>2 DEF IndexTrue, FillTrue, IndexSound, AtWatermark, BatchDense,
                ComparisonHolds, CompleteIsWhole, WatermarkTrue, SearchesSeeAll, Missing
<1> QED BY <1>1, <1>2

LEMMA MarkKeeps == IndexTrue /\ MarkCompleted => FillTrue' /\ IndexSound'
<1> SUFFICES ASSUME IndexTrue, MarkCompleted PROVE FillTrue' /\ IndexSound'
  OBVIOUS
<1>1. Missing \subseteq slipped
  BY DEF MarkCompleted, IndexTrue, FillTrue, ComparisonHolds
<1>2. UNCHANGED <<assets, slipped, docs, lastId, search>> /\ fill' = NoFill
  BY DEF MarkCompleted, RowVars
<1> QED
  BY <1>1, <1>2 DEF IndexTrue, FillTrue, IndexSound, AtWatermark, BatchDense, ComparisonHolds,
                    CompleteIsWhole, WatermarkTrue, SearchesSeeAll, Missing, NoFill

-----------------------------------------------------------------------------
(* Types of the steps that are no writes of rows, and the theorem *)

LEMMA FirstDueRows == IndexTypeOK => FirstDue \subseteq Ids
BY DueFinite DEF FirstDue

LEMMA FillTypesStep == IndexTypeOK /\ (FillStep \/ Rebuild \/ BatchFails \/ FillGivesUp) => IndexTypeOK'
<1> SUFFICES ASSUME IndexTypeOK, FillStep \/ Rebuild \/ BatchFails \/ FillGivesUp
             PROVE IndexTypeOK'
  OBVIOUS
<1> DEFINE FillType == fill' \in [step : FillSteps, after : 0 .. MaxId, upper : 0 .. MaxId,
                                  batch : SUBSET Ids, tries : 0 .. MaxTries - 1]
<1>1. FillType
  <2> USE IndexAssumption DEF FillSteps, FillGoes
  <2>0. fill \in [step : FillSteps, after : 0 .. MaxId, upper : 0 .. MaxId,
                  batch : SUBSET Ids, tries : 0 .. MaxTries - 1]
        /\ lastId \in 0 .. MaxId
    BY DEF IndexTypeOK
  <2>1. NoFill \in [step : FillSteps, after : 0 .. MaxId, upper : 0 .. MaxId,
                    batch : SUBSET Ids, tries : 0 .. MaxTries - 1]
    BY DEF NoFill
  <2>2. CASE StartFill BY <2>0, <2>2 DEF StartFill
  <2>3. CASE Clear BY <2>0, <2>3 DEF Clear
  <2>4. CASE LoadState
    <3>1. CASE complete BY <2>0, <2>1, <2>4, <3>1 DEF LoadState
    <3>2. CASE ~complete
      <4>1. PICK upper \in Ids \cup {0} :
              fill' = [step |-> "fetching", after |-> lastId, upper |-> upper,
                       batch |-> {}, tries |-> 0]
        BY <2>4, <3>2 DEF LoadState
      <4> QED BY <2>0, <4>1 DEF Ids
    <3> QED BY <3>1, <3>2
  <2>5. CASE FetchBatch BY <2>0, <2>5, FirstDueRows DEF FetchBatch
  <2>6. CASE WriteBatch
    <3>1. PICK last \in fill.batch :
            fill' = [fill EXCEPT !.step = "fetching", !.after = last, !.batch = {}, !.tries = 0]
      BY <2>6 DEF WriteBatch
    <3>2. last \in 0 .. MaxId BY <2>0 DEF Ids
    <3>3. fill' = [step |-> "fetching", after |-> last, upper |-> fill.upper, batch |-> {},
                   tries |-> 0]
      BY <2>0, <3>1
    <3> QED BY <2>0, <3>2, <3>3
  <2>7. CASE Compare BY <2>0, <2>7 DEF Compare
  <2>8. CASE MarkCompleted BY <2>1, <2>8 DEF MarkCompleted
  <2>9. CASE DemoteOnMissing BY <2>1, <2>9 DEF DemoteOnMissing
  <2>10. CASE Rebuild BY <2>0, <2>10 DEF Rebuild
  <2>11. CASE BatchFails
    <3>1. CASE fill.tries + 1 = MaxTries BY <2>1, <2>11, <3>1 DEF BatchFails
    <3>2. CASE fill.tries + 1 # MaxTries
      <4>1. fill.tries + 1 \in 0 .. MaxTries - 1 BY <2>0, <3>2
      <4>2. fill' = [fill EXCEPT !.step = "fetching", !.batch = {}, !.tries = @ + 1]
        BY <2>11, <3>2 DEF BatchFails
      <4> QED BY <2>0, <4>1, <4>2
    <3> QED BY <3>1, <3>2
  <2>12. CASE FillGivesUp BY <2>1, <2>12 DEF FillGivesUp
  <2> QED BY <2>2, <2>3, <2>4, <2>5, <2>6, <2>7, <2>8, <2>9, <2>10, <2>11, <2>12 DEF FillStep
<1>2. UNCHANGED RowVars /\ docs' \in SUBSET Ids
  BY DEF FillStep, StartFill, Clear, LoadState, FetchBatch, WriteBatch, Compare, MarkCompleted,
         DemoteOnMissing, Rebuild, BatchFails, FillGivesUp, IndexTypeOK
<1>3. lastId' \in 0 .. MaxId
  <2>1. CASE WriteBatch
    BY <2>1, IndexAssumption DEF WriteBatch, IndexTypeOK, Ids
  <2>2. CASE ~WriteBatch
    BY <2>2, IndexAssumption
       DEF FillStep, StartFill, Clear, LoadState, FetchBatch, Compare, MarkCompleted,
           DemoteOnMissing, Rebuild, BatchFails, FillGivesUp, IndexTypeOK
  <2> QED BY <2>1, <2>2
<1>4. complete' \in BOOLEAN /\ starting' \in BOOLEAN
  BY Zenon DEF FillStep, StartFill, Clear, LoadState, FetchBatch, WriteBatch, Compare,
         MarkCompleted, DemoteOnMissing, Rebuild, BatchFails, FillGivesUp, IndexTypeOK
<1>5. rebuilds' \in 0 .. MaxRebuilds /\ indexErrors' \in 0 .. MaxErrors
  <2>1. /\ rebuilds' = rebuilds \/ (rebuilds < MaxRebuilds /\ rebuilds' = rebuilds + 1)
        /\ indexErrors' = indexErrors \/ (indexErrors < MaxErrors /\ indexErrors' = indexErrors + 1)
    BY Zenon DEF FillStep, StartFill, Clear, LoadState, FetchBatch, WriteBatch, Compare,
         MarkCompleted, DemoteOnMissing, Rebuild, BatchFails, FillGivesUp
  <2>2. rebuilds \in 0 .. MaxRebuilds /\ indexErrors \in 0 .. MaxErrors BY DEF IndexTypeOK
  <2> QED BY <2>1, <2>2, IndexAssumption
<1>6. search' = search /\ indexRestarts' = indexRestarts
  BY DEF FillStep, StartFill, Clear, LoadState, FetchBatch, WriteBatch, Compare, MarkCompleted,
         DemoteOnMissing, Rebuild, BatchFails, FillGivesUp
<1>7. /\ assets' \subseteq Ids /\ slipped' \subseteq Ids /\ nextId' \in 1 .. MaxId + 1
      /\ indexRestarts' \in 0 .. IndexRestarts
      /\ search' \in [Searches -> [step : SearchSteps, missed : SUBSET Ids]]
  BY <1>2, <1>6 DEF RowVars, IndexTypeOK
<1> QED BY <1>1, <1>2, <1>3, <1>4, <1>5, <1>7, Zenon DEF IndexTypeOK

LEMMA SearchesKeep ==
  IndexTrue /\ (IndexRestart \/ \E s \in Searches : SearchBegins(s) \/ SearchQueries(s))
    => IndexTrue'
<1> SUFFICES ASSUME IndexTrue,
                    IndexRestart \/ \E s \in Searches : SearchBegins(s) \/ SearchQueries(s)
             PROVE IndexTrue'
  OBVIOUS
<1> USE DEF IndexTrue
<1>1. CASE IndexRestart
  <2>1. FillTrue' /\ IndexSound'
    <3>1. /\ fill' = NoFill /\ UNCHANGED <<assets, slipped, docs, lastId, complete>>
          /\ \A s \in Searches : search'[s].missed = search[s].missed
      BY <1>1 DEF IndexRestart, RowVars, IndexTypeOK
    <3> QED
      BY <3>1 DEF FillTrue, IndexSound, AtWatermark, BatchDense, ComparisonHolds,
                  CompleteIsWhole, WatermarkTrue, SearchesSeeAll, Missing, NoFill
  <2>2. IndexTypeOK'
    <3>1. /\ fill' \in [step : FillSteps, after : 0 .. MaxId, upper : 0 .. MaxId,
                        batch : SUBSET Ids, tries : 0 .. MaxTries - 1]
          /\ search' \in [Searches -> [step : SearchSteps, missed : SUBSET Ids]]
          /\ indexRestarts' \in 0 .. IndexRestarts
      BY <1>1, IndexAssumption DEF IndexRestart, NoFill, FillSteps, SearchSteps, IndexTypeOK
    <3>2. starting' \in BOOLEAN
          /\ UNCHANGED <<assets, slipped, nextId, docs, lastId, complete, rebuilds, indexErrors>>
      BY <1>1, Zenon DEF IndexRestart, RowVars
    <3> QED BY <3>1, <3>2, Zenon DEF IndexTypeOK
  <2> QED BY <2>1, <2>2
<1>2. ASSUME NEW s \in Searches, SearchBegins(s) \/ SearchQueries(s) PROVE IndexTrue'
  <2>1. UNCHANGED <<assets, nextId, slipped, docs, lastId, complete, fill, starting, rebuilds,
                    indexErrors, indexRestarts>>
    BY <1>2 DEF SearchBegins, SearchQueries, RowVars, FillVars
  <2>2. Missing \subseteq Ids /\ (complete => Missing \subseteq slipped)
    BY DEF Missing, IndexTypeOK, IndexSound, CompleteIsWhole
  <2>3. PICK of : search' = [search EXCEPT ![s] = of] /\ of.step \in SearchSteps
                  /\ of = [step |-> of.step, missed |-> of.missed]
                  /\ of.missed \subseteq Ids \cap slipped
    <3>1. CASE SearchBegins(s)
      <4> DEFINE of == [step |-> IF complete THEN "indexed" ELSE "plain", missed |-> {}]
      <4>1. search' = [search EXCEPT ![s] = of] BY <3>1 DEF SearchBegins
      <4>2. of.step \in SearchSteps /\ of = [step |-> of.step, missed |-> of.missed]
            /\ of.missed \subseteq Ids \cap slipped
        BY DEF SearchSteps
      <4> HIDE DEF of
      <4> QED BY <4>1, <4>2
    <3>2. CASE SearchQueries(s)
      <4> DEFINE left == IF search[s].step = "indexed" /\ complete THEN Missing ELSE {}
                 of   == [step |-> "none", missed |-> left]
      <4>1. search' = [search EXCEPT ![s] = of] BY <3>2 DEF SearchQueries
      <4>2. left \subseteq Ids \cap slipped BY <2>2
      <4> HIDE DEF left
      <4>3. of.step \in SearchSteps /\ of = [step |-> of.step, missed |-> of.missed]
            /\ of.missed \subseteq Ids \cap slipped
        BY <4>2 DEF SearchSteps
      <4> HIDE DEF of
      <4> QED BY <4>1, <4>3
    <3> QED BY <1>2, <3>1, <3>2
  <2>4. of \in [step : SearchSteps, missed : SUBSET Ids] BY <2>3
  <2>5. search' \in [Searches -> [step : SearchSteps, missed : SUBSET Ids]]
    BY <2>3, <2>4 DEF IndexTypeOK
  <2>6. SearchesSeeAll'
    BY <2>1, <2>3 DEF SearchesSeeAll, IndexSound, IndexTypeOK
  <2>7. FillTrue' /\ CompleteIsWhole' /\ WatermarkTrue'
    BY <2>1 DEF FillTrue, IndexSound, AtWatermark, BatchDense, ComparisonHolds,
                CompleteIsWhole, WatermarkTrue, Missing
  <2>8. IndexTypeOK' BY <2>1, <2>5, Zenon DEF IndexTypeOK
  <2> QED BY <2>6, <2>7, <2>8 DEF IndexSound
<1> QED BY <1>1, <1>2

LEMMA FillKeepsTrue ==
  IndexTrue /\ (FillStep \/ Rebuild \/ BatchFails \/ FillGivesUp) => IndexTrue'
<1> SUFFICES ASSUME IndexTrue, FillStep \/ Rebuild \/ BatchFails \/ FillGivesUp
             PROVE FillTrue' /\ IndexSound'
  BY FillTypesStep DEF IndexTrue
<1>1. CASE StartFill BY <1>1, StartKeeps
<1>2. CASE Clear BY <1>2, ClearKeeps
<1>3. CASE LoadState BY <1>3, LoadKeeps
<1>4. CASE FetchBatch BY <1>4, FetchKeeps
<1>5. CASE WriteBatch BY <1>5, WriteKeeps
<1>6. CASE Compare
  BY <1>6, QuietFill DEF Compare, FillGoes, IndexTrue, IndexTypeOK
<1>7. CASE MarkCompleted BY <1>7, MarkKeeps
<1>8. CASE DemoteOnMissing
  BY <1>8, QuietFill DEF DemoteOnMissing, NoFill
<1>9. CASE Rebuild
  BY <1>9, QuietFill DEF Rebuild, FillGoes, IndexTrue, IndexTypeOK
<1>10. CASE BatchFails BY <1>10, BatchFailsKeeps
<1>11. CASE FillGivesUp BY <1>11, QuietFill DEF FillGivesUp, NoFill
<1> QED BY <1>1, <1>2, <1>3, <1>4, <1>5, <1>6, <1>7, <1>8, <1>9, <1>10, <1>11 DEF FillStep

\* IndexTrue holds in every state of IndexSpec.
LEMMA IndexStaysTrue == IndexSpec => []IndexTrue
<1>1. IndexInit => IndexTrue BY IndexTrueAtFirst
<1>2. IndexTrue /\ [IndexNext]_indexVars => IndexTrue'
  <2> SUFFICES ASSUME IndexTrue, [IndexNext]_indexVars PROVE IndexTrue'
    OBVIOUS
  <2>1. CASE RowStep BY <2>1, RowsKeepTrue
  <2>2. CASE FillStep \/ Rebuild \/ BatchFails \/ FillGivesUp BY <2>2, FillKeepsTrue
  <2>3. CASE IndexRestart \/ \E s \in Searches : SearchBegins(s) \/ SearchQueries(s)
    BY <2>3, SearchesKeep
  <2>4. CASE UNCHANGED indexVars
    <3>1. IndexTypeOK' BY <2>4, Zenon DEF indexVars, IndexTrue, IndexTypeOK
    <3> QED
      BY <2>4, <3>1 DEF indexVars, IndexTrue, FillTrue, IndexSound, AtWatermark, BatchDense,
                  ComparisonHolds, CompleteIsWhole, WatermarkTrue, SearchesSeeAll, Missing
  <2> QED BY <2>1, <2>2, <2>3, <2>4 DEF IndexNext, RowStep
<1> QED BY <1>1, <1>2, PTL DEF IndexSpec

\* search_index_service.go and searchSnapshot: whatever is written, fails or is
\* rebuilt meanwhile, an index that reads complete is whole, a backfill skips
\* nothing and an answer leaves nothing out but what a script has slipped in.
THEOREM IndexAlwaysSound == IndexSpec => []IndexSound
<1>1. IndexTrue => IndexSound BY DEF IndexTrue
<1> QED BY <1>1, IndexStaysTrue, PTL

-----------------------------------------------------------------------------
(***************************************************************************)
(* NegativeCache.                                                          *)
(* What the 404 cache never hides.  A member that has had the artifact all *)
(* along never answers with a 404 that counts, so no read can be sure, and *)
(* the entry of the group is never written; a copy that is there is hidden *)
(* only by a 404 that was under way.                                       *)
(***************************************************************************)

\* The proxies whose upstream has had the artifact all along.
Lasting == Proxies \cap always

\* No 404 of such a proxy is under way, cached, or taken for a confirmation.
NeverAnswered ==
  \A p \in Lasting :
    /\ entry[p] = NoEntry /\ flight[p].step # "answered404"
    /\ \A f \in Packagers : packager[f][p] # "answered404"
    /\ \A r \in Readers : ask[r][p] # "confirmed"

\* A read of the group that is not unsure has asked every proxy.
AsksAll ==
  \A r \in Readers : reader[r] = "asking" =>
    unsure[r] \/ \A p \in Proxies : ask[r][p] # "none"

\* A read of the group meets a hosted member that has had the artifact all along,
\* unless the read of its copy fails.
HostedIsMet ==
  misreads = 0 /\ Hosted \in always =>
    \A r \in Readers :
      /\ reader[r] = "looking" => unsure[r] \/ Hosted \in unlooked[r]
      /\ reader[r] = "asking" => unsure[r]

\* The inductive invariant.
HiddenNowhere ==
  NegativeTypeOK /\ NeverAnswered /\ AsksAll /\ HostedIsMet /\ NothingHidden

\* A read that ends leaves everything of its type (ReadEnds).
LEMMA EndsTyped ==
  ASSUME NegativeTypeOK, NEW r \in Readers, ReadEnds(r)
  PROVE  /\ reader' \in [Readers -> ReaderSteps] /\ unlooked' \in [Readers -> SUBSET Members]
         /\ unsure' \in [Readers -> BOOLEAN] /\ ask' \in [Readers -> [Proxies -> AskSteps]]
<1>1. [p \in Proxies |-> "none"] \in [Proxies -> AskSteps]
  BY DEF AskSteps
<1>2. ask' \in [Readers -> [Proxies -> AskSteps]]
  BY <1>1 DEF ReadEnds, NegativeTypeOK
<1>3. reader' \in [Readers -> ReaderSteps] /\ unlooked' \in [Readers -> SUBSET Members]
  BY DEF ReadEnds, Goes, NegativeTypeOK, ReaderSteps
<1>4. unsure' \in [Readers -> BOOLEAN]
  BY DEF ReadEnds, NegativeTypeOK
<1> QED BY <1>2, <1>3, <1>4

\* A question to a proxy goes on to another of its steps.
LEMMA AskTyped ==
  ASSUME NegativeTypeOK, NEW r \in Readers, NEW p \in Proxies, NEW step \in AskSteps, AskGoes(r, p, step)
  PROVE  ask' \in [Readers -> [Proxies -> AskSteps]]
<1>1. [ask[r] EXCEPT ![p] = step] \in [Proxies -> AskSteps]
  BY DEF NegativeTypeOK
<1>2. ask' = [ask EXCEPT ![r] = [ask[r] EXCEPT ![p] = step]]
  BY DEF AskGoes
<1> QED BY <1>1, <1>2 DEF NegativeTypeOK

\* The landing of a flight leaves questions and flights of their types.
LEMMA LandsTyped ==
  ASSUME NegativeTypeOK, NEW p \in Proxies, NEW mine \in AskSteps, NEW theirs \in AskSteps, Lands(p, mine, theirs)
  PROVE  ask' \in [Readers -> [Proxies -> AskSteps]] /\ flight' \in [Proxies -> FlightBusy \cup {NoFlight}]
<1>1. ASSUME NEW r \in Readers
      PROVE  [ask[r] EXCEPT ![p] = IF @ = "leads" THEN mine ELSE IF @ = "waits" THEN theirs ELSE @]
               \in [Proxies -> AskSteps]
  BY DEF NegativeTypeOK
<1>2. ask' \in [Readers -> [Proxies -> AskSteps]]
  BY <1>1 DEF Lands
<1>3. flight' \in [Proxies -> FlightBusy \cup {NoFlight}]
  BY DEF Lands, NegativeTypeOK
<1> QED BY <1>2, <1>3

\* A fetch for the NuGet metadata goes on, and no other with it.
LEMMA PackagerTyped ==
  ASSUME NegativeTypeOK, NEW f \in Packagers, NEW p \in Proxies, NEW step \in PackagerSteps,
         PackagerGoes(f, p, step)
  PROVE  /\ packager' \in [Packagers -> [Proxies -> PackagerSteps]]
         /\ packager'[f][p] = step
         /\ \A g \in Packagers, q \in Proxies : packager'[g][q] = packager[g][q] \/ (g = f /\ q = p)
<1>1. packager' = [packager EXCEPT ![f] = [packager[f] EXCEPT ![p] = step]]
  BY DEF PackagerGoes
<1>2. packager[f] \in [Proxies -> PackagerSteps]
  BY DEF NegativeTypeOK
<1>3. [packager[f] EXCEPT ![p] = step] \in [Proxies -> PackagerSteps]
  BY <1>2
<1>4. packager'[f] = [packager[f] EXCEPT ![p] = step] /\ \A g \in Packagers \ {f} : packager'[g] = packager[g]
  BY <1>1 DEF NegativeTypeOK
<1>5. packager' \in [Packagers -> [Proxies -> PackagerSteps]]
  BY <1>1, <1>3 DEF NegativeTypeOK
<1> QED BY <1>2, <1>4, <1>5

\* Every step keeps the types.
LEMMA HidingTypesStep ==
  ASSUME NegativeTypeOK, [NegativeNext]_negativeVars
  PROVE  NegativeTypeOK'
<1> USE NegativeAssumption DEF sourceVars, readVars, NegativeTypeOK, Members, Ages, NoEntry,
     ReaderSteps, AskSteps, NoFlight, FlightBusy, PackagerSteps
<1>1. ASSUME NEW k \in Proxies \cup {Group}, EntryAges(k) \/ EntryGoes(k) PROVE NegativeTypeOK'
  <2>1. entry[k] \in 0..3 /\ entry' \in [Proxies \cup {Group} -> 0..3]
    BY <1>1 DEF EntryAges, EntryGoes
  <2>2. UNCHANGED <<sourceVars, readVars, flight, packager, misreads, late>>
    BY <1>1 DEF EntryAges, EntryGoes
  <2> QED BY <2>1, <2>2
<1>2. ASSUME NEW r \in Readers, ReadBegin(r) PROVE NegativeTypeOK'
  <2>1. UNCHANGED <<sourceVars, unsure, ask, flight, packager, misreads, late>>
    BY <1>2 DEF ReadBegin
  <2>2. entry' \in [Proxies \cup {Group} -> Ages \cup {NoEntry}]
    BY <1>2 DEF ReadBegin, Hits
  <2>3. reader' \in [Readers -> ReaderSteps]
    BY <1>2 DEF ReadBegin, Goes
  <2>4. unlooked' \in [Readers -> SUBSET Members]
    BY <1>2 DEF ReadBegin
  <2> QED BY <2>1, <2>2, <2>3, <2>4
<1>3. ASSUME NEW r \in Readers, ReadGivesUp(r) PROVE NegativeTypeOK'
  BY <1>3 DEF ReadGivesUp, ReadEnds, Goes
<1>4. ASSUME NEW r \in Readers, ReadFork(r) PROVE NegativeTypeOK'
  BY <1>4 DEF ReadFork, Goes
<1>5. ASSUME NEW r \in Readers, ReadSettle(r) PROVE NegativeTypeOK'
  BY <1>5 DEF ReadSettle, ReadEnds, Goes, Adds
<1>6. ASSUME NEW r \in Readers, NEW m \in Members, ReadLook(r, m) PROVE NegativeTypeOK'
  <2>1. UNCHANGED <<sourceVars, entry, flight, packager, late>>
    BY <1>6 DEF ReadLook
  <2>2. misreads' \in 0..MaxMisreads
    BY <1>6 DEF ReadLook
  <2>3. CASE ReadEnds(r)
    BY <2>1, <2>2, <2>3, EndsTyped
  <2>4. CASE UNCHANGED <<reader, ask>>
    <3>1. unlooked' \in [Readers -> SUBSET Members]
      BY <1>6 DEF ReadLook, ReadEnds
    <3>2. unsure' \in [Readers -> BOOLEAN]
      BY <1>6 DEF ReadLook, ReadEnds
    <3> QED BY <2>1, <2>2, <2>4, <3>1, <3>2
  <2> QED BY <1>6, <2>3, <2>4 DEF ReadLook
<1>7. ASSUME NEW r \in Readers, NEW p \in Proxies, ReadDirect(r, p) PROVE NegativeTypeOK'
  BY <1>7 DEF ReadDirect, Goes
<1>8. ASSUME NEW r \in Readers, NEW p \in Proxies, AskEntry(r, p) PROVE NegativeTypeOK'
  BY <1>8 DEF AskEntry, Hits, AskGoes, Live
<1>9. ASSUME NEW r \in Readers, NEW p \in Proxies, AskLocal(r, p) PROVE NegativeTypeOK'
  <2>1. UNCHANGED <<sourceVars, entry, reader, unlooked, unsure, packager, misreads, late>>
    BY <1>9 DEF AskLocal
  <2>2. ask' \in [Readers -> [Proxies -> AskSteps]]
    BY <1>9, AskTyped DEF AskLocal
  <2>3. [step |-> "sent", by |-> r] \in FlightBusy
    OBVIOUS
  <2>4. flight' \in [Proxies -> FlightBusy \cup {NoFlight}]
    BY <1>9, <2>3 DEF AskLocal
  <2> QED BY <2>1, <2>2, <2>4
<1>10. ASSUME NEW r \in Readers, NEW p \in Proxies, AskAgain(r, p) PROVE NegativeTypeOK'
  BY <1>10 DEF AskAgain, AskGoes
<1>11. ASSUME NEW p \in Proxies, FlightAsks(p) PROVE NegativeTypeOK'
  <2>1. UNCHANGED <<sourceVars, entry, reader, unlooked, unsure, packager, misreads, late>>
    BY <1>11 DEF FlightAsks
  <2>2. ask' \in [Readers -> [Proxies -> AskSteps]]
    BY <1>11, LandsTyped DEF FlightAsks
  <2>3. flight[p] \in FlightBusy
    BY <1>11 DEF FlightAsks
  <2>4. [flight[p] EXCEPT !.step = "got"] \in FlightBusy /\ [flight[p] EXCEPT !.step = "answered404"] \in FlightBusy
    BY <2>3
  <2>5. ASSUME Lands(p, "reread", "reread") PROVE flight' \in [Proxies -> FlightBusy \cup {NoFlight}]
    BY <2>5, LandsTyped
  <2>6. ASSUME FlightGoes(p, IF p \in atSource THEN "got" ELSE "answered404")
        PROVE  flight' \in [Proxies -> FlightBusy \cup {NoFlight}]
    BY <2>4, <2>6 DEF FlightGoes
  <2>7. flight' \in [Proxies -> FlightBusy \cup {NoFlight}]
    BY <1>11, <2>5, <2>6 DEF FlightAsks
  <2> QED BY <2>1, <2>2, <2>7
<1>12. ASSUME NEW p \in Proxies, FlightFails(p) PROVE NegativeTypeOK'
  BY <1>12 DEF FlightFails, Lands
<1>13. ASSUME NEW p \in Proxies, FlightMisses(p) PROVE NegativeTypeOK'
  <2>1. UNCHANGED <<sourceVars, reader, unlooked, unsure, packager, misreads>>
    BY <1>13 DEF FlightMisses
  <2>2. entry' \in [Proxies \cup {Group} -> Ages \cup {NoEntry}]
    BY <1>13 DEF FlightMisses, Adds
  <2>3. late' \subseteq Proxies
    BY <1>13 DEF FlightMisses, NotesLate
  <2>4. ask' \in [Readers -> [Proxies -> AskSteps]] /\ flight' \in [Proxies -> FlightBusy \cup {NoFlight}]
    BY <1>13, LandsTyped DEF FlightMisses
  <2> QED BY <2>1, <2>2, <2>3, <2>4
<1>14. ASSUME NEW p \in Proxies, FlightStores(p) PROVE NegativeTypeOK'
  BY <1>14 DEF FlightStores, FlightGoes
<1>15. ASSUME NEW p \in Proxies, FlightEnds(p) PROVE NegativeTypeOK'
  BY <1>15 DEF FlightEnds, Removes, Lands
<1>16. ASSUME NEW p \in Proxies, CopyDeleted(p) PROVE NegativeTypeOK'
  BY <1>16 DEF CopyDeleted, Removes
<1>17. ASSUME NEW p \in Proxies, NEW f \in Packagers, PackagerBegins(f, p) PROVE NegativeTypeOK'
  BY <1>17 DEF PackagerBegins, PackagerGoes
<1>18. ASSUME NEW p \in Proxies, NEW f \in Packagers, PackagerAsks(f, p) PROVE NegativeTypeOK'
  <2>1. packager' \in [Packagers -> [Proxies -> PackagerSteps]]
    BY <1>18, PackagerTyped DEF PackagerAsks
  <2> QED BY <1>18, <2>1 DEF PackagerAsks
<1>19. ASSUME NEW p \in Proxies, NEW f \in Packagers, PackagerEnds(f, p) PROVE NegativeTypeOK'
  <2>1. packager' \in [Packagers -> [Proxies -> PackagerSteps]]
    BY <1>19, PackagerTyped DEF PackagerEnds
  <2>2. entry' \in [Proxies \cup {Group} -> Ages \cup {NoEntry}]
    BY <1>19 DEF PackagerEnds, Adds, Removes
  <2>3. local' \subseteq Proxies /\ late' \subseteq Proxies
    BY <1>19 DEF PackagerEnds, NotesLate
  <2>4. UNCHANGED <<atSource, always, readVars, flight, misreads>>
    BY <1>19 DEF PackagerEnds
  <2> QED BY <2>1, <2>2, <2>3, <2>4
<1>20. ASSUME NEW m \in Members, Published(m) PROVE NegativeTypeOK'
  BY <1>20 DEF Published
<1>21. ASSUME NEW m \in Members, Withdrawn(m) PROVE NegativeTypeOK'
  BY <1>21 DEF Withdrawn
<1>22. CASE UNCHANGED negativeVars
  BY <1>22 DEF negativeVars
<1> HIDE DEF sourceVars, readVars, NegativeTypeOK, Members, Ages, NoEntry, ReaderSteps, AskSteps,
     NoFlight, FlightBusy, PackagerSteps
<1> QED BY <1>1, <1>2, <1>3, <1>4, <1>5, <1>6, <1>7, <1>8, <1>9, <1>10, <1>11, <1>12, <1>13, <1>14,
     <1>15, <1>16, <1>17, <1>18, <1>19, <1>20, <1>21, <1>22 DEF NegativeNext, FlightStep

\* No step brings a 404 of a proxy whose upstream has had the artifact all along.
LEMMA AnswersStep ==
  ASSUME NegativeTypeOK, NeverAnswered, [NegativeNext]_negativeVars
  PROVE  NeverAnswered'
<1> USE NegativeAssumption DEF sourceVars, readVars, NegativeTypeOK, NeverAnswered, Lasting,
     NoEntry, NoFlight, FlightBusy, Ages
<1>1. ASSUME NEW k \in Proxies \cup {Group}, EntryAges(k) \/ EntryGoes(k) PROVE NeverAnswered'
  BY <1>1 DEF EntryAges, EntryGoes
<1>2. ASSUME NEW r \in Readers, ReadBegin(r) PROVE NeverAnswered'
  BY <1>2 DEF ReadBegin, Hits, Goes, Live
<1>3. ASSUME NEW r \in Readers, ReadGivesUp(r) PROVE NeverAnswered'
  BY <1>3 DEF ReadGivesUp, ReadEnds, Goes
<1>4. ASSUME NEW r \in Readers, ReadFork(r) PROVE NeverAnswered'
  BY <1>4 DEF ReadFork, Goes
<1>5. ASSUME NEW r \in Readers, ReadSettle(r) PROVE NeverAnswered'
  BY <1>5 DEF ReadSettle, ReadEnds, Goes, Adds
<1>6. ASSUME NEW r \in Readers, NEW m \in Members, ReadLook(r, m) PROVE NeverAnswered'
  <2>1. UNCHANGED <<sourceVars, entry, flight, packager>>
    BY <1>6 DEF ReadLook
  <2>2. \A s \in Readers, q \in Proxies : ask'[s][q] = ask[s][q] \/ ask'[s][q] = "none"
    BY <1>6 DEF ReadLook, ReadEnds
  <2> QED BY ONLY <2>1, <2>2, NeverAnswered
<1>7. ASSUME NEW r \in Readers, NEW p \in Proxies, ReadDirect(r, p) PROVE NeverAnswered'
  BY <1>7 DEF ReadDirect, Goes
<1>8. ASSUME NEW r \in Readers, NEW p \in Proxies, AskEntry(r, p) PROVE NeverAnswered'
  BY <1>8 DEF AskEntry, Hits, AskGoes, Live
<1>9. ASSUME NEW r \in Readers, NEW p \in Proxies, AskLocal(r, p) PROVE NeverAnswered'
  BY <1>9 DEF AskLocal, AskGoes
<1>10. ASSUME NEW r \in Readers, NEW p \in Proxies, AskAgain(r, p) PROVE NeverAnswered'
  BY <1>10 DEF AskAgain, AskGoes
<1>11. ASSUME NEW p \in Proxies, FlightAsks(p) PROVE NeverAnswered'
  BY <1>11 DEF FlightAsks, FlightGoes, Lands
<1>12. ASSUME NEW p \in Proxies, FlightFails(p) PROVE NeverAnswered'
  BY <1>12 DEF FlightFails, Lands
<1>13. ASSUME NEW p \in Proxies, FlightMisses(p) PROVE NeverAnswered'
  BY <1>13 DEF FlightMisses, Adds, NotesLate, Lands
<1>14. ASSUME NEW p \in Proxies, FlightStores(p) PROVE NeverAnswered'
  BY <1>14 DEF FlightStores, FlightGoes
<1>15. ASSUME NEW p \in Proxies, FlightEnds(p) PROVE NeverAnswered'
  BY <1>15 DEF FlightEnds, Removes, Lands
<1>16. ASSUME NEW p \in Proxies, CopyDeleted(p) PROVE NeverAnswered'
  BY <1>16 DEF CopyDeleted, Removes
<1>17. ASSUME NEW p \in Proxies, NEW f \in Packagers, PackagerBegins(f, p) PROVE NeverAnswered'
  BY <1>17 DEF PackagerBegins, PackagerGoes
<1>18. ASSUME NEW p \in Proxies, NEW f \in Packagers, PackagerAsks(f, p) PROVE NeverAnswered'
  <2>1. UNCHANGED <<sourceVars, entry, readVars, flight>>
    BY <1>18 DEF PackagerAsks
  <2>2. ASSUME NEW g \in Packagers, NEW q \in Proxies
        PROVE  packager'[g][q] # "answered404" \/ packager'[g][q] = packager[g][q] \/ q \notin atSource
    BY <1>18 DEF PackagerAsks, PackagerGoes, PackagerSteps
  <2> QED BY ONLY <2>1, <2>2, NeverAnswered, NegativeTypeOK
<1>19. ASSUME NEW p \in Proxies, NEW f \in Packagers, PackagerEnds(f, p) PROVE NeverAnswered'
  <2>1. UNCHANGED <<atSource, always, readVars, flight>>
    BY <1>19 DEF PackagerEnds
  <2>2. ASSUME NEW g \in Packagers, NEW q \in Proxies
        PROVE  packager'[g][q] # "answered404" \/ packager'[g][q] = packager[g][q]
    BY <1>19, PackagerTyped DEF PackagerEnds, PackagerSteps
  <2>3. ASSUME NEW q \in Lasting PROVE entry'[q] = NoEntry
    BY <1>19, <2>1 DEF PackagerEnds, Adds, Removes
  <2> QED BY <2>1, <2>2, <2>3
<1>20. ASSUME NEW m \in Members, Published(m) PROVE NeverAnswered'
  BY <1>20 DEF Published
<1>21. ASSUME NEW m \in Members, Withdrawn(m) PROVE NeverAnswered'
  BY <1>21 DEF Withdrawn
<1>22. CASE UNCHANGED negativeVars
  BY <1>22 DEF negativeVars
<1> HIDE DEF sourceVars, readVars, NegativeTypeOK, NeverAnswered, Lasting, NoEntry, NoFlight,
     FlightBusy, Ages
<1> QED BY <1>1, <1>2, <1>3, <1>4, <1>5, <1>6, <1>7, <1>8, <1>9, <1>10, <1>11, <1>12, <1>13, <1>14,
     <1>15, <1>16, <1>17, <1>18, <1>19, <1>20, <1>21, <1>22 DEF NegativeNext, FlightStep

\* No step makes a read of the group sure that has not asked every proxy.
LEMMA AsksStep ==
  ASSUME NegativeTypeOK, AsksAll, [NegativeNext]_negativeVars
  PROVE  AsksAll'
<1> USE DEF sourceVars, readVars, NegativeTypeOK, AsksAll
<1>1. ASSUME NEW k \in Proxies \cup {Group}, EntryAges(k) \/ EntryGoes(k) PROVE AsksAll'
  BY <1>1 DEF EntryAges, EntryGoes
<1>2. ASSUME NEW r \in Readers, ReadBegin(r) PROVE AsksAll'
  BY <1>2 DEF ReadBegin, Hits, Goes, Live
<1>3. ASSUME NEW r \in Readers, ReadGivesUp(r) PROVE AsksAll'
  BY <1>3 DEF ReadGivesUp, ReadEnds, Goes
<1>4. ASSUME NEW r \in Readers, ReadFork(r) PROVE AsksAll'
  <2>1. reader' = [reader EXCEPT ![r] = "asking"]
    BY <1>4 DEF ReadFork, Goes
  <2>2. ASSUME NEW s \in Readers, s # r PROVE unsure'[s] = unsure[s] /\ ask'[s] = ask[s]
    BY <1>4, <2>2 DEF ReadFork
  <2>3. PICK blocked \in SUBSET Proxies :
          /\ unsure' = [unsure EXCEPT ![r] = @ \/ blocked # {}]
          /\ ask' = [ask EXCEPT ![r] = [p \in Proxies |-> IF p \in blocked THEN "none" ELSE "begun"]]
    BY <1>4 DEF ReadFork
  <2>4. unsure'[r] \/ \A p \in Proxies : ask'[r][p] # "none"
    <3>1. CASE blocked = {}
      BY <2>3, <3>1
    <3>2. CASE blocked # {}
      BY <2>3, <3>2
    <3> QED BY <3>1, <3>2
  <2> QED BY <2>1, <2>2, <2>4
<1>5. ASSUME NEW r \in Readers, ReadSettle(r) PROVE AsksAll'
  BY <1>5 DEF ReadSettle, ReadEnds, Goes, Adds
<1>6. ASSUME NEW r \in Readers, NEW m \in Members, ReadLook(r, m) PROVE AsksAll'
  BY <1>6 DEF ReadLook, ReadEnds, Goes
<1>7. ASSUME NEW r \in Readers, NEW p \in Proxies, ReadDirect(r, p) PROVE AsksAll'
  BY <1>7 DEF ReadDirect, Goes
<1>8. ASSUME NEW r \in Readers, NEW p \in Proxies, AskEntry(r, p) PROVE AsksAll'
  BY <1>8 DEF AskEntry, Hits, AskGoes, Live
<1>9. ASSUME NEW r \in Readers, NEW p \in Proxies, AskLocal(r, p) PROVE AsksAll'
  BY <1>9 DEF AskLocal, AskGoes
<1>10. ASSUME NEW r \in Readers, NEW p \in Proxies, AskAgain(r, p) PROVE AsksAll'
  BY <1>10 DEF AskAgain, AskGoes
<1>11. ASSUME NEW p \in Proxies, FlightAsks(p) PROVE AsksAll'
  BY <1>11 DEF FlightAsks, FlightGoes, Lands
<1>12. ASSUME NEW p \in Proxies, FlightFails(p) PROVE AsksAll'
  BY <1>12 DEF FlightFails, Lands
<1>13. ASSUME NEW p \in Proxies, FlightMisses(p) PROVE AsksAll'
  BY <1>13 DEF FlightMisses, Adds, NotesLate, Lands
<1>14. ASSUME NEW p \in Proxies, FlightStores(p) PROVE AsksAll'
  BY <1>14 DEF FlightStores, FlightGoes
<1>15. ASSUME NEW p \in Proxies, FlightEnds(p) PROVE AsksAll'
  BY <1>15 DEF FlightEnds, Removes, Lands
<1>16. ASSUME NEW p \in Proxies, CopyDeleted(p) PROVE AsksAll'
  BY <1>16 DEF CopyDeleted, Removes
<1>17. ASSUME NEW p \in Proxies, NEW f \in Packagers, PackagerBegins(f, p) PROVE AsksAll'
  BY <1>17 DEF PackagerBegins, PackagerGoes
<1>18. ASSUME NEW p \in Proxies, NEW f \in Packagers, PackagerAsks(f, p) PROVE AsksAll'
  BY <1>18 DEF PackagerAsks, PackagerGoes
<1>19. ASSUME NEW p \in Proxies, NEW f \in Packagers, PackagerEnds(f, p) PROVE AsksAll'
  BY <1>19 DEF PackagerEnds, PackagerGoes, Adds, Removes, NotesLate
<1>20. ASSUME NEW m \in Members, Published(m) PROVE AsksAll'
  BY <1>20 DEF Published
<1>21. ASSUME NEW m \in Members, Withdrawn(m) PROVE AsksAll'
  BY <1>21 DEF Withdrawn
<1>22. CASE UNCHANGED negativeVars
  BY <1>22 DEF negativeVars
<1> HIDE DEF sourceVars, readVars, NegativeTypeOK, AsksAll
<1> QED BY <1>1, <1>2, <1>3, <1>4, <1>5, <1>6, <1>7, <1>8, <1>9, <1>10, <1>11, <1>12, <1>13, <1>14,
     <1>15, <1>16, <1>17, <1>18, <1>19, <1>20, <1>21, <1>22 DEF NegativeNext, FlightStep

\* No step takes a read past a hosted member that has the artifact, unless the read
\* of its copy fails.
LEMMA HostedStep ==
  ASSUME NegativeTypeOK, HostedIsMet, [NegativeNext]_negativeVars
  PROVE  HostedIsMet'
<1> USE NegativeAssumption DEF sourceVars, readVars, NegativeTypeOK, HostedIsMet, Members, HasCopy
<1>1. ASSUME NEW k \in Proxies \cup {Group}, EntryAges(k) \/ EntryGoes(k) PROVE HostedIsMet'
  BY <1>1 DEF EntryAges, EntryGoes
<1>2. ASSUME NEW r \in Readers, ReadBegin(r) PROVE HostedIsMet'
  BY <1>2 DEF ReadBegin, Hits, Goes, Live
<1>3. ASSUME NEW r \in Readers, ReadGivesUp(r) PROVE HostedIsMet'
  BY <1>3 DEF ReadGivesUp, ReadEnds, Goes
<1>4. ASSUME NEW r \in Readers, ReadFork(r) PROVE HostedIsMet'
  BY <1>4 DEF ReadFork, Goes
<1>5. ASSUME NEW r \in Readers, ReadSettle(r) PROVE HostedIsMet'
  BY <1>5 DEF ReadSettle, ReadEnds, Goes, Adds
<1>6. ASSUME NEW r \in Readers, NEW m \in Members, ReadLook(r, m) PROVE HostedIsMet'
  <2>1. ASSUME misreads' = 0, Hosted \in always' PROVE misreads = 0 /\ Hosted \in always /\ UNCHANGED misreads
    BY <1>6, <2>1 DEF ReadLook
  <2>2. ASSUME NEW s \in Readers, s # r
        PROVE  reader'[s] = reader[s] /\ unsure'[s] = unsure[s] /\ unlooked'[s] = unlooked[s]
    BY <1>6, <2>2 DEF ReadLook, ReadEnds, Goes
  <2>3. ASSUME Hosted \in always, misreads = 0, UNCHANGED misreads
        PROVE  reader'[r] = "idle" \/ (reader'[r] = "looking" /\ (unsure'[r] \/ Hosted \in unlooked'[r]))
    <3>1. unsure[r] \/ Hosted \in unlooked[r]
      BY <1>6, <2>3 DEF ReadLook
    <3>2. CASE HasCopy(m) /\ ReadEnds(r)
      BY <3>2 DEF ReadEnds, Goes
    <3>3. CASE /\ unlooked' = [unlooked EXCEPT ![r] = @ \ {m}] /\ UNCHANGED reader
               /\ unsure' = [unsure EXCEPT ![r] = TRUE]
      BY <1>6, <3>3 DEF ReadLook
    <3>4. CASE /\ unlooked' = [unlooked EXCEPT ![r] = @ \ {m}] /\ UNCHANGED <<reader, unsure>>
               /\ ~HasCopy(m)
      BY <1>6, <2>3, <3>1, <3>4 DEF ReadLook
    <3>5. ~(misreads' = misreads + 1)
      BY <2>3
    <3> QED BY ONLY <1>6, <3>2, <3>3, <3>4, <3>5 DEF ReadLook
  <2> QED BY <2>1, <2>2, <2>3
<1>7. ASSUME NEW r \in Readers, NEW p \in Proxies, ReadDirect(r, p) PROVE HostedIsMet'
  BY <1>7 DEF ReadDirect, Goes
<1>8. ASSUME NEW r \in Readers, NEW p \in Proxies, AskEntry(r, p) PROVE HostedIsMet'
  BY <1>8 DEF AskEntry, Hits, AskGoes, Live
<1>9. ASSUME NEW r \in Readers, NEW p \in Proxies, AskLocal(r, p) PROVE HostedIsMet'
  BY <1>9 DEF AskLocal, AskGoes
<1>10. ASSUME NEW r \in Readers, NEW p \in Proxies, AskAgain(r, p) PROVE HostedIsMet'
  BY <1>10 DEF AskAgain, AskGoes
<1>11. ASSUME NEW p \in Proxies, FlightAsks(p) PROVE HostedIsMet'
  BY <1>11 DEF FlightAsks, FlightGoes, Lands
<1>12. ASSUME NEW p \in Proxies, FlightFails(p) PROVE HostedIsMet'
  BY <1>12 DEF FlightFails, Lands
<1>13. ASSUME NEW p \in Proxies, FlightMisses(p) PROVE HostedIsMet'
  BY <1>13 DEF FlightMisses, Adds, NotesLate, Lands
<1>14. ASSUME NEW p \in Proxies, FlightStores(p) PROVE HostedIsMet'
  BY <1>14 DEF FlightStores, FlightGoes
<1>15. ASSUME NEW p \in Proxies, FlightEnds(p) PROVE HostedIsMet'
  BY <1>15 DEF FlightEnds, Removes, Lands
<1>16. ASSUME NEW p \in Proxies, CopyDeleted(p) PROVE HostedIsMet'
  BY <1>16 DEF CopyDeleted, Removes
<1>17. ASSUME NEW p \in Proxies, NEW f \in Packagers, PackagerBegins(f, p) PROVE HostedIsMet'
  BY <1>17 DEF PackagerBegins, PackagerGoes
<1>18. ASSUME NEW p \in Proxies, NEW f \in Packagers, PackagerAsks(f, p) PROVE HostedIsMet'
  BY <1>18 DEF PackagerAsks, PackagerGoes
<1>19. ASSUME NEW p \in Proxies, NEW f \in Packagers, PackagerEnds(f, p) PROVE HostedIsMet'
  BY <1>19 DEF PackagerEnds, PackagerGoes, Adds, Removes, NotesLate
<1>20. ASSUME NEW m \in Members, Published(m) PROVE HostedIsMet'
  BY <1>20 DEF Published
<1>21. ASSUME NEW m \in Members, Withdrawn(m) PROVE HostedIsMet'
  BY <1>21 DEF Withdrawn
<1>22. CASE UNCHANGED negativeVars
  BY <1>22 DEF negativeVars
<1> HIDE DEF sourceVars, readVars, NegativeTypeOK, HostedIsMet, Members, HasCopy
<1> QED BY <1>1, <1>2, <1>3, <1>4, <1>5, <1>6, <1>7, <1>8, <1>9, <1>10, <1>11, <1>12, <1>13, <1>14,
     <1>15, <1>16, <1>17, <1>18, <1>19, <1>20, <1>21, <1>22 DEF NegativeNext, FlightStep

\* No step enters as missing what a member has had all along.
LEMMA DeniedStep ==
  ASSUME NegativeTypeOK, NeverAnswered, AsksAll, HostedIsMet, NeverDenied, [NegativeNext]_negativeVars
  PROVE  NeverDenied'
<1> USE NegativeAssumption DEF sourceVars, readVars, NegativeTypeOK, NeverAnswered, Lasting,
     NeverDenied, NoEntry, Members
<1>1. ASSUME NEW k \in Proxies \cup {Group}, EntryAges(k) \/ EntryGoes(k) PROVE NeverDenied'
  BY <1>1 DEF EntryAges, EntryGoes
<1>2. ASSUME NEW r \in Readers, ReadBegin(r) PROVE NeverDenied'
  BY <1>2 DEF ReadBegin, Hits, Goes, Live
<1>3. ASSUME NEW r \in Readers, ReadGivesUp(r) PROVE NeverDenied'
  BY <1>3 DEF ReadGivesUp, ReadEnds, Goes
<1>4. ASSUME NEW r \in Readers, ReadFork(r) PROVE NeverDenied'
  BY <1>4 DEF ReadFork, Goes
<1>5. ASSUME NEW r \in Readers, ReadSettle(r) PROVE NeverDenied'
  <2>1. UNCHANGED <<always, misreads>>
    BY <1>5 DEF ReadSettle
  <2>2. CASE UNCHANGED entry
    BY <2>1, <2>2
  <2>3. CASE /\ reader[r] = "asking" /\ ~unsure[r] /\ Adds(Group)
             /\ \A p \in Proxies : ask[r][p] \in {"none", "confirmed"}
    <3>1. Lasting = {}
      BY <2>3 DEF AsksAll
    <3>2. misreads = 0 => Hosted \notin always
      BY <2>3 DEF HostedIsMet
    <3>3. always # {} => misreads # 0
      BY <3>1, <3>2
    <3> QED BY <2>1, <2>3, <3>1, <3>3 DEF Adds
  <2> QED BY <1>5, <2>2, <2>3 DEF ReadSettle
<1>6. ASSUME NEW r \in Readers, NEW m \in Members, ReadLook(r, m) PROVE NeverDenied'
  BY <1>6 DEF ReadLook, ReadEnds, Goes
<1>7. ASSUME NEW r \in Readers, NEW p \in Proxies, ReadDirect(r, p) PROVE NeverDenied'
  BY <1>7 DEF ReadDirect, Goes
<1>8. ASSUME NEW r \in Readers, NEW p \in Proxies, AskEntry(r, p) PROVE NeverDenied'
  BY <1>8 DEF AskEntry, Hits, AskGoes, Live
<1>9. ASSUME NEW r \in Readers, NEW p \in Proxies, AskLocal(r, p) PROVE NeverDenied'
  BY <1>9 DEF AskLocal, AskGoes
<1>10. ASSUME NEW r \in Readers, NEW p \in Proxies, AskAgain(r, p) PROVE NeverDenied'
  BY <1>10 DEF AskAgain, AskGoes
<1>11. ASSUME NEW p \in Proxies, FlightAsks(p) PROVE NeverDenied'
  BY <1>11 DEF FlightAsks, FlightGoes, Lands
<1>12. ASSUME NEW p \in Proxies, FlightFails(p) PROVE NeverDenied'
  BY <1>12 DEF FlightFails, Lands
<1>13. ASSUME NEW p \in Proxies, FlightMisses(p) PROVE NeverDenied'
  BY <1>13 DEF FlightMisses, Adds, NotesLate, Lands
<1>14. ASSUME NEW p \in Proxies, FlightStores(p) PROVE NeverDenied'
  BY <1>14 DEF FlightStores, FlightGoes
<1>15. ASSUME NEW p \in Proxies, FlightEnds(p) PROVE NeverDenied'
  BY <1>15 DEF FlightEnds, Removes, Lands
<1>16. ASSUME NEW p \in Proxies, CopyDeleted(p) PROVE NeverDenied'
  BY <1>16 DEF CopyDeleted, Removes
<1>17. ASSUME NEW p \in Proxies, NEW f \in Packagers, PackagerBegins(f, p) PROVE NeverDenied'
  BY <1>17 DEF PackagerBegins, PackagerGoes
<1>18. ASSUME NEW p \in Proxies, NEW f \in Packagers, PackagerAsks(f, p) PROVE NeverDenied'
  BY <1>18 DEF PackagerAsks, PackagerGoes
<1>19. ASSUME NEW p \in Proxies, NEW f \in Packagers, PackagerEnds(f, p) PROVE NeverDenied'
  BY <1>19 DEF PackagerEnds, PackagerGoes, Adds, Removes, NotesLate
<1>20. ASSUME NEW m \in Members, Published(m) PROVE NeverDenied'
  BY <1>20 DEF Published
<1>21. ASSUME NEW m \in Members, Withdrawn(m) PROVE NeverDenied'
  BY <1>21 DEF Withdrawn
<1>22. CASE UNCHANGED negativeVars
  BY <1>22 DEF negativeVars
<1> HIDE DEF sourceVars, readVars, NegativeTypeOK, NeverAnswered, Lasting, NeverDenied, NoEntry, Members
<1> QED BY <1>1, <1>2, <1>3, <1>4, <1>5, <1>6, <1>7, <1>8, <1>9, <1>10, <1>11, <1>12, <1>13, <1>14,
     <1>15, <1>16, <1>17, <1>18, <1>19, <1>20, <1>21, <1>22 DEF NegativeNext, FlightStep

\* No step hides a cached copy, but with a 404 that was under way when it came in.
LEMMA CopyStep ==
  ASSUME NegativeTypeOK, CopyIsSeen, [NegativeNext]_negativeVars
  PROVE  CopyIsSeen'
<1> USE NegativeAssumption DEF sourceVars, readVars, NegativeTypeOK, CopyIsSeen, Live, BeingStored,
     NoEntry, NoFlight, FlightBusy, Ages
<1>1. ASSUME NEW k \in Proxies \cup {Group}, EntryAges(k) \/ EntryGoes(k) PROVE CopyIsSeen'
  <2>1. UNCHANGED <<sourceVars, flight, packager, late>>
    BY <1>1 DEF EntryAges, EntryGoes
  <2>2. ASSUME NEW p \in Proxies PROVE entry'[p] < 2 => entry[p] < 2
    BY <1>1 DEF EntryAges, EntryGoes
  <2>3. \A p \in Proxies : BeingStored(p) => BeingStored(p)'
    BY <2>1
  <2> QED BY <2>1, <2>2, <2>3
<1>2. ASSUME NEW r \in Readers, ReadBegin(r) PROVE CopyIsSeen'
  BY <1>2 DEF ReadBegin, Hits, Goes, Live
<1>3. ASSUME NEW r \in Readers, ReadGivesUp(r) PROVE CopyIsSeen'
  BY <1>3 DEF ReadGivesUp, ReadEnds, Goes
<1>4. ASSUME NEW r \in Readers, ReadFork(r) PROVE CopyIsSeen'
  BY <1>4 DEF ReadFork, Goes
<1>5. ASSUME NEW r \in Readers, ReadSettle(r) PROVE CopyIsSeen'
  BY <1>5 DEF ReadSettle, ReadEnds, Goes, Adds
<1>6. ASSUME NEW r \in Readers, NEW m \in Members, ReadLook(r, m) PROVE CopyIsSeen'
  BY <1>6 DEF ReadLook, ReadEnds, Goes
<1>7. ASSUME NEW r \in Readers, NEW p \in Proxies, ReadDirect(r, p) PROVE CopyIsSeen'
  BY <1>7 DEF ReadDirect, Goes
<1>8. ASSUME NEW r \in Readers, NEW p \in Proxies, AskEntry(r, p) PROVE CopyIsSeen'
  BY <1>8 DEF AskEntry, Hits, AskGoes, Live
<1>9. ASSUME NEW r \in Readers, NEW p \in Proxies, AskLocal(r, p) PROVE CopyIsSeen'
  BY <1>9 DEF AskLocal, AskGoes
<1>10. ASSUME NEW r \in Readers, NEW p \in Proxies, AskAgain(r, p) PROVE CopyIsSeen'
  BY <1>10 DEF AskAgain, AskGoes
<1>11. ASSUME NEW p \in Proxies, FlightAsks(p) PROVE CopyIsSeen'
  BY <1>11 DEF FlightAsks, FlightGoes, Lands
<1>12. ASSUME NEW p \in Proxies, FlightFails(p) PROVE CopyIsSeen'
  BY <1>12 DEF FlightFails, Lands
<1>13. ASSUME NEW p \in Proxies, FlightMisses(p) PROVE CopyIsSeen'
  BY <1>13 DEF FlightMisses, Adds, NotesLate, Lands
<1>14. ASSUME NEW p \in Proxies, FlightStores(p) PROVE CopyIsSeen'
  BY <1>14 DEF FlightStores, FlightGoes
<1>15. ASSUME NEW p \in Proxies, FlightEnds(p) PROVE CopyIsSeen'
  BY <1>15 DEF FlightEnds, Removes, Lands
<1>16. ASSUME NEW p \in Proxies, CopyDeleted(p) PROVE CopyIsSeen'
  BY <1>16 DEF CopyDeleted, Removes
<1>17. ASSUME NEW p \in Proxies, NEW f \in Packagers, PackagerBegins(f, p) PROVE CopyIsSeen'
  BY <1>17 DEF PackagerBegins, PackagerGoes
<1>18. ASSUME NEW p \in Proxies, NEW f \in Packagers, PackagerAsks(f, p) PROVE CopyIsSeen'
  BY <1>18 DEF PackagerAsks, PackagerGoes
<1>19. ASSUME NEW p \in Proxies, NEW f \in Packagers, PackagerEnds(f, p) PROVE CopyIsSeen'
  <2>1. UNCHANGED flight
    BY <1>19 DEF PackagerEnds
  <2>2. \A q \in Proxies \ {p} : /\ entry'[q] = entry[q] /\ (q \in local' <=> q \in local)
                              /\ (q \in late' <=> q \in late)
    BY <1>19 DEF PackagerEnds, Adds, Removes, NotesLate
  <2>3. \A g \in Packagers, q \in Proxies \ {p} : packager'[g][q] = packager[g][q]
    BY <1>19, PackagerTyped DEF PackagerEnds, PackagerSteps
  <2>4. \A q \in Proxies \ {p} : q \in local' /\ Live(q)' => BeingStored(q)' \/ q \in late'
    BY <2>1, <2>2, <2>3
  <2>5. p \in local' /\ Live(p)' => BeingStored(p)' \/ p \in late'
    <3>1. CASE packager[f][p] = "answered404"
      BY <1>19, <3>1 DEF PackagerEnds, NotesLate
    <3>2. CASE packager[f][p] = "got"
      BY <1>19, <3>2 DEF PackagerEnds, PackagerGoes
    <3>3. CASE packager[f][p] = "stored"
      BY <1>19, <3>3 DEF PackagerEnds, Removes
    <3> QED BY <1>19, <3>1, <3>2, <3>3 DEF PackagerEnds
  <2>6. local' \subseteq Proxies
    BY <1>19 DEF PackagerEnds
  <2> QED BY ONLY <2>4, <2>5, <2>6 DEF CopyIsSeen
<1>20. ASSUME NEW m \in Members, Published(m) PROVE CopyIsSeen'
  BY <1>20 DEF Published
<1>21. ASSUME NEW m \in Members, Withdrawn(m) PROVE CopyIsSeen'
  BY <1>21 DEF Withdrawn
<1>22. CASE UNCHANGED negativeVars
  BY <1>22 DEF negativeVars
<1> HIDE DEF sourceVars, readVars, NegativeTypeOK, CopyIsSeen, Live, BeingStored, NoEntry,
     NoFlight, FlightBusy, Ages
<1> QED BY <1>1, <1>2, <1>3, <1>4, <1>5, <1>6, <1>7, <1>8, <1>9, <1>10, <1>11, <1>12, <1>13, <1>14,
     <1>15, <1>16, <1>17, <1>18, <1>19, <1>20, <1>21, <1>22 DEF NegativeNext, FlightStep

\* The invariant holds while nothing has been read.
LEMMA HidingBegins ==
  ASSUME NegativeInit
  PROVE  HiddenNowhere
<1> USE NegativeAssumption DEF NegativeInit
<1>1. NegativeTypeOK
  BY DEF NegativeTypeOK, ReaderSteps, AskSteps, PackagerSteps
<1>2. NeverAnswered /\ AsksAll /\ HostedIsMet
  BY DEF NeverAnswered, Lasting, AsksAll, HostedIsMet, NoFlight
<1>3. NothingHidden
  BY DEF NothingHidden, NeverDenied, CopyIsSeen
<1> QED BY <1>1, <1>2, <1>3 DEF HiddenNowhere

\* Every step keeps the invariant.
LEMMA HidingStep ==
  ASSUME HiddenNowhere, [NegativeNext]_negativeVars
  PROVE  HiddenNowhere'
BY HidingTypesStep, AnswersStep, AsksStep, HostedStep, DeniedStep, CopyStep DEF HiddenNowhere, NothingHidden

\* HiddenNowhere holds in every state of NegativeSpec.
LEMMA HiddenNowhereEver == NegativeSpec => []HiddenNowhere
<1>1. NegativeInit => HiddenNowhere
  BY HidingBegins
<1>2. HiddenNowhere /\ [NegativeNext]_negativeVars => HiddenNowhere'
  BY HidingStep
<1> QED BY <1>1, <1>2, PTL DEF NegativeSpec

\* For any readers, members and fetches, neither a timeout, an error, a blocked or
\* offline proxy nor a cancelled or shared fetch hides an artifact that a member has
\* had all along, and a cached copy is hidden only by a 404 that was under way when
\* it came in (negativeCache, resolve, proxyGet, groupGet).
THEOREM NothingEverHidden == NegativeSpec => []NothingHidden
<1>1. HiddenNowhere => NothingHidden BY DEF HiddenNowhere
<1> QED BY <1>1, HiddenNowhereEver, PTL

-----------------------------------------------------------------------------
(***************************************************************************)
(* NpmPackage.                                                             *)
(* For any publishes, tags and unpublishes that overlap: the document,     *)
(* the rows of the tarballs and the tags agree, and an immutable version   *)
(* is published once.                                                      *)
(***************************************************************************)

\* The tags of a document lead to versions that it lists.
Leads(doc) == \A t \in NpmTags : doc.tags[t] # Void => doc.listed[doc.tags[t]] # Void

\* A publish adds its version to the document that it has seen, which does not
\* list it where releases are immutable, and holds its bytes until it ends.
PublishKnown(p) ==
  npmCall[p].step \in {"read", "staged", "planned"} =>
    /\ npmCall[p].version \in NpmVersions
    /\ npmCall[p].doc.listed = [npmCall[p].seen.listed EXCEPT ![npmCall[p].version] = p]
    /\ npmImmutable => npmCall[p].seen.listed[npmCall[p].version] = Void
    /\ npmCall[p].step # "read" => npmCall[p].rows[npmCall[p].version] = p /\ p \in npmStored

\* A request about a tag lists what it has seen, and writes no tarball.
TagKnown(r) ==
  npmCall[r].step \in {"read", "planned"} =>
    npmCall[r].rows = NoDoc.listed /\ npmCall[r].doc.listed = npmCall[r].seen.listed

\* An unpublish takes from its images the rows of what its document lists no
\* more; what they list they hold, but for versions that were overtaken.
UnpublishKnown(r) ==
  npmCall[r].step = "planned" =>
    \A w \in NpmVersions :
      LET gone == npmCall[r].doc = NoDoc \/ w = npmCall[r].version
      IN /\ npmCall[r].rows[w] = IF gone THEN npmCall[r].oldRows[w] ELSE Void
         /\ npmCall[r].doc.listed[w] = IF gone THEN Void ELSE npmCall[r].oldDoc.listed[w]
         /\ w \notin overtaken => npmCall[r].oldDoc.listed[w] = npmCall[r].oldRows[w]

\* The tarballs that a request is to write are its own or those of publishes
\* that are done.
RequestKnown(r) ==
  /\ Leads(npmCall[r].doc)
  /\ \A w \in NpmVersions : npmCall[r].rows[w] # Void =>
       npmCall[r].rows[w] = r \/ npmCall[npmCall[r].rows[w]].step = "done"
  /\ r \in NpmPublishers => PublishKnown(r)
  /\ r \in NpmTaggers => TagKnown(r)
  /\ r \in NpmUnpublishers => UnpublishKnown(r)

\* A tarball with a row is of a publish that is done.
RowsDone == \A v \in NpmVersions : tarball[v] # Void => npmCall[tarball[v]].step = "done"

NpmTrue == NpmTypeOK /\ RowsDone /\ (\A r \in NpmRequests : RequestKnown(r)) /\ NpmSound

\* The empty document is a document.
LEMMA NothingIsADoc ==
  /\ NoDoc \in Docs /\ NoDoc.listed \in TarballRows /\ Leads(NoDoc)
  /\ \A v \in NpmVersions : NoDoc.listed[v] = Void
  /\ \A t \in NpmTags : NoDoc.tags[t] = Void
BY DEF NoDoc, Docs, TarballRows, Leads

\* The invariant holds before the first publish.
LEMMA NpmBegins == NpmInit => NpmTrue
<1> SUFFICES ASSUME NpmInit PROVE NpmTrue
  OBVIOUS
<1> USE NpmAssumption, NothingIsADoc DEF NpmInit
<1>0. NpmIdle \in NpmCalls BY DEF NpmCalls, NpmIdle
<1>1. NpmTypeOK BY <1>0 DEF NpmTypeOK, TarballRows
<1>2. RowsDone BY DEF RowsDone
<1>3. \A r \in NpmRequests : RequestKnown(r)
  BY DEF RequestKnown, PublishKnown, TagKnown, UnpublishKnown, NpmIdle
<1>4. NpmSound BY DEF NpmSound, VersionsAgree, TagsLead, ImmutableOnce
<1> QED BY <1>1, <1>2, <1>3, <1>4 DEF NpmTrue

\* A request goes on with another record of its kind.
LEMMA RequestGoes ==
  ASSUME NpmTypeOK, NEW r \in NpmRequests, NEW call \in NpmCalls, npmCall' = [npmCall EXCEPT ![r] = call]
  PROVE  /\ npmCall' \in [NpmRequests -> NpmCalls] /\ npmCall'[r] = call
         /\ \A s \in NpmRequests : s # r => npmCall'[s] = npmCall[s]
BY DEF NpmTypeOK

\* The others know what they knew, if no bytes of theirs go.
LEMMA OthersKnow ==
  ASSUME NpmTrue, NEW r \in NpmRequests, NEW call \in NpmCalls, npmCall' = [npmCall EXCEPT ![r] = call],
         UNCHANGED npmImmutable, overtaken \subseteq overtaken',
         npmCall[r].step \notin {"done"},
         \A p \in NpmPublishers \ {r} :
           npmCall[p].step \in {"staged", "planned"} /\ p \in npmStored => p \in npmStored',
         NEW s \in NpmRequests, s # r
  PROVE  RequestKnown(s)'
<1>1. /\ npmCall'[r] = call /\ npmCall'[s] = npmCall[s]
      /\ \A q \in NpmRequests : q # r => npmCall'[q] = npmCall[q]
  BY RequestGoes DEF NpmTrue
<1>2. RequestKnown(s) BY DEF NpmTrue
<1>3. Leads(npmCall[s].doc)' BY <1>1, <1>2 DEF RequestKnown, Leads
<1>4. ASSUME NEW w \in NpmVersions, npmCall'[s].rows[w] # Void
      PROVE  npmCall'[s].rows[w] = s \/ npmCall'[npmCall'[s].rows[w]].step = "done"
  <2>1. npmCall[s].rows[w] = s \/ npmCall[npmCall[s].rows[w]].step = "done"
    BY <1>1, <1>2, <1>4 DEF RequestKnown
  <2>2. npmCall[s].rows[w] \in NpmRequests
    BY <1>1, <1>4 DEF NpmTrue, NpmTypeOK, NpmCalls, TarballRows, NpmRequests
  <2> QED BY <1>1, <2>1, <2>2
<1>5. s \in NpmPublishers => PublishKnown(s)' BY <1>1, <1>2 DEF RequestKnown, PublishKnown
<1>6. s \in NpmTaggers => TagKnown(s)' BY <1>1, <1>2 DEF RequestKnown, TagKnown
<1>7. s \in NpmUnpublishers => UnpublishKnown(s)' BY <1>1, <1>2 DEF RequestKnown, UnpublishKnown
<1> QED BY <1>3, <1>4, <1>5, <1>6, <1>7 DEF RequestKnown

\* A request that has ended knows nothing.
LEMMA EndKnows ==
  ASSUME NpmTypeOK, NEW r \in NpmRequests, NEW how \in {"done", "refused"}, NpmEnds(r, how)
  PROVE  /\ [NpmIdle EXCEPT !.step = how] \in NpmCalls
         /\ npmCall' \in [NpmRequests -> NpmCalls] /\ npmCall'[r].step = how
         /\ \A s \in NpmRequests : s # r => npmCall'[s] = npmCall[s]
         /\ RequestKnown(r)'
<1> DEFINE call == [NpmIdle EXCEPT !.step = how]
<1>1. call \in NpmCalls BY NothingIsADoc, NpmAssumption DEF NpmCalls, NpmIdle
<1>2. call.step = how /\ call.doc = NoDoc /\ call.rows = NoDoc.listed BY DEF NpmIdle
<1>3. npmCall' = [npmCall EXCEPT ![r] = call] BY DEF NpmEnds
<1> HIDE DEF call
<1>4. npmCall' \in [NpmRequests -> NpmCalls] /\ npmCall'[r] = call
      /\ \A s \in NpmRequests : s # r => npmCall'[s] = npmCall[s]
  BY <1>1, <1>3, RequestGoes
<1>5. RequestKnown(r)'
  BY <1>2, <1>4, NothingIsADoc DEF RequestKnown, PublishKnown, TagKnown, UnpublishKnown, Leads
<1> QED BY <1>1, <1>2, <1>4, <1>5 DEF call

\* A step within a request, which writes neither row nor document.
LEMMA WithinKeeps ==
  ASSUME NpmTrue, NEW r \in NpmRequests, NEW call \in NpmCalls, npmCall' = [npmCall EXCEPT ![r] = call],
         UNCHANGED <<npmImmutable, packument, tarball, release, republished, overtaken>>,
         npmCall[r].step # "done", npmStored' \subseteq NpmPublishers,
         npmStored' = npmStored \/ npmStored' = npmStored \cup {r} \/ npmStored' = npmStored \ {r},
         RequestKnown(r)'
  PROVE  NpmTrue'
<1>1. /\ npmCall' \in [NpmRequests -> NpmCalls] /\ npmCall'[r] = call
      /\ \A s \in NpmRequests : s # r => npmCall'[s] = npmCall[s]
  BY RequestGoes DEF NpmTrue
<1>2. \A s \in NpmRequests : RequestKnown(s)'
  <2>1. overtaken \subseteq overtaken' /\ npmCall[r].step \notin {"done"}
        /\ \A p \in NpmPublishers \ {r} :
             npmCall[p].step \in {"staged", "planned"} /\ p \in npmStored => p \in npmStored'
    OBVIOUS
  <2>2. ASSUME NEW s \in NpmRequests, s # r PROVE RequestKnown(s)' BY <2>1, <2>2, OthersKnow
  <2> QED BY <2>2
<1>3. NpmTypeOK' BY <1>1 DEF NpmTrue, NpmTypeOK
<1>4. \A v \in NpmVersions : tarball[v] # Void => tarball[v] \in NpmRequests /\ tarball[v] # r
  BY DEF NpmTrue, NpmTypeOK, TarballRows, NpmRequests, RowsDone
<1>5. RowsDone' BY <1>1, <1>4 DEF NpmTrue, RowsDone
<1>6. VersionsAgree' BY <1>4 DEF NpmTrue, NpmSound, VersionsAgree
<1>7. TagsLead' /\ ImmutableOnce' BY DEF NpmTrue, NpmSound, TagsLead, ImmutableOnce
<1> QED BY <1>2, <1>3, <1>5, <1>6, <1>7 DEF NpmTrue, NpmSound

\* A publish reads the document.
LEMMA PublishReadsKeeps ==
  ASSUME NpmTrue, NEW p \in NpmPublishers, NEW v \in NpmVersions, PublishReads(p, v)
  PROVE  NpmTrue'
<1>0. p \in NpmRequests BY DEF NpmRequests
<1>1. NpmTypeOK /\ TagsLead BY DEF NpmTrue, NpmSound
<1>2. /\ npmCall[p].step = "none" /\ npmStored \subseteq NpmPublishers
      /\ UNCHANGED <<npmImmutable, packument, tarball, npmStored, release, republished, overtaken>>
  BY <1>1 DEF PublishReads, NpmGhosts, NpmTypeOK
<1>3. CASE npmImmutable /\ packument.listed[v] # Void
  <2>1. NpmEnds(p, "refused") BY <1>3 DEF PublishReads
  <2>2. npmCall' = [npmCall EXCEPT ![p] = [NpmIdle EXCEPT !.step = "refused"]] BY <2>1 DEF NpmEnds
  <2> QED BY <1>0, <1>1, <1>2, <2>1, <2>2, EndKnows, WithinKeeps
<1>4. CASE ~(npmImmutable /\ packument.listed[v] # Void)
  <2> DEFINE doc == [listed |-> [packument.listed EXCEPT ![v] = p],
                     tags |-> [packument.tags EXCEPT ![Latest] = v]]
             call == [NpmIdle EXCEPT !.step = "read", !.version = v, !.seen = packument, !.doc = doc]
  <2>1. npmCall' = [npmCall EXCEPT ![p] = call] BY <1>4 DEF PublishReads
  <2>2. packument \in Docs /\ doc \in Docs BY <1>1, NpmAssumption DEF NpmTypeOK, Docs
  <2>3. Leads(doc) BY <1>1, NpmAssumption DEF NpmTypeOK, Docs, TagsLead, Leads
  <2>4. doc.listed = [packument.listed EXCEPT ![v] = p] OBVIOUS
  <2> HIDE DEF doc
  <2>5. call \in NpmCalls BY <2>2, NothingIsADoc DEF NpmCalls, NpmIdle
  <2>6. /\ call.step = "read" /\ call.version = v /\ call.seen = packument /\ call.doc = doc
        /\ call.rows = NoDoc.listed
    BY DEF NpmIdle
  <2> HIDE DEF call
  <2>7. npmCall'[p] = call BY <1>0, <1>1, <2>1, <2>5, RequestGoes
  <2>8. RequestKnown(p)'
    BY <1>2, <1>4, <2>3, <2>4, <2>6, <2>7, NothingIsADoc, NpmAssumption
       DEF RequestKnown, PublishKnown, Leads
  <2> QED BY <1>0, <1>2, <2>1, <2>5, <2>8, WithinKeeps
<1> QED BY <1>3, <1>4

\* A publish stages its tarball.
LEMMA PublishStagesKeeps ==
  ASSUME NpmTrue, NEW p \in NpmPublishers, PublishStages(p)
  PROVE  NpmTrue'
<1> DEFINE v == npmCall[p].version
           rows == [tarball EXCEPT ![v] = p]
           call == [npmCall[p] EXCEPT !.step = "staged", !.rows = rows]
<1>0. p \in NpmRequests BY DEF NpmRequests
<1>1. NpmTypeOK /\ RowsDone /\ RequestKnown(p) BY <1>0 DEF NpmTrue
<1>2. /\ npmCall[p].step = "read" /\ npmStored' = npmStored \cup {p}
      /\ npmCall' = [npmCall EXCEPT ![p] = call]
      /\ UNCHANGED <<npmImmutable, packument, tarball, release, republished, overtaken>>
  BY DEF PublishStages, NpmGhosts
<1>3. v \in NpmVersions BY <1>1, <1>2 DEF RequestKnown, PublishKnown
<1>4. npmCall[p] \in NpmCalls /\ rows \in TarballRows /\ npmStored' \subseteq NpmPublishers
  BY <1>0, <1>1, <1>2 DEF NpmTypeOK, TarballRows
<1>5. rows[v] = p /\ \A w \in NpmVersions : w # v => rows[w] = tarball[w]
  BY <1>1, <1>3 DEF NpmTypeOK, TarballRows
<1> HIDE DEF rows
<1>6. call \in NpmCalls BY <1>4 DEF NpmCalls
<1>7. /\ call.step = "staged" /\ call.version = v /\ call.seen = npmCall[p].seen
      /\ call.doc = npmCall[p].doc /\ call.rows = rows
  BY <1>4 DEF NpmCalls
<1> HIDE DEF call
<1>8. npmCall'[p] = call /\ \A s \in NpmRequests : s # p => npmCall'[s] = npmCall[s]
  BY <1>0, <1>1, <1>2, <1>6, RequestGoes
<1>9. RequestKnown(p)'
  <2>1. Leads(npmCall[p].doc)' BY <1>1, <1>7, <1>8 DEF RequestKnown, Leads
  <2>2. PublishKnown(p)' BY <1>1, <1>2, <1>3, <1>5, <1>7, <1>8 DEF RequestKnown, PublishKnown
  <2>3. ASSUME NEW w \in NpmVersions, rows[w] # Void
        PROVE  rows[w] = p \/ npmCall'[rows[w]].step = "done"
    <3>1. CASE w = v BY <1>5, <3>1
    <3>2. CASE w # v
      <4>1. rows[w] = tarball[w] /\ npmCall[rows[w]].step = "done" BY <1>1, <1>5, <2>3, <3>2 DEF RowsDone
      <4>2. rows[w] \in NpmRequests BY <1>4, <2>3 DEF TarballRows, NpmRequests
      <4> QED BY <1>2, <1>8, <4>1, <4>2
    <3> QED BY <3>1, <3>2
  <2> QED BY <1>7, <1>8, <2>1, <2>2, <2>3, NpmAssumption DEF RequestKnown
<1> QED BY <1>0, <1>2, <1>4, <1>6, <1>9, WithinKeeps

\* The images are read: nothing else of the request changes.
LEMMA PlansKeep ==
  ASSUME NpmTrue, NEW r \in NpmRequests,
         (r \in NpmPublishers /\ PublishPlans(r)) \/ (r \in NpmTaggers /\ TagPlans(r))
  PROVE  NpmTrue'
<1> DEFINE call == [npmCall[r] EXCEPT !.step = "planned", !.oldDoc = packument, !.oldRows = tarball]
<1>1. NpmTypeOK /\ RowsDone /\ RequestKnown(r) BY DEF NpmTrue
<1>2. /\ r \in NpmPublishers => npmCall[r].step = "staged"
      /\ r \in NpmTaggers => npmCall[r].step = "read"
      /\ npmCall[r].step \in {"read", "staged"} /\ r \notin NpmUnpublishers
      /\ npmCall' = [npmCall EXCEPT ![r] = call]
      /\ UNCHANGED <<npmImmutable, packument, tarball, npmStored, release, republished, overtaken>>
  BY NpmAssumption DEF PublishPlans, TagPlans, ReadsImages, NpmGhosts
<1>3. call \in NpmCalls BY <1>1 DEF NpmCalls, NpmTypeOK
<1>4. /\ call.step = "planned" /\ call.version = npmCall[r].version /\ call.seen = npmCall[r].seen
      /\ call.doc = npmCall[r].doc /\ call.rows = npmCall[r].rows
  BY <1>1 DEF NpmCalls, NpmTypeOK
<1> HIDE DEF call
<1>5. npmCall'[r] = call /\ \A s \in NpmRequests : s # r => npmCall'[s] = npmCall[s]
  BY <1>1, <1>2, <1>3, RequestGoes
<1>6. RequestKnown(r)'
  <2>1. Leads(npmCall[r].doc)' BY <1>1, <1>4, <1>5 DEF RequestKnown, Leads
  <2>2. r \in NpmPublishers => PublishKnown(r)'
    BY <1>1, <1>2, <1>4, <1>5 DEF RequestKnown, PublishKnown
  <2>3. r \in NpmTaggers => TagKnown(r)'
    BY <1>1, <1>2, <1>4, <1>5, NpmAssumption DEF RequestKnown, TagKnown
  <2>4. ASSUME NEW w \in NpmVersions, call.rows[w] # Void
        PROVE  call.rows[w] = r \/ npmCall'[call.rows[w]].step = "done"
    <3>1. call.rows[w] = r \/ npmCall[call.rows[w]].step = "done" BY <1>1, <1>4, <2>4 DEF RequestKnown
    <3>2. call.rows[w] \in NpmRequests BY <1>3, <2>4 DEF NpmCalls, TarballRows, NpmRequests
    <3> QED BY <1>5, <3>1, <3>2
  <2> QED BY <1>2, <1>4, <1>5, <2>1, <2>2, <2>3, <2>4 DEF RequestKnown
<1>7. npmStored' \subseteq NpmPublishers /\ npmCall[r].step # "done" BY <1>1, <1>2 DEF NpmTypeOK
<1> QED BY <1>2, <1>3, <1>6, <1>7, WithinKeeps

\* A request for a tag reads the document.
LEMMA TagReadsKeeps ==
  ASSUME NpmTrue, NEW r \in NpmTaggers, NEW tag \in NpmTags, NEW v \in NpmVersions \cup {Void},
         TagReads(r, tag, v)
  PROVE  NpmTrue'
<1>0. r \in NpmRequests /\ r \notin NpmPublishers /\ r \notin NpmUnpublishers
  BY NpmAssumption DEF NpmRequests
<1>1. NpmTypeOK /\ TagsLead BY DEF NpmTrue, NpmSound
<1> DEFINE doc == [packument EXCEPT !.tags[tag] = v]
           call == [NpmIdle EXCEPT !.step = "read", !.seen = packument, !.doc = doc]
<1>2. /\ npmCall[r].step = "none" /\ npmStored \subseteq NpmPublishers
      /\ npmCall' = [npmCall EXCEPT ![r] = call]
      /\ v # Void => packument.listed[v] # Void
      /\ UNCHANGED <<npmImmutable, packument, tarball, npmStored, release, republished, overtaken>>
  BY <1>1 DEF TagReads, NpmGhosts, NpmTypeOK
<1>3. packument \in Docs /\ doc \in Docs BY <1>1 DEF NpmTypeOK, Docs
<1>4. Leads(doc) BY <1>1, <1>2 DEF NpmTypeOK, Docs, TagsLead, Leads
<1>5. doc.listed = packument.listed BY <1>3 DEF Docs
<1> HIDE DEF doc
<1>6. call \in NpmCalls BY <1>3, NothingIsADoc DEF NpmCalls, NpmIdle
<1>7. call.seen = packument /\ call.doc = doc /\ call.rows = NoDoc.listed
  BY DEF NpmIdle
<1> HIDE DEF call
<1>8. npmCall'[r] = call BY <1>0, <1>1, <1>2, <1>6, RequestGoes
<1>9. RequestKnown(r)'
  BY <1>0, <1>4, <1>5, <1>7, <1>8, NothingIsADoc DEF RequestKnown, TagKnown, Leads
<1> QED BY <1>0, <1>2, <1>6, <1>9, WithinKeeps

\* An unpublish plans from the document and from the rows.
LEMMA UnpublishPlansKeeps ==
  ASSUME NpmTrue, NEW r \in NpmUnpublishers, NEW v \in NpmVersions \cup {Void}, UnpublishPlans(r, v)
  PROVE  NpmTrue'
<1>0. r \in NpmRequests /\ r \notin NpmPublishers /\ r \notin NpmTaggers
  BY NpmAssumption DEF NpmRequests
<1>1. NpmTypeOK /\ TagsLead /\ VersionsAgree /\ RowsDone BY DEF NpmTrue, NpmSound
<1> DEFINE rest == IF v = Void THEN NoDoc.listed ELSE Without(packument, v).listed
           all == rest = NoDoc.listed
           doc == IF all THEN NoDoc ELSE Without(packument, v)
           rows == [w \in NpmVersions |-> IF all \/ w = v THEN tarball[w] ELSE Void]
           call == [NpmIdle EXCEPT !.step = "planned", !.version = v, !.doc = doc, !.rows = rows,
                                   !.oldDoc = packument, !.oldRows = tarball]
<1>2. /\ npmCall[r].step = "none" /\ npmStored \subseteq NpmPublishers
      /\ UNCHANGED <<npmImmutable, packument, tarball, npmStored, release, republished, overtaken>>
  BY <1>1 DEF UnpublishPlans, NpmGhosts, NpmTypeOK
<1>3. npmCall' = [npmCall EXCEPT ![r] = call] BY DEF UnpublishPlans
<1>4. packument \in Docs /\ tarball \in TarballRows BY <1>1 DEF NpmTypeOK
<1>5. ~all => /\ v \in NpmVersions /\ Without(packument, v) \in Docs /\ Leads(Without(packument, v))
              /\ Without(packument, v).listed = [packument.listed EXCEPT ![v] = Void]
              /\ Without(packument, v) # NoDoc
  <2> SUFFICES ASSUME ~all
               PROVE  /\ v \in NpmVersions /\ Without(packument, v) \in Docs
                      /\ Leads(Without(packument, v))
                      /\ Without(packument, v).listed = [packument.listed EXCEPT ![v] = Void]
                      /\ Without(packument, v) # NoDoc
    OBVIOUS
  <2>1. v \in NpmVersions /\ Without(packument, v).listed # NoDoc.listed OBVIOUS
  <2>2. /\ Without(packument, v).listed = [packument.listed EXCEPT ![v] = Void]
        /\ Without(packument, v).tags = [t \in NpmTags |-> IF packument.tags[t] = v THEN Void
                                                           ELSE packument.tags[t]]
    BY DEF Without
  <2>3. Without(packument, v) \in Docs BY <1>4 DEF Docs, Without
  <2>4. Leads(Without(packument, v)) BY <1>1, <1>4, <2>1, <2>2 DEF Docs, TagsLead, Leads
  <2> QED BY <2>1, <2>2, <2>3, <2>4
<1>6. doc \in Docs /\ Leads(doc) BY <1>5, NothingIsADoc
<1>7. rows \in TarballRows BY <1>4 DEF TarballRows
<1>8. ASSUME NEW w \in NpmVersions
      PROVE  LET gone == doc = NoDoc \/ w = v
             IN /\ rows[w] = IF gone THEN tarball[w] ELSE Void
                /\ doc.listed[w] = IF gone THEN Void ELSE packument.listed[w]
  <2>1. CASE all BY <2>1, NothingIsADoc
  <2>2. CASE ~all
    <3>1. doc = Without(packument, v) /\ doc # NoDoc /\ doc.listed = [packument.listed EXCEPT ![v] = Void]
      BY <1>5, <2>2
    <3>2. rows[w] = IF w = v THEN tarball[w] ELSE Void BY <2>2
    <3> QED BY <1>4, <3>1, <3>2 DEF Docs
  <2> QED BY <2>1, <2>2
<1> HIDE DEF doc, rows
<1>9. call \in NpmCalls BY <1>4, <1>6, <1>7, NothingIsADoc DEF NpmCalls, NpmIdle
<1>10. /\ call.version = v /\ call.doc = doc /\ call.rows = rows
       /\ call.oldDoc = packument /\ call.oldRows = tarball
  BY DEF NpmIdle
<1> HIDE DEF call
<1>11. npmCall'[r] = call /\ \A s \in NpmRequests : s # r => npmCall'[s] = npmCall[s]
  BY <1>0, <1>1, <1>3, <1>9, RequestGoes
<1>12. RequestKnown(r)'
  <2>1. Leads(npmCall[r].doc)' BY <1>6, <1>10, <1>11 DEF Leads
  <2>2. UnpublishKnown(r)'
    <3>1. \A w \in NpmVersions : w \notin overtaken => packument.listed[w] = tarball[w]
      BY <1>1 DEF VersionsAgree
    <3> QED BY <1>2, <1>8, <1>10, <1>11, <3>1 DEF UnpublishKnown
  <2>3. ASSUME NEW w \in NpmVersions, rows[w] # Void PROVE npmCall'[rows[w]].step = "done"
    <3>1. rows[w] = tarball[w] /\ npmCall[rows[w]].step = "done" BY <1>1, <1>8, <2>3 DEF RowsDone
    <3>2. rows[w] \in NpmRequests BY <1>7, <2>3 DEF TarballRows, NpmRequests
    <3> QED BY <1>2, <1>11, <3>1, <3>2
  <2> QED BY <1>0, <1>10, <1>11, <2>1, <2>2, <2>3 DEF RequestKnown
<1> QED BY <1>0, <1>2, <1>3, <1>9, <1>12, WithinKeeps

\* A publish that loses takes back bytes that no row names.
LEMMA PublishConflictsKeeps ==
  ASSUME NpmTrue, NEW p \in NpmPublishers, PublishConflicts(p)
  PROVE  NpmTrue'
<1>0. p \in NpmRequests BY DEF NpmRequests
<1>1. NpmTypeOK BY DEF NpmTrue
<1>2. /\ npmCall[p].step = "planned" /\ NpmEnds(p, "refused") /\ npmStored' = npmStored \ {p}
      /\ UNCHANGED <<npmImmutable, packument, tarball, release, republished, overtaken>>
  BY DEF PublishConflicts, NpmGhosts
<1>3. npmCall' = [npmCall EXCEPT ![p] = [NpmIdle EXCEPT !.step = "refused"]] BY <1>2 DEF NpmEnds
<1>4. npmStored' \subseteq NpmPublishers /\ npmCall[p].step # "done" BY <1>1, <1>2 DEF NpmTypeOK
<1> QED BY <1>0, <1>1, <1>2, <1>3, <1>4, EndKnows, WithinKeeps

\* A request that ends with a commit, after which each row is of a publish that
\* is done, and what agrees still does.
LEMMA CommitKeeps ==
  ASSUME NpmTrue, NEW r \in NpmRequests, NpmEnds(r, "done"), npmCall[r].step = "planned",
         UNCHANGED npmImmutable, packument' = npmCall[r].doc, tarball' \in TarballRows,
         \A v \in NpmVersions : \/ tarball'[v] = Void \/ tarball'[v] = tarball[v]
                                \/ tarball'[v] = npmCall[r].rows[v],
         StoredAfter(tarball'), release' \in TarballRows, republished' \subseteq NpmVersions,
         overtaken \subseteq overtaken', overtaken' \subseteq NpmVersions, ImmutableOnce',
         \A v \in NpmVersions \ overtaken' :
            /\ packument'.listed[v] = tarball'[v] /\ tarball'[v] = release'[v]
            /\ tarball'[v] # Void => tarball'[v] \in npmStored
  PROVE  NpmTrue'
<1>1. NpmTypeOK /\ RowsDone /\ RequestKnown(r) BY DEF NpmTrue
<1>2. /\ [NpmIdle EXCEPT !.step = "done"] \in NpmCalls
      /\ npmCall' \in [NpmRequests -> NpmCalls] /\ npmCall'[r].step = "done"
      /\ \A s \in NpmRequests : s # r => npmCall'[s] = npmCall[s]
      /\ RequestKnown(r)'
  BY <1>1, EndKnows
<1>3. \A p \in NpmRequests : npmCall[p].step = "done" => npmCall'[p].step = "done" BY <1>2
<1>4. NpmTypeOK'
  BY <1>1, <1>2 DEF NpmTypeOK, NpmCalls, StoredAfter, TarballRows
<1>5. RowsDone'
  <2> SUFFICES ASSUME NEW v \in NpmVersions, tarball'[v] # Void PROVE npmCall'[tarball'[v]].step = "done"
    BY DEF RowsDone
  <2>1. tarball'[v] \in NpmRequests BY DEF TarballRows, NpmRequests
  <2>2. tarball'[v] = r \/ npmCall[tarball'[v]].step = "done"
    BY <1>1 DEF RowsDone, RequestKnown
  <2> QED BY <1>2, <1>3, <2>1, <2>2
<1>6. ASSUME NEW s \in NpmRequests PROVE RequestKnown(s)'
  <2>1. ASSUME NEW p \in NpmPublishers \ {r}, npmCall[p].step \in {"staged", "planned"}, p \in npmStored
        PROVE  p \in npmStored'
    BY <1>1, <2>1, NpmAssumption DEF StoredAfter, RowsDone
  <2>2. npmCall' = [npmCall EXCEPT ![r] = [NpmIdle EXCEPT !.step = "done"]] BY DEF NpmEnds
  <2>3. npmCall[r].step \notin {"done"} OBVIOUS
  <2> DEFINE call == [NpmIdle EXCEPT !.step = "done"]
  <2> HIDE DEF call
  <2>4. npmCall' = [npmCall EXCEPT ![r] = call] /\ call \in NpmCalls BY <1>2, <2>2 DEF call
  <2>5. CASE s # r BY <2>1, <2>3, <2>4, <2>5, OthersKnow
  <2> QED BY <1>2, <2>5
<1>7. VersionsAgree'
  <2>1. \A v \in NpmVersions : tarball'[v] \in npmStored => tarball'[v] \in npmStored'
    BY DEF StoredAfter
  <2> QED BY <2>1 DEF VersionsAgree
<1>8. TagsLead' BY <1>1 DEF RequestKnown, Leads, TagsLead
<1> QED BY <1>4, <1>5, <1>6, <1>7, <1>8 DEF NpmTrue, NpmSound

\* What a publish writes agrees for all versions that did not change between
\* its reads; one that is immutable was not listed then, hence not published.
LEMMA PublishCommitsKeeps ==
  ASSUME NpmTrue, NEW p \in NpmPublishers, PublishCommits(p)
  PROVE  NpmTrue'
<1> DEFINE v == npmCall[p].version
<1>0. p \in NpmRequests /\ p # Void BY NpmAssumption DEF NpmRequests
<1>1. NpmTypeOK /\ VersionsAgree /\ ImmutableOnce /\ RequestKnown(p) BY <1>0 DEF NpmTrue, NpmSound
<1>2. /\ npmCall[p].step = "planned" /\ packument = npmCall[p].oldDoc
      /\ \A w \in NpmVersions : npmCall[p].rows[w] # Void => tarball[w] = npmCall[p].oldRows[w]
      /\ packument' = npmCall[p].doc
      /\ tarball' = [w \in NpmVersions |-> IF npmCall[p].rows[w] # Void THEN npmCall[p].rows[w]
                                           ELSE tarball[w]]
      /\ release' = [release EXCEPT ![v] = p]
      /\ republished' = IF release[v] # Void THEN republished \cup {v} ELSE republished
      /\ overtaken' = overtaken \cup Overtaken(p)
      /\ NpmEnds(p, "done") /\ UNCHANGED npmImmutable
  BY DEF PublishCommits, ImagesHold
<1>3. StoredAfter(tarball') BY <1>2 DEF PublishCommits
<1>4. /\ v \in NpmVersions /\ npmCall[p].rows[v] = p /\ p \in npmStored
      /\ npmCall[p].doc.listed = [npmCall[p].seen.listed EXCEPT ![v] = p]
      /\ npmImmutable => npmCall[p].seen.listed[v] = Void
  BY <1>1, <1>2 DEF RequestKnown, PublishKnown
<1>5. npmCall[p] \in NpmCalls BY <1>0, <1>1 DEF NpmTypeOK
<1>6. npmCall[p].rows \in TarballRows /\ tarball \in TarballRows /\ release \in TarballRows
      /\ npmCall[p].seen.listed \in TarballRows /\ overtaken \subseteq NpmVersions
      /\ republished \subseteq NpmVersions
  BY <1>1, <1>5 DEF NpmTypeOK, NpmCalls, Docs, TarballRows
<1>7. ASSUME NEW w \in NpmVersions
      PROVE  tarball'[w] = IF npmCall[p].rows[w] # Void THEN npmCall[p].rows[w] ELSE tarball[w]
  BY <1>2
<1>8. tarball' \in TarballRows /\ release' \in TarballRows /\ republished' \subseteq NpmVersions
  BY <1>2, <1>4, <1>6 DEF TarballRows
<1>9. ASSUME NEW w \in NpmVersions, w \notin overtaken'
      PROVE  /\ w \notin overtaken /\ npmCall[p].seen.listed[w] = packument.listed[w]
             /\ w = v \/ npmCall[p].rows[w] \in {Void, tarball[w]}
  BY <1>2, <1>9 DEF Overtaken
<1>10. ASSUME NEW w \in NpmVersions, w \notin overtaken'
       PROVE  /\ packument'.listed[w] = tarball'[w] /\ tarball'[w] = release'[w]
              /\ tarball'[w] # Void => tarball'[w] \in npmStored
  <2>1. CASE w = v BY <1>0, <1>2, <1>4, <1>6, <1>7, <2>1 DEF TarballRows
  <2>2. CASE w # v
    <3>1. tarball'[w] = tarball[w] /\ release'[w] = release[w]
      BY <1>2, <1>6, <1>7, <1>9, <1>10, <2>2 DEF TarballRows
    <3>2. packument'.listed[w] = packument.listed[w]
      BY <1>2, <1>4, <1>6, <1>9, <1>10, <2>2 DEF TarballRows
    <3> QED BY <1>1, <1>9, <1>10, <3>1, <3>2 DEF VersionsAgree
  <2> QED BY <2>1, <2>2
<1>11. ImmutableOnce'
  <2> SUFFICES ASSUME npmImmutable, release[v] # Void PROVE v \in overtaken'
    BY <1>1, <1>2 DEF ImmutableOnce
  <2> SUFFICES ASSUME v \notin overtaken' PROVE FALSE
    OBVIOUS
  <2>1. v \notin overtaken /\ packument.listed[v] = Void BY <1>4, <1>9
  <2> QED BY <1>1, <1>4, <2>1 DEF VersionsAgree
<1>12. overtaken \subseteq overtaken' /\ overtaken' \subseteq NpmVersions BY <1>2, <1>6 DEF Overtaken
<1>13. \A w \in NpmVersions : \/ tarball'[w] = Void \/ tarball'[w] = tarball[w]
                              \/ tarball'[w] = npmCall[p].rows[w]
  BY <1>7
<1> QED BY <1>0, <1>2, <1>3, <1>8, <1>10, <1>11, <1>12, <1>13, CommitKeeps

\* A tag goes into a document whose versions are those of its images, but for
\* those overtaken.
LEMMA TagCommitsKeeps ==
  ASSUME NpmTrue, NEW r \in NpmTaggers, TagCommits(r)
  PROVE  NpmTrue'
<1>0. r \in NpmRequests BY DEF NpmRequests
<1>1. NpmTypeOK /\ VersionsAgree /\ ImmutableOnce /\ RequestKnown(r) BY <1>0 DEF NpmTrue, NpmSound
<1>2. /\ npmCall[r].step = "planned" /\ NpmEnds(r, "done")
      /\ UNCHANGED <<npmImmutable, tarball, npmStored, release, republished>>
  BY DEF TagCommits
<1>3. npmCall[r].rows = NoDoc.listed /\ npmCall[r].doc.listed = npmCall[r].seen.listed
  BY <1>1, <1>2 DEF RequestKnown, TagKnown
<1>4. CASE ImagesHold(r)
  <2>1. /\ packument' = npmCall[r].doc /\ overtaken' = overtaken \cup Overtaken(r)
        /\ packument = npmCall[r].oldDoc
    BY <1>4 DEF TagCommits, ImagesHold
  <2>2. ASSUME NEW w \in NpmVersions, w \notin overtaken'
        PROVE  w \notin overtaken /\ packument'.listed[w] = packument.listed[w]
    BY <1>3, <2>1, <2>2 DEF Overtaken
  <2>3. \A w \in NpmVersions \ overtaken' :
          /\ packument'.listed[w] = tarball'[w] /\ tarball'[w] = release'[w]
          /\ tarball'[w] # Void => tarball'[w] \in npmStored
    BY <1>1, <1>2, <2>2 DEF VersionsAgree
  <2>4. StoredAfter(tarball')
    <3>1. {c \in NpmPublishers : /\ \E v \in NpmVersions : tarball[v] = c
                                 /\ \A v \in NpmVersions : tarball'[v] # c} = {}
      BY <1>2
    <3> QED BY <1>2, <3>1 DEF StoredAfter
  <2>5. tarball' \in TarballRows /\ release' \in TarballRows /\ republished' \subseteq NpmVersions
        /\ overtaken' \subseteq NpmVersions /\ overtaken \subseteq overtaken'
    BY <1>1, <1>2, <2>1 DEF NpmTypeOK, TarballRows, Overtaken
  <2>6. ImmutableOnce' BY <1>1, <1>2, <2>1 DEF ImmutableOnce
  <2>7. \A w \in NpmVersions : \/ tarball'[w] = Void \/ tarball'[w] = tarball[w]
                               \/ tarball'[w] = npmCall[r].rows[w]
    BY <1>2
  <2>8. packument' = npmCall[r].doc /\ UNCHANGED npmImmutable BY <1>2, <2>1
  <2> QED BY <1>0, <1>2, <2>3, <2>4, <2>5, <2>6, <2>7, <2>8, CommitKeeps
<1>5. CASE ~ImagesHold(r)
  <2>1. UNCHANGED <<packument, overtaken>> BY <1>5 DEF TagCommits
  <2>2. npmCall' = [npmCall EXCEPT ![r] = [NpmIdle EXCEPT !.step = "done"]] BY <1>2 DEF NpmEnds
  <2>3. npmStored' \subseteq NpmPublishers /\ npmCall[r].step # "done" BY <1>1, <1>2 DEF NpmTypeOK
  <2> QED BY <1>0, <1>1, <1>2, <2>1, <2>2, <2>3, EndKnows, WithinKeeps
<1> QED BY <1>4, <1>5

\* What is taken from the document goes with its row.
LEMMA UnpublishCommitsKeeps ==
  ASSUME NpmTrue, NEW r \in NpmUnpublishers, UnpublishCommits(r)
  PROVE  NpmTrue'
<1>0. r \in NpmRequests BY DEF NpmRequests
<1>1. NpmTypeOK /\ VersionsAgree /\ ImmutableOnce /\ RequestKnown(r) BY <1>0 DEF NpmTrue, NpmSound
<1>2. /\ npmCall[r].step = "planned" /\ NpmEnds(r, "done") /\ UNCHANGED <<npmImmutable, overtaken>>
  BY DEF UnpublishCommits
<1>3. CASE ImagesHold(r)
  <2> DEFINE gone(w) == npmCall[r].doc = NoDoc \/ w = npmCall[r].version
  <2>1. /\ packument' = npmCall[r].doc /\ packument = npmCall[r].oldDoc
        /\ tarball' = [w \in NpmVersions |-> IF npmCall[r].rows[w] # Void THEN Void ELSE tarball[w]]
        /\ release' = [w \in NpmVersions |-> IF gone(w) THEN Void ELSE release[w]]
        /\ republished' \subseteq republished
    BY <1>3 DEF UnpublishCommits, ImagesHold
  <2>2. StoredAfter(tarball') BY <1>3, <2>1 DEF UnpublishCommits
  <2>3. ASSUME NEW w \in NpmVersions
        PROVE  /\ npmCall[r].rows[w] = IF gone(w) THEN npmCall[r].oldRows[w] ELSE Void
               /\ npmCall[r].doc.listed[w] = IF gone(w) THEN Void ELSE packument.listed[w]
               /\ w \notin overtaken => packument.listed[w] = npmCall[r].oldRows[w]
    BY <1>1, <1>2, <2>1 DEF RequestKnown, UnpublishKnown
  <2>4. ASSUME NEW w \in NpmVersions, w \notin overtaken'
        PROVE  /\ packument'.listed[w] = tarball'[w] /\ tarball'[w] = release'[w]
               /\ tarball'[w] # Void => tarball'[w] \in npmStored
    <3>1. /\ packument.listed[w] = tarball[w] /\ tarball[w] = release[w]
          /\ tarball[w] # Void => tarball[w] \in npmStored
      BY <1>1, <1>2, <2>4 DEF VersionsAgree
    <3>2. /\ tarball'[w] = IF npmCall[r].rows[w] # Void THEN Void ELSE tarball[w]
          /\ release'[w] = IF gone(w) THEN Void ELSE release[w]
      BY <2>1
    <3> QED BY <1>2, <2>1, <2>3, <2>4, <3>1, <3>2
  <2>5. tarball' \in TarballRows /\ release' \in TarballRows /\ republished' \subseteq NpmVersions
        /\ overtaken' \subseteq NpmVersions /\ overtaken \subseteq overtaken'
    <3>1. tarball \in TarballRows /\ release \in TarballRows BY <1>1 DEF NpmTypeOK, TarballRows
    <3> QED BY <1>1, <1>2, <2>1, <3>1 DEF NpmTypeOK, TarballRows
  <2>6. ImmutableOnce' BY <1>1, <1>2, <2>1 DEF ImmutableOnce
  <2>7. \A w \in NpmVersions : \/ tarball'[w] = Void \/ tarball'[w] = tarball[w]
                               \/ tarball'[w] = npmCall[r].rows[w]
    BY <2>1
  <2> QED BY <1>0, <1>2, <2>1, <2>2, <2>4, <2>5, <2>6, <2>7, CommitKeeps
<1>4. CASE ~ImagesHold(r)
  <2>1. UNCHANGED <<packument, tarball, npmStored, release, republished>> BY <1>4 DEF UnpublishCommits
  <2>2. npmCall' = [npmCall EXCEPT ![r] = [NpmIdle EXCEPT !.step = "done"]] BY <1>2 DEF NpmEnds
  <2>3. npmStored' \subseteq NpmPublishers /\ npmCall[r].step # "done" BY <1>1, <1>2, <2>1 DEF NpmTypeOK
  <2> QED BY <1>0, <1>1, <1>2, <2>1, <2>2, <2>3, EndKnows, WithinKeeps
<1> QED BY <1>3, <1>4

\* NpmTrue holds in every state of NpmSpec.
LEMMA NpmStaysTrue == NpmSpec => []NpmTrue
<1>1. ASSUME NpmTrue, [NpmNext]_npmVars PROVE NpmTrue'
  <2>1. ASSUME NEW p \in NpmPublishers, PublishStep(p) PROVE NpmTrue'
    <3>1. p \in NpmRequests BY DEF NpmRequests
    <3> QED BY <1>1, <2>1, <3>1, PublishReadsKeeps, PublishStagesKeeps, PlansKeep, PublishCommitsKeeps,
               PublishConflictsKeeps
            DEF PublishStep
  <2>2. ASSUME NEW r \in NpmTaggers, TagStep(r) PROVE NpmTrue'
    <3>1. r \in NpmRequests BY DEF NpmRequests
    <3> QED BY <1>1, <2>2, <3>1, TagReadsKeeps, PlansKeep, TagCommitsKeeps DEF TagStep
  <2>3. ASSUME NEW r \in NpmUnpublishers, UnpublishStep(r) PROVE NpmTrue'
    BY <1>1, <2>3, UnpublishPlansKeeps, UnpublishCommitsKeeps DEF UnpublishStep
  <2>4. CASE UNCHANGED npmVars
    BY <1>1, <2>4
       DEF NpmTrue, npmVars, NpmTypeOK, RowsDone, RequestKnown, PublishKnown, TagKnown, UnpublishKnown,
           Leads, NpmSound, VersionsAgree, TagsLead, ImmutableOnce
  <2> QED BY <1>1, <2>1, <2>2, <2>3, <2>4 DEF NpmNext
<1> QED BY <1>1, NpmBegins, PTL DEF NpmSpec

\* However requests overlap, what the document lists, what the rows hold and what was
\* published last are one, no tag names a version that is not listed, and an immutable
\* version is published once, save for versions that changed between the two reads of
\* another request (publishAssets, planNpmTarget, distTagPut,
\* npmImmutableVersionExists).
THEOREM NpmAlwaysSound == NpmSpec => []NpmSound
<1>1. NpmTrue => NpmSound BY DEF NpmTrue
<1> QED BY <1>1, NpmStaysTrue, PTL

-----------------------------------------------------------------------------
(***************************************************************************)
(* PackageIndex.                                                           *)
(* For any publishes of PyPI and NuGet and any readers of a proxy: what    *)
(* the index says of a file is true of it, a published file stays, and a   *)
(* reader gets the content whose digest it was shown.                      *)
(***************************************************************************)

\* Steps of a reader that has been shown a row.
ShownSteps == {"listed", "absent", "fetching", "awaits file", "staged", "cached"}

\* Only a hosted repository is published to, only a proxy fetches, whoever has
\* begun knows its file, and what is staged is a content.
FeedKnown ==
  /\ feed = "hosted" =>
       \A r \in Fetches : fetch[r].step \in {"none", "listed", "cached", "served", "failed"}
  /\ feed # "hosted" => \A u \in Uploads : upload[u].step = "none"
  /\ \A r \in Fetches : fetch[r].step # "none" => fetch[r].file \in Files
  /\ \A r \in Fetches : fetch[r].step = "staged" => fetch[r].content # NoFile
  /\ \A u \in Uploads : upload[u].step # "none" => upload[u].file \in Files

\* An image of a file that was there is counted as overlaid.
PlansKnow ==
  \A u \in Uploads : upload[u].step = "planned" =>
    upload[u].old = NoFile \/ upload[u].file \in overlaid

\* The digest a reader of a PyPI proxy was shown is still the one of the row,
\* and what it has fetched has that digest.
ShownStays ==
  feed = "pypi" => \A r \in Fetches :
    /\ fetch[r].step \in ShownSteps =>
         /\ fetch[r].row.digest = listing[fetch[r].file].digest
         /\ \E f \in Files : Listed(f)
    /\ fetch[r].step = "staged" => fetch[r].content = fetch[r].row.digest

PackagesTrue == PackageTypeOK /\ FeedKnown /\ PlansKnow /\ ShownStays /\ PackagesSound

\* The invariant holds before anybody publishes or fetches.
LEMMA PackagesBegin == PackageInit => PackagesTrue
<1> SUFFICES ASSUME PackageInit PROVE PackagesTrue
  OBVIOUS
<1> USE IndexedAssumption DEF PackageInit
<1>1. PackageTypeOK
  <2>1. NoUpload \in UploadCalls BY DEF UploadCalls, NoUpload
  <2>2. NoFetch \in FetchCalls BY DEF FetchCalls, FetchSteps, NoFetch
  <2>3. origin \in [Files -> Originals]
    OBVIOUS
  <2> QED BY <2>1, <2>2, <2>3 DEF PackageTypeOK
<1>2. FeedKnown /\ PlansKnow BY DEF FeedKnown, PlansKnow, NoUpload, NoFetch
<1>3. ShownStays BY DEF ShownStays, ShownSteps, NoFetch
<1>4. PackagesSound
  BY DEF PackagesSound, DigestsTrue, FilesStay, ShownIsServed, NoUpload, NoFetch
<1> QED BY <1>1, <1>2, <1>3, <1>4 DEF PackagesTrue

\* A reader goes on with another record of its kind.
LEMMA ReaderGoes ==
  ASSUME PackageTypeOK, NEW r \in Fetches, NEW call \in FetchCalls,
         fetch' = [fetch EXCEPT ![r] = call]
  PROVE  /\ fetch' \in [Fetches -> FetchCalls] /\ fetch'[r] = call
         /\ \A s \in Fetches : s # r => fetch'[s] = fetch[s]
BY DEF PackageTypeOK

\* Those that a step ends are where it says, all else of them is as it was.
LEMMA ReadersEnd ==
  ASSUME PackageTypeOK, NEW rs, NEW how \in FetchSteps, FetchEnds(rs, how)
  PROVE  /\ fetch' \in [Fetches -> FetchCalls]
         /\ \A r \in Fetches :
              /\ fetch'[r].step = IF r \in rs THEN how ELSE fetch[r].step
              /\ fetch'[r].file = fetch[r].file /\ fetch'[r].row = fetch[r].row
              /\ fetch'[r].content = fetch[r].content
<1>1. ASSUME NEW r \in Fetches
      PROVE  /\ [fetch[r] EXCEPT !.step = how] \in FetchCalls
             /\ fetch'[r] = IF r \in rs THEN [fetch[r] EXCEPT !.step = how] ELSE fetch[r]
  BY DEF PackageTypeOK, FetchCalls, FetchEnds
<1>2. fetch' \in [Fetches -> FetchCalls] BY <1>1 DEF PackageTypeOK, FetchEnds
<1>3. ASSUME NEW r \in Fetches
      PROVE  /\ fetch'[r].step = IF r \in rs THEN how ELSE fetch[r].step
             /\ fetch'[r].file = fetch[r].file /\ fetch'[r].row = fetch[r].row
             /\ fetch'[r].content = fetch[r].content
  <2>1. fetch[r] \in FetchCalls BY DEF PackageTypeOK
  <2>2. CASE r \in rs BY <1>1, <2>1, <2>2 DEF FetchCalls
  <2>3. CASE r \notin rs BY <1>1, <2>3
  <2> QED BY <2>2, <2>3
<1> QED BY <1>2, <1>3

\* A step that only sends readers on keeps all.
LEMMA EndsKeep ==
  ASSUME PackagesTrue, NEW rs \in SUBSET Fetches, NEW how \in {"failed", "cached", "loading", "awaits index", "absent", "fetching", "awaits file"},
         FetchEnds(rs, how),
         UNCHANGED <<feed, listing, file, origin, upload, overlaid>>,
         loader' \in Fetches \cup {NoFile}, fetcher' \in [Files -> Fetches \cup {NoFile}],
         \A r \in rs : fetch[r].step # "none",
         feed = "hosted" => how \in {"cached", "failed"},
         feed = "pypi" /\ how \in ShownSteps => \A r \in rs : fetch[r].step \in ShownSteps
  PROVE  PackagesTrue'
<1> USE DEF PackagesTrue
<1>0. /\ fetch' \in [Fetches -> FetchCalls]
      /\ \A r \in Fetches :
           /\ fetch'[r].step = IF r \in rs THEN how ELSE fetch[r].step
           /\ fetch'[r].file = fetch[r].file /\ fetch'[r].row = fetch[r].row
           /\ fetch'[r].content = fetch[r].content
  <2>1. PackageTypeOK /\ how \in FetchSteps BY DEF FetchSteps
  <2> QED BY <2>1, ReadersEnd, Zenon
<1>1. PackageTypeOK' BY <1>0 DEF PackageTypeOK
<1>2. FeedKnown' BY <1>0 DEF FeedKnown
<1>3. PlansKnow' BY DEF PlansKnow
<1>4. ShownStays' BY <1>0 DEF ShownStays, ShownSteps, Listed
<1>5. PackagesSound' BY <1>0 DEF PackagesSound, DigestsTrue, FilesStay, ShownIsServed
<1> QED BY <1>1, <1>2, <1>3, <1>4, <1>5

\* A reader is shown the row that is there.
LEMMA ListsKeep ==
  ASSUME PackagesTrue, NEW r \in Fetches, NEW f \in Files, FetchLists(r, f)
  PROVE  PackagesTrue'
<1> USE DEF PackagesTrue
<1>1. PICK step \in {"unlisted", "listed", "failed"} :
        /\ fetch' = [fetch EXCEPT ![r] = [NoFetch EXCEPT !.step = step, !.file = f, !.row = listing[f]]]
        /\ step = "listed" => Listed(f)
        /\ feed = "hosted" => step # "unlisted"
  BY DEF FetchLists
<1> DEFINE call == [NoFetch EXCEPT !.step = step, !.file = f, !.row = listing[f]]
<1>2. call.step = step /\ call.file = f /\ call.row = listing[f] BY DEF NoFetch
<1>3. call \in FetchCalls BY DEF FetchCalls, FetchSteps, NoFetch, PackageTypeOK
<1> HIDE DEF call
<1>4. /\ fetch' \in [Fetches -> FetchCalls] /\ fetch'[r] = call
      /\ \A s \in Fetches : s # r => fetch'[s] = fetch[s]
  BY <1>1, <1>3, ReaderGoes DEF call
<1>5. UNCHANGED <<feed, listing, file, origin, upload, loader, fetcher, overlaid>> BY DEF FetchLists
<1>6. PackageTypeOK' BY <1>4, <1>5 DEF PackageTypeOK
<1>7. FeedKnown' BY <1>1, <1>2, <1>4, <1>5 DEF FeedKnown
<1>8. PlansKnow' BY <1>5 DEF PlansKnow
<1>9. ShownStays'
  <2>1. fetch'[r].step \in ShownSteps => Listed(f) BY <1>1, <1>2, <1>4 DEF ShownSteps
  <2>2. fetch'[r].step # "staged" BY <1>2, <1>4
  <2> QED BY <1>2, <1>4, <1>5, <2>1, <2>2 DEF ShownStays, Listed
<1>10. PackagesSound' BY <1>2, <1>4, <1>5 DEF PackagesSound, DigestsTrue, FilesStay, ShownIsServed
<1> QED BY <1>6, <1>7, <1>8, <1>9, <1>10

\* The index of the upstream is written only when no row is there, so that no
\* row that has been shown changes.
LEMMA IndexLoadsKeeps ==
  ASSUME PackagesTrue, NEW r \in Fetches, IndexLoads(r)
  PROVE  PackagesTrue'
<1> USE IndexedAssumption DEF PackagesTrue
<1> DEFINE rows == IF \E f \in Files : Listed(f) THEN listing ELSE FreshRows
<1>1. /\ listing' = rows
      /\ fetch' = [s \in Fetches |-> IF s \in IndexFlight(r)
                                     THEN [fetch[s] EXCEPT !.step = "listed",
                                                           !.row = rows[fetch[s].file]]
                                     ELSE fetch[s]]
      /\ loader' = NoFile /\ UNCHANGED <<feed, file, origin, upload, fetcher, overlaid>>
  BY DEF IndexLoads, IndexArrives
<1>2. feed # "hosted" BY DEF IndexLoads, FeedKnown
<1>3. rows \in [Files -> RowValues \cup {NoRow}]
  <2>1. FreshRows \in [Files -> RowValues \cup {NoRow}]
    BY DEF FreshRows, PyPIRow, NuGetRow, RowValues, FileContents, PackageTypeOK
  <2> QED BY <2>1 DEF PackageTypeOK
<1>4. (\E f \in Files : Listed(f)) \/ \A f \in Files : file[f] = NoFile
  BY DEF PackagesSound, DigestsTrue, Listed, NoRow
<1>5. feed = "pypi" /\ Files # {} => \E f \in Files : rows[f] # NoRow
  <2>1. CASE \E f \in Files : Listed(f) BY <2>1 DEF Listed
  <2>2. ASSUME ~\E f \in Files : Listed(f), feed = "pypi", NEW f \in Files PROVE rows[f] # NoRow
    <3>1. rows[f] = PyPIRow(f) BY <2>2 DEF FreshRows
    <3> QED BY <3>1 DEF PyPIRow, NoRow
  <2> QED BY <2>1, <2>2
<1> HIDE DEF rows
<1>6. ASSUME NEW s \in IndexFlight(r)
      PROVE  s \in Fetches /\ fetch[s].step # "none" /\ fetch[s].file \in Files
  BY <1>6 DEF IndexFlight, FeedKnown, IndexLoads
<1>7. ASSUME NEW s \in Fetches
      PROVE  /\ fetch'[s] \in FetchCalls
             /\ s \notin IndexFlight(r) => fetch'[s] = fetch[s]
             /\ s \in IndexFlight(r) => /\ fetch'[s].step = "listed" /\ fetch'[s].file = fetch[s].file
                                        /\ fetch'[s].row = rows[fetch[s].file]
  <2>1. fetch[s] \in FetchCalls BY DEF PackageTypeOK
  <2>2. CASE s \notin IndexFlight(r) BY <1>1, <2>1, <2>2
  <2>3. CASE s \in IndexFlight(r)
    <3>1. rows[fetch[s].file] \in RowValues \cup {NoRow} BY <1>3, <1>6, <2>3
    <3>2. fetch'[s] = [fetch[s] EXCEPT !.step = "listed", !.row = rows[fetch[s].file]] BY <1>1, <2>3
    <3> QED BY <2>1, <2>3, <3>1, <3>2 DEF FetchCalls, FetchSteps
  <2> QED BY <2>2, <2>3
<1>8. PackageTypeOK'
  <2>1. fetch' \in [Fetches -> FetchCalls] BY <1>1, <1>7
  <2> QED BY <1>1, <1>3, <2>1 DEF PackageTypeOK
<1>9. FeedKnown' BY <1>1, <1>2, <1>6, <1>7 DEF FeedKnown
<1>10. PlansKnow' BY <1>1 DEF PlansKnow
<1>11. ShownStays'
  <2> SUFFICES ASSUME feed' = "pypi", NEW s \in Fetches, fetch'[s].step \in ShownSteps
               PROVE  /\ fetch'[s].row.digest = listing'[fetch'[s].file].digest
                      /\ \E f \in Files : Listed(f)'
                      /\ fetch'[s].step = "staged" => fetch'[s].content = fetch'[s].row.digest
    BY DEF ShownStays, ShownSteps
  <2>1. CASE s \in IndexFlight(r)
    BY <1>1, <1>5, <1>6, <1>7, <2>1 DEF Listed
  <2>2. CASE s \notin IndexFlight(r)
    <3>1. fetch'[s] = fetch[s] BY <1>7, <2>2
    <3>2. rows = listing BY <1>1, <3>1 DEF ShownStays, rows
    <3> QED BY <1>1, <3>1, <3>2 DEF ShownStays, Listed
  <2> QED BY <2>1, <2>2
<1>12. PackagesSound'
  <2>1. DigestsTrue' BY <1>1, <1>4 DEF PackagesSound, DigestsTrue, rows
  <2>2. FilesStay' BY <1>1 DEF PackagesSound, FilesStay
  <2>3. ShownIsServed' BY <1>1, <1>7 DEF PackagesSound, ShownIsServed
  <2> QED BY <2>1, <2>2, <2>3 DEF PackagesSound
<1> QED BY <1>8, <1>9, <1>10, <1>11, <1>12

\* What a flight has fetched has the digest that its row says already.
LEMMA CachedKeeps ==
  ASSUME PackagesTrue, NEW r \in Fetches, FileCached(r)
  PROVE  PackagesTrue'
<1> USE IndexedAssumption DEF PackagesTrue
<1> DEFINE f == fetch[r].file
           content == fetch[r].content
           row == [digest |-> content, source |-> FALSE]
<1>1. /\ fetch[r].step = "staged" /\ f \in Files /\ feed # "hosted"
      /\ file' = [file EXCEPT ![f] = content] /\ listing' = [listing EXCEPT ![f] = row]
      /\ FetchEnds(FileFlight(r), "cached") /\ fetcher' = [fetcher EXCEPT ![f] = NoFile]
      /\ UNCHANGED <<feed, origin, upload, loader, overlaid>>
  BY DEF FileCached, FetchFlightEnds, FeedKnown
<1>2. content \in FileContents \cup {NoFile} /\ row \in RowValues
  BY DEF PackageTypeOK, FetchCalls, RowValues
<1> HIDE DEF row
<1>3. /\ fetch' \in [Fetches -> FetchCalls]
      /\ \A s \in Fetches :
           /\ fetch'[s].step = IF s \in FileFlight(r) THEN "cached" ELSE fetch[s].step
           /\ fetch'[s].file = fetch[s].file /\ fetch'[s].row = fetch[s].row
           /\ fetch'[s].content = fetch[s].content
  <2>1. PackageTypeOK /\ "cached" \in FetchSteps BY DEF FetchSteps
  <2> QED BY <1>1, <2>1, ReadersEnd, Zenon
<1>4. row.digest = content BY DEF row
<1>5. listing'[f] = row /\ file'[f] = content
        /\ \A g \in Files : g # f => listing'[g] = listing[g] /\ file'[g] = file[g]
  BY <1>1 DEF PackageTypeOK
<1>6. PackageTypeOK' BY <1>1, <1>2, <1>3 DEF PackageTypeOK
<1>7. FeedKnown'
  <2>1. \A s \in Fetches : fetch'[s].step # "none" => fetch'[s].file \in Files
    BY <1>1, <1>3 DEF FeedKnown, FileFlight
  <2>2. \A s \in Fetches : fetch'[s].step = "staged" => fetch'[s].content # NoFile
    BY <1>3 DEF FeedKnown
  <2> QED BY <1>1, <2>1, <2>2 DEF FeedKnown
<1>8. PlansKnow' BY <1>1 DEF PlansKnow
<1>9. feed = "pypi" =>
        /\ listing'[f].digest = listing[f].digest
        /\ \A g \in Files : listing'[g].digest = listing[g].digest
  BY <1>1, <1>4, <1>5 DEF ShownStays, ShownSteps
<1>10. ShownStays'
  <2> SUFFICES ASSUME feed' = "pypi", NEW s \in Fetches, fetch'[s].step \in ShownSteps
               PROVE  /\ fetch'[s].row.digest = listing'[fetch'[s].file].digest
                      /\ \E g \in Files : Listed(g)'
                      /\ fetch'[s].step = "staged" => fetch'[s].content = fetch'[s].row.digest
    BY DEF ShownStays, ShownSteps
  <2>1. fetch[s].step \in ShownSteps BY <1>1, <1>3 DEF FileFlight, ShownSteps
  <2>2. fetch[s].file \in Files BY <2>1 DEF FeedKnown, ShownSteps
  <2>3. \E g \in Files : Listed(g)'
    <3>1. PICK g \in Files : Listed(g) BY <1>1, <2>1 DEF ShownStays
    <3>2. CASE g # f BY <1>5, <3>1, <3>2 DEF Listed
    <3>3. CASE g = f
      <4>1. row # NoRow \/ content = NoFile BY <1>4 DEF NoRow
      <4>2. content # NoFile BY <1>1 DEF FeedKnown
      <4> QED BY <1>1, <1>5, <4>1, <4>2 DEF Listed
    <3> QED BY <3>2, <3>3
  <2> QED BY <1>1, <1>3, <1>9, <2>1, <2>2, <2>3 DEF ShownStays
<1>11. PackagesSound'
  <2>1. DigestsTrue' BY <1>4, <1>5 DEF PackagesSound, DigestsTrue
  <2>2. FilesStay' BY <1>1 DEF PackagesSound, FilesStay, FeedKnown
  <2>3. ShownIsServed' BY <1>1, <1>3 DEF PackagesSound, ShownIsServed
  <2> QED BY <2>1, <2>2, <2>3 DEF PackagesSound
<1> QED BY <1>6, <1>7, <1>8, <1>10, <1>11

\* Who joins a flight, or ends one with nothing, keeps all.
LEMMA FlightsKeep ==
  ASSUME PackagesTrue, NEW r \in Fetches,
         IndexJoins(r) \/ IndexFails(r) \/ FileWanted(r) \/ FileJoins(r)
  PROVE  PackagesTrue'
<1>1. PackageTypeOK /\ FeedKnown BY DEF PackagesTrue
<1>2. fetch[r].step # "none" => fetch[r].file \in Files BY <1>1 DEF FeedKnown
<1> PICK one \in SUBSET Fetches : one = {r} OBVIOUS
<1>3. CASE IndexJoins(r)
  <2>1. PICK how \in {"loading", "awaits index"} : FetchEnds(one, how)
    BY <1>3 DEF IndexJoins
  <2>2. /\ UNCHANGED <<feed, listing, file, origin, upload, overlaid>>
        /\ loader' \in Fetches \cup {NoFile} /\ fetcher' \in [Files -> Fetches \cup {NoFile}]
    BY <1>1, <1>3 DEF IndexJoins, PackageTypeOK
  <2>3. fetch[r].step = "unlisted" /\ feed # "hosted" BY <1>1, <1>3 DEF IndexJoins, FeedKnown
  <2>4. how \notin ShownSteps BY DEF ShownSteps
  <2>5. \A s \in one : fetch[s].step # "none" BY <2>3
  <2>6. CASE how = "loading" BY <2>1, <2>2, <2>3, <2>4, <2>5, <2>6, EndsKeep
  <2>7. CASE how = "awaits index" BY <2>1, <2>2, <2>3, <2>4, <2>5, <2>7, EndsKeep
  <2> QED BY <2>6, <2>7
<1>4. CASE IndexFails(r)
  <2>1. /\ FetchEnds(IndexFlight(r), "failed") /\ IndexFlight(r) \in SUBSET Fetches
        /\ \A s \in IndexFlight(r) : fetch[s].step # "none"
    BY <1>4 DEF IndexFails, IndexFlight
  <2>2. /\ UNCHANGED <<feed, listing, file, origin, upload, overlaid>>
        /\ loader' \in Fetches \cup {NoFile} /\ fetcher' \in [Files -> Fetches \cup {NoFile}]
    BY <1>1, <1>4 DEF IndexFails, PackageTypeOK
  <2>3. "failed" \notin ShownSteps BY DEF ShownSteps
  <2> QED BY <2>1, <2>2, <2>3, EndsKeep
<1>5. CASE FileWanted(r)
  <2>1. PICK how \in {"cached", "absent"} :
          FetchEnds(one, how) /\ (feed = "hosted" => how = "cached")
    BY <1>5 DEF FileWanted
  <2>2. /\ UNCHANGED <<feed, listing, file, origin, upload, overlaid>>
        /\ loader' \in Fetches \cup {NoFile} /\ fetcher' \in [Files -> Fetches \cup {NoFile}]
    BY <1>1, <1>5 DEF FileWanted, PackageTypeOK
  <2>3. fetch[r].step # "none" /\ fetch[r].step \in ShownSteps BY <1>5 DEF FileWanted, ShownSteps
  <2>4. \A s \in one : fetch[s].step # "none" /\ fetch[s].step \in ShownSteps BY <2>3
  <2>5. CASE how = "cached" BY <2>1, <2>2, <2>4, <2>5, EndsKeep
  <2>6. CASE how = "absent" BY <2>1, <2>2, <2>4, <2>6, EndsKeep
  <2> QED BY <2>5, <2>6
<1>6. CASE FileJoins(r)
  <2>1. PICK how \in {"fetching", "awaits file"} : FetchEnds(one, how)
    BY <1>6 DEF FileJoins
  <2>2. /\ UNCHANGED <<feed, listing, file, origin, upload, overlaid>>
        /\ loader' \in Fetches \cup {NoFile} /\ fetcher' \in [Files -> Fetches \cup {NoFile}]
    BY <1>1, <1>6 DEF FileJoins, PackageTypeOK
  <2>3. fetch[r].step \in ShownSteps /\ fetch[r].step # "none" /\ feed # "hosted"
    BY <1>1, <1>6 DEF FileJoins, FeedKnown, ShownSteps
  <2>4. \A s \in one : fetch[s].step # "none" /\ fetch[s].step \in ShownSteps BY <2>3
  <2>5. CASE how = "fetching" BY <2>1, <2>2, <2>3, <2>4, <2>5, EndsKeep
  <2>6. CASE how = "awaits file" BY <2>1, <2>2, <2>3, <2>4, <2>6, EndsKeep
  <2> QED BY <2>5, <2>6
<1> QED BY <1>3, <1>4, <1>5, <1>6

\* What is fetched for a reader of a PyPI proxy has the digest it was shown.
LEMMA FetchedKeeps ==
  ASSUME PackagesTrue, NEW r \in Fetches, FileFetched(r)
  PROVE  PackagesTrue'
<1> USE IndexedAssumption
<1>1. PackageTypeOK /\ FeedKnown /\ PlansKnow /\ ShownStays /\ PackagesSound BY DEF PackagesTrue
<1> DEFINE f == fetch[r].file
           call == [fetch[r] EXCEPT !.step = "staged", !.content = origin[f]]
<1>2. /\ fetch[r].step = "fetching" /\ f \in Files /\ feed # "hosted"
      /\ UNCHANGED <<feed, listing, file, origin, upload, loader, overlaid>>
  BY <1>1 DEF FileFetched, FeedKnown
<1>3. ASSUME NEW how \in {"cached", "failed"}, FetchFlightEnds(r, how) PROVE PackagesTrue'
  <2>1. /\ FetchEnds(FileFlight(r), how) /\ FileFlight(r) \in SUBSET Fetches
        /\ \A s \in FileFlight(r) : fetch[s].step # "none" /\ fetch[s].step \in ShownSteps
    BY <1>2, <1>3 DEF FetchFlightEnds, FileFlight, ShownSteps
  <2>2. fetcher' \in [Files -> Fetches \cup {NoFile}] /\ loader' \in Fetches \cup {NoFile}
    BY <1>1, <1>2, <1>3 DEF FetchFlightEnds, PackageTypeOK
  <2> QED BY <1>2, <2>1, <2>2, EndsKeep
<1>4. ASSUME PyPIAnswers(r) \/ NuGetAnswers, fetch' = [fetch EXCEPT ![r] = call], UNCHANGED fetcher
      PROVE  PackagesTrue'
  <2>1. fetch[r] \in FetchCalls /\ origin[f] \in Originals BY <1>1, <1>2 DEF PackageTypeOK
  <2>2. call \in FetchCalls BY <2>1 DEF FetchCalls, FetchSteps, FileContents
  <2>3. /\ call.step = "staged" /\ call.file = f /\ call.row = fetch[r].row /\ call.content = origin[f]
    BY <2>1 DEF FetchCalls
  <2> HIDE DEF call
  <2>4. /\ fetch' \in [Fetches -> FetchCalls] /\ fetch'[r] = call
        /\ \A s \in Fetches : s # r => fetch'[s] = fetch[s]
    BY <1>1, <1>4, <2>2, ReaderGoes
  <2>5. PackageTypeOK' BY <1>1, <1>2, <1>4, <2>4 DEF PackageTypeOK
  <2>6. FeedKnown' BY <1>1, <1>2, <2>1, <2>3, <2>4 DEF FeedKnown
  <2>7. PlansKnow' BY <1>1, <1>2 DEF PlansKnow
  <2>8. ShownStays'
    <3>1. feed = "pypi" => origin[f] = fetch[r].row.digest BY <1>4 DEF PyPIAnswers, NuGetAnswers
    <3>2. fetch[r].step \in ShownSteps BY <1>2 DEF ShownSteps
    <3> QED BY <1>1, <1>2, <2>3, <2>4, <3>1, <3>2 DEF ShownStays, Listed
  <2>9. PackagesSound'
    BY <1>1, <1>2, <2>3, <2>4 DEF PackagesSound, DigestsTrue, FilesStay, ShownIsServed
  <2> QED BY <2>5, <2>6, <2>7, <2>8, <2>9 DEF PackagesTrue
<1> QED BY <1>3, <1>4 DEF FileFetched

\* The file that is served has the digest of the row, hence the one shown.
LEMMA ServedKeeps ==
  ASSUME PackagesTrue, NEW r \in Fetches, FileServed(r)
  PROVE  PackagesTrue'
<1> USE IndexedAssumption
<1>1. PackageTypeOK /\ FeedKnown /\ PlansKnow /\ ShownStays /\ PackagesSound BY DEF PackagesTrue
<1> DEFINE content == file[fetch[r].file]
           call == [fetch[r] EXCEPT !.step = IF content = NoFile THEN "failed" ELSE "served",
                                    !.content = content]
<1>2. /\ fetch[r].step = "cached" /\ fetch[r].file \in Files /\ fetch' = [fetch EXCEPT ![r] = call]
      /\ UNCHANGED <<feed, listing, file, origin, upload, loader, fetcher, overlaid>>
  BY <1>1 DEF FileServed, FeedKnown
<1>3. fetch[r] \in FetchCalls /\ content \in FileContents \cup {NoFile} BY <1>1, <1>2 DEF PackageTypeOK
<1>4. call \in FetchCalls BY <1>3 DEF FetchCalls, FetchSteps
<1>5. /\ call.step = IF content = NoFile THEN "failed" ELSE "served"
      /\ call.file = fetch[r].file /\ call.row = fetch[r].row /\ call.content = content
  BY <1>3 DEF FetchCalls
<1> HIDE DEF call
<1>6. /\ fetch' \in [Fetches -> FetchCalls] /\ fetch'[r] = call
      /\ \A s \in Fetches : s # r => fetch'[s] = fetch[s]
  BY <1>1, <1>2, <1>4, ReaderGoes
<1>7. PackageTypeOK' BY <1>1, <1>2, <1>6 DEF PackageTypeOK
<1>8. FeedKnown' BY <1>1, <1>2, <1>5, <1>6 DEF FeedKnown
<1>9. PlansKnow' BY <1>1, <1>2 DEF PlansKnow
<1>10. ShownStays' BY <1>1, <1>2, <1>5, <1>6 DEF ShownStays, ShownSteps, Listed
<1>11. ShownIsServed'
  <2>1. feed = "pypi" => fetch[r].row.digest = listing[fetch[r].file].digest
    BY <1>1, <1>2 DEF ShownStays, ShownSteps
  <2>2. content # NoFile => listing[fetch[r].file].digest = content
    BY <1>1, <1>2 DEF PackagesSound, DigestsTrue
  <2> QED BY <1>1, <1>2, <1>5, <1>6, <2>1, <2>2 DEF PackagesSound, ShownIsServed
<1>12. PackagesSound' BY <1>1, <1>2, <1>11 DEF PackagesSound, DigestsTrue, FilesStay
<1> QED BY <1>7, <1>8, <1>9, <1>10, <1>12 DEF PackagesTrue

\* A request that publishes goes on with another record of its kind.
LEMMA UploadGoes ==
  ASSUME PackageTypeOK, NEW u \in Uploads, NEW call \in UploadCalls,
         upload' = [upload EXCEPT ![u] = call]
  PROVE  /\ upload' \in [Uploads -> UploadCalls] /\ upload'[u] = call
         /\ \A w \in Uploads : w # u => upload'[w] = upload[w]
BY DEF PackageTypeOK

\* What is published first stays, unless an image of it was taken.
LEMMA UploadsKeep ==
  ASSUME PackagesTrue, NEW u \in Uploads,
         (\E f \in Files : UploadChecks(u, f)) \/ UploadPlans(u) \/ UploadCommits(u)
  PROVE  PackagesTrue'
<1> USE IndexedAssumption
<1>1. PackageTypeOK /\ FeedKnown /\ PlansKnow /\ ShownStays /\ PackagesSound BY DEF PackagesTrue
<1>2. upload[u] \in UploadCalls /\ feed = "hosted"
  BY <1>1 DEF PackageTypeOK, FeedKnown, UploadChecks, UploadPlans, UploadCommits
<1>3. UNCHANGED <<feed, origin, fetch, loader, fetcher>>
  BY DEF UploadChecks, UploadPlans, UploadCommits, FetchVars
<1>4. ASSUME NEW call \in UploadCalls, upload' = [upload EXCEPT ![u] = call], call.file \in Files,
             UNCHANGED <<listing, file>>, overlaid \subseteq overlaid', overlaid' \subseteq Files,
             call.step # "stored",
             call.step = "planned" => call.old = NoFile \/ call.file \in overlaid'
      PROVE  PackagesTrue'
  <2>1. /\ upload' \in [Uploads -> UploadCalls] /\ upload'[u] = call
        /\ \A w \in Uploads : w # u => upload'[w] = upload[w]
    BY <1>1, <1>4, UploadGoes
  <2>2. PackageTypeOK' BY <1>1, <1>3, <1>4, <2>1 DEF PackageTypeOK
  <2>3. FeedKnown' BY <1>1, <1>2, <1>3, <1>4, <2>1 DEF FeedKnown
  <2>4. PlansKnow' BY <1>1, <1>4, <2>1 DEF PlansKnow
  <2>5. ShownStays' BY <1>2, <1>3 DEF ShownStays
  <2>6. PackagesSound'
    BY <1>1, <1>2, <1>3, <1>4, <2>1 DEF PackagesSound, DigestsTrue, FilesStay, ShownIsServed
  <2> QED BY <2>2, <2>3, <2>4, <2>5, <2>6 DEF PackagesTrue
<1>5. ASSUME NEW f \in Files, UploadChecks(u, f) PROVE PackagesTrue'
  <2> DEFINE call == [NoUpload EXCEPT !.step = IF Listed(f) THEN "refused" ELSE "checked", !.file = f]
  <2>1. call \in UploadCalls /\ call.file = f /\ call.step \in {"refused", "checked"}
    BY DEF UploadCalls, NoUpload
  <2>2. /\ upload' = [upload EXCEPT ![u] = call] /\ UNCHANGED <<listing, file, overlaid>>
    BY <1>5 DEF UploadChecks
  <2> HIDE DEF call
  <2> QED BY <1>1, <1>4, <2>1, <2>2 DEF PackageTypeOK
<1>6. CASE UploadPlans(u)
  <2> DEFINE f == upload[u].file
             call == [upload[u] EXCEPT !.step = "planned", !.old = file[f]]
  <2>1. f \in Files /\ upload' = [upload EXCEPT ![u] = call] /\ UNCHANGED <<listing, file>>
        /\ overlaid' = IF file[f] # NoFile THEN overlaid \cup {f} ELSE overlaid
    BY <1>1, <1>6 DEF UploadPlans, FeedKnown
  <2>2. call \in UploadCalls /\ call.file = f /\ call.step = "planned" /\ call.old = file[f]
    BY <1>1, <1>2, <2>1 DEF UploadCalls, PackageTypeOK
  <2> HIDE DEF call
  <2>3. overlaid \subseteq overlaid' /\ overlaid' \subseteq Files
    BY <1>1, <2>1 DEF PackageTypeOK
  <2> QED BY <1>4, <2>1, <2>2, <2>3
<1>7. CASE UploadCommits(u)
  <2> DEFINE f == upload[u].file
             row == [digest |-> u, source |-> FALSE]
             refused == [upload[u] EXCEPT !.step = "refused"]
             stored == [upload[u] EXCEPT !.step = "stored"]
  <2>1. f \in Files /\ upload[u].step = "planned" /\ UNCHANGED overlaid
    BY <1>1, <1>7 DEF UploadCommits, FeedKnown
  <2>2. CASE file[f] # upload[u].old
    <3>1. upload' = [upload EXCEPT ![u] = refused] /\ UNCHANGED <<listing, file>>
      BY <1>7, <2>2 DEF UploadCommits
    <3>2. refused \in UploadCalls /\ refused.file = f /\ refused.step = "refused"
      BY <1>2 DEF UploadCalls
    <3> HIDE DEF refused
    <3> QED BY <1>1, <1>4, <2>1, <3>1, <3>2 DEF PackageTypeOK
  <2>3. CASE file[f] = upload[u].old
    <3>1. /\ upload' = [upload EXCEPT ![u] = stored] /\ file' = [file EXCEPT ![f] = u]
          /\ listing' = [listing EXCEPT ![f] = row]
      BY <1>7, <2>3 DEF UploadCommits
    <3>2. stored \in UploadCalls /\ stored.file = f /\ stored.step = "stored"
      BY <1>2 DEF UploadCalls
    <3>3. row \in RowValues /\ row.digest = u BY DEF RowValues, FileContents
    <3> HIDE DEF stored, row
    <3>4. /\ upload' \in [Uploads -> UploadCalls] /\ upload'[u] = stored
          /\ \A w \in Uploads : w # u => upload'[w] = upload[w]
      BY <1>1, <3>1, <3>2, UploadGoes
    <3>5. /\ listing'[f] = row /\ file'[f] = u
          /\ \A g \in Files : g # f => listing'[g] = listing[g] /\ file'[g] = file[g]
      BY <1>1, <2>1, <3>1 DEF PackageTypeOK
    <3>6. PackageTypeOK' BY <1>1, <1>3, <2>1, <3>1, <3>3, <3>4 DEF PackageTypeOK, FileContents
    <3>7. FeedKnown' BY <1>1, <1>2, <1>3, <2>1, <3>2, <3>4 DEF FeedKnown
    <3>8. PlansKnow' BY <1>1, <2>1, <3>2, <3>4 DEF PlansKnow
    <3>9. ShownStays' BY <1>2, <1>3 DEF ShownStays
    <3>10. FilesStay'
      <4>1. file[f] = NoFile \/ f \in overlaid BY <1>1, <2>1, <2>3 DEF PlansKnow
      <4> SUFFICES ASSUME NEW w \in Uploads, upload'[w].step = "stored", w # u
                   PROVE  file'[upload'[w].file] = w \/ upload'[w].file \in overlaid'
        BY <3>2, <3>4, <3>5 DEF FilesStay
      <4>2. upload'[w] = upload[w] /\ upload[w].file \in Files
        BY <1>1, <3>4 DEF FeedKnown
      <4>3. file[upload[w].file] = w \/ upload[w].file \in overlaid
        BY <1>1, <4>2 DEF PackagesSound, FilesStay
      <4>4. CASE upload[w].file = f BY <2>1, <4>1, <4>2, <4>3, <4>4
      <4>5. CASE upload[w].file # f BY <2>1, <3>5, <4>2, <4>3, <4>5
      <4> QED BY <4>4, <4>5
    <3>11. DigestsTrue' BY <1>1, <3>3, <3>5 DEF PackagesSound, DigestsTrue
    <3>12. ShownIsServed' BY <1>2, <1>3 DEF ShownIsServed
    <3> QED BY <3>6, <3>7, <3>8, <3>9, <3>10, <3>11, <3>12 DEF PackagesTrue, PackagesSound
  <2> QED BY <2>2, <2>3
<1> QED BY <1>5, <1>6, <1>7

\* Retention takes files and the upstream replaces its own: no row changes.
LEMMA SourcesKeep ==
  ASSUME PackagesTrue, NEW f \in Files, FilePurged(f) \/ OriginChanges(f)
  PROVE  PackagesTrue'
<1> USE IndexedAssumption DEF PackagesTrue
<1>1. /\ feed # "hosted" /\ UNCHANGED <<feed, listing, upload, overlaid, fetch, loader, fetcher>>
      /\ file' = file \/ file' = [file EXCEPT ![f] = NoFile]
      /\ origin' = origin \/ \E o \in Originals : origin' = [origin EXCEPT ![f] = o]
  BY DEF FilePurged, OriginChanges, FetchVars
<1>2. PackageTypeOK' BY <1>1 DEF PackageTypeOK
<1>3. FeedKnown' /\ PlansKnow' BY <1>1 DEF FeedKnown, PlansKnow
<1>4. ShownStays' BY <1>1 DEF ShownStays, Listed
<1>5. DigestsTrue' BY <1>1 DEF PackagesSound, DigestsTrue, PackageTypeOK
<1>6. FilesStay' BY <1>1 DEF FilesStay, FeedKnown
<1>7. ShownIsServed' BY <1>1 DEF PackagesSound, ShownIsServed
<1> QED BY <1>2, <1>3, <1>4, <1>5, <1>6, <1>7 DEF PackagesSound

\* PackagesTrue holds in every state of PackageSpec.
LEMMA PackagesStayTrue == PackageSpec => []PackagesTrue
<1>1. ASSUME PackagesTrue, [PackageNext]_packageVars PROVE PackagesTrue'
  <2>1. ASSUME NEW r \in Fetches, FetchStep(r) PROVE PackagesTrue'
    BY <1>1, <2>1, ListsKeep, IndexLoadsKeeps, CachedKeeps, FlightsKeep, FetchedKeeps, ServedKeeps
       DEF FetchStep
  <2>2. CASE UNCHANGED packageVars
    BY <1>1, <2>2
       DEF PackagesTrue, packageVars, PackageTypeOK, FeedKnown, PlansKnow, ShownStays, Listed,
           PackagesSound, DigestsTrue, FilesStay, ShownIsServed
  <2> QED BY <1>1, <2>1, <2>2, UploadsKeep, SourcesKeep DEF PackageNext
<1> QED BY <1>1, PackagesBegin, PTL DEF PackageSpec

\* The digest in the index is that of the file, a published file stays unless it came in
\* between the check and the images of another request, and a reader of a PyPI proxy
\* gets what it was shown (PublishAssetsWithEnvelope, pypiFiles, publishPyPI,
\* publishNuGet, cachePyPIProxyFile).
THEOREM PackagesAlwaysSound == PackageSpec => []PackagesSound
<1>1. PackagesTrue => PackagesSound BY DEF PackagesTrue
<1> QED BY <1>1, PackagesStayTrue, PTL

-----------------------------------------------------------------------------
(***************************************************************************)
(* CargoCrate.                                                             *)
(* For any publishes and yanks that overlap: a version has one line        *)
(* exactly if it has a file, with its checksum, and is yanked as was       *)
(* asked for last.                                                         *)
(***************************************************************************)

\* A request that is under way knows its version.
VersKnown ==
  \A r \in CratePublishers \cup Yankers :
    crateCall[r].step \in {"checked", "read", "planned"} => crateCall[r].vers \in CrateVersions

CratesTrue == CrateTypeOK /\ VersKnown /\ CratesSound

\* The invariant holds before the first publish.
LEMMA CratesBegin == CrateInit => CratesTrue
BY DEF CrateInit, CratesTrue, CrateTypeOK, VersKnown, CratesSound, CrateIdle, CrateCalls, LinesOf

\* A request goes on with another record of its kind.
LEMMA CrateCallGoes ==
  ASSUME CrateTypeOK, VersKnown, NEW r \in CratePublishers \cup Yankers, NEW call \in CrateCalls,
         call.step \in {"checked", "read", "planned"} => call.vers \in CrateVersions,
         crateCall' = [crateCall EXCEPT ![r] = call]
  PROVE  crateCall' \in [CratePublishers \cup Yankers -> CrateCalls] /\ VersKnown'
BY DEF CrateTypeOK, VersKnown

\* A line and a checksum are those of a version and a publisher.
LEMMA CrateTypesStep ==
  ASSUME CrateTypeOK, VersKnown, [CrateNext]_crateVars
  PROVE  CrateTypeOK' /\ VersKnown'
<1> USE CrateAssumption DEF CrateTypeOK
<1> DEFINE Requests == CratePublishers \cup Yankers
           typed == crateCall' \in [Requests -> CrateCalls] /\ VersKnown'
<1>0. ASSUME NEW r \in Requests PROVE crateCall[r] \in CrateCalls OBVIOUS
<1>1. ASSUME NEW p \in CratePublishers, NEW v \in CrateVersions, CrateChecks(p, v)
      PROVE  CrateTypeOK' /\ VersKnown'
  <2>1. PICK step \in {"checked", "refused"} :
          crateCall' = [crateCall EXCEPT ![p] = [crateCall[p] EXCEPT !.step = step, !.vers = v]]
    <3>1. CASE crate[v] = NoCrate /\ LinesOf(index, v) = {} BY <1>1, <3>1 DEF CrateChecks
    <3>2. CASE ~(crate[v] = NoCrate /\ LinesOf(index, v) = {}) BY <1>1, <3>2 DEF CrateChecks
    <3> QED BY <3>1, <3>2
  <2>2. [crateCall[p] EXCEPT !.step = step, !.vers = v] \in CrateCalls BY <1>0 DEF CrateCalls
  <2>3. typed BY <2>1, <2>2, <1>0, CrateCallGoes DEF CrateCalls
  <2> QED BY <1>1, <2>3 DEF CrateChecks
<1>2. ASSUME NEW p \in CratePublishers, CrateReads(p) PROVE CrateTypeOK' /\ VersKnown'
  <2>1. crateCall' = [crateCall EXCEPT ![p] = [crateCall[p] EXCEPT !.step = "read", !.seen = index]]
    BY <1>2 DEF CrateReads
  <2>2. [crateCall[p] EXCEPT !.step = "read", !.seen = index] \in CrateCalls BY <1>0 DEF CrateCalls
  <2>3. crateCall[p].vers \in CrateVersions BY <1>2 DEF CrateReads, VersKnown
  <2>4. typed BY <2>1, <2>2, <2>3, <1>0, CrateCallGoes DEF CrateCalls
  <2> QED BY <1>2, <2>4 DEF CrateReads
<1>3. ASSUME NEW r \in CratePublishers \cup Yankers, CratePlans(r)
      PROVE  CrateTypeOK' /\ VersKnown'
  <2> DEFINE v == crateCall[r].vers
             call == [crateCall[r] EXCEPT !.step = "planned", !.old = index, !.oldCrate = crate[v]]
  <2>1. crateCall' = [crateCall EXCEPT ![r] = call] BY <1>3 DEF CratePlans
  <2>2. v \in CrateVersions BY <1>3 DEF CratePlans, VersKnown
  <2>3. call \in CrateCalls /\ call.vers = v BY <2>2, <1>0 DEF CrateCalls
  <2> HIDE DEF call
  <2>4. typed BY <2>1, <2>2, <2>3, CrateCallGoes
  <2> QED BY <1>3, <2>4 DEF CratePlans
<1>4. ASSUME NEW p \in CratePublishers, CrateCommits(p) PROVE CrateTypeOK' /\ VersKnown'
  <2> DEFINE v == crateCall[p].vers
             line == [vers |-> v, cksum |-> p, yanked |-> FALSE]
  <2>1. v \in CrateVersions /\ line \in Lines BY <1>4 DEF CrateCommits, VersKnown, Lines
  <2>2. crateCall[p].seen \cup {line} \subseteq Lines /\ Lapses(p) \subseteq CrateVersions
    BY <2>1 DEF Lapses, CrateCalls
  <2> HIDE DEF line
  <2>3. index' \subseteq Lines /\ lapsed' \subseteq CrateVersions
    BY <1>4, <2>2 DEF CrateCommits, CrateRefused, line
  <2>4. crate' \in [CrateVersions -> CratePublishers \cup {NoCrate}]
          /\ lastYank' \in [CrateVersions -> BOOLEAN]
    <3>1. \/ crate' = crate /\ lastYank' = lastYank
          \/ crate' = [crate EXCEPT ![v] = p] /\ lastYank' = [lastYank EXCEPT ![v] = FALSE]
      BY <1>4 DEF CrateCommits, CrateRefused
    <3>2. crate' \in [CrateVersions -> CratePublishers \cup {NoCrate}] BY <2>1, <3>1
    <3>3. lastYank' \in [CrateVersions -> BOOLEAN] BY <2>1, <3>1
    <3> QED BY <3>2, <3>3
  <2>5. PICK step \in {"done", "refused"} :
          crateCall' = [crateCall EXCEPT ![p] = [crateCall[p] EXCEPT !.step = step]]
    BY <1>4 DEF CrateCommits, CrateRefused
  <2>6. typed
    <3>1. [crateCall[p] EXCEPT !.step = step] \in CrateCalls BY <1>0 DEF CrateCalls
    <3> QED BY <2>5, <3>1, <1>0, CrateCallGoes DEF CrateCalls
  <2> QED BY <2>3, <2>4, <2>6
<1>5. ASSUME NEW r \in Yankers, NEW v \in CrateVersions, NEW yank \in BOOLEAN, YankReads(r, v, yank)
      PROVE  CrateTypeOK' /\ VersKnown'
  <2> DEFINE call == [CrateIdle EXCEPT !.step = "read", !.vers = v, !.yank = yank, !.seen = index]
  <2>1. call \in CrateCalls /\ call.vers = v BY DEF CrateCalls, CrateIdle
  <2>2. crateCall' = [crateCall EXCEPT ![r] = call] BY <1>5 DEF YankReads
  <2> HIDE DEF call
  <2>3. typed BY <2>1, <2>2, CrateCallGoes
  <2> QED BY <1>5, <2>3 DEF YankReads
<1>6. ASSUME NEW r \in Yankers, YankCommits(r) PROVE CrateTypeOK' /\ VersKnown'
  <2> DEFINE yanks(line) == IF line.vers = crateCall[r].vers
                            THEN [line EXCEPT !.yanked = crateCall[r].yank] ELSE line
  <2>1. \A line \in crateCall[r].seen : yanks(line) \in Lines BY <1>0 DEF CrateCalls, Lines
  <2>2. Lapses(r) \subseteq CrateVersions BY DEF Lapses
  <2>3. index' \subseteq Lines /\ lapsed' \subseteq CrateVersions
    <3>1. CASE CrateRefused(r) BY <3>1 DEF CrateRefused
    <3>2. CASE ~CrateRefused(r)
      <4>1. index' = {yanks(line) : line \in crateCall[r].seen} /\ lapsed' = lapsed \cup Lapses(r)
        BY <1>6, <3>2 DEF YankCommits
      <4> HIDE DEF yanks
      <4> QED BY <2>1, <2>2, <4>1
    <3> QED BY <3>1, <3>2
  <2>4. PICK step \in {"done", "refused"} :
          crateCall' = [crateCall EXCEPT ![r] = [crateCall[r] EXCEPT !.step = step]]
    BY <1>6 DEF YankCommits, CrateRefused
  <2>5. typed
    <3>1. [crateCall[r] EXCEPT !.step = step] \in CrateCalls BY <1>0 DEF CrateCalls
    <3> QED BY <2>4, <3>1, <1>0, CrateCallGoes DEF CrateCalls
  <2>6. crate' = crate /\ lastYank' \in [CrateVersions -> BOOLEAN]
    <3>1. crateCall[r].yank \in BOOLEAN BY <1>0 DEF CrateCalls
    <3>2. crateCall[r].vers \in CrateVersions BY <1>6 DEF YankCommits, VersKnown
    <3>3. lastYank' = lastYank \/ lastYank' = [lastYank EXCEPT ![crateCall[r].vers] = crateCall[r].yank]
      BY <1>6 DEF YankCommits, CrateRefused
    <3> QED BY <1>6, <3>1, <3>2, <3>3 DEF YankCommits, CrateRefused
  <2> QED BY <2>3, <2>5, <2>6
<1>7. CASE UNCHANGED crateVars BY <1>7 DEF crateVars, VersKnown
<1> QED BY <1>1, <1>2, <1>3, <1>4, <1>5, <1>6, <1>7 DEF CrateNext

\* A publish builds on the lines it has seen.  Those of another version are as
\* they were seen, or the version has lapsed; its own has no file and no line.
LEMMA CrateCommitKeeps ==
  ASSUME CratesTrue, NEW p \in CratePublishers, CrateCommits(p)
  PROVE  CratesSound'
<1> USE CrateAssumption DEF CratesTrue
<1> DEFINE v == crateCall[p].vers
           line == [vers |-> v, cksum |-> p, yanked |-> FALSE]
<1>1. CASE CrateRefused(p) BY <1>1 DEF CrateRefused, CratesSound, LinesOf
<1>2. CASE index = crateCall[p].old /\ crate[v] = crateCall[p].oldCrate
  <2>1. /\ crate' = [crate EXCEPT ![v] = p]
        /\ index' = crateCall[p].seen \cup {line}
        /\ lastYank' = [lastYank EXCEPT ![v] = FALSE]
        /\ lapsed' = lapsed \cup Lapses(p)
    BY <1>2 DEF CrateCommits
  <2>2. v \in CrateVersions BY DEF CrateCommits, VersKnown
  <2>3. ASSUME NEW w \in CrateVersions \ lapsed' PROVE LinesOf(crateCall[p].seen, w) = LinesOf(index, w)
    BY <1>2, <2>1, <2>3 DEF Lapses
  <2>4. ASSUME NEW w \in CrateVersions \ lapsed', w # v
        PROVE  LinesOf(index', w) =
                 IF crate'[w] = NoCrate THEN {}
                 ELSE {[vers |-> w, cksum |-> crate'[w], yanked |-> lastYank'[w]]}
    <3>1. LinesOf(index', w) = LinesOf(crateCall[p].seen, w) BY <2>1, <2>4 DEF LinesOf
    <3>2. crate'[w] = crate[w] /\ lastYank'[w] = lastYank[w] BY <2>1, <2>4 DEF CrateTypeOK
    <3>3. w \in CrateVersions \ lapsed BY <2>1
    <3> QED BY <2>3, <3>1, <3>2, <3>3 DEF CratesSound
  <2>5. ASSUME v \notin lapsed'
        PROVE  LinesOf(index', v) =
                 IF crate'[v] = NoCrate THEN {}
                 ELSE {[vers |-> v, cksum |-> crate'[v], yanked |-> lastYank'[v]]}
    <3>1. crate[v] = NoCrate BY <1>2, <2>1, <2>2, <2>5 DEF Lapses
    <3>2. LinesOf(index, v) = {} BY <2>1, <2>2, <2>5, <3>1 DEF CratesSound
    <3>3. LinesOf(crateCall[p].seen, v) = {} BY <2>2, <2>3, <2>5, <3>2
    <3>4. LinesOf(index', v) = {line} BY <2>1, <3>3 DEF LinesOf
    <3>5. crate'[v] = p /\ lastYank'[v] = FALSE BY <2>1, <2>2 DEF CrateTypeOK
    <3> QED BY <3>4, <3>5
  <2> QED BY <2>2, <2>4, <2>5 DEF CratesSound
<1> QED BY <1>1, <1>2 DEF CrateCommits

\* A yank writes the lines it has seen, its own as it was asked to.
LEMMA YankCommitKeeps ==
  ASSUME CratesTrue, NEW r \in Yankers, YankCommits(r)
  PROVE  CratesSound'
<1> USE CrateAssumption DEF CratesTrue
<1> DEFINE v == crateCall[r].vers
           yanks(line) == IF line.vers = v THEN [line EXCEPT !.yanked = crateCall[r].yank] ELSE line
<1>1. CASE CrateRefused(r) BY <1>1 DEF CrateRefused, CratesSound, LinesOf
<1>2. CASE index = crateCall[r].old
  <2>1. /\ index' = {yanks(line) : line \in crateCall[r].seen}
        /\ lastYank' = [lastYank EXCEPT ![v] = crateCall[r].yank]
        /\ lapsed' = lapsed \cup Lapses(r) /\ crate' = crate
    BY <1>2 DEF YankCommits
  <2>2. v \in CrateVersions BY DEF YankCommits, VersKnown
  <2>3. ASSUME NEW w \in CrateVersions \ lapsed' PROVE LinesOf(crateCall[r].seen, w) = LinesOf(index, w)
    BY <1>2, <2>1, <2>3 DEF Lapses
  <2>4. crateCall[r].seen \subseteq Lines BY DEF CrateTypeOK, CrateCalls
  <2>5. \A line \in Lines : yanks(line).vers = line.vers BY DEF Lines
  <2>6. ASSUME NEW w \in CrateVersions \ lapsed'
        PROVE  LinesOf(index', w) = {yanks(line) : line \in LinesOf(crateCall[r].seen, w)}
    <3> HIDE DEF yanks
    <3> QED BY <2>1, <2>4, <2>5 DEF LinesOf
  <2>7. ASSUME NEW w \in CrateVersions \ lapsed'
        PROVE  LinesOf(index', w) =
                 IF crate'[w] = NoCrate THEN {}
                 ELSE {[vers |-> w, cksum |-> crate'[w], yanked |-> lastYank'[w]]}
    <3> DEFINE line == [vers |-> w, cksum |-> crate[w], yanked |-> lastYank[w]]
    <3>1. w \in CrateVersions \ lapsed BY <2>1
    <3>2. LinesOf(index', w) = {yanks(l) : l \in IF crate[w] = NoCrate THEN {} ELSE {line}}
      BY <2>3, <2>6, <3>1 DEF CratesSound
    <3>3. yanks(line) = [vers |-> w, cksum |-> crate[w], yanked |-> lastYank'[w]]
      BY <2>1, <2>2 DEF CrateTypeOK
    <3> HIDE DEF yanks, line
    <3>4. {yanks(l) : l \in {line}} = {yanks(line)} OBVIOUS
    <3> QED BY <2>1, <3>2, <3>3, <3>4
  <2> QED BY <2>7 DEF CratesSound
<1> QED BY <1>1, <1>2 DEF YankCommits

\* CratesTrue holds in every state of CrateSpec.
LEMMA CratesStayTrue == CrateSpec => []CratesTrue
<1>1. CratesTrue /\ [CrateNext]_crateVars => CratesTrue'
  <2> SUFFICES ASSUME CratesTrue, [CrateNext]_crateVars PROVE CratesTrue'
    OBVIOUS
  <2>1. CrateTypeOK' /\ VersKnown' BY CrateTypesStep DEF CratesTrue
  <2>2. ASSUME UNCHANGED <<crate, index, lastYank, lapsed>> PROVE CratesSound'
    <3>1. index' = index /\ crate' = crate /\ lastYank' = lastYank /\ lapsed' = lapsed BY <2>2
    <3>2. \A w : LinesOf(index', w) = LinesOf(index, w) BY <3>1
    <3> QED BY <3>1, <3>2 DEF CratesTrue, CratesSound
  <2>3. ASSUME NEW p \in CratePublishers, CrateCommits(p) PROVE CratesSound'
    BY <2>3, CrateCommitKeeps
  <2>4. ASSUME NEW r \in Yankers, YankCommits(r) PROVE CratesSound'
    BY <2>4, YankCommitKeeps
  <2>5. CratesSound'
    BY <2>2, <2>3, <2>4 DEF CratesTrue, CratesSound, LinesOf, CrateNext, crateVars, CrateChecks,
       CrateReads, CratePlans, YankReads
  <2> QED BY <2>1, <2>5 DEF CratesTrue
<1> QED BY <1>1, CratesBegin, PTL DEF CrateSpec

\* A version has a file exactly if it has a line, one line with the checksum of the file,
\* yanked as was asked for last, save for versions that were written between what a
\* commit read and its images (publishCargo, SetYanked).
THEOREM CratesAlwaysSound == CrateSpec => []CratesSound
<1>1. CratesTrue => CratesSound BY DEF CratesTrue
<1> QED BY <1>1, CratesStayTrue, PTL
=============================================================================
