------------------------------ MODULE NodeProofs -----------------------------
(***************************************************************************)
(* What the node keeps as a whole, for every value of the constants of its *)
(* services.                                                               *)
(*                                                                         *)
(* A behaviour of the node is a behaviour of each of its services: of the  *)
(* one that runs, step for step, and of each other as one that does        *)
(* nothing.  So what a service keeps alone it keeps in the node, and the   *)
(* theorems of the services carry over, however the node interleaves them. *)
(***************************************************************************)
EXTENDS MCNode, AdministrationProofs, LookupProofs, PublishingProofs,
        BackupProofs

-----------------------------------------------------------------------------
(***************************************************************************)
(* The counters of ObservationBuffers stay within the bound of the model:  *)
(* nothing is in a buffer or a row that no request has recorded.           *)
(***************************************************************************)

\* The sum of what was recorded is within the bound, and so are the other counters.
Bounded ==
  /\ SumFunctionOnSet(recorded, Counters) \in 0 .. MaxRecorded
  /\ buffer \in {"protocol", "downloads", "health"} /\ process \in {"up", "stopping", "last"}
  /\ failed \in 0 .. MaxFailed /\ ends \in 0 .. MaxEnds

\* One more recorded makes the sum greater by one.
LEMMA RecordedAdds ==
  ASSUME Numbers, NEW k \in Counters, recorded' = [recorded EXCEPT ![k] = @ + 1]
  PROVE  SumFunctionOnSet(recorded', Counters) = SumFunctionOnSet(recorded, Counters) + 1
<1>1. IsFiniteSet(Counters) /\ IsFiniteSet(Counters \ {k})
  BY BuffersAssumption, FS_Subset
<1>2. /\ \A j \in Counters : recorded[j] \in Nat /\ recorded'[j] \in Nat
      /\ recorded'[k] = recorded[k] + 1
      /\ \A j \in Counters \ {k} : recorded[j] \in Nat /\ recorded'[j] = recorded[j]
  BY DEF Numbers
<1>3. SumFunctionOnSet(recorded, Counters) = recorded[k] + SumFunctionOnSet(recorded, Counters \ {k})
      /\ SumFunctionOnSet(recorded, Counters \ {k}) \in Nat
  BY <1>1, <1>2, SumTakesOut
<1> DEFINE new == recorded'
<1>4. SumFunctionOnSet(new, Counters) = new[k] + SumFunctionOnSet(new, Counters \ {k})
  <2>1. \A j \in Counters : new[j] \in Nat
    BY <1>2
  <2> HIDE DEF new
  <2> QED BY <1>1, <2>1, SumTakesOut
<1>5. SumFunctionOnSet(new, Counters \ {k}) = SumFunctionOnSet(recorded, Counters \ {k})
  <2>1. \A j \in Counters \ {k} : recorded[j] \in Nat /\ new[j] = recorded[j]
    BY <1>2
  <2> HIDE DEF new
  <2> QED BY <1>1, <2>1, SumAgrees
<1> QED BY <1>2, <1>3, <1>4, <1>5

\* The sum and the bounds are kept by every step.
LEMMA BoundedStep ==
  ASSUME Numbers, Bounded, [BufferNext]_bufferVars
  PROVE  Bounded'
<1> USE BuffersAssumption DEF Bounded
<1>1. ASSUME NEW k \in Counters, Reported(k) PROVE Bounded'
  <2>1. SumFunctionOnSet(recorded', Counters) = SumFunctionOnSet(recorded, Counters) + 1
    BY <1>1, RecordedAdds DEF Reported
  <2>2. SumFunctionOnSet(recorded, Counters) < MaxRecorded
        /\ UNCHANGED <<buffer, process, failed, ends>>
    BY <1>1 DEF Reported
  <2> QED BY <2>1, <2>2
<1>2. CASE (\E k \in Counters : AddOne(k) \/ RepositoryGoes(k)) \/ TakeOut \/ AddAll \/ PutBack
  BY <1>2 DEF AddOne, RepositoryGoes, TakeOut, AddAll, PutBack
<1>3. CASE Signal \/ ProcessEnds \/ UNCHANGED bufferVars
  BY <1>3 DEF Signal, ProcessEnds, bufferVars
<1> QED BY <1>1, <1>2, <1>3
        DEF BufferNext, FlushStep, RecordProtocol, RecordDownload, RecordSample

\* Nothing has been recorded at first.
LEMMA BoundedAtFirst == BufferInit => Bounded
<1> SUFFICES ASSUME BufferInit PROVE Bounded
  OBVIOUS
<1>1. SumFunctionOnSet(recorded, Counters) = 0
  BY BuffersAssumption, SumIsZero DEF BufferInit, Zero
<1> QED BY <1>1, BuffersAssumption DEF Bounded, BufferInit

\* No counter exceeds the sum of what was recorded.
LEMMA BoundedIsTyped == CountsTrue /\ Bounded => BufferTypeOK
<1> SUFFICES ASSUME CountsTrue, Bounded PROVE BufferTypeOK
  OBVIOUS
<1>1. Numbers /\ CountsKept
  BY DEF CountsTrue, BuffersSound
<1>2. ASSUME NEW k \in Counters
      PROVE  /\ recorded[k] \in 0 .. MaxRecorded /\ waiting[k] \in 0 .. MaxRecorded
             /\ taken[k] \in 0 .. MaxRecorded /\ kept[k] \in 0 .. MaxRecorded
             /\ gone[k] \in 0 .. MaxRecorded
  <2>1. /\ SumFunctionOnSet(recorded, Counters) = recorded[k] + SumFunctionOnSet(recorded, Counters \ {k})
        /\ SumFunctionOnSet(recorded, Counters \ {k}) \in Nat
    BY <1>1, BuffersAssumption, SumTakesOut DEF Numbers
  <2>2. recorded[k] = waiting[k] + taken[k] + kept[k] + gone[k]
    BY <1>1 DEF CountsKept
  <2>3. /\ recorded[k] \in Nat /\ waiting[k] \in Nat /\ taken[k] \in Nat /\ kept[k] \in Nat
        /\ gone[k] \in Nat
    BY <1>1 DEF Numbers
  <2> QED BY <2>1, <2>2, <2>3, BuffersAssumption DEF Bounded
<1>3. \A f \in {waiting, taken, kept, gone, recorded} : f \in [Counters -> 0 .. MaxRecorded]
  BY <1>1, <1>2 DEF Numbers
<1> QED BY <1>1, <1>3 DEF BufferTypeOK, Bounded, Numbers

\* BufferTypeOK holds in every state of BufferSpec.
LEMMA BuffersTyped == BufferSpec => []BufferTypeOK
<1>1. Numbers /\ Bounded /\ [BufferNext]_bufferVars => Bounded'
  BY BoundedStep
<1>2. CountsTrue => Numbers
  BY DEF CountsTrue
<1> QED BY <1>1, <1>2, BoundedAtFirst, BoundedIsTyped, CountsStayTrue, PTL DEF BufferSpec

-----------------------------------------------------------------------------
(***************************************************************************)
(* The node and its services.                                              *)
(***************************************************************************)

\* A node begins as each of its services does.
LEMMA NodeBegins ==
  ASSUME NodeInit
  PROVE  /\ TrashInit /\ RestoreInit /\ UploadInit /\ StoreInit
         /\ SchedulerInit /\ NegativeInit /\ PushInit /\ GatesInit
         /\ MigrationInit /\ IndexInit /\ NamesInit /\ AccessInit
         /\ NpmInit /\ BufferInit /\ PackageInit /\ CrateInit
         /\ SessionsInit /\ ImportInit /\ OfflineInit
BY DEF NodeInit

\* A step of the node is a step of each of its services, or leaves it as it is.
LEMMA NodeSteps ==
  ASSUME [NodeNext]_nodeVars
  PROVE  /\ [TrashNext]_trashVars /\ [RestoreNext]_bootVars
         /\ [UploadNext]_uploadVars /\ [StoreNext]_backupVars
         /\ [SchedulerNext]_schedVars /\ [NegativeNext]_negativeVars
         /\ [PushNext]_pushVars /\ [GatesNext]_gateVars
         /\ [MigrationNext]_migrationVars /\ [IndexNext]_indexVars
         /\ [NamesNext]_namesVars /\ [AccessNext]_accessVars
         /\ [NpmNext]_npmVars /\ [BufferNext]_bufferVars
         /\ [PackageNext]_packageVars /\ [CrateNext]_crateVars
         /\ [SessionsNext]_sessionVars /\ [ImportsNext]_importVars
         /\ [OfflineNext]_offlineVars
<1>1. CASE NodeNext
  BY <1>1 DEF NodeNext, OthersStand
<1>2. CASE UNCHANGED nodeVars
  BY <1>2 DEF nodeVars
<1> QED BY <1>1, <1>2

\* The node composes its services: each of its behaviours is one of every service,
\* whichever of them it is that runs (the services that main wires up share no state
\* in the model).
THEOREM NodeRunsItsServices ==
  NodeSpec =>
    /\ TrashSpec /\ RestoreSpec /\ UploadSpec /\ StoreSpec
    /\ SchedulerSpec /\ NegativeSpec /\ PushSpec /\ GatesSpec
    /\ MigrationSpec /\ IndexSpec /\ NamesSpec /\ AccessSpec
    /\ NpmSpec /\ BufferSpec /\ PackageSpec /\ CrateSpec
    /\ SessionsSpec /\ ImportsSpec /\ OfflineSpec
<1>1. NodeSpec => TrashSpec
  <2>1. NodeInit => TrashInit BY NodeBegins
  <2>2. [NodeNext]_nodeVars => [TrashNext]_trashVars BY NodeSteps
  <2> QED BY <2>1, <2>2, PTL DEF NodeSpec, TrashSpec
<1>2. NodeSpec => RestoreSpec
  <2>1. NodeInit => RestoreInit BY NodeBegins
  <2>2. [NodeNext]_nodeVars => [RestoreNext]_bootVars BY NodeSteps
  <2> QED BY <2>1, <2>2, PTL DEF NodeSpec, RestoreSpec
<1>3. NodeSpec => UploadSpec
  <2>1. NodeInit => UploadInit BY NodeBegins
  <2>2. [NodeNext]_nodeVars => [UploadNext]_uploadVars BY NodeSteps
  <2> QED BY <2>1, <2>2, PTL DEF NodeSpec, UploadSpec
<1>4. NodeSpec => StoreSpec
  <2>1. NodeInit => StoreInit BY NodeBegins
  <2>2. [NodeNext]_nodeVars => [StoreNext]_backupVars BY NodeSteps
  <2> QED BY <2>1, <2>2, PTL DEF NodeSpec, StoreSpec
<1>5. NodeSpec => SchedulerSpec
  <2>1. NodeInit => SchedulerInit BY NodeBegins
  <2>2. [NodeNext]_nodeVars => [SchedulerNext]_schedVars BY NodeSteps
  <2> QED BY <2>1, <2>2, PTL DEF NodeSpec, SchedulerSpec
<1>6. NodeSpec => NegativeSpec
  <2>1. NodeInit => NegativeInit BY NodeBegins
  <2>2. [NodeNext]_nodeVars => [NegativeNext]_negativeVars BY NodeSteps
  <2> QED BY <2>1, <2>2, PTL DEF NodeSpec, NegativeSpec
<1>7. NodeSpec => PushSpec
  <2>1. NodeInit => PushInit BY NodeBegins
  <2>2. [NodeNext]_nodeVars => [PushNext]_pushVars BY NodeSteps
  <2> QED BY <2>1, <2>2, PTL DEF NodeSpec, PushSpec
<1>8. NodeSpec => GatesSpec
  <2>1. NodeInit => GatesInit BY NodeBegins
  <2>2. [NodeNext]_nodeVars => [GatesNext]_gateVars BY NodeSteps
  <2> QED BY <2>1, <2>2, PTL DEF NodeSpec, GatesSpec
<1>9. NodeSpec => MigrationSpec
  <2>1. NodeInit => MigrationInit BY NodeBegins
  <2>2. [NodeNext]_nodeVars => [MigrationNext]_migrationVars BY NodeSteps
  <2> QED BY <2>1, <2>2, PTL DEF NodeSpec, MigrationSpec
<1>10. NodeSpec => IndexSpec
  <2>1. NodeInit => IndexInit BY NodeBegins
  <2>2. [NodeNext]_nodeVars => [IndexNext]_indexVars BY NodeSteps
  <2> QED BY <2>1, <2>2, PTL DEF NodeSpec, IndexSpec
<1>11. NodeSpec => NamesSpec
  <2>1. NodeInit => NamesInit BY NodeBegins
  <2>2. [NodeNext]_nodeVars => [NamesNext]_namesVars BY NodeSteps
  <2> QED BY <2>1, <2>2, PTL DEF NodeSpec, NamesSpec
<1>12. NodeSpec => AccessSpec
  <2>1. NodeInit => AccessInit BY NodeBegins
  <2>2. [NodeNext]_nodeVars => [AccessNext]_accessVars BY NodeSteps
  <2> QED BY <2>1, <2>2, PTL DEF NodeSpec, AccessSpec
<1>13. NodeSpec => NpmSpec
  <2>1. NodeInit => NpmInit BY NodeBegins
  <2>2. [NodeNext]_nodeVars => [NpmNext]_npmVars BY NodeSteps
  <2> QED BY <2>1, <2>2, PTL DEF NodeSpec, NpmSpec
<1>14. NodeSpec => BufferSpec
  <2>1. NodeInit => BufferInit BY NodeBegins
  <2>2. [NodeNext]_nodeVars => [BufferNext]_bufferVars BY NodeSteps
  <2> QED BY <2>1, <2>2, PTL DEF NodeSpec, BufferSpec
<1>15. NodeSpec => PackageSpec
  <2>1. NodeInit => PackageInit BY NodeBegins
  <2>2. [NodeNext]_nodeVars => [PackageNext]_packageVars BY NodeSteps
  <2> QED BY <2>1, <2>2, PTL DEF NodeSpec, PackageSpec
<1>16. NodeSpec => CrateSpec
  <2>1. NodeInit => CrateInit BY NodeBegins
  <2>2. [NodeNext]_nodeVars => [CrateNext]_crateVars BY NodeSteps
  <2> QED BY <2>1, <2>2, PTL DEF NodeSpec, CrateSpec
<1>17. NodeSpec => SessionsSpec
  <2>1. NodeInit => SessionsInit BY NodeBegins
  <2>2. [NodeNext]_nodeVars => [SessionsNext]_sessionVars BY NodeSteps
  <2> QED BY <2>1, <2>2, PTL DEF NodeSpec, SessionsSpec
<1>18. NodeSpec => ImportsSpec
  <2>1. NodeInit => ImportInit BY NodeBegins
  <2>2. [NodeNext]_nodeVars => [ImportsNext]_importVars BY NodeSteps
  <2> QED BY <2>1, <2>2, PTL DEF NodeSpec, ImportsSpec
<1>19. NodeSpec => OfflineSpec
  <2>1. NodeInit => OfflineInit BY NodeBegins
  <2>2. [NodeNext]_nodeVars => [OfflineNext]_offlineVars BY NodeSteps
  <2> QED BY <2>1, <2>2, PTL DEF NodeSpec, OfflineSpec
<1> QED BY <1>1, <1>2, <1>3, <1>4, <1>5, <1>6, <1>7, <1>8, <1>9, <1>10, <1>11, <1>12, <1>13,
           <1>14, <1>15, <1>16, <1>17, <1>18, <1>19

\* Every variable of the service that runs is what it is declared to be, as the
\* invariants of all services say of theirs.
THEOREM NodeTypesAlwaysOK == NodeSpec => []NodeTypeOK
<1>1. NodeSpec => [](focus \in Services)
  <2>1. NodeInit => focus \in Services BY DEF NodeInit
  <2>2. focus \in Services /\ [NodeNext]_nodeVars => (focus \in Services)'
    BY DEF NodeNext, OthersStand, nodeVars
  <2> QED BY <2>1, <2>2, PTL DEF NodeSpec
<1>2. NodeSpec => []TrashTypeOK
  <2>1. TrashTrue => TrashTypeOK BY DEF TrashTrue
  <2> QED BY <2>1, NodeRunsItsServices, TrashStaysTrue, PTL
<1>3. NodeSpec => []RestoreTypeOK
  <2>1. RestoreTrue => RestoreTypeOK BY DEF RestoreTrue
  <2> QED BY <2>1, NodeRunsItsServices, RestoreStaysTrue, PTL
<1>4. NodeSpec => []UploadTypeOK
  <2>1. UploadTrue => UploadTypeOK BY DEF UploadTrue
  <2> QED BY <2>1, NodeRunsItsServices, UploadStaysTrue, PTL
<1>5. NodeSpec => []StoreTypeOK
  <2>1. StoreTrue => StoreTypeOK BY DEF StoreTrue
  <2> QED BY <2>1, NodeRunsItsServices, StoreStaysTrue, PTL
<1>6. NodeSpec => []SchedulerTypeOK
  <2>1. Claims => SchedulerTypeOK BY DEF Claims
  <2> QED BY <2>1, NodeRunsItsServices, ClaimsStay, PTL
<1>7. NodeSpec => []NegativeTypeOK
  <2>1. HiddenNowhere => NegativeTypeOK BY DEF HiddenNowhere
  <2> QED BY <2>1, NodeRunsItsServices, HiddenNowhereEver, PTL
<1>8. NodeSpec => []PushTypeOK
  <2>1. PushTrue => PushTypeOK BY DEF PushTrue
  <2> QED BY <2>1, NodeRunsItsServices, PushStaysTrue, PTL
<1>9. NodeSpec => []GatesTypeOK
  <2>1. GatesTrue => GatesTypeOK BY DEF GatesTrue
  <2> QED BY <2>1, NodeRunsItsServices, GatesStayTrue, PTL
<1>10. NodeSpec => []MigrationTypeOK
  <2>1. MigrationTrue => MigrationTypeOK BY DEF MigrationTrue
  <2> QED BY <2>1, NodeRunsItsServices, MigrationsStayTrue, PTL
<1>11. NodeSpec => []IndexTypeOK
  <2>1. IndexTrue => IndexTypeOK BY DEF IndexTrue
  <2> QED BY <2>1, NodeRunsItsServices, IndexStaysTrue, PTL
<1>12. NodeSpec => []NamesTypeOK
  <2>1. NamesTrue => NamesTypeOK BY DEF NamesTrue
  <2> QED BY <2>1, NodeRunsItsServices, NamesStayTrue, PTL
<1>13. NodeSpec => []AccessTypeOK
  <2>1. Granted => AccessTypeOK BY DEF Granted
  <2> QED BY <2>1, NodeRunsItsServices, GrantsStay, PTL
<1>14. NodeSpec => []NpmTypeOK
  <2>1. NpmTrue => NpmTypeOK BY DEF NpmTrue
  <2> QED BY <2>1, NodeRunsItsServices, NpmStaysTrue, PTL
<1>15. NodeSpec => []BufferTypeOK BY NodeRunsItsServices, BuffersTyped, PTL
<1>16. NodeSpec => []PackageTypeOK
  <2>1. PackagesTrue => PackageTypeOK BY DEF PackagesTrue
  <2> QED BY <2>1, NodeRunsItsServices, PackagesStayTrue, PTL
<1>17. NodeSpec => []CrateTypeOK
  <2>1. CratesTrue => CrateTypeOK BY DEF CratesTrue
  <2> QED BY <2>1, NodeRunsItsServices, CratesStayTrue, PTL
<1>18. NodeSpec => []SessionTypeOK
  <2>1. SessionsTrue => SessionTypeOK BY DEF SessionsTrue
  <2> QED BY <2>1, NodeRunsItsServices, SessionsStayTrue, PTL
<1>19. NodeSpec => []ImportTypeOK
  <2>1. ImportsTrue => ImportTypeOK BY DEF ImportsTrue
  <2> QED BY <2>1, NodeRunsItsServices, ImportsStayTrue, PTL
<1>20. NodeSpec => []OfflineTypeOK
  <2>1. OfflineTrue => OfflineTypeOK BY DEF OfflineTrue
  <2> QED BY <2>1, NodeRunsItsServices, OfflineStaysTrue, PTL
<1>21. /\ focus \in Services
      /\ TrashTypeOK /\ RestoreTypeOK /\ UploadTypeOK /\ StoreTypeOK
      /\ SchedulerTypeOK /\ NegativeTypeOK /\ PushTypeOK /\ GatesTypeOK
      /\ MigrationTypeOK /\ IndexTypeOK /\ NamesTypeOK /\ AccessTypeOK
      /\ NpmTypeOK /\ BufferTypeOK /\ PackageTypeOK /\ CrateTypeOK
      /\ SessionTypeOK /\ ImportTypeOK /\ OfflineTypeOK
      => NodeTypeOK
  BY DEF NodeTypeOK
<1> QED BY <1>1, <1>2, <1>3, <1>4, <1>5, <1>6, <1>7, <1>8, <1>9, <1>10, <1>11, <1>12, <1>13,
           <1>14, <1>15, <1>16, <1>17, <1>18, <1>19, <1>20, <1>21, PTL

\* Migrations bring what they say, and list it from an index that is whole, in a node
\* as alone (the migration runner and the offline index).
THEOREM MigrationsSoundInNode == NodeSpec => []MigrationsSound
<1>1. MigrationSound /\ OfflineSound => MigrationsSound BY DEF MigrationsSound
<1> QED BY <1>1, NodeRunsItsServices, MigrationsAlwaysSound, OfflineAlwaysSound, PTL

\* The documents of npm, PyPI, NuGet and Cargo agree with what was published, in a node
\* as alone (the packument, the simple index, the feeds and the sparse index).
THEOREM ListingsSoundInNode == NodeSpec => []ListingsSound
<1>1. NpmSound /\ PackagesSound /\ CratesSound => ListingsSound BY DEF ListingsSound
<1> QED BY <1>1, NodeRunsItsServices, NpmAlwaysSound, PackagesAlwaysSound, CratesAlwaysSound,
           PTL

\* What each of the other services is proved to keep alone it keeps in the node, and no
\* restore is applied twice there: the trash, the backups with their uploads, imports
\* and restores, the jobs, the names, the rights, the counters, the gates, the images
\* and their sessions, the index and the negative cache.
THEOREM ServicesSoundInNode ==
  NodeSpec =>
    /\ []TrashSound /\ []RestoreSound /\ []UploadSound /\ []BackupsSound
    /\ []OneRunPerJob /\ []NothingHidden /\ []ImagesSound /\ []GatesSound
    /\ []IndexSound /\ []NamesSound /\ []AccessAgrees /\ []BuffersSound
    /\ []ImportsSound /\ []SessionsSound /\ AppliedOnce
BY NodeRunsItsServices, PTL,
   TrashAlwaysSound, RestoreAlwaysSound, UploadAlwaysSound, BackupsAlwaysSound, OneRunAlways,
   NothingEverHidden, ImagesAlwaysSound, GatesAlwaysSound, IndexAlwaysSound, NamesAlwaysSound,
   AccessAlwaysAgrees, CountsNeverLost, ImportsAreSound, SessionsAreSound, NeverAppliedTwice
=============================================================================
