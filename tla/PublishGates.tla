---------------------------- MODULE PublishGates ----------------------------
(***************************************************************************)
(* The gates a publication passes: the storage quota of the repository,    *)
(* the publish policy of the account and the freeze window.                *)
(*                                                                         *)
(* The storage quota is looked at when the request arrives and again       *)
(* inside the transaction that commits the asset; nothing is reserved.     *)
(* The daily volume of the account is reserved before the body is read and *)
(* settled afterwards: moved to the usage of the day, or deleted.  The     *)
(* freeze window is asked at the start of each of these steps, also of the *)
(* settlement.                                                             *)
(*                                                                         *)
(* One account with a policy publishes to one hosted repository.  The      *)
(* hourly number of assets is counted like the daily bytes and left out.   *)
(***************************************************************************)
EXTENDS Naturals, FiniteSets, Functions

CONSTANTS
  Publishers,    \* publications; each also names the version it stores
  Artifacts,     \* paths of the repository
  NoVersion,     \* no version
  BodySizes,     \* sizes a body may have
  RepoBytes,     \* quotaBytes of the repository
  DayBytes,      \* maxBytesDay of the policy
  FileBytes,     \* maxFileBytes of the policy, 0 if there is none
  Immutable,     \* immutableRelease of the repository
  GateRestarts   \* bound on restarts

ASSUME GatesAssumption ==
  /\ IsFiniteSet(Publishers) /\ IsFiniteSet(Artifacts) /\ NoVersion \notin Publishers
  /\ BodySizes \subseteq Nat \ {0}
  /\ RepoBytes \in Nat \ {0} /\ DayBytes \in Nat \ {0} /\ FileBytes \in Nat
  /\ Immutable \in BOOLEAN /\ GateRestarts \in Nat

VARIABLES
  publish,       \* each publication: its step and what it carries
  versions,        \* the version of each artifact
  reservations,  \* unsettled rows of quota_reservation
  spent,         \* used_bytes of the current day
  counted,       \* publications that some day's usage includes
  frozen,        \* the freeze window is open
  restarts

gateVars == <<publish, versions, reservations, spent, counted, frozen, restarts>>

PublishKinds == {"known", "stream", "unresolved"}

PublishSteps == {"idle", "admitted", "measured", "reserved", "spooled", "valid",
                 "writing", "committed", "settling", "failing",
                 "published", "done", "kept", "lost"}

PublishStates ==
  [step : PublishSteps, kind : PublishKinds, path : Artifacts, size : BodySizes,
   limit : Nat, asked : Nat, before : Publishers \cup {NoVersion}]

GatesTypeOK ==
  /\ publish \in [Publishers -> PublishStates]
  /\ versions \in [Artifacts -> Publishers \cup {NoVersion}]
  /\ reservations \subseteq Publishers /\ counted \subseteq Publishers
  /\ spent \in Nat /\ frozen \in BOOLEAN /\ restarts \in 0 .. GateRestarts

\* What each publication is about is decided by its client, not by the node.
AnyPublish ==
  [Publishers -> [step : {"idle"}, kind : PublishKinds, path : Artifacts, size : BodySizes,
                  limit : {0}, asked : {0}, before : {NoVersion}]]

GatesInit ==
  /\ publish \in AnyPublish
  /\ versions = [a \in Artifacts |-> NoVersion]
  /\ reservations = {} /\ spent = 0 /\ counted = {}
  /\ frozen = FALSE /\ restarts = 0

At(p, step) == publish[p].step = step

PublisherGoes(p, step) == publish' = [publish EXCEPT ![p].step = step]

\* minLimit: 0 stands for no limit.
MinLimit(a, b) == IF a = 0 THEN b ELSE IF b = 0 THEN a ELSE IF a < b THEN a ELSE b

SizeOf(v) == IF v = NoVersion THEN 0 ELSE publish[v].size

RepoUsed == SumFunctionOnSet([a \in Artifacts |-> SizeOf(versions[a])], Artifacts)

Reserved == SumFunctionOnSet([p \in Publishers |-> publish[p].asked], reservations)

Fits(p) == publish[p].limit = 0 \/ publish[p].size <= publish[p].limit

\* The path is a release that must not be published again.
Taken(p) == Immutable /\ versions[publish[p].path] # NoVersion

-----------------------------------------------------------------------------
(* Before the body *)

\* Admission: a known length is judged at once, an unknown one becomes a
\* limit for the reader; without a path the limit is the whole quota.
Admission(p) ==
  /\ At(p, "idle")
  /\ LET old == SizeOf(versions[publish[p].path])
         room == CASE publish[p].kind = "known" ->
                        RepoUsed - old + publish[p].size <= RepoBytes
                   [] publish[p].kind = "stream" -> RepoUsed - old < RepoBytes
                   [] OTHER -> TRUE
         limit == CASE publish[p].kind = "known" -> 0
                    [] publish[p].kind = "stream" -> RepoBytes - (RepoUsed - old)
                    [] OTHER -> RepoBytes
     IN publish' = [publish EXCEPT ![p].step = IF room THEN "admitted" ELSE "done",
                                   ![p].limit = IF room THEN limit ELSE 0]
  /\ UNCHANGED <<versions, reservations, spent, counted, frozen, restarts>>

\* Begin, for a body of known length.
BeginKnown(p) ==
  /\ At(p, "admitted") /\ publish[p].kind = "known"
  /\ IF /\ ~frozen /\ ~Taken(p)
        /\ FileBytes = 0 \/ publish[p].size <= FileBytes
        /\ spent + Reserved + publish[p].size <= DayBytes
     THEN /\ publish' = [publish EXCEPT ![p].step = "reserved", ![p].asked = publish[p].size]
          /\ reservations' = reservations \cup {p}
     ELSE PublisherGoes(p, "done") /\ UNCHANGED reservations
  /\ UNCHANGED <<versions, spent, counted, frozen, restarts>>

\* BeginStreaming and BeginUnresolvedStreaming ask for all that is left of
\* the day.  The latter cannot look at the path yet.
MeasureRest(p) ==
  /\ At(p, "admitted") /\ publish[p].kind # "known"
  /\ IF /\ ~frozen /\ (publish[p].kind = "stream" => ~Taken(p))
        /\ spent + Reserved < DayBytes
     THEN LET rest == MinLimit(FileBytes, DayBytes - spent - Reserved)
          IN publish' = [publish EXCEPT ![p].step = "measured", ![p].asked = rest,
                                        ![p].limit = MinLimit(rest, @)]
     ELSE PublisherGoes(p, "done")
  /\ UNCHANGED <<versions, reservations, spent, counted, frozen, restarts>>

\* A mistake: the reservation trusts the rest that was measured before.
ReserveRestUnchecked(p) ==
  /\ At(p, "measured")
  /\ PublisherGoes(p, "reserved") /\ reservations' = reservations \cup {p}
  /\ UNCHANGED <<versions, spent, counted, frozen, restarts>>

\* Reserve looks again, in the transaction that inserts the row.
ReserveRest(p) ==
  /\ At(p, "measured")
  /\ IF spent + Reserved + publish[p].asked <= DayBytes
     THEN PublisherGoes(p, "reserved") /\ reservations' = reservations \cup {p}
     ELSE PublisherGoes(p, "done") /\ UNCHANGED reservations
  /\ UNCHANGED <<versions, spent, counted, frozen, restarts>>

-----------------------------------------------------------------------------
(* The body and the commit *)

\* The form or the session is read to a temporary file, up to the limit.
Spool(p) ==
  /\ At(p, "reserved") /\ publish[p].kind = "unresolved"
  /\ PublisherGoes(p, IF Fits(p) THEN "spooled" ELSE "failing")
  /\ UNCHANGED <<versions, reservations, spent, counted, frozen, restarts>>

\* validateUnresolvedPublish: now the path is known.
ValidateUnresolved(p) ==
  /\ At(p, "spooled")
  /\ PublisherGoes(p, IF /\ RepoUsed - SizeOf(versions[publish[p].path]) < RepoBytes
                /\ ~frozen /\ ~Taken(p)
             THEN "valid" ELSE "failing")
  /\ UNCHANGED <<versions, reservations, spent, counted, frozen, restarts>>

\* Put reads the body into the blob store, up to the limit; publishAssets
\* asks the window once more and reads the image the commit is to replace.
PublishPlanned(p) ==
  /\ At(p, "valid") \/ (At(p, "reserved") /\ publish[p].kind # "unresolved")
  /\ IF Fits(p) /\ ~frozen
     THEN publish' = [publish EXCEPT ![p].step = "writing", ![p].before = versions[publish[p].path]]
     ELSE PublisherGoes(p, "failing")
  /\ UNCHANGED <<versions, reservations, spent, counted, frozen, restarts>>

\* The client goes away, or a call fails.
PublishBroken(p) ==
  /\ publish[p].step \in {"reserved", "spooled", "valid", "writing"}
  /\ PublisherGoes(p, "failing")
  /\ UNCHANGED <<versions, reservations, spent, counted, frozen, restarts>>

\* A mistake: the quota is not looked at again.
CommitUnchecked(p) ==
  /\ At(p, "writing")
  /\ IF versions[publish[p].path] = publish[p].before
     THEN PublisherGoes(p, "committed") /\ versions' = [versions EXCEPT ![publish[p].path] = p]
     ELSE PublisherGoes(p, "failing") /\ UNCHANGED versions
  /\ UNCHANGED <<reservations, spent, counted, frozen, restarts>>

\* The transaction finds the image unchanged, and CheckCommit finds the
\* repository within its quota with the new version in place.
PublishCommit(p) ==
  /\ At(p, "writing")
  /\ IF /\ versions[publish[p].path] = publish[p].before
        /\ RepoUsed - SizeOf(publish[p].before) + publish[p].size <= RepoBytes
     THEN PublisherGoes(p, "committed") /\ versions' = [versions EXCEPT ![publish[p].path] = p]
     ELSE PublisherGoes(p, "failing") /\ UNCHANGED versions
  /\ UNCHANGED <<reservations, spent, counted, frozen, restarts>>

\* Put reads the row back; a deletion may have been faster, and then the
\* client is told that the publication failed.
ReadBack(p) ==
  /\ At(p, "committed")
  /\ PublisherGoes(p, IF versions[publish[p].path] = NoVersion THEN "failing" ELSE "settling")
  /\ UNCHANGED <<versions, reservations, spent, counted, frozen, restarts>>

-----------------------------------------------------------------------------
(* The settlement, at most once for a publication *)

\* Settle(true): the reservation becomes usage of the day, with the size
\* that was really read.
SettlePublished(p) ==
  /\ At(p, "settling") /\ ~frozen
  /\ PublisherGoes(p, "published")
  /\ spent' = spent + publish[p].size
  /\ counted' = counted \cup {p} /\ reservations' = reservations \ {p}
  /\ UNCHANGED <<versions, frozen, restarts>>

\* Settle(false) deletes the row.
SettleFailed(p) ==
  /\ At(p, "failing") /\ ~frozen
  /\ PublisherGoes(p, "done") /\ reservations' = reservations \ {p}
  /\ UNCHANGED <<versions, spent, counted, frozen, restarts>>

\* The window is open, or the transaction fails: the error is logged and
\* the reservation stays until the next start.
SettleRefused(p) ==
  /\ publish[p].step \in {"settling", "failing"}
  /\ PublisherGoes(p, "kept")
  /\ UNCHANGED <<versions, reservations, spent, counted, frozen, restarts>>

-----------------------------------------------------------------------------
(* What happens meanwhile *)

ArtifactDeleted(a) ==
  /\ ~frozen /\ versions[a] # NoVersion
  /\ versions' = [versions EXCEPT ![a] = NoVersion]
  /\ UNCHANGED <<publish, reservations, spent, counted, frozen, restarts>>

\* Freeze, Unfreeze, and the end of a window that has one.
FreezeOrThaw ==
  /\ frozen' = ~frozen
  /\ UNCHANGED <<publish, versions, reservations, spent, counted, restarts>>

NextDay ==
  /\ spent # 0 /\ spent' = 0
  /\ UNCHANGED <<publish, versions, reservations, counted, frozen, restarts>>

\* A restart ends all requests; ReleaseExpired drops their reservations,
\* also those of committed publications that nobody has settled.
GatesRestart ==
  /\ restarts < GateRestarts /\ restarts' = restarts + 1
  /\ publish' = [p \in Publishers |->
       [publish[p] EXCEPT !.step = IF @ \in {"committed", "settling", "kept"} THEN "lost"
                                   ELSE IF @ \in {"idle", "published", "lost"} THEN @ ELSE "done"]]
  /\ reservations' = {} /\ frozen' = FALSE
  /\ UNCHANGED <<versions, spent, counted>>

GatesNext ==
  \/ \E p \in Publishers :
       \/ Admission(p) \/ BeginKnown(p) \/ MeasureRest(p) \/ ReserveRest(p)
       \/ Spool(p) \/ ValidateUnresolved(p) \/ PublishPlanned(p) \/ PublishBroken(p)
       \/ PublishCommit(p) \/ ReadBack(p)
       \/ SettlePublished(p) \/ SettleFailed(p) \/ SettleRefused(p)
  \/ \E a \in Artifacts : ArtifactDeleted(a)
  \/ FreezeOrThaw \/ NextDay \/ GatesRestart

GatesSpec == GatesInit /\ [][GatesNext]_gateVars

-----------------------------------------------------------------------------
(* Properties *)

\* Whatever was admitted side by side, the repository never holds more than
\* its quota, and what the day has used together with what is reserved never
\* exceeds the volume of the account (CheckCommit, Reserve).
QuotasHold == RepoUsed <= RepoBytes /\ spent + Reserved <= DayBytes

\* Every version in the repository has been charged to the account or still
\* has its reservation, unless a restart came between its commit and its
\* settlement; and a reservation belongs to a publication that is under way
\* or whose settlement was refused (beginPublish, SettleBytes).
BooksBalance ==
  /\ \A a \in Artifacts :
       LET p == versions[a]
       IN p # NoVersion /\ ~At(p, "lost") => p \in counted \cup reservations
  /\ \A p \in reservations :
       publish[p].step \notin {"idle", "admitted", "measured", "published", "done", "lost"}

\* The limits hold, and the accounts are those of what is there.
GatesSound == QuotasHold /\ BooksBalance
=============================================================================
