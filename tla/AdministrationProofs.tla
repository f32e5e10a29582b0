----------------------- MODULE AdministrationProofs -------------------------
(***************************************************************************)
(* What the services beside the storage of assets keep, for every value of *)
(* their constants: the jobs, the access rights, the names, the counters,  *)
(* the trash of the cleanups, the migrations, and the index of an offline  *)
(* directory.                                                              *)
(***************************************************************************)
EXTENDS JobScheduler, AccessControl, RepositoryNames, ObservationBuffers,
        CleanupTrash, MigrationTasks, OfflineIndex, TLAPS

-----------------------------------------------------------------------------
(***************************************************************************)
(* JobScheduler.                                                           *)
(* For any number of jobs and requests: no job overlaps itself, and its    *)
(* flag is set exactly while somebody runs it.                             *)
(***************************************************************************)

\* The invariant is inductive together with the types: a claim needs the flag
\* to be clear, so nobody else holds the job when the flag is set.
Claims == SchedulerTypeOK /\ OneRunPerJob

LEMMA ClaimsAtFirst == SchedulerInit => Claims
BY DEF SchedulerInit, Claims, SchedulerTypeOK, OneRunPerJob, LoopHolds, TriggerHolds,
       LoopSteps, TriggerIdle

LEMMA TypesStep == SchedulerTypeOK /\ [SchedulerNext]_schedVars => SchedulerTypeOK'
<1> SUFFICES ASSUME SchedulerTypeOK, [SchedulerNext]_schedVars PROVE SchedulerTypeOK'
  OBVIOUS
<1> USE DEF SchedulerTypeOK, LoopSteps, TriggerBusy, TriggerIdle, LoopGoes, TriggerGoes
<1>1. CASE SchedulerStart BY <1>1 DEF SchedulerStart
<1>2. CASE Cancel BY <1>2 DEF Cancel
<1>3. ASSUME NEW j \in Jobs, LoopStep(j) PROVE SchedulerTypeOK'
  BY <1>3 DEF LoopStep, LoopWakes, LoopClaims, LoopInvokes, LoopReleases, Releases
<1>4. ASSUME NEW r \in Triggers, NEW j \in Jobs, TriggerClaims(r, j) PROVE SchedulerTypeOK'
  BY <1>4 DEF TriggerClaims
<1>5. ASSUME NEW r \in Triggers, NEW j \in Jobs, TriggerStep(r, j) PROVE SchedulerTypeOK'
  <2>1. CASE TriggerInvokes(r, j) BY <2>1 DEF TriggerInvokes
  <2>2. CASE TriggerReleases(r, j)
    <3>1. trigger' \in [Triggers -> TriggerBusy \cup {TriggerIdle}]
      BY <2>2 DEF TriggerReleases
    <3>2. jobRunning' \in [Jobs -> BOOLEAN] /\ jobFailed' \in [Jobs -> BOOLEAN]
      BY <2>2, Zenon DEF TriggerReleases, Releases
    <3> QED BY <2>2, <3>1, <3>2 DEF TriggerReleases
  <2> QED BY <1>5, <2>1, <2>2 DEF TriggerStep
<1>6. CASE UNCHANGED schedVars BY <1>6 DEF schedVars
<1> QED BY <1>1, <1>2, <1>3, <1>4, <1>5, <1>6 DEF SchedulerNext

\* A claim takes a job that nobody holds, a release leaves one that nobody else
\* holds; every other step leaves the holders as they are.
LEMMA RunsStep == Claims /\ [SchedulerNext]_schedVars => OneRunPerJob'
<1> SUFFICES ASSUME SchedulerTypeOK, OneRunPerJob, [SchedulerNext]_schedVars PROVE OneRunPerJob'
  BY DEF Claims
<1> USE DEF SchedulerTypeOK, OneRunPerJob, LoopHolds, TriggerHolds, LoopSteps,
            TriggerBusy, TriggerIdle, LoopGoes, TriggerGoes
<1>1. CASE SchedulerStart BY <1>1 DEF SchedulerStart
<1>2. CASE Cancel BY <1>2 DEF Cancel
<1>3. ASSUME NEW j \in Jobs, LoopStep(j) PROVE OneRunPerJob'
  <2>1. CASE LoopWakes(j) BY <1>3, <2>1 DEF LoopWakes
  <2>2. CASE LoopClaims(j) BY <1>3, <2>2 DEF LoopClaims
  <2>3. CASE LoopInvokes(j) BY <1>3, <2>3 DEF LoopInvokes
  <2>4. CASE LoopReleases(j) BY <1>3, <2>4 DEF LoopReleases, Releases
  <2> QED BY <1>3, <2>1, <2>2, <2>3, <2>4 DEF LoopStep
<1>4. ASSUME NEW r \in Triggers, NEW j \in Jobs, TriggerClaims(r, j) PROVE OneRunPerJob'
  BY <1>4 DEF TriggerClaims
<1>5. ASSUME NEW r \in Triggers, NEW j \in Jobs, TriggerStep(r, j) PROVE OneRunPerJob'
  <2>1. CASE TriggerInvokes(r, j) BY <1>5, <2>1 DEF TriggerInvokes
  <2>2. CASE TriggerReleases(r, j) BY <1>5, <2>2 DEF TriggerReleases, Releases
  <2> QED BY <1>5, <2>1, <2>2 DEF TriggerStep
<1>6. CASE UNCHANGED schedVars BY <1>6 DEF schedVars
<1> QED BY <1>1, <1>2, <1>3, <1>4, <1>5, <1>6 DEF SchedulerNext

\* Claims holds in every state of SchedulerSpec.
LEMMA ClaimsStay == SchedulerSpec => []Claims
<1>1. SchedulerInit => Claims BY ClaimsAtFirst
<1>2. Claims /\ [SchedulerNext]_schedVars => Claims'
  BY TypesStep, RunsStep DEF Claims
<1> QED BY <1>1, <1>2, PTL DEF SchedulerSpec

\* scheduler.go: claim, runClaimed and invoke keep at most one run of a job, and
\* give the flag back on every outcome, panics included.
THEOREM OneRunAlways == SchedulerSpec => []OneRunPerJob
<1>1. Claims => OneRunPerJob BY DEF Claims
<1> QED BY <1>1, ClaimsStay, PTL

-----------------------------------------------------------------------------
(***************************************************************************)
(* AccessControl.                                                          *)
(* For any repositories, users, groups and lists: the check of a list and  *)
(* the scope of a search say what the checks of single repositories say,   *)
(* and no grant outlives its group.                                        *)
(***************************************************************************)

\* The inductive invariant.
Granted == AccessTypeOK /\ NoDanglingGrant

LEMMA AccessTypesAtFirst == AccessInit => AccessTypeOK /\ NoDanglingGrant
BY DEF AccessInit, AccessTypeOK, NoDanglingGrant

LEMMA AccessTypesStep == AccessTypeOK /\ [AccessNext]_accessVars => AccessTypeOK'
<1> SUFFICES ASSUME AccessTypeOK, [AccessNext]_accessVars PROVE AccessTypeOK'
  OBVIOUS
<1> USE AccessAssumption DEF AccessTypeOK
<1>1. ASSUME NEW r \in Repos, SetVisibility(r) PROVE AccessTypeOK'
  BY <1>1 DEF SetVisibility
<1>2. ASSUME NEW r \in Repos, SetAcl(r) PROVE AccessTypeOK'
  <2>1. PICK entries \in SUBSET GrantEntries :
          acl' = {row \in acl : row[1] # r} \cup {<<r, e[1], e[2]>> : e \in entries}
    BY <1>2 DEF SetAcl
  <2>2. \A e \in entries : <<r, e[1], e[2]>> \in Repos \X (Users \cup Groups) \X AllActions
    OBVIOUS
  <2>3. acl' \subseteq Repos \X (Users \cup Groups) \X AllActions
    BY <2>1, <2>2
  <2> QED BY <1>2, <2>3 DEF SetAcl
<1>3. CASE SetAnonymousAccess BY <1>3 DEF SetAnonymousAccess
<1>4. CASE CreateGroup BY <1>4 DEF CreateGroup
<1>5. ASSUME NEW g \in Groups, DeleteByGroup(g) PROVE AccessTypeOK'
  BY <1>5 DEF DeleteByGroup
<1>6. ASSUME NEW g \in Groups, DeleteGroup(g) PROVE AccessTypeOK'
  BY <1>6 DEF DeleteGroup
<1>7. ASSUME NEW g \in Groups, NEW u \in Users, AddMember(g, u) PROVE AccessTypeOK'
  BY <1>7 DEF AddMember
<1>8. ASSUME NEW g \in Groups, NEW u \in Users, RemoveMember(g, u) PROVE AccessTypeOK'
  BY <1>8 DEF RemoveMember
<1>9. CASE UNCHANGED accessVars BY <1>9 DEF accessVars
<1> QED BY <1>1, <1>2, <1>3, <1>4, <1>5, <1>6, <1>7, <1>8, <1>9 DEF AccessNext

\* A list may name a group only while the group is there, and a group takes its
\* entries and its members along.
LEMMA GrantsStep == AccessTypeOK /\ NoDanglingGrant /\ [AccessNext]_accessVars => NoDanglingGrant'
<1> SUFFICES ASSUME AccessTypeOK, NoDanglingGrant, [AccessNext]_accessVars PROVE NoDanglingGrant'
  OBVIOUS
<1> USE AccessAssumption DEF AccessTypeOK, NoDanglingGrant
<1>1. ASSUME NEW r \in Repos, SetVisibility(r) PROVE NoDanglingGrant'
  BY <1>1 DEF SetVisibility
<1>2. ASSUME NEW r \in Repos, SetAcl(r) PROVE NoDanglingGrant'
  BY <1>2 DEF SetAcl
<1>3. CASE SetAnonymousAccess BY <1>3 DEF SetAnonymousAccess
<1>4. CASE CreateGroup BY <1>4 DEF CreateGroup
<1>5. ASSUME NEW g \in Groups, DeleteByGroup(g) PROVE NoDanglingGrant'
  BY <1>5 DEF DeleteByGroup
<1>6. ASSUME NEW g \in Groups, DeleteGroup(g) PROVE NoDanglingGrant'
  BY <1>6 DEF DeleteGroup
<1>7. ASSUME NEW g \in Groups, NEW u \in Users, AddMember(g, u) PROVE NoDanglingGrant'
  BY <1>7 DEF AddMember
<1>8. ASSUME NEW g \in Groups, NEW u \in Users, RemoveMember(g, u) PROVE NoDanglingGrant'
  BY <1>8 DEF RemoveMember
<1>9. CASE UNCHANGED accessVars BY <1>9 DEF accessVars
<1> QED BY <1>1, <1>2, <1>3, <1>4, <1>5, <1>6, <1>7, <1>8, <1>9 DEF AccessNext

\* The two queries of a list find what the query of one repository finds.
LEMMA QueriesAgree ==
  ASSUME NEW rs, NEW user, NEW of, NEW action
  PROVE  RepoIDsWithPermission(rs, Subject(user, of), action)
           = {r \in rs : HasPermission(r, Subject(user, of), action)}
<1> DEFINE subject == Subject(user, of)
<1>1. subject.user = user /\ subject.groups = of BY DEF Subject
<1> HIDE DEF subject
<1>2. ASSUME NEW r \in rs
      PROVE  HasPermission(r, subject, action)
               <=> \/ \E grant \in SatisfyingGrants(action) : <<r, user, grant>> \in acl
                   \/ \E grant \in SatisfyingGrants(action), g \in of : <<r, g, grant>> \in acl
  BY <1>1 DEF HasPermission
<1>3. RepoIDsWithPermission(rs, subject, action) = {r \in rs : HasPermission(r, subject, action)}
  BY <1>1, <1>2 DEF RepoIDsWithPermission
<1> QED BY <1>3 DEF subject

\* The check of a list is the check of each, whoever asks.
LEMMA ListsAgree == AccessTypeOK => BatchAgrees
<1> SUFFICES ASSUME AccessTypeOK, NEW subject \in Subjects
             PROVE ReadableRepoIDs(Repos, subject) = {r \in Repos : CanAccess(r, subject, "read")}
  BY DEF BatchAgrees
<1>1. subject = Subject(subject.user, subject.groups) BY DEF Subjects, Subject
<1> DEFINE private == Repos \ Public(Repos)
<1>2. CASE subject.user = Nobody
  <2>1. RepoIDsWithPermission(private, Subject(AnonymousUser, {}), "read")
          = {r \in private : HasPermission(r, Subject(AnonymousUser, {}), "read")}
    BY QueriesAgree
  <2> QED BY <1>2, <2>1 DEF ReadableRepoIDs, CanAccess, Public
<1>3. CASE subject.user # Nobody
  <2>1. RepoIDsWithPermission(private, subject, "read")
          = {r \in private : HasPermission(r, subject, "read")}
    BY <1>1, QueriesAgree
  <2> QED BY <1>3, <2>1 DEF ReadableRepoIDs, CanAccess, Public
<1> QED BY <1>2, <1>3

\* So is the scope of a search; the groups of the anonymous user make the
\* difference if it has any.
LEMMA ScopesAgree == AccessTypeOK => ScopeAgrees
<1> SUFFICES ASSUME AccessTypeOK, NEW user \in Users \cup {Nobody},
                    user # Nobody \/ \A m \in members : m[2] # AnonymousUser
             PROVE SearchScope(user) = {r \in Repos : CanAccess(r, SubjectFor(user), "read")}
  BY DEF ScopeAgrees
<1> DEFINE private == Repos \ Public(Repos)
           who     == IF user = Nobody THEN AnonymousUser ELSE user
           of      == IF user = Nobody THEN {} ELSE {g \in groups : <<g, user>> \in members}
<1>1. AnonymousUser # Nobody BY AccessAssumption
<1>2. SubjectFor(who) = Subject(who, of)
  <2>1. ASSUME user = Nobody PROVE {g \in groups : <<g, AnonymousUser>> \in members} = {}
    BY <2>1
  <2> QED BY <1>1, <2>1 DEF SubjectFor
<1>3. RepoIDsWithPermission(private, Subject(who, of), "read")
        = {r \in private : HasPermission(r, Subject(who, of), "read")}
  BY QueriesAgree
<1>4. SubjectFor(user) = Subject(user, of) /\ SubjectFor(user).user = user
  BY DEF SubjectFor, Subject
<1>5. CASE user = Nobody
  BY <1>2, <1>3, <1>4, <1>5 DEF SearchScope, CanAccess, Public
<1>6. CASE user # Nobody
  BY <1>2, <1>3, <1>4, <1>6 DEF SearchScope, CanAccess, Public
<1> QED BY <1>5, <1>6

\* Granted holds in every state of AccessSpec.
LEMMA GrantsStay == AccessSpec => []Granted
<1>1. AccessInit => Granted BY AccessTypesAtFirst DEF Granted
<1>2. Granted /\ [AccessNext]_accessVars => Granted' BY AccessTypesStep, GrantsStep DEF Granted
<1> QED BY <1>1, <1>2, PTL DEF AccessSpec

\* repository_service.go: ReadableRepoIDs, readableRepoIDs and CanAccessResolved
\* never disagree, and the deletion of a group leaves no grant behind.
THEOREM AccessAlwaysAgrees == AccessSpec => []AccessAgrees
<1>1. Granted => AccessAgrees BY ListsAgree, ScopesAgree DEF Granted, AccessAgrees
<1> QED BY <1>1, GrantsStay, PTL

-----------------------------------------------------------------------------
(***************************************************************************)
(* RepositoryNames.                                                        *)
(* For any repositories, names and requests: a refused creation leaves     *)
(* nothing behind, main names are unique, and every alias leads to a       *)
(* repository that is there.                                               *)
(***************************************************************************)

\* A request that has read something knows a name and a row; a rename knows its
\* new name.
Knows ==
  \A q \in Requests :
    request[q].step # "none" =>
      /\ request[q].name \in Names /\ request[q].repo \in RepoIds
      /\ q \in Renames => \E n \in Names : n \in request[q].aliases

\* Where the row of a creation is: nowhere before it is inserted, afterwards
\* under its name until somebody renames or deletes it.
RowOfCreate ==
  \A c \in Creates :
    /\ request[c].step \in {"none", "checked"} => mainName[c] = Unused
    /\ request[c].step \in {"inserted", "undoing"} =>
         mainName[c] \in {request[c].name, Unused} \/ c \in spared
    /\ request[c].step = "refused" => mainName[c] = Unused \/ c \in spared

NamesTrue == NamesTypeOK /\ Knows /\ RowOfCreate /\ NamesLead

LEMMA NamesTrueAtFirst == NamesInit => NamesTrue
<1> SUFFICES ASSUME NamesInit PROVE NamesTrue
  OBVIOUS
<1> USE NamesAssumption DEF NamesInit, RepoIds
<1>1. NamesTypeOK BY DEF NamesTypeOK, Idle, RequestSteps
<1>2. Knows BY DEF Knows, Idle
<1>3. RowOfCreate BY DEF RowOfCreate, Idle, Requests
<1>4. NamesLead BY DEF NamesLead
<1> QED BY <1>1, <1>2, <1>3, <1>4 DEF NamesTrue

-----------------------------------------------------------------------------
(* The two tables *)

\* Deleting a row takes its aliases along.
LEMMA RemovalKeepsLead ==
  ASSUME NamesTypeOK, NamesLead, NEW n \in Names, RemoveByName(n)
  PROVE  NamesLead' /\ mainName' \in [RepoIds -> Names \cup {Unused}]
                    /\ aliasOf' \in [Names -> RepoIds \cup {Unused}]
<1> USE NamesAssumption DEF NamesTypeOK, RemoveByName
<1>1. mainName' \in [RepoIds -> Names \cup {Unused}] OBVIOUS
<1>2. aliasOf' \in [Names -> RepoIds \cup {Unused}] OBVIOUS
<1>3. NamesLead' BY <1>1, <1>2 DEF NamesLead
<1> QED BY <1>1, <1>2, <1>3

\* Aliases are given to a row that is there.
LEMMA AliasesKeepLead ==
  ASSUME NamesTypeOK, NamesLead, NEW r \in RepoIds, NEW aliases \in SUBSET Names,
         CanSetAliases(r, aliases), PutAliases(r, aliases), mainName' = mainName
  PROVE  NamesLead' /\ aliasOf' \in [Names -> RepoIds \cup {Unused}]
<1> USE NamesAssumption DEF NamesTypeOK, PutAliases, CanSetAliases
<1>1. aliasOf' \in [Names -> RepoIds \cup {Unused}] OBVIOUS
<1>2. NamesLead' BY <1>1 DEF NamesLead
<1> QED BY <1>1, <1>2

-----------------------------------------------------------------------------
(* The steps *)

\* A step that moves on and leaves the tables.
LEMMA StepTypes ==
  ASSUME NamesTypeOK, NEW q \in Requests, NEW step \in RequestSteps, Step(q, step)
  PROVE  /\ request' \in [Requests -> [step : RequestSteps, name : Names \cup {Unused},
                                       repo : RepoIds \cup {Unused}, aliases : SUBSET Names]]
         /\ request'[q].step = step /\ request'[q].name = request[q].name
         /\ request'[q].repo = request[q].repo /\ request'[q].aliases = request[q].aliases
         /\ \A p \in Requests \ {q} : request'[p] = request[p]
BY DEF NamesTypeOK, Step

\* A read of a row by its main name or an alias finds a row that is there.
LEMMA ReadsKeep ==
  ASSUME NamesTrue, NEW q \in Requests \ Creates, NEW aliases \in SUBSET Names,
         Reads(q, aliases), q \in Renames => \E n \in Names : n \in aliases
  PROVE  NamesTrue'
<1> USE NamesAssumption DEF NamesTrue
<1>1. PICK n \in Names, r \in RepoIds :
        /\ Resolves(n, r)
        /\ request' = [request EXCEPT ![q] = [step |-> "checked", name |-> mainName[r],
                                              repo |-> r, aliases |-> aliases]]
  BY DEF Reads
<1>2. mainName[r] \in Names
  <2>1. CASE mainName[r] = n BY <2>1
  <2>2. CASE aliasOf[n] = r BY <2>2 DEF NamesLead, NamesTypeOK
  <2> QED BY <1>1, <2>1, <2>2 DEF Resolves
<1>3. UNCHANGED <<mainName, aliasOf, spared>> BY DEF Reads
<1>4. NamesTypeOK' BY <1>1, <1>2, <1>3 DEF NamesTypeOK, RequestSteps
<1>5. Knows' BY <1>1, <1>2 DEF Knows, NamesTypeOK
<1>6. RowOfCreate' BY <1>1, <1>3 DEF RowOfCreate, NamesTypeOK
<1>7. NamesLead' BY <1>3 DEF NamesLead
<1> QED BY <1>4, <1>5, <1>6, <1>7

LEMMA CreateKeeps ==
  ASSUME NamesTrue, NEW c \in Creates,
         CreateChecks(c) \/ CreateInserts(c) \/ CreateFinishes(c) \/ CreateFails(c)
           \/ CreateUndoes(c) \/ CreateUndoFails(c)
  PROVE  NamesTrue'
<1> USE NamesAssumption DEF NamesTrue
<1>0. c \in Requests /\ c \in RepoIds /\ c \notin Renames BY DEF Requests, RepoIds
<1>1. CASE CreateChecks(c)
  <2>1. PICK n \in Names, aliases \in SUBSET Names :
          request' = [request EXCEPT ![c] = [step |-> "checked", name |-> n, repo |-> c,
                                             aliases |-> aliases]]
    BY <1>1 DEF CreateChecks
  <2>2. UNCHANGED <<mainName, aliasOf, spared>> /\ request[c].step = "none"
    BY <1>1 DEF CreateChecks
  <2>3. NamesTypeOK' BY <1>0, <2>1, <2>2 DEF NamesTypeOK, RequestSteps
  <2>4. Knows' BY <1>0, <2>1 DEF Knows, NamesTypeOK
  <2>5. RowOfCreate' BY <2>1, <2>2 DEF RowOfCreate, NamesTypeOK, Requests
  <2>6. NamesLead' BY <2>2 DEF NamesLead
  <2> QED BY <2>3, <2>4, <2>5, <2>6
<1>2. ASSUME NEW step \in RequestSteps, Step(c, step), request[c].step # "none"
      PROVE  Knows'
  BY <1>0, <1>2, StepTypes DEF Knows
<1>3. CASE CreateInserts(c)
  <2>1. request[c].step = "checked" /\ request[c].name \in Names /\ mainName[c] = Unused
    BY <1>0, <1>3 DEF CreateInserts, Knows, RowOfCreate
  <2>2. CASE \E r \in RepoIds : mainName[r] = request[c].name
    <3>1. Step(c, "refused") /\ UNCHANGED <<mainName, aliasOf, spared>>
      BY <1>3, <2>2 DEF CreateInserts
    <3>2. Knows' BY <1>2, <2>1, <3>1 DEF RequestSteps
    <3> QED BY <1>0, <2>1, <3>1, <3>2, StepTypes
            DEF NamesTypeOK, RequestSteps, RowOfCreate, NamesLead, Requests
  <2>3. CASE ~\E r \in RepoIds : mainName[r] = request[c].name
    <3>1. /\ Step(c, "inserted") /\ mainName' = [mainName EXCEPT ![c] = request[c].name]
          /\ UNCHANGED <<aliasOf, spared>>
      BY <1>3, <2>3 DEF CreateInserts
    <3>2. Knows' BY <1>2, <2>1, <3>1 DEF RequestSteps
    <3>3. NamesTypeOK' BY <1>0, <2>1, <3>1, StepTypes DEF NamesTypeOK, RequestSteps
    <3>4. RowOfCreate'
      BY <1>0, <2>1, <3>1, StepTypes DEF NamesTypeOK, RequestSteps, RowOfCreate, Requests
    <3>5. NamesLead' BY <1>0, <2>1, <2>3, <3>1 DEF NamesLead, NamesTypeOK
    <3> QED BY <3>2, <3>3, <3>4, <3>5
  <2> QED BY <2>2, <2>3
<1>4. CASE CreateFinishes(c)
  <2>1. request[c].step = "inserted" /\ request[c].aliases \in SUBSET Names
    BY <1>0, <1>4 DEF CreateFinishes, NamesTypeOK
  <2>2. UNCHANGED <<mainName, spared>> BY <1>4 DEF CreateFinishes
  <2>3. CASE UNCHANGED aliasOf
    <3>1. PICK step \in {"done", "undoing"} : Step(c, step)
      BY <1>4, <2>3 DEF CreateFinishes
    <3>2. Knows' BY <1>2, <2>1, <3>1 DEF RequestSteps
    <3> QED BY <1>0, <2>1, <2>2, <2>3, <3>1, <3>2, StepTypes
            DEF NamesTypeOK, RequestSteps, RowOfCreate, NamesLead, Requests
  <2>4. CASE aliasOf' # aliasOf
    <3>1. /\ Step(c, "done") /\ CanSetAliases(c, request[c].aliases)
          /\ PutAliases(c, request[c].aliases)
      BY <1>4, <2>4 DEF CreateFinishes
    <3>2. Knows' BY <1>2, <2>1, <3>1 DEF RequestSteps
    <3>3. NamesLead' /\ aliasOf' \in [Names -> RepoIds \cup {Unused}]
      BY <1>0, <2>1, <2>2, <3>1, AliasesKeepLead
    <3> QED BY <1>0, <2>1, <2>2, <3>1, <3>2, <3>3, StepTypes
            DEF NamesTypeOK, RequestSteps, RowOfCreate, Requests
  <2> QED BY <2>3, <2>4
<1>5. CASE CreateFails(c)
  <2>1. /\ request[c].step = "inserted" /\ Step(c, "undoing")
        /\ UNCHANGED <<mainName, aliasOf, spared>>
    BY <1>5 DEF CreateFails
  <2>2. Knows' BY <1>2, <2>1 DEF RequestSteps
  <2> QED BY <1>0, <2>1, <2>2, StepTypes
          DEF NamesTypeOK, RequestSteps, RowOfCreate, NamesLead, Requests
<1>6. CASE CreateUndoes(c)
  <2>1. /\ request[c].step = "undoing" /\ Step(c, "refused") /\ UNCHANGED spared
        /\ RemoveByName(request[c].name)
    BY <1>6 DEF CreateUndoes
  <2>2. Knows' BY <1>2, <2>1 DEF RequestSteps
  <2>3. request[c].name \in Names BY <1>0, <2>1 DEF Knows
  <2>4. NamesLead' /\ mainName' \in [RepoIds -> Names \cup {Unused}]
                   /\ aliasOf' \in [Names -> RepoIds \cup {Unused}]
    BY <2>1, <2>3, RemovalKeepsLead
  <2>5. RowOfCreate'
    BY <1>0, <2>1, <2>3, StepTypes
       DEF NamesTypeOK, RequestSteps, RowOfCreate, Requests, RepoIds, RemoveByName
  <2> QED BY <1>0, <2>1, <2>2, <2>4, <2>5, StepTypes DEF NamesTypeOK, RequestSteps
<1>7. CASE CreateUndoFails(c)
  <2>1. /\ request[c].step = "undoing" /\ Step(c, "refused") /\ spared' = spared \cup {c}
        /\ UNCHANGED <<mainName, aliasOf>>
    BY <1>7 DEF CreateUndoFails
  <2>2. Knows' BY <1>2, <2>1 DEF RequestSteps
  <2> QED BY <1>0, <2>1, <2>2, StepTypes
          DEF NamesTypeOK, RequestSteps, RowOfCreate, NamesLead, Requests
<1> QED BY <1>1, <1>3, <1>4, <1>5, <1>6, <1>7

\* A row that a rename takes from a creation under way is spared.
LEMMA RenameKeeps ==
  ASSUME NamesTrue, NEW q \in Renames, RenameReads(q) \/ RenameWrites(q)
  PROVE  NamesTrue'
<1> USE NamesAssumption DEF NamesTrue
<1>0. q \in Requests \ Creates BY DEF Requests
<1>1. CASE RenameReads(q)
  BY <1>0, <1>1, ReadsKeep DEF RenameReads
<1>2. CASE RenameWrites(q)
  <2> DEFINE old == request[q].name
             new == CHOOSE n \in Names : n \in request[q].aliases
  <2>1. request[q].step = "checked" /\ old \in Names /\ new \in Names
    BY <1>0, <1>2 DEF RenameWrites, Knows
  <2> HIDE DEF new
  <2>2. ASSUME NEW step \in {"done", "refused"}, Step(q, step)
        PROVE  Knows'
    BY <1>0, <2>1, <2>2, StepTypes DEF Knows, RequestSteps
  <2>3. CASE /\ \A r \in RepoIds : mainName[r] # new
             /\ aliasOf[old] = Unused
             /\ \E r \in RepoIds : mainName[r] = old
    <3>1. PICK r \in RepoIds :
            /\ mainName[r] = old
            /\ mainName' = [mainName EXCEPT ![r] = new]
            /\ aliasOf' = [aliasOf EXCEPT ![old] = r]
            /\ spared' = IF r \in Creates /\ request[r].step \in {"inserted", "undoing"}
                         THEN spared \cup {r} ELSE spared
            /\ Step(q, "done")
      BY <1>2, <2>3 DEF RenameWrites, new
    <3>2. Knows' BY <2>2, <3>1
    <3>3. NamesTypeOK'
      BY <1>0, <2>1, <3>1, StepTypes DEF NamesTypeOK, RequestSteps
    <3>4. NamesLead'
      BY <2>1, <2>3, <3>1 DEF NamesLead, NamesTypeOK
    <3>5. RowOfCreate'
      <4> SUFFICES ASSUME NEW c \in Creates PROVE RowOfCreate!(c)'
        BY DEF RowOfCreate
      <4>1. request'[c] = request[c] /\ c \in RepoIds
        BY <1>0, <3>1, StepTypes DEF Requests, RequestSteps, RepoIds
      <4>2. CASE c = r
        BY <2>1, <3>1, <4>1, <4>2 DEF RowOfCreate
      <4>3. CASE c # r
        BY <3>1, <4>1, <4>3 DEF RowOfCreate, NamesTypeOK
      <4> QED BY <4>2, <4>3
    <3> QED BY <3>2, <3>3, <3>4, <3>5
  <2>4. CASE ~(/\ \A r \in RepoIds : mainName[r] # new
               /\ aliasOf[old] = Unused
               /\ \E r \in RepoIds : mainName[r] = old)
    <3>1. Step(q, "refused") /\ UNCHANGED <<mainName, aliasOf, spared>>
      BY <1>2, <2>4 DEF RenameWrites, new
    <3>2. Knows' BY <2>2, <3>1
    <3> QED BY <1>0, <3>1, <3>2, StepTypes
            DEF NamesTypeOK, RequestSteps, RowOfCreate, NamesLead, Requests
  <2> QED BY <2>3, <2>4
<1> QED BY <1>1, <1>2

LEMMA UpdateKeeps ==
  ASSUME NamesTrue, NEW q \in Updates, UpdateReads(q) \/ UpdateWrites(q)
  PROVE  NamesTrue'
<1> USE NamesAssumption DEF NamesTrue
<1>0. q \in Requests \ Creates /\ q \notin Renames BY DEF Requests
<1>1. CASE UpdateReads(q)
  BY <1>0, <1>1, ReadsKeep DEF UpdateReads
<1>2. CASE UpdateWrites(q)
  <2>1. /\ request[q].repo \in RepoIds /\ request[q].aliases \in SUBSET Names
        /\ request[q].name \in Names /\ UNCHANGED <<mainName, spared>>
    BY <1>0, <1>2 DEF UpdateWrites, Knows, NamesTypeOK
  <2>2. PICK step \in {"done", "refused"} : Step(q, step) BY <1>2 DEF UpdateWrites
  <2>3. Knows' BY <1>0, <2>1, <2>2, StepTypes DEF Knows, RequestSteps
  <2>4. NamesLead' /\ aliasOf' \in [Names -> RepoIds \cup {Unused}]
    <3>1. CASE CanSetAliases(request[q].repo, request[q].aliases)
      BY <1>2, <2>1, <3>1, AliasesKeepLead DEF UpdateWrites
    <3>2. CASE ~CanSetAliases(request[q].repo, request[q].aliases)
      BY <1>2, <2>1, <3>2 DEF UpdateWrites, NamesLead, NamesTypeOK
    <3> QED BY <3>1, <3>2
  <2> QED BY <1>0, <2>1, <2>2, <2>3, <2>4, StepTypes
          DEF NamesTypeOK, RequestSteps, RowOfCreate, Requests
<1> QED BY <1>1, <1>2

LEMMA DeleteKeeps ==
  ASSUME NamesTrue, NEW q \in Deletes, DeleteReads(q) \/ DeleteWrites(q)
  PROVE  NamesTrue'
<1> USE NamesAssumption DEF NamesTrue
<1>0. q \in Requests \ Creates /\ q \notin Renames BY DEF Requests
<1>1. CASE DeleteReads(q)
  BY <1>0, <1>1, ReadsKeep DEF DeleteReads
<1>2. CASE DeleteWrites(q)
  <2>1. request[q].name \in Names /\ request[q].repo \in RepoIds /\ UNCHANGED spared
    BY <1>0, <1>2 DEF DeleteWrites, Knows
  <2>2. PICK step \in {"done", "refused"} : Step(q, step) BY <1>2 DEF DeleteWrites
  <2>3. Knows' BY <1>0, <2>1, <2>2, StepTypes DEF Knows, RequestSteps
  <2>4. CASE RemoveByName(request[q].name)
    <3>1. NamesLead' /\ mainName' \in [RepoIds -> Names \cup {Unused}]
                     /\ aliasOf' \in [Names -> RepoIds \cup {Unused}]
      BY <2>1, <2>4, RemovalKeepsLead
    <3>2. RowOfCreate'
      BY <1>0, <2>1, <2>2, <2>4, StepTypes
         DEF RequestSteps, RowOfCreate, Requests, RepoIds, RemoveByName
    <3> QED BY <1>0, <2>1, <2>2, <2>3, <3>1, <3>2, StepTypes DEF NamesTypeOK, RequestSteps
  <2>5. CASE UNCHANGED <<mainName, aliasOf>>
    BY <1>0, <2>1, <2>2, <2>3, <2>5, StepTypes
       DEF NamesTypeOK, RequestSteps, RowOfCreate, NamesLead, Requests
  <2> QED BY <1>2, <2>4, <2>5 DEF DeleteWrites
<1> QED BY <1>1, <1>2

\* NamesTrue holds in every state of NamesSpec.
LEMMA NamesStayTrue == NamesSpec => []NamesTrue
<1>1. NamesInit => NamesTrue BY NamesTrueAtFirst
<1>2. NamesTrue /\ [NamesNext]_namesVars => NamesTrue'
  <2> SUFFICES ASSUME NamesTrue, [NamesNext]_namesVars PROVE NamesTrue'
    OBVIOUS
  <2>1. CASE UNCHANGED namesVars
    BY <2>1 DEF namesVars, NamesTrue, NamesTypeOK, Knows, RowOfCreate, NamesLead
  <2> QED BY <2>1, CreateKeeps, RenameKeeps, UpdateKeeps, DeleteKeeps DEF NamesNext
<1> QED BY <1>1, <1>2, PTL DEF NamesSpec

\* repository_service.go: creations, renames, updates and deletions that read
\* first and write later keep the two tables of names together, and a creation
\* that is refused takes its row back.
THEOREM NamesAlwaysSound == NamesSpec => []NamesSound
<1>1. NamesTrue => NamesSound BY DEF NamesTrue, RowOfCreate, NamesSound, FailedCreateGone
<1> QED BY <1>1, NamesStayTrue, PTL

-----------------------------------------------------------------------------
(***************************************************************************)
(* ObservationBuffers.                                                     *)
(* What the counters of metrics and downloads keep from the moment they are*)
(* recorded: waiting, taken by a flush, kept in the database or known to be*)
(* gone.                                                                   *)
(***************************************************************************)

\* Every count is a natural number.
Numbers ==
  /\ waiting \in [Counters -> Nat] /\ taken \in [Counters -> Nat] /\ kept \in [Counters -> Nat]
  /\ gone \in [Counters -> Nat] /\ recorded \in [Counters -> Nat] /\ orphaned \subseteq Counters

\* Repositories go from under samples only; the transaction of the downloads
\* has no foreign key to break.
OnlySamplesLoseRows == orphaned # {} => buffer = "health"

\* The inductive invariant.
CountsTrue == Numbers /\ OnlySamplesLoseRows /\ BuffersSound

\* The invariant holds before anything is recorded.
LEMMA CountsBegin ==
  ASSUME BufferInit
  PROVE  CountsTrue
BY DEF BufferInit, Zero, CountsTrue, Numbers, OnlySamplesLoseRows, BuffersSound, CountsKept, NoOrphanRow

\* Every record, flush, failure and end of the process keeps the invariant.
LEMMA CountsStep ==
  ASSUME CountsTrue, [BufferNext]_bufferVars
  PROVE  CountsTrue'
<1> USE DEF CountsTrue, Numbers, OnlySamplesLoseRows, BuffersSound, CountsKept, NoOrphanRow
<1>1. ASSUME NEW k \in Counters, RecordProtocol(k) \/ RecordDownload(k) \/ RecordSample(k) PROVE CountsTrue'
  <2>1. /\ recorded' = [recorded EXCEPT ![k] = @ + 1]
        /\ UNCHANGED <<buffer, taken, kept, orphaned>>
        /\ \/ waiting' = [waiting EXCEPT ![k] = @ + 1] /\ UNCHANGED gone
           \/ gone' = [gone EXCEPT ![k] = @ + 1] /\ UNCHANGED waiting
    BY <1>1 DEF RecordProtocol, RecordDownload, RecordSample, Reported, Waits
  <2>2. CASE waiting' = [waiting EXCEPT ![k] = @ + 1] /\ UNCHANGED gone
    BY ONLY <2>1, <2>2, CountsTrue
  <2>3. CASE gone' = [gone EXCEPT ![k] = @ + 1] /\ UNCHANGED waiting
    BY ONLY <2>1, <2>3, CountsTrue
  <2> QED BY <2>1, <2>2, <2>3
<1>2. CASE TakeOut
  <2>1. \A k \in Counters : taken[k] = 0
    BY <1>2 DEF TakeOut, Keys
  <2> QED BY <1>2, <2>1 DEF TakeOut, Zero
<1>3. ASSUME NEW k \in Counters, AddOne(k) PROVE CountsTrue'
  BY <1>3 DEF AddOne
<1>4. CASE AddAll
  BY <1>4 DEF AddAll, Plus, Zero
<1>5. CASE PutBack
  BY <1>5 DEF PutBack, Plus, Zero
<1>6. ASSUME NEW k \in Counters, RepositoryGoes(k) PROVE CountsTrue'
  BY <1>6 DEF RepositoryGoes
<1>7. CASE Signal \/ UNCHANGED bufferVars
  BY <1>7 DEF Signal, bufferVars
<1>8. CASE ProcessEnds
  BY <1>8 DEF ProcessEnds, Plus, Zero
<1> QED BY <1>1, <1>2, <1>3, <1>4, <1>5, <1>6, <1>7, <1>8 DEF BufferNext, FlushStep

\* CountsTrue holds in every state of BufferSpec.
LEMMA CountsStayTrue == BufferSpec => []CountsTrue
<1>1. BufferInit => CountsTrue
  BY CountsBegin
<1>2. CountsTrue /\ [BufferNext]_bufferVars => CountsTrue'
  BY CountsStep
<1> QED BY <1>1, <1>2, PTL DEF BufferSpec

\* No count is lost or counted twice between the request that records it and the
\* row that keeps it, and no row is kept for a repository that is gone (the buffers
\* of metrics, downloads and health samples and their flushes).
THEOREM CountsNeverLost == BufferSpec => []BuffersSound
<1>1. CountsTrue => BuffersSound BY DEF CountsTrue
<1> QED BY <1>1, CountsStayTrue, PTL

-----------------------------------------------------------------------------
(***************************************************************************)
(* CleanupTrash.                                                           *)
(* For any number of directories, cleanups, restores, purges and crashes:  *)
(* the trash can be listed, a way back never overwrites files, and the     *)
(* guard of the cleanups is held by one that gives it back.                *)
(***************************************************************************)

\* A cleanup moves a path at most once, and nothing of it is in the trash before:
\* so a row that was settled never speaks of a directory of the trash again.
OnceMoved ==
  \A t \in Tasks :
    /\ cleanTask[t] = "none" <=> cleaner[t] \in {"idle", "listed"}
    /\ \A x \in Dirs :
         cleaner[t] \in {"idle", "listed", "queued"} \/ PathOf(x) \in todo[t]
           => dirAt[x] # t /\ trashEntry[<<t, x>>] = "none"
    /\ \A x \in current[t] : cleaner[t] = "moved" => PathOf(x) \notin todo[t]

\* A cleanup has one directory in hand at a time, and one at most that it has
\* moved without a row, which is the first to go back.
OneInHand ==
  \A t \in Tasks :
    /\ \A x, y \in current[t] : x = y
    /\ \A x \in current[t] : cleaner[t] = "undone" => dirAt[x] # t
    /\ \A x, y \in moved[t] :
         trashEntry[<<t, x>>] = "none" /\ trashEntry[<<t, y>>] = "none"
           => cleaner[t] = "undoing" /\ x = y

\* TrashListed, told of what the cleanup has moved.
HasRowOrHand(t, x) ==
  \/ trashEntry[<<t, x>>] = "staged"
  \/ /\ trashEntry[<<t, x>>] = "none"
     /\ \/ cleaner[t] = "moved" /\ x \in current[t]
        \/ cleaner[t] = "undoing" /\ x \in moved[t]
        \/ x \in stray

RowOrHand == \A t \in Tasks, x \in Dirs : dirAt[x] = t => HasRowOrHand(t, x)

\* What a restore or a purge knows: its entry had a row, and what it has moved
\* or removed is out of that trash for good.
CallsKnow ==
  \A u \in TrashCalls :
    trashCall[u].step # "idle" =>
      LET e == trashCall[u].entry IN
      /\ e \in Entries /\ trashEntry[e] # "none"
      /\ trashCall[u].step \in {"back", "removed"} => dirAt[e[2]] # e[1]
      /\ trashCall[u].step = "emptied" /\ dirAt[e[2]] = e[1] => e[2] \notin dirFull

\* The inductive invariant.
TrashTrue ==
  TrashTypeOK /\ OnceMoved /\ OneInHand /\ RowOrHand /\ CallsKnow /\ NeverOverwritten /\ GuardHeld

-----------------------------------------------------------------------------
(* One step of each part.                                                  *)

\* What goes back next is a directory that was moved, and the others of them
\* have rows.
LEMMA UndoNextMoved ==
  ASSUME OneInHand, NEW t \in Tasks, NEW y \in UndoNext(t)
  PROVE  y \in moved[t] /\ \A z \in moved[t] \ {y} : trashEntry[<<t, z>>] # "none"
<1>1. y \in moved[t]
  BY DEF UndoNext
<1>2. \A z \in moved[t] : trashEntry[<<t, z>>] = "none" => trashEntry[<<t, y>>] = "none"
  BY DEF UndoNext
<1> QED BY <1>1, <1>2 DEF OneInHand

\* Every step keeps the types.
LEMMA TrashTypesStep ==
  ASSUME TrashTypeOK, OneInHand, [TrashNext]_trashVars
  PROVE  TrashTypeOK'
<1> USE TrashAssumption DEF fileVars, rowVars, cleanVars, trashHistory, TrashTypeOK, CleanerSteps, TrashBusy, TrashIdle, Entries
<1>1. ASSUME NEW t \in Tasks, CleanList(t) PROVE TrashTypeOK'
  <2>1. PICK chosen \in (SUBSET {p \in Shards : \E x \in AtPath(p) : x \notin dirFull})
                     \cup (SUBSET {p \in Leavings : AtPath(p) # {}}) :
          todo' = [todo EXCEPT ![t] = chosen]
    BY <1>1 DEF CleanList
  <2>2. chosen \subseteq Shards \cup Leavings
    BY ONLY <2>1
  <2> QED BY <1>1, <2>1, <2>2 DEF CleanList, CleanGoes
<1>2. ASSUME NEW t \in Tasks, CleanCreate(t) \/ CleanStart(t) PROVE TrashTypeOK'
  <2>1. CASE CleanCreate(t)
    BY <2>1 DEF CleanCreate, CleanGoes
  <2>2. CASE CleanStart(t)
    BY <2>2 DEF CleanStart, CleanGoes
  <2> QED BY <1>2, <2>1, <2>2
<1>3. ASSUME NEW t \in Tasks, CleanMove(t) PROVE TrashTypeOK'
  BY <1>3 DEF CleanMove, CleanGoes, AtPath
<1>4. ASSUME NEW t \in Tasks, CleanMoveFails(t) PROVE TrashTypeOK'
  BY <1>4 DEF CleanMoveFails, CleanGoes
<1>5. ASSUME NEW t \in Tasks, CleanRecordFails(t) PROVE TrashTypeOK'
  BY <1>5 DEF CleanRecordFails, CleanGoes
<1>6. ASSUME NEW t \in Tasks, CleanRecord(t) PROVE TrashTypeOK'
  BY <1>6 DEF CleanRecord, CleanGoes
<1>7. ASSUME NEW t \in Tasks, CleanUndo(t) PROVE TrashTypeOK'
  <2>1. PICK y \in UndoNext(t) : /\ moved' = [moved EXCEPT ![t] = @ \ {y}]
                               /\ current' = [current EXCEPT ![t] = {y}]
                               /\ Return(t, y)
    BY <1>7 DEF CleanUndo
  <2>2. y \in moved[t] /\ \A z \in moved[t] \ {y} : trashEntry[<<t, z>>] # "none"
    BY <2>1, UndoNextMoved
  <2>3. cleaner' = [cleaner EXCEPT ![t] = "undone"] /\ trashEntry' = trashEntry /\ cleaner[t] = "undoing"
    BY <1>7 DEF CleanUndo, CleanGoes
  <2>4. \A z \in Dirs, s \in Tasks : dirAt'[z] = s => dirAt[z] = s /\ z # y
    BY <2>1, <2>2 DEF Return, CanReturn
  <2> QED BY <2>1, <2>2, <1>7 DEF CleanUndo, CleanGoes, Return
<1>8. ASSUME NEW t \in Tasks, CleanUndoMark(t) PROVE TrashTypeOK'
  BY <1>8 DEF CleanUndoMark, Settle, CleanGoes
<1>9. ASSUME NEW t \in Tasks, CleanUndoFails(t) PROVE TrashTypeOK'
  <2>1. stray' \subseteq Dirs /\ moved' \in [Tasks -> SUBSET Dirs]
    BY <1>9, UndoNextMoved DEF CleanUndoFails
  <2> QED BY <1>9, <2>1 DEF CleanUndoFails
<1>10. ASSUME NEW t \in Tasks, CleanFinish(t) \/ CleanJams(t) PROVE TrashTypeOK'
  BY <1>10 DEF CleanFinish, CleanJams, CleanGoes
<1>11. ASSUME NEW u \in TrashCalls, RestoreCheck(u) \/ RestoreFails(u) PROVE TrashTypeOK'
  BY <1>11 DEF RestoreCheck, RestoreFails, StagedEntries, CallGoes, CallEnds, CallAt
<1>12. ASSUME NEW u \in TrashCalls, RestoreRename(u) PROVE TrashTypeOK'
  BY <1>12 DEF RestoreRename, Return, CanReturn, AtPath, CallGoes, CallAt
<1>13. ASSUME NEW u \in TrashCalls, RestoreMark(u) \/ PurgeMark(u) PROVE TrashTypeOK'
  BY <1>13 DEF RestoreMark, PurgeMark, Settle, CallEnds, CallAt
<1>14. ASSUME NEW u \in TrashCalls, NEW e \in Entries, PurgeRead(u, e) PROVE TrashTypeOK'
  BY <1>14 DEF PurgeRead, CallGoes, CallAt
<1>15. ASSUME NEW u \in TrashCalls, PurgeOpen(u) \/ PurgeUnlink(u) PROVE TrashTypeOK'
  BY <1>15 DEF PurgeOpen, PurgeUnlink, CallGoes, CallAt
<1>16. ASSUME NEW u \in TrashCalls, PurgeRmdir(u) PROVE TrashTypeOK'
  BY <1>16 DEF PurgeRmdir, CallGoes, CallAt
<1>17. ASSUME NEW p \in Shards, MakeShard(p) PROVE TrashTypeOK'
  BY <1>17 DEF MakeShard, AtPath
<1>18. ASSUME NEW p \in Shards, LandBlob(p) PROVE TrashTypeOK'
  BY <1>18 DEF LandBlob, AtPath
<1>19. CASE TrashCrash
  BY <1>19 DEF TrashCrash, CloseInterrupted, Active
<1>20. CASE UNCHANGED trashVars
  BY <1>20 DEF trashVars
<1> HIDE DEF fileVars, rowVars, cleanVars, trashHistory, TrashTypeOK, CleanerSteps, TrashBusy, TrashIdle, Entries
<1> QED BY <1>1, <1>2, <1>3, <1>4, <1>5, <1>6, <1>7, <1>8, <1>9, <1>10, <1>11, <1>12, <1>13, <1>14, <1>15, <1>16, <1>17, <1>18, <1>19, <1>20 DEF TrashNext, CleanStep, CallStep

\* A path is moved once.
LEMMA OnceMovedStep ==
  ASSUME TrashTypeOK, OnceMoved, CallsKnow, [TrashNext]_trashVars
  PROVE  OnceMoved'
<1> USE TrashAssumption DEF fileVars, rowVars, cleanVars, trashHistory, TrashTypeOK, CleanerSteps, TrashBusy, TrashIdle, Entries, OnceMoved, CallsKnow
<1>1. ASSUME NEW t \in Tasks, CleanList(t) PROVE OnceMoved'
  BY <1>1 DEF CleanList, CleanGoes
<1>2. ASSUME NEW t \in Tasks, CleanCreate(t) \/ CleanStart(t) PROVE OnceMoved'
  BY <1>2 DEF CleanCreate, CleanStart, CleanGoes
<1>3. ASSUME NEW t \in Tasks, CleanMove(t) PROVE OnceMoved'
  BY <1>3 DEF CleanMove, CleanGoes, AtPath
<1>4. ASSUME NEW t \in Tasks, CleanMoveFails(t) PROVE OnceMoved'
  BY <1>4 DEF CleanMoveFails, CleanGoes
<1>5. ASSUME NEW t \in Tasks, CleanRecordFails(t) PROVE OnceMoved'
  BY <1>5 DEF CleanRecordFails, CleanGoes
<1>6. ASSUME NEW t \in Tasks, CleanRecord(t) PROVE OnceMoved'
  BY <1>6 DEF CleanRecord, CleanGoes
<1>7. ASSUME NEW t \in Tasks, CleanUndo(t) PROVE OnceMoved'
  BY <1>7 DEF CleanUndo, Return, CanReturn, AtPath, CleanGoes
<1>8. ASSUME NEW t \in Tasks, CleanUndoMark(t) PROVE OnceMoved'
  BY <1>8 DEF CleanUndoMark, Settle, CleanGoes
<1>9. ASSUME NEW t \in Tasks, CleanUndoFails(t) PROVE OnceMoved'
  BY <1>9 DEF CleanUndoFails
<1>10. ASSUME NEW t \in Tasks, CleanFinish(t) \/ CleanJams(t) PROVE OnceMoved'
  BY <1>10 DEF CleanFinish, CleanJams, CleanGoes
<1>11. ASSUME NEW u \in TrashCalls, RestoreCheck(u) \/ RestoreFails(u) PROVE OnceMoved'
  BY <1>11 DEF RestoreCheck, RestoreFails, StagedEntries, CallGoes, CallEnds, CallAt
<1>12. ASSUME NEW u \in TrashCalls, RestoreRename(u) PROVE OnceMoved'
  BY <1>12 DEF RestoreRename, Return, CanReturn, AtPath, CallGoes, CallAt
<1>13. ASSUME NEW u \in TrashCalls, RestoreMark(u) \/ PurgeMark(u) PROVE OnceMoved'
  BY <1>13 DEF RestoreMark, PurgeMark, Settle, CallEnds, CallAt
<1>14. ASSUME NEW u \in TrashCalls, NEW e \in Entries, PurgeRead(u, e) PROVE OnceMoved'
  BY <1>14 DEF PurgeRead, CallGoes, CallAt
<1>15. ASSUME NEW u \in TrashCalls, PurgeOpen(u) \/ PurgeUnlink(u) PROVE OnceMoved'
  BY <1>15 DEF PurgeOpen, PurgeUnlink, CallGoes, CallAt
<1>16. ASSUME NEW u \in TrashCalls, PurgeRmdir(u) PROVE OnceMoved'
  BY <1>16 DEF PurgeRmdir, CallGoes, CallAt
<1>17. ASSUME NEW p \in Shards, MakeShard(p) PROVE OnceMoved'
  BY <1>17 DEF MakeShard, AtPath
<1>18. ASSUME NEW p \in Shards, LandBlob(p) PROVE OnceMoved'
  BY <1>18 DEF LandBlob, AtPath
<1>19. CASE TrashCrash
  BY <1>19 DEF TrashCrash, CloseInterrupted, Active
<1>20. CASE UNCHANGED trashVars
  BY <1>20 DEF trashVars
<1> HIDE DEF fileVars, rowVars, cleanVars, trashHistory, TrashTypeOK, CleanerSteps, TrashBusy, TrashIdle, Entries, OnceMoved, CallsKnow
<1> QED BY <1>1, <1>2, <1>3, <1>4, <1>5, <1>6, <1>7, <1>8, <1>9, <1>10, <1>11, <1>12, <1>13, <1>14, <1>15, <1>16, <1>17, <1>18, <1>19, <1>20 DEF TrashNext, CleanStep, CallStep

\* One directory is in hand.
LEMMA OneInHandStep ==
  ASSUME TrashTypeOK, OnceMoved, OneInHand, [TrashNext]_trashVars
  PROVE  OneInHand'
<1> USE TrashAssumption DEF fileVars, rowVars, cleanVars, trashHistory, TrashTypeOK, CleanerSteps, TrashBusy, TrashIdle, Entries, OnceMoved, OneInHand
<1>1. ASSUME NEW t \in Tasks, CleanList(t) PROVE OneInHand'
  BY <1>1 DEF CleanList, CleanGoes
<1>2. ASSUME NEW t \in Tasks, CleanCreate(t) \/ CleanStart(t) PROVE OneInHand'
  BY <1>2 DEF CleanCreate, CleanStart, CleanGoes
<1>3. ASSUME NEW t \in Tasks, CleanMove(t) PROVE OneInHand'
  BY <1>3 DEF CleanMove, CleanGoes, AtPath
<1>4. ASSUME NEW t \in Tasks, CleanMoveFails(t) PROVE OneInHand'
  BY <1>4 DEF CleanMoveFails, CleanGoes
<1>5. ASSUME NEW t \in Tasks, CleanRecordFails(t) PROVE OneInHand'
  BY <1>5 DEF CleanRecordFails, CleanGoes
<1>6. ASSUME NEW t \in Tasks, CleanRecord(t) PROVE OneInHand'
  BY <1>6 DEF CleanRecord, CleanGoes
<1>7. ASSUME NEW t \in Tasks, CleanUndo(t) PROVE OneInHand'
  <2>1. PICK y \in UndoNext(t) : /\ moved' = [moved EXCEPT ![t] = @ \ {y}]
                               /\ current' = [current EXCEPT ![t] = {y}]
                               /\ Return(t, y)
    BY <1>7 DEF CleanUndo
  <2>2. y \in moved[t] /\ \A z \in moved[t] \ {y} : trashEntry[<<t, z>>] # "none"
    BY <2>1, UndoNextMoved
  <2>3. cleaner' = [cleaner EXCEPT ![t] = "undone"] /\ trashEntry' = trashEntry /\ cleaner[t] = "undoing"
    BY <1>7 DEF CleanUndo, CleanGoes
  <2>4. \A z \in Dirs, s \in Tasks : dirAt'[z] = s => dirAt[z] = s /\ z # y
    BY <2>1, <2>2 DEF Return, CanReturn
  <2> QED BY <2>1, <2>2, <2>3, <2>4
<1>8. ASSUME NEW t \in Tasks, CleanUndoMark(t) PROVE OneInHand'
  BY <1>8 DEF CleanUndoMark, Settle, CleanGoes
<1>9. ASSUME NEW t \in Tasks, CleanUndoFails(t) PROVE OneInHand'
  BY <1>9 DEF CleanUndoFails
<1>10. ASSUME NEW t \in Tasks, CleanFinish(t) \/ CleanJams(t) PROVE OneInHand'
  BY <1>10 DEF CleanFinish, CleanJams, CleanGoes
<1>11. ASSUME NEW u \in TrashCalls, RestoreCheck(u) \/ RestoreFails(u) PROVE OneInHand'
  BY <1>11 DEF RestoreCheck, RestoreFails, StagedEntries, CallGoes, CallEnds, CallAt
<1>12. ASSUME NEW u \in TrashCalls, RestoreRename(u) PROVE OneInHand'
  BY <1>12 DEF RestoreRename, Return, CanReturn, AtPath, CallGoes, CallAt
<1>13. ASSUME NEW u \in TrashCalls, RestoreMark(u) \/ PurgeMark(u) PROVE OneInHand'
  BY <1>13 DEF RestoreMark, PurgeMark, Settle, CallEnds, CallAt
<1>14. ASSUME NEW u \in TrashCalls, NEW e \in Entries, PurgeRead(u, e) PROVE OneInHand'
  BY <1>14 DEF PurgeRead, CallGoes, CallAt
<1>15. ASSUME NEW u \in TrashCalls, PurgeOpen(u) \/ PurgeUnlink(u) PROVE OneInHand'
  BY <1>15 DEF PurgeOpen, PurgeUnlink, CallGoes, CallAt
<1>16. ASSUME NEW u \in TrashCalls, PurgeRmdir(u) PROVE OneInHand'
  BY <1>16 DEF PurgeRmdir, CallGoes, CallAt
<1>17. ASSUME NEW p \in Shards, MakeShard(p) PROVE OneInHand'
  BY <1>17 DEF MakeShard, AtPath
<1>18. ASSUME NEW p \in Shards, LandBlob(p) PROVE OneInHand'
  BY <1>18 DEF LandBlob, AtPath
<1>19. CASE TrashCrash
  BY <1>19 DEF TrashCrash, CloseInterrupted, Active
<1>20. CASE UNCHANGED trashVars
  BY <1>20 DEF trashVars
<1> HIDE DEF fileVars, rowVars, cleanVars, trashHistory, TrashTypeOK, CleanerSteps, TrashBusy, TrashIdle, Entries, OnceMoved, OneInHand
<1> QED BY <1>1, <1>2, <1>3, <1>4, <1>5, <1>6, <1>7, <1>8, <1>9, <1>10, <1>11, <1>12, <1>13, <1>14, <1>15, <1>16, <1>17, <1>18, <1>19, <1>20 DEF TrashNext, CleanStep, CallStep

\* What is in the trash has a row, or a hand.
LEMMA RowOrHandStep ==
  ASSUME TrashTypeOK, OnceMoved, OneInHand, RowOrHand, CallsKnow, [TrashNext]_trashVars
  PROVE  RowOrHand'
<1> SUFFICES ASSUME NEW o \in Tasks, NEW x \in Dirs, dirAt'[x] = o PROVE HasRowOrHand(o, x)'
  BY DEF RowOrHand
<1>0. <<o, x>> \in Entries /\ <<o, x>>[1] = o /\ <<o, x>>[2] = x
  BY DEF Entries
<1> USE TrashAssumption DEF fileVars, rowVars, cleanVars, trashHistory, TrashTypeOK, OnceMoved, OneInHand, RowOrHand, HasRowOrHand, CallsKnow
<1>1. ASSUME NEW t \in Tasks, CleanList(t) PROVE HasRowOrHand(o, x)'
  BY <1>0, <1>1 DEF CleanList, CleanGoes
<1>2. ASSUME NEW t \in Tasks, CleanCreate(t) \/ CleanStart(t) PROVE HasRowOrHand(o, x)'
  BY <1>0, <1>2 DEF CleanCreate, CleanStart, CleanGoes
<1>3. ASSUME NEW t \in Tasks, CleanMove(t) PROVE HasRowOrHand(o, x)'
  BY <1>0, <1>3 DEF CleanMove, CleanGoes, AtPath
<1>4. ASSUME NEW t \in Tasks, CleanMoveFails(t) PROVE HasRowOrHand(o, x)'
  BY <1>0, <1>4 DEF CleanMoveFails, CleanGoes
<1>5. ASSUME NEW t \in Tasks, CleanRecordFails(t) PROVE HasRowOrHand(o, x)'
  BY <1>0, <1>5 DEF CleanRecordFails, CleanGoes
<1>6. ASSUME NEW t \in Tasks, CleanRecord(t) PROVE HasRowOrHand(o, x)'
  BY <1>0, <1>6 DEF CleanRecord, CleanGoes
<1>7. ASSUME NEW t \in Tasks, CleanUndo(t) PROVE HasRowOrHand(o, x)'
  <2>1. PICK y \in UndoNext(t) : /\ moved' = [moved EXCEPT ![t] = @ \ {y}]
                               /\ current' = [current EXCEPT ![t] = {y}]
                               /\ Return(t, y)
    BY <1>0, <1>7 DEF CleanUndo
  <2>2. y \in moved[t] /\ \A z \in moved[t] \ {y} : trashEntry[<<t, z>>] # "none"
    BY <2>1, UndoNextMoved
  <2>3. cleaner' = [cleaner EXCEPT ![t] = "undone"] /\ trashEntry' = trashEntry /\ cleaner[t] = "undoing"
    BY <1>0, <1>7 DEF CleanUndo, CleanGoes
  <2>4. \A z \in Dirs, s \in Tasks : dirAt'[z] = s => dirAt[z] = s /\ z # y
    BY <2>1, <2>2 DEF Return, CanReturn
  <2>5. o = t => trashEntry[<<o, x>>] = "staged" \/ x \in stray
    BY <1>0, <2>2, <2>3, <2>4
  <2> QED BY <1>0, <2>1, <2>2, <2>3, <2>4, <2>5, <1>7 DEF CleanUndo
<1>8. ASSUME NEW t \in Tasks, CleanUndoMark(t) PROVE HasRowOrHand(o, x)'
  BY <1>0, <1>8 DEF CleanUndoMark, Settle, CleanGoes
<1>9. ASSUME NEW t \in Tasks, CleanUndoFails(t) PROVE HasRowOrHand(o, x)'
  <2>1. PICK y \in UndoNext(t) : /\ moved' = [moved EXCEPT ![t] = @ \ {y}]
                               /\ stray' = IF dirAt[y] = t /\ trashEntry[<<t, y>>] = "none"
                                          THEN stray \cup {y} ELSE stray
    BY <1>0, <1>9 DEF CleanUndoFails
  <2> QED BY <2>1, <1>9 DEF CleanUndoFails
<1>10. ASSUME NEW t \in Tasks, CleanFinish(t) \/ CleanJams(t) PROVE HasRowOrHand(o, x)'
  BY <1>0, <1>10 DEF CleanFinish, CleanJams, CleanGoes
<1>11. ASSUME NEW u \in TrashCalls, RestoreCheck(u) \/ RestoreFails(u) PROVE HasRowOrHand(o, x)'
  BY <1>0, <1>11 DEF RestoreCheck, RestoreFails, StagedEntries, CallGoes, CallEnds, CallAt
<1>12. ASSUME NEW u \in TrashCalls, RestoreRename(u) PROVE HasRowOrHand(o, x)'
  BY <1>0, <1>12 DEF RestoreRename, Return, CanReturn, AtPath, CallGoes, CallAt
<1>13. ASSUME NEW u \in TrashCalls, RestoreMark(u) \/ PurgeMark(u) PROVE HasRowOrHand(o, x)'
  BY <1>0, <1>13 DEF RestoreMark, PurgeMark, Settle, CallEnds, CallAt
<1>14. ASSUME NEW u \in TrashCalls, NEW e \in Entries, PurgeRead(u, e) PROVE HasRowOrHand(o, x)'
  BY <1>0, <1>14 DEF PurgeRead, CallGoes, CallAt
<1>15. ASSUME NEW u \in TrashCalls, PurgeOpen(u) \/ PurgeUnlink(u) PROVE HasRowOrHand(o, x)'
  BY <1>0, <1>15 DEF PurgeOpen, PurgeUnlink, CallGoes, CallAt
<1>16. ASSUME NEW u \in TrashCalls, PurgeRmdir(u) PROVE HasRowOrHand(o, x)'
  BY <1>0, <1>16 DEF PurgeRmdir, CallGoes, CallAt
<1>17. ASSUME NEW p \in Shards, MakeShard(p) PROVE HasRowOrHand(o, x)'
  BY <1>0, <1>17 DEF MakeShard, AtPath
<1>18. ASSUME NEW p \in Shards, LandBlob(p) PROVE HasRowOrHand(o, x)'
  BY <1>0, <1>18 DEF LandBlob, AtPath
<1>19. CASE TrashCrash
  <2>1. dirAt' = dirAt /\ trashEntry' = trashEntry /\ HasRowOrHand(o, x)
    BY <1>0, <1>19 DEF TrashCrash
  <2>2. trashEntry[<<o, x>>] = "none" => x \in stray'
    BY <1>19, <2>1 DEF TrashCrash
  <2> QED BY <2>1, <2>2
<1>20. CASE UNCHANGED trashVars
  BY <1>0, <1>20 DEF trashVars
<1> HIDE DEF fileVars, rowVars, cleanVars, trashHistory, TrashTypeOK, OnceMoved, OneInHand, RowOrHand, HasRowOrHand, CallsKnow
<1> QED BY <1>1, <1>2, <1>3, <1>4, <1>5, <1>6, <1>7, <1>8, <1>9, <1>10, <1>11, <1>12, <1>13, <1>14, <1>15, <1>16, <1>17, <1>18, <1>19, <1>20 DEF TrashNext, CleanStep, CallStep

\* Restores and purges know what they know.
LEMMA CallsKnowStep ==
  ASSUME TrashTypeOK, OnceMoved, OneInHand, CallsKnow, [TrashNext]_trashVars
  PROVE  CallsKnow'
<1> USE TrashAssumption DEF fileVars, rowVars, cleanVars, trashHistory, TrashTypeOK, CleanerSteps, TrashBusy, TrashIdle, Entries, OnceMoved, OneInHand, CallsKnow
<1>1. ASSUME NEW t \in Tasks, CleanList(t) PROVE CallsKnow'
  BY <1>1 DEF CleanList, CleanGoes
<1>2. ASSUME NEW t \in Tasks, CleanCreate(t) \/ CleanStart(t) PROVE CallsKnow'
  BY <1>2 DEF CleanCreate, CleanStart, CleanGoes
<1>3. ASSUME NEW t \in Tasks, CleanMove(t) PROVE CallsKnow'
  BY <1>3 DEF CleanMove, CleanGoes, AtPath
<1>4. ASSUME NEW t \in Tasks, CleanMoveFails(t) PROVE CallsKnow'
  BY <1>4 DEF CleanMoveFails, CleanGoes
<1>5. ASSUME NEW t \in Tasks, CleanRecordFails(t) PROVE CallsKnow'
  BY <1>5 DEF CleanRecordFails, CleanGoes
<1>6. ASSUME NEW t \in Tasks, CleanRecord(t) PROVE CallsKnow'
  BY <1>6 DEF CleanRecord, CleanGoes
<1>7. ASSUME NEW t \in Tasks, CleanUndo(t) PROVE CallsKnow'
  BY <1>7 DEF CleanUndo, Return, CanReturn, AtPath, CleanGoes
<1>8. ASSUME NEW t \in Tasks, CleanUndoMark(t) PROVE CallsKnow'
  BY <1>8 DEF CleanUndoMark, Settle, CleanGoes
<1>9. ASSUME NEW t \in Tasks, CleanUndoFails(t) PROVE CallsKnow'
  BY <1>9 DEF CleanUndoFails
<1>10. ASSUME NEW t \in Tasks, CleanFinish(t) \/ CleanJams(t) PROVE CallsKnow'
  BY <1>10 DEF CleanFinish, CleanJams, CleanGoes
<1>11. ASSUME NEW u \in TrashCalls, RestoreCheck(u) \/ RestoreFails(u) PROVE CallsKnow'
  BY <1>11 DEF RestoreCheck, RestoreFails, StagedEntries, CallGoes, CallEnds, CallAt
<1>12. ASSUME NEW u \in TrashCalls, RestoreRename(u) PROVE CallsKnow'
  BY <1>12 DEF RestoreRename, Return, CanReturn, AtPath, CallGoes, CallAt
<1>13. ASSUME NEW u \in TrashCalls, RestoreMark(u) \/ PurgeMark(u) PROVE CallsKnow'
  <2>1. \A e \in Entries : trashEntry[e] # "none" => trashEntry'[e] # "none"
    BY <1>13 DEF RestoreMark, PurgeMark, Settle
  <2>2. dirAt' = dirAt /\ dirFull' = dirFull /\ trashCall' = [trashCall EXCEPT ![u] = TrashIdle]
    BY <1>13 DEF RestoreMark, PurgeMark, CallEnds
  <2> QED BY <2>1, <2>2
<1>14. ASSUME NEW u \in TrashCalls, NEW e \in Entries, PurgeRead(u, e) PROVE CallsKnow'
  BY <1>14 DEF PurgeRead, CallGoes, CallAt
<1>15. ASSUME NEW u \in TrashCalls, PurgeOpen(u) \/ PurgeUnlink(u) PROVE CallsKnow'
  BY <1>15 DEF PurgeOpen, PurgeUnlink, CallGoes, CallAt
<1>16. ASSUME NEW u \in TrashCalls, PurgeRmdir(u) PROVE CallsKnow'
  BY <1>16 DEF PurgeRmdir, CallGoes, CallAt
<1>17. ASSUME NEW p \in Shards, MakeShard(p) PROVE CallsKnow'
  BY <1>17 DEF MakeShard, AtPath
<1>18. ASSUME NEW p \in Shards, LandBlob(p) PROVE CallsKnow'
  BY <1>18 DEF LandBlob, AtPath
<1>19. CASE TrashCrash
  BY <1>19 DEF TrashCrash, CloseInterrupted, Active
<1>20. CASE UNCHANGED trashVars
  BY <1>20 DEF trashVars
<1> HIDE DEF fileVars, rowVars, cleanVars, trashHistory, TrashTypeOK, CleanerSteps, TrashBusy, TrashIdle, Entries, OnceMoved, OneInHand, CallsKnow
<1> QED BY <1>1, <1>2, <1>3, <1>4, <1>5, <1>6, <1>7, <1>8, <1>9, <1>10, <1>11, <1>12, <1>13, <1>14, <1>15, <1>16, <1>17, <1>18, <1>19, <1>20 DEF TrashNext, CleanStep, CallStep

\* No files are displaced.
LEMMA NeverOverwrittenStep ==
  ASSUME TrashTypeOK, CallsKnow, NeverOverwritten, [TrashNext]_trashVars
  PROVE  NeverOverwritten'
<1> USE TrashAssumption DEF fileVars, rowVars, cleanVars, trashHistory, TrashTypeOK, CleanerSteps, TrashBusy, TrashIdle, Entries, CallsKnow, NeverOverwritten
<1>1. ASSUME NEW t \in Tasks, CleanList(t) PROVE NeverOverwritten'
  BY <1>1 DEF CleanList, CleanGoes
<1>2. ASSUME NEW t \in Tasks, CleanCreate(t) \/ CleanStart(t) PROVE NeverOverwritten'
  BY <1>2 DEF CleanCreate, CleanStart, CleanGoes
<1>3. ASSUME NEW t \in Tasks, CleanMove(t) PROVE NeverOverwritten'
  BY <1>3 DEF CleanMove, CleanGoes, AtPath
<1>4. ASSUME NEW t \in Tasks, CleanMoveFails(t) PROVE NeverOverwritten'
  BY <1>4 DEF CleanMoveFails, CleanGoes
<1>5. ASSUME NEW t \in Tasks, CleanRecordFails(t) PROVE NeverOverwritten'
  BY <1>5 DEF CleanRecordFails, CleanGoes
<1>6. ASSUME NEW t \in Tasks, CleanRecord(t) PROVE NeverOverwritten'
  BY <1>6 DEF CleanRecord, CleanGoes
<1>7. ASSUME NEW t \in Tasks, CleanUndo(t) PROVE NeverOverwritten'
  BY <1>7 DEF CleanUndo, Return, CanReturn, AtPath, CleanGoes
<1>8. ASSUME NEW t \in Tasks, CleanUndoMark(t) PROVE NeverOverwritten'
  BY <1>8 DEF CleanUndoMark, Settle, CleanGoes
<1>9. ASSUME NEW t \in Tasks, CleanUndoFails(t) PROVE NeverOverwritten'
  BY <1>9 DEF CleanUndoFails
<1>10. ASSUME NEW t \in Tasks, CleanFinish(t) \/ CleanJams(t) PROVE NeverOverwritten'
  BY <1>10 DEF CleanFinish, CleanJams, CleanGoes
<1>11. ASSUME NEW u \in TrashCalls, RestoreCheck(u) \/ RestoreFails(u) PROVE NeverOverwritten'
  BY <1>11 DEF RestoreCheck, RestoreFails, StagedEntries, CallGoes, CallEnds, CallAt
<1>12. ASSUME NEW u \in TrashCalls, RestoreRename(u) PROVE NeverOverwritten'
  BY <1>12 DEF RestoreRename, Return, CanReturn, AtPath, CallGoes, CallAt
<1>13. ASSUME NEW u \in TrashCalls, RestoreMark(u) \/ PurgeMark(u) PROVE NeverOverwritten'
  BY <1>13 DEF RestoreMark, PurgeMark, Settle, CallEnds, CallAt
<1>14. ASSUME NEW u \in TrashCalls, NEW e \in Entries, PurgeRead(u, e) PROVE NeverOverwritten'
  BY <1>14 DEF PurgeRead, CallGoes, CallAt
<1>15. ASSUME NEW u \in TrashCalls, PurgeOpen(u) \/ PurgeUnlink(u) PROVE NeverOverwritten'
  BY <1>15 DEF PurgeOpen, PurgeUnlink, CallGoes, CallAt
<1>16. ASSUME NEW u \in TrashCalls, PurgeRmdir(u) PROVE NeverOverwritten'
  BY <1>16 DEF PurgeRmdir, CallGoes, CallAt
<1>17. ASSUME NEW p \in Shards, MakeShard(p) PROVE NeverOverwritten'
  BY <1>17 DEF MakeShard, AtPath
<1>18. ASSUME NEW p \in Shards, LandBlob(p) PROVE NeverOverwritten'
  BY <1>18 DEF LandBlob, AtPath
<1>19. CASE TrashCrash
  BY <1>19 DEF TrashCrash, CloseInterrupted, Active
<1>20. CASE UNCHANGED trashVars
  BY <1>20 DEF trashVars
<1> HIDE DEF fileVars, rowVars, cleanVars, trashHistory, TrashTypeOK, CleanerSteps, TrashBusy, TrashIdle, Entries, CallsKnow, NeverOverwritten
<1> QED BY <1>1, <1>2, <1>3, <1>4, <1>5, <1>6, <1>7, <1>8, <1>9, <1>10, <1>11, <1>12, <1>13, <1>14, <1>15, <1>16, <1>17, <1>18, <1>19, <1>20 DEF TrashNext, CleanStep, CallStep

\* The guard is held by one that gives it back.
LEMMA GuardHeldStep ==
  ASSUME TrashTypeOK, OnceMoved, GuardHeld, [TrashNext]_trashVars
  PROVE  GuardHeld'
<1> USE TrashAssumption DEF fileVars, rowVars, cleanVars, trashHistory, TrashTypeOK, CleanerSteps, TrashBusy, TrashIdle, Entries, OnceMoved, GuardHeld, Active
<1>1. ASSUME NEW t \in Tasks, CleanList(t) PROVE GuardHeld'
  BY <1>1 DEF CleanList, CleanGoes
<1>2. ASSUME NEW t \in Tasks, CleanCreate(t) \/ CleanStart(t) PROVE GuardHeld'
  BY <1>2 DEF CleanCreate, CleanStart, CleanGoes
<1>3. ASSUME NEW t \in Tasks, CleanMove(t) PROVE GuardHeld'
  BY <1>3 DEF CleanMove, CleanGoes, AtPath
<1>4. ASSUME NEW t \in Tasks, CleanMoveFails(t) PROVE GuardHeld'
  BY <1>4 DEF CleanMoveFails, CleanGoes
<1>5. ASSUME NEW t \in Tasks, CleanRecordFails(t) PROVE GuardHeld'
  BY <1>5 DEF CleanRecordFails, CleanGoes
<1>6. ASSUME NEW t \in Tasks, CleanRecord(t) PROVE GuardHeld'
  BY <1>6 DEF CleanRecord, CleanGoes
<1>7. ASSUME NEW t \in Tasks, CleanUndo(t) PROVE GuardHeld'
  BY <1>7 DEF CleanUndo, Return, CanReturn, AtPath, CleanGoes
<1>8. ASSUME NEW t \in Tasks, CleanUndoMark(t) PROVE GuardHeld'
  BY <1>8 DEF CleanUndoMark, Settle, CleanGoes
<1>9. ASSUME NEW t \in Tasks, CleanUndoFails(t) PROVE GuardHeld'
  BY <1>9 DEF CleanUndoFails
<1>10. ASSUME NEW t \in Tasks, CleanFinish(t) \/ CleanJams(t) PROVE GuardHeld'
  BY <1>10 DEF CleanFinish, CleanJams, CleanGoes
<1>11. ASSUME NEW u \in TrashCalls, RestoreCheck(u) \/ RestoreFails(u) PROVE GuardHeld'
  BY <1>11 DEF RestoreCheck, RestoreFails, StagedEntries, CallGoes, CallEnds, CallAt
<1>12. ASSUME NEW u \in TrashCalls, RestoreRename(u) PROVE GuardHeld'
  BY <1>12 DEF RestoreRename, Return, CanReturn, AtPath, CallGoes, CallAt
<1>13. ASSUME NEW u \in TrashCalls, RestoreMark(u) \/ PurgeMark(u) PROVE GuardHeld'
  BY <1>13 DEF RestoreMark, PurgeMark, Settle, CallEnds, CallAt
<1>14. ASSUME NEW u \in TrashCalls, NEW e \in Entries, PurgeRead(u, e) PROVE GuardHeld'
  BY <1>14 DEF PurgeRead, CallGoes, CallAt
<1>15. ASSUME NEW u \in TrashCalls, PurgeOpen(u) \/ PurgeUnlink(u) PROVE GuardHeld'
  BY <1>15 DEF PurgeOpen, PurgeUnlink, CallGoes, CallAt
<1>16. ASSUME NEW u \in TrashCalls, PurgeRmdir(u) PROVE GuardHeld'
  BY <1>16 DEF PurgeRmdir, CallGoes, CallAt
<1>17. ASSUME NEW p \in Shards, MakeShard(p) PROVE GuardHeld'
  BY <1>17 DEF MakeShard, AtPath
<1>18. ASSUME NEW p \in Shards, LandBlob(p) PROVE GuardHeld'
  BY <1>18 DEF LandBlob, AtPath
<1>19. CASE TrashCrash
  BY <1>19 DEF TrashCrash, CloseInterrupted, Active
<1>20. CASE UNCHANGED trashVars
  BY <1>20 DEF trashVars
<1> HIDE DEF fileVars, rowVars, cleanVars, trashHistory, TrashTypeOK, CleanerSteps, TrashBusy, TrashIdle, Entries, OnceMoved, GuardHeld, Active
<1> QED BY <1>1, <1>2, <1>3, <1>4, <1>5, <1>6, <1>7, <1>8, <1>9, <1>10, <1>11, <1>12, <1>13, <1>14, <1>15, <1>16, <1>17, <1>18, <1>19, <1>20 DEF TrashNext, CleanStep, CallStep

\* The invariant holds at the start.
LEMMA TrashTrueAtFirst == TrashInit => TrashTrue
<1> SUFFICES ASSUME TrashInit PROVE TrashTrue
  OBVIOUS
<1> USE TrashAssumption DEF TrashInit
<1>1. TrashTypeOK
  BY DEF TrashTypeOK, CleanerSteps, Dirs, TrashIdle
<1>2. OnceMoved
  BY DEF OnceMoved, Dirs, PathOf, Entries
<1>3. OneInHand /\ RowOrHand
  BY DEF OneInHand, RowOrHand, Dirs
<1>4. CallsKnow
  BY DEF CallsKnow, TrashIdle
<1>5. NeverOverwritten
  BY DEF NeverOverwritten, Dirs
<1>6. GuardHeld
  BY DEF GuardHeld, Active
<1> QED BY <1>1, <1>2, <1>3, <1>4, <1>5, <1>6 DEF TrashTrue

\* The invariant gives what is promised of the trash.
LEMMA TrashTrueIsEnough == TrashTrue => TrashSound
<1> SUFFICES ASSUME TrashTrue PROVE TrashListed
  BY DEF TrashTrue, TrashSound
<1>1. SUFFICES ASSUME NEW t \in Tasks, NEW x \in Dirs, dirAt[x] = t, trashEntry[<<t, x>>] # "staged"
               PROVE  trashEntry[<<t, x>>] = "none" /\ (InHand(t, x) \/ x \in stray)
  BY DEF TrashListed, Entries
<1> QED BY <1>1 DEF TrashTrue, RowOrHand, HasRowOrHand, InHand, UndoNext

\* TrashTrue holds in every state of TrashSpec.
LEMMA TrashStaysTrue == TrashSpec => []TrashTrue
<1>1. TrashTrue /\ [TrashNext]_trashVars => TrashTrue'
  BY TrashTypesStep, OnceMovedStep, OneInHandStep, RowOrHandStep, CallsKnowStep,
     NeverOverwrittenStep, GuardHeldStep DEF TrashTrue
<1> QED BY <1>1, TrashTrueAtFirst, PTL DEF TrashSpec

\* What is in the trash can be listed, no way back overwrites files, and the
\* guard of the cleanups is given back.
THEOREM TrashAlwaysSound == TrashSpec => []TrashSound
<1> QED BY TrashStaysTrue, TrashTrueIsEnough, PTL

-----------------------------------------------------------------------------
(***************************************************************************)
(* MigrationTasks.                                                         *)
(* For any tasks, items, targets, admins and restarts: a completed task    *)
(* has brought what it wanted, a checkpoint names only what was brought,   *)
(* and no rollback takes a repository along that was there before.         *)
(***************************************************************************)

\* What is in a target, or was until a rollback: items only come to it.
Brought == Present \cup rolledBack

\* A run deletes no repository that was there before, has finished and knows
\* only items that were brought, and has finished all that is not left.
RunKnown(t) ==
  /\ run[t].created \cap Prior = {}
  /\ run[t].finished \subseteq Brought /\ run[t].known \subseteq Brought
  /\ run[t].step \in {"copying", "writing"} => Wanted[t] \subseteq run[t].left \cup run[t].finished

MigrationTrue == MigrationTypeOK /\ (\A t \in Migrations : RunKnown(t)) /\ MigrationSound

\* What a task has that does not run.
LEMMA NoRunIsARun == NoRun \in MigrationRuns /\ NoRun.step = "none" /\ NoRun.created = {}
                     /\ NoRun.finished = {} /\ NoRun.known = {}
BY DEF NoRun, MigrationRuns, RunSteps

\* The invariant holds before any task has been started.
LEMMA MigrationsBegin == MigrationInit => MigrationTrue
<1> SUFFICES ASSUME MigrationInit PROVE MigrationTrue
  OBVIOUS
<1> USE MigrationAssumption, NoRunIsARun DEF MigrationInit
<1>1. MigrationTypeOK
  <2>1. status \in [Migrations -> Statuses] /\ policy \in [Migrations -> AllPolicies]
    BY DEF Statuses
  <2>2. artifact \in [Items -> ItemStates] /\ targets \subseteq Targets
        /\ checkpoint \in [Migrations -> SUBSET Items]
    BY DEF ItemStates
  <2>3. run \in [Migrations -> MigrationRuns] /\ spawned \in [Migrations -> Nat]
    OBVIOUS
  <2>4. resumes \in 0 .. MaxResumes /\ migrationCrashes \in 0 .. MigrationCrashes /\ rolledBack \subseteq Items
    OBVIOUS
  <2> QED BY <2>1, <2>2, <2>3, <2>4 DEF MigrationTypeOK
<1>2. \A t \in Migrations : RunKnown(t) BY DEF RunKnown
<1>3. MigrationSound BY DEF MigrationSound, CompletedWhole, CheckpointTrue, PriorReposKept
<1> QED BY <1>1, <1>2, <1>3 DEF MigrationTrue

\* A run goes on, with what it has finished and what it saves brought by then.
LEMMA RunMoves ==
  ASSUME MigrationTrue, NEW t \in Migrations, NEW call \in MigrationRuns, run' = [run EXCEPT ![t] = call],
         NEW saved \in SUBSET Items, saved \subseteq Brought',
         checkpoint' = checkpoint \/ checkpoint' = [checkpoint EXCEPT ![t] = saved],
         Brought \subseteq Brought', call.created \cap Prior = {},
         call.finished \subseteq Brought', call.known \subseteq Brought',
         call.step \in {"copying", "writing"} => Wanted[t] \subseteq call.left \cup call.finished,
         Prior \subseteq targets', targets' \subseteq Targets,
         artifact' \in [Items -> ItemStates], rolledBack' \subseteq Items,
         status' \in [Migrations -> Statuses],
         \A u \in Migrations : status'[u] = "completed" => status[u] = "completed" \/ Wanted[u] \subseteq Brought',
         spawned' \in [Migrations -> Nat], UNCHANGED <<policy, admin, resumes, migrationCrashes>>
  PROVE  MigrationTrue'
<1>0. MigrationTypeOK /\ CompletedWhole /\ CheckpointTrue
      /\ \A u \in Migrations : RunKnown(u)
  BY DEF MigrationTrue, MigrationSound
<1>1. /\ run' \in [Migrations -> MigrationRuns] /\ run'[t] = call
      /\ \A u \in Migrations : u # t => run'[u] = run[u]
  BY <1>0 DEF MigrationTypeOK
<1>2. \A u \in Migrations : RunKnown(u)' BY <1>0, <1>1 DEF RunKnown
<1>3. checkpoint' \in [Migrations -> SUBSET Items]
      /\ \A u \in Migrations : checkpoint'[u] = checkpoint[u] \/ checkpoint'[u] = saved
  BY <1>0 DEF MigrationTypeOK
<1>4. CheckpointTrue' BY <1>0, <1>3 DEF CheckpointTrue, Brought
<1>5. CompletedWhole' BY <1>0 DEF CompletedWhole, Brought
<1>6. MigrationTypeOK' BY <1>0, <1>1, <1>3 DEF MigrationTypeOK
<1> QED BY <1>2, <1>4, <1>5, <1>6 DEF MigrationTrue, MigrationSound, PriorReposKept

\* A run goes on and leaves repositories, items and tasks alone.
LEMMA RunMovesAlone ==
  ASSUME MigrationTrue, NEW t \in Migrations, NEW call \in MigrationRuns, run' = [run EXCEPT ![t] = call],
         NEW saved \in SUBSET Items, saved \subseteq Brought,
         checkpoint' = checkpoint \/ checkpoint' = [checkpoint EXCEPT ![t] = saved],
         call.created \cap Prior = {},
         call.finished \subseteq Brought, call.known \subseteq Brought,
         call.step \in {"copying", "writing"} => Wanted[t] \subseteq call.left \cup call.finished,
         UNCHANGED <<status, policy, targets, artifact, spawned, admin, resumes,
                     migrationCrashes, rolledBack>>
  PROVE  MigrationTrue'
<1>1. Brought' = Brought BY DEF Brought, Present
<1>2. /\ Prior \subseteq targets' /\ targets' \subseteq Targets
      /\ artifact' \in [Items -> ItemStates] /\ rolledBack' \subseteq Items
      /\ status' \in [Migrations -> Statuses] /\ spawned' \in [Migrations -> Nat]
  BY DEF MigrationTrue, MigrationTypeOK, MigrationSound, PriorReposKept
<1>3. /\ saved \subseteq Brought' /\ Brought \subseteq Brought'
      /\ call.finished \subseteq Brought' /\ call.known \subseteq Brought'
      /\ \A u \in Migrations : status'[u] = "completed" => status[u] = "completed" \/ Wanted[u] \subseteq Brought'
  BY <1>1
<1> QED BY <1>2, <1>3, RunMoves

\* What requests do concerns no item.
LEMMA RequestsKeep ==
  ASSUME MigrationTrue,
         \/ \E a \in Admins, t \in Migrations :
              StartReads(a, t) \/ ResumeReads(a, t) \/ CancelReads(a, t)
         \/ \E a \in Admins :
              RunningSet(a) \/ CancelPlanned(a) \/ CancelSignals(a) \/ CancelForces(a)
  PROVE  MigrationTrue'
<1> USE MigrationAssumption
<1>0. MigrationTypeOK /\ MigrationSound /\ \A u \in Migrations : RunKnown(u) BY DEF MigrationTrue
<1>1. ASSUME status' \in [Migrations -> Statuses], spawned' \in [Migrations -> Nat],
             admin' \in [Admins -> [op : {"begin", "stop", "stopPlanned", "force"}, on : Migrations]
                                     \cup {AdminIdle}],
             resumes' \in 0 .. MaxResumes,
             \A u \in Migrations : status'[u] = "completed" => status[u] = "completed",
             run' \in [Migrations -> MigrationRuns],
             \A u \in Migrations : run'[u] = run[u] \/ run'[u] = [run[u] EXCEPT !.stop = TRUE],
             UNCHANGED <<policy, checkpoint, targets, artifact, migrationCrashes, rolledBack>>
      PROVE  MigrationTrue'
  <2>1. MigrationTypeOK' BY <1>0, <1>1 DEF MigrationTypeOK
  <2>2. MigrationSound'
    BY <1>0, <1>1 DEF MigrationSound, CompletedWhole, CheckpointTrue, PriorReposKept, Present
  <2>3. ASSUME NEW u \in Migrations PROVE RunKnown(u)'
    <3>1. run[u] \in MigrationRuns BY <1>0 DEF MigrationTypeOK
    <3>2. /\ run'[u].created = run[u].created /\ run'[u].finished = run[u].finished
          /\ run'[u].known = run[u].known /\ run'[u].step = run[u].step /\ run'[u].left = run[u].left
      BY <1>1, <3>1 DEF MigrationRuns
    <3> QED BY <1>0, <1>1, <3>2 DEF RunKnown, Brought, Present
  <2> QED BY <2>1, <2>2, <2>3 DEF MigrationTrue
<1>2. ASSUME NEW a \in Admins, NEW t \in Migrations,
             StartReads(a, t) \/ ResumeReads(a, t) \/ CancelReads(a, t)
      PROVE  MigrationTrue'
  <2>1. PICK op \in {"begin", "stop", "stopPlanned"} : admin' = [admin EXCEPT ![a] = [op |-> op, on |-> t]]
    BY <1>2 DEF StartReads, ResumeReads, CancelReads, AdminGoes
  <2>2. admin' \in [Admins -> [op : {"begin", "stop", "stopPlanned", "force"}, on : Migrations]
                                 \cup {AdminIdle}]
    BY <1>0, <2>1 DEF MigrationTypeOK
  <2>3. resumes' \in 0 .. MaxResumes
    BY <1>0, <1>2 DEF MigrationTypeOK, StartReads, ResumeReads, CancelReads
  <2>4. UNCHANGED <<status, policy, checkpoint, targets, artifact, run, spawned, migrationCrashes, rolledBack>>
    BY <1>2 DEF StartReads, ResumeReads, CancelReads
  <2>5. /\ status' \in [Migrations -> Statuses] /\ spawned' \in [Migrations -> Nat]
        /\ run' \in [Migrations -> MigrationRuns]
    BY <1>0, <2>4 DEF MigrationTypeOK
  <2> QED BY <1>1, <2>2, <2>3, <2>4, <2>5
<1>3. ASSUME NEW a \in Admins, RunningSet(a) \/ CancelPlanned(a) \/ CancelSignals(a) \/ CancelForces(a)
      PROVE  MigrationTrue'
  <2> DEFINE t == admin[a].on
  <2>1. t \in Migrations
    BY <1>0, <1>3 DEF RunningSet, CancelPlanned, CancelSignals, CancelForces, MigrationTypeOK, AdminIdle
  <2>2. admin' \in [Admins -> [op : {"begin", "stop", "stopPlanned", "force"}, on : Migrations]
                                 \cup {AdminIdle}]
    BY <1>0, <1>3, <2>1
       DEF RunningSet, CancelPlanned, CancelSignals, CancelForces, AdminAnswers, AdminGoes, MigrationTypeOK
  <2>3. UNCHANGED <<policy, checkpoint, targets, artifact, resumes, migrationCrashes, rolledBack>>
    BY <1>3 DEF RunningSet, CancelPlanned, CancelSignals, CancelForces
  <2>4. status' \in [Migrations -> Statuses]
        /\ \A u \in Migrations : status'[u] = "completed" => status[u] = "completed"
    BY <1>0, <1>3, <2>1
       DEF RunningSet, CancelPlanned, CancelSignals, CancelForces, StatusGoes, MigrationTypeOK, Statuses
  <2>5. spawned' \in [Migrations -> Nat]
    BY <1>0, <1>3, <2>1
       DEF RunningSet, CancelPlanned, CancelSignals, CancelForces, MigrationTypeOK
  <2>6. /\ run' \in [Migrations -> MigrationRuns]
        /\ \A u \in Migrations : run'[u] = run[u] \/ run'[u] = [run[u] EXCEPT !.stop = TRUE]
    <3>1. run' = run \/ run' = [run EXCEPT ![t] = [run[t] EXCEPT !.stop = TRUE]]
      BY <1>3 DEF RunningSet, CancelPlanned, CancelSignals, CancelForces
    <3>2. run[t] \in MigrationRuns BY <1>0, <2>1 DEF MigrationTypeOK
    <3>3. [run[t] EXCEPT !.stop = TRUE] \in MigrationRuns BY <3>2 DEF MigrationRuns
    <3> QED BY <1>0, <2>1, <3>1, <3>3 DEF MigrationTypeOK
  <2>7. resumes' \in 0 .. MaxResumes BY <1>0, <2>3 DEF MigrationTypeOK
  <2> QED BY <1>1, <2>2, <2>3, <2>4, <2>5, <2>6, <2>7
<1> QED BY <1>2, <1>3

\* A run begins and ends.
LEMMA RunTurnsKeep ==
  ASSUME MigrationTrue, NEW t \in Migrations,
         RunRegisters(t) \/ RunLoads(t) \/ RunLeaves(t) \/ FinalizeEnds(t)
  PROVE  MigrationTrue'
<1> USE MigrationAssumption, NoRunIsARun
<1>0. MigrationTypeOK /\ MigrationSound /\ RunKnown(t) /\ run[t] \in MigrationRuns
  BY DEF MigrationTrue, MigrationTypeOK
<1>1. UNCHANGED <<status, policy, checkpoint, targets, artifact, spawned, admin, resumes,
                  migrationCrashes, rolledBack>>
  BY DEF RunRegisters, RunLoads, RunLeaves, FinalizeEnds
<1>2. checkpoint[t] \in SUBSET Items /\ checkpoint[t] \subseteq Brought
  BY <1>0 DEF MigrationTypeOK, MigrationSound, CheckpointTrue, Brought
<1>3. ASSUME NEW call \in MigrationRuns, run' = [run EXCEPT ![t] = call], call.created \cap Prior = {},
             call.finished \subseteq Brought, call.known \subseteq Brought,
             call.step \notin {"copying", "writing"}
      PROVE  MigrationTrue'
  BY <1>1, <1>2, <1>3, RunMovesAlone
<1>4. CASE RunGone(t) BY <1>3, <1>4 DEF RunGone
<1>5. CASE RunRegisters(t)
  <2> DEFINE call == [run[t] EXCEPT !.step = "registered"]
  <2>1. run' = [run EXCEPT ![t] = call] BY <1>5 DEF RunRegisters
  <2>2. /\ call \in MigrationRuns /\ call.step = "registered" /\ call.created = run[t].created
        /\ call.finished = run[t].finished /\ call.known = run[t].known
    BY <1>0 DEF MigrationRuns, RunSteps
  <2> HIDE DEF call
  <2> QED BY <1>0, <1>3, <2>1, <2>2 DEF RunKnown
<1>6. CASE RunLoads(t) /\ ~RunGone(t)
  <2> DEFINE call == [run[t] EXCEPT !.step = "creating", !.finished = checkpoint[t],
                                    !.created = PlannedRepos(t) \ targets]
  <2>1. run' = [run EXCEPT ![t] = call] BY <1>6 DEF RunLoads
  <2>2. PlannedRepos(t) \subseteq Targets BY DEF PlannedRepos
  <2>3. /\ call \in MigrationRuns /\ call.step = "creating" /\ call.created = PlannedRepos(t) \ targets
        /\ call.finished = checkpoint[t] /\ call.known = run[t].known
    BY <1>0, <1>2, <2>2 DEF MigrationRuns, RunSteps
  <2> HIDE DEF call
  <2>4. call.created \cap Prior = {} BY <1>0, <2>3 DEF MigrationSound, PriorReposKept
  <2> QED BY <1>0, <1>2, <1>3, <2>1, <2>3, <2>4 DEF RunKnown
<1> QED BY <1>4, <1>5, <1>6 DEF RunLeaves, FinalizeEnds, RunLoads

\* A run looks at an item, passes it over, or gives up.
LEMMA RunLooksKeep ==
  ASSUME MigrationTrue, NEW t \in Migrations,
         \/ RunStops(t) \/ RunWriteFails(t)
         \/ \E i \in Items : RunReadsPaths(t, i) \/ RunSkips(t, i) \/ RunConflicts(t, i) \/ RunDecides(t, i)
  PROVE  MigrationTrue'
<1> USE MigrationAssumption
<1>0. MigrationTypeOK /\ RunKnown(t) /\ run[t] \in MigrationRuns BY DEF MigrationTrue, MigrationTypeOK
<1>1. /\ UNCHANGED <<status, policy, targets, artifact, spawned, admin, resumes, migrationCrashes, rolledBack>>
      /\ run[t].step \in {"copying", "writing"}
  BY DEF RunStops, RunWriteFails, RunReadsPaths, RunSkips, RunConflicts, RunDecides
<1>2. /\ run[t].finished \in SUBSET Items /\ run[t].finished \subseteq Brought
      /\ run[t].known \subseteq Brought /\ run[t].created \cap Prior = {}
      /\ Wanted[t] \subseteq run[t].left \cup run[t].finished
  BY <1>0, <1>1 DEF RunKnown, MigrationRuns
<1>3. ASSUME RunStops(t) \/ RunWriteFails(t) \/ \E i \in Items : RunConflicts(t, i)
      PROVE  MigrationTrue'
  <2> DEFINE call(s) == [run[t] EXCEPT !.step = s]
             call2(s) == [run[t] EXCEPT !.step = s, !.now = {}]
  <2>1. PICK s \in {"cancelled", "rolling"} : run' = [run EXCEPT ![t] = call(s)] \/ run' = [run EXCEPT ![t] = call2(s)]
    BY <1>3 DEF RunStops, RunWriteFails, RunConflicts
  <2>2. PICK c \in {call(s), call2(s)} : run' = [run EXCEPT ![t] = c] BY <2>1
  <2>3. /\ c \in MigrationRuns /\ c.step = s /\ c.created = run[t].created
        /\ c.finished = run[t].finished /\ c.known = run[t].known
    BY <1>0, <2>2 DEF MigrationRuns, RunSteps
  <2>4. checkpoint' = [checkpoint EXCEPT ![t] = run[t].finished]
    BY <1>3 DEF RunStops, RunWriteFails, RunConflicts
  <2>5. c.step \notin {"copying", "writing"} BY <2>3
  <2> HIDE DEF call, call2
  <2> QED BY <1>1, <1>2, <2>2, <2>3, <2>4, <2>5, RunMovesAlone
<1>4. ASSUME NEW i \in Items, RunReadsPaths(t, i) PROVE MigrationTrue'
  <2> DEFINE met == {k \in Present : RepoOf[k] = RepoOf[i]}
             call == [run[t] EXCEPT !.loaded = run[t].loaded \cup {RepoOf[i]},
                                    !.known = run[t].known \cup met]
  <2>1. run' = [run EXCEPT ![t] = call] /\ UNCHANGED checkpoint BY <1>4 DEF RunReadsPaths
  <2>2. met \subseteq Brought /\ met \subseteq Items BY DEF Brought, Present
  <2> HIDE DEF met
  <2>3. RepoOf[i] \in Targets OBVIOUS
  <2>4. /\ call \in MigrationRuns /\ call.step = run[t].step /\ call.created = run[t].created
        /\ call.finished = run[t].finished /\ call.known = run[t].known \cup met /\ call.left = run[t].left
    BY <1>0, <2>2, <2>3 DEF MigrationRuns
  <2> HIDE DEF call
  <2>5. call.known \subseteq Brought BY <1>2, <2>2, <2>4
  <2> QED BY <1>1, <1>2, <2>1, <2>4, <2>5, RunMovesAlone
<1>5. ASSUME NEW i \in Items, RunSkips(t, i) PROVE MigrationTrue'
  <2> DEFINE saved == run[t].finished \cup {i}
             call == [run[t] EXCEPT !.left = run[t].left \ {i}, !.finished = saved]
  <2>1. run' = [run EXCEPT ![t] = call] BY <1>5 DEF RunSkips
  <2>2. i \in Brought BY <1>2, <1>5 DEF RunSkips
  <2>3. checkpoint' = checkpoint \/ checkpoint' = [checkpoint EXCEPT ![t] = saved]
    BY <1>5 DEF RunSkips, Saved
  <2>4. saved \in SUBSET Items /\ saved \subseteq Brought BY <1>2, <2>2
  <2>5. /\ call \in MigrationRuns /\ call.step = run[t].step /\ call.created = run[t].created
        /\ call.finished = saved /\ call.known = run[t].known /\ call.left = run[t].left \ {i}
    BY <1>0, <2>4 DEF MigrationRuns
  <2>6. Wanted[t] \subseteq call.left \cup call.finished BY <1>2, <2>5
  <2> HIDE DEF call, saved
  <2> QED BY <1>1, <1>2, <2>1, <2>3, <2>4, <2>5, <2>6, RunMovesAlone
<1>6. ASSUME NEW i \in Items, RunDecides(t, i) PROVE MigrationTrue'
  <2> DEFINE call == [run[t] EXCEPT !.step = "writing", !.now = {i}]
  <2>1. run' = [run EXCEPT ![t] = call] /\ UNCHANGED checkpoint BY <1>6 DEF RunDecides
  <2>2. /\ call \in MigrationRuns /\ call.step = "writing" /\ call.created = run[t].created
        /\ call.finished = run[t].finished /\ call.known = run[t].known /\ call.left = run[t].left
    BY <1>0 DEF MigrationRuns, RunSteps
  <2> HIDE DEF call
  <2> QED BY <1>1, <1>2, <2>1, <2>2, RunMovesAlone
<1> QED BY <1>3, <1>4, <1>5, <1>6

\* Repositories come, and those that a run deletes are its own.
LEMMA ReposKeep ==
  ASSUME MigrationTrue, NEW t \in Migrations,
         \/ RunCreates(t) \/ RunCreateFails(t) \/ FinalizeBegins(t)
         \/ \E r \in Targets : RunRollsBack(t, r)
  PROVE  MigrationTrue'
<1> USE MigrationAssumption
<1>0. /\ MigrationTypeOK /\ RunKnown(t) /\ run[t] \in MigrationRuns /\ Prior \subseteq targets
      /\ PlannedRepos(t) \subseteq Targets
  BY DEF MigrationTrue, MigrationTypeOK, MigrationSound, PriorReposKept, PlannedRepos
<1>1. /\ UNCHANGED <<status, policy, checkpoint, spawned, admin, resumes, migrationCrashes>>
      /\ status' \in [Migrations -> Statuses] /\ spawned' \in [Migrations -> Nat]
  BY <1>0 DEF RunCreates, RunCreateFails, FinalizeBegins, RunRollsBack, MigrationTypeOK
<1>2. {} \in SUBSET Items /\ {} \subseteq Brought' OBVIOUS
<1>3. CASE RunCreates(t) \/ RunCreateFails(t) \/ FinalizeBegins(t)
  <2>1. /\ UNCHANGED <<artifact, rolledBack>> /\ Prior \subseteq targets' /\ targets' \subseteq Targets
        /\ artifact' \in [Items -> ItemStates] /\ rolledBack' \subseteq Items
    BY <1>0, <1>3 DEF RunCreates, RunCreateFails, FinalizeBegins, MigrationTypeOK
  <2>2. Brought' = Brought BY <2>1 DEF Brought, Present
  <2>3. ASSUME NEW call \in MigrationRuns, run' = [run EXCEPT ![t] = call], call.created = run[t].created,
               call.finished = run[t].finished, call.known = run[t].known,
               call.step \in {"copying", "writing"} => call.left = Wanted[t]
        PROVE  MigrationTrue'
    <3>1. /\ call.created \cap Prior = {} /\ call.finished \subseteq Brought' /\ call.known \subseteq Brought'
          /\ call.step \in {"copying", "writing"} => Wanted[t] \subseteq call.left \cup call.finished
      BY <1>0, <2>2, <2>3 DEF RunKnown
    <3>2. Brought \subseteq Brought'
          /\ \A u \in Migrations : status'[u] = "completed" => status[u] = "completed" \/ Wanted[u] \subseteq Brought'
      BY <1>1, <2>2
    <3> QED BY <1>1, <1>2, <2>1, <2>3, <3>1, <3>2, RunMoves
  <2>4. CASE RunCreates(t) \/ FinalizeBegins(t)
    <3> DEFINE call(s) == [run[t] EXCEPT !.step = s, !.left = Wanted[t]]
    <3>1. PICK s \in {"copying", "finalizing"} : run' = [run EXCEPT ![t] = call(s)]
      BY <2>4 DEF RunCreates, FinalizeBegins
    <3>2. /\ call(s) \in MigrationRuns /\ call(s).created = run[t].created /\ call(s).finished = run[t].finished
          /\ call(s).known = run[t].known /\ call(s).left = Wanted[t]
      BY <1>0 DEF MigrationRuns, RunSteps
    <3> HIDE DEF call
    <3> QED BY <2>3, <3>1, <3>2
  <2>5. CASE RunCreateFails(t)
    <3> DEFINE call == [run[t] EXCEPT !.step = "rolling"]
    <3>1. run' = [run EXCEPT ![t] = call] BY <2>5 DEF RunCreateFails
    <3>2. /\ call \in MigrationRuns /\ call.created = run[t].created /\ call.finished = run[t].finished
          /\ call.known = run[t].known /\ call.step = "rolling"
      BY <1>0 DEF MigrationRuns, RunSteps
    <3> HIDE DEF call
    <3> QED BY <2>3, <3>1, <3>2
  <2> QED BY <1>3, <2>4, <2>5
<1>4. ASSUME NEW r \in Targets, RunRollsBack(t, r) PROVE MigrationTrue'
  <2> DEFINE call == [run[t] EXCEPT !.created = run[t].created \ {r}]
  <2>1. /\ run[t].step = "rolling" /\ r \in run[t].created /\ targets' = targets \ {r}
        /\ artifact' = [i \in Items |-> IF RepoOf[i] = r THEN "absent" ELSE artifact[i]]
        /\ rolledBack' = rolledBack \cup {i \in Present : RepoOf[i] = r}
        /\ run' = [run EXCEPT ![t] = call]
    BY <1>4 DEF RunRollsBack
  <2>2. /\ call \in MigrationRuns /\ call.created = run[t].created \ {r} /\ call.finished = run[t].finished
        /\ call.known = run[t].known /\ call.step = "rolling"
    BY <1>0, <2>1 DEF MigrationRuns
  <2> HIDE DEF call
  <2>3. artifact' \in [Items -> ItemStates] /\ rolledBack' \subseteq Items
    BY <1>0, <2>1 DEF MigrationTypeOK, ItemStates, Present
  <2>4. Brought \subseteq Brought' BY <2>1 DEF Brought, Present
  <2>5. Prior \subseteq targets' /\ targets' \subseteq Targets
    BY <1>0, <2>1 DEF RunKnown, MigrationTypeOK
  <2>6. /\ call.created \cap Prior = {} /\ call.finished \subseteq Brought' /\ call.known \subseteq Brought'
        /\ call.step \notin {"copying", "writing"}
    BY <1>0, <2>2, <2>4 DEF RunKnown
  <2>7. \A u \in Migrations : status'[u] = "completed" => status[u] = "completed" \/ Wanted[u] \subseteq Brought'
    BY <1>1
  <2> QED BY <1>1, <1>2, <2>1, <2>2, <2>3, <2>4, <2>5, <2>6, <2>7, RunMoves
<1> QED BY <1>3, <1>4

\* A run gets its lock, and says how it ended; completed means that nothing of
\* what it wanted is left.
LEMMA StatusesKeep ==
  ASSUME MigrationTrue, NEW t \in Migrations,
         RunLocks(t) \/ RunFails(t) \/ RunCancelled(t) \/ RunCompletes(t)
  PROVE  MigrationTrue'
<1> USE MigrationAssumption, NoRunIsARun
<1>0. /\ MigrationTypeOK /\ RunKnown(t) /\ run[t] \in MigrationRuns /\ Prior \subseteq targets
  BY DEF MigrationTrue, MigrationTypeOK, MigrationSound, PriorReposKept
<1>1. /\ UNCHANGED <<policy, targets, artifact, admin, resumes, migrationCrashes, rolledBack>>
      /\ Prior \subseteq targets' /\ targets' \subseteq Targets
      /\ artifact' \in [Items -> ItemStates] /\ rolledBack' \subseteq Items
  BY <1>0 DEF RunLocks, RunFails, RunCancelled, RunCompletes, MigrationTypeOK
<1>2. Brought' = Brought BY <1>1 DEF Brought, Present
<1>3. ASSUME NEW call \in MigrationRuns, run' = [run EXCEPT ![t] = call], call.created = run[t].created,
             call.finished = run[t].finished, call.known = run[t].known,
             call.step \notin {"copying", "writing"} \/ call = run[t],
             NEW saved \in SUBSET Items, saved \subseteq Brought,
             checkpoint' = checkpoint \/ checkpoint' = [checkpoint EXCEPT ![t] = saved],
             status' \in [Migrations -> Statuses], spawned' \in [Migrations -> Nat],
             \A u \in Migrations : status'[u] = "completed" => status[u] = "completed" \/ Wanted[u] \subseteq Brought
      PROVE  MigrationTrue'
  <2>1. /\ call.created \cap Prior = {} /\ call.finished \subseteq Brought' /\ call.known \subseteq Brought'
        /\ call.step \in {"copying", "writing"} => Wanted[t] \subseteq call.left \cup call.finished
    BY <1>0, <1>2, <1>3 DEF RunKnown
  <2>2. /\ Brought \subseteq Brought' /\ saved \subseteq Brought'
        /\ \A u \in Migrations : status'[u] = "completed" => status[u] = "completed" \/ Wanted[u] \subseteq Brought'
    BY <1>2, <1>3
  <2> QED BY <1>1, <1>3, <2>1, <2>2, RunMoves
<1>4. CASE RunLocks(t)
  <2> DEFINE call == IF run[t] = NoRun THEN [run[t] EXCEPT !.step = "locked"] ELSE run[t]
  <2>1. run' = [run EXCEPT ![t] = call] /\ UNCHANGED <<status, checkpoint>>
    BY <1>0, <1>4 DEF RunLocks, MigrationTypeOK
  <2>2. spawned' \in [Migrations -> Nat] BY <1>0, <1>4 DEF RunLocks, MigrationTypeOK
  <2>3. /\ call \in MigrationRuns /\ call.created = run[t].created /\ call.finished = run[t].finished
        /\ call.known = run[t].known /\ (call.step \notin {"copying", "writing"} \/ call = run[t])
    BY <1>0 DEF MigrationRuns, RunSteps
  <2> HIDE DEF call
  <2>4. {} \in SUBSET Items /\ {} \subseteq Brought /\ status' \in [Migrations -> Statuses]
    BY <1>0, <2>1 DEF MigrationTypeOK
  <2> QED BY <1>3, <2>1, <2>2, <2>3, <2>4
<1>5. CASE RunFails(t) \/ RunCancelled(t) \/ RunCompletes(t)
  <2> DEFINE call == [run[t] EXCEPT !.step = "leaving"]
  <2>1. /\ run' = [run EXCEPT ![t] = call] /\ UNCHANGED spawned
        /\ checkpoint' = checkpoint \/ checkpoint' = [checkpoint EXCEPT ![t] = run[t].finished]
    BY <1>5 DEF RunFails, RunCancelled, RunCompletes
  <2>2. /\ call \in MigrationRuns /\ call.created = run[t].created /\ call.finished = run[t].finished
        /\ call.known = run[t].known /\ call.step \notin {"copying", "writing"}
    BY <1>0 DEF MigrationRuns, RunSteps
  <2> HIDE DEF call
  <2>3. /\ run[t].finished \in SUBSET Items /\ run[t].finished \subseteq Brought
        /\ spawned' \in [Migrations -> Nat]
    BY <1>0, <2>1 DEF RunKnown, MigrationRuns, MigrationTypeOK
  <2>4. \A u \in Migrations : status'[u] = "completed" => status[u] = "completed" \/ Wanted[u] \subseteq Brought
    <3>1. RunCompletes(t) => Wanted[t] \subseteq Brought BY <1>0 DEF RunCompletes, RunKnown
    <3>2. status \in [Migrations -> Statuses] BY <1>0 DEF MigrationTypeOK
    <3> QED BY <1>5, <3>1, <3>2 DEF RunFails, RunCancelled, RunCompletes, StatusGoes
  <2>5. status' \in [Migrations -> Statuses]
    BY <1>0, <1>5 DEF RunFails, RunCancelled, RunCompletes, StatusGoes, MigrationTypeOK, Statuses
  <2> QED BY <1>3, <2>1, <2>2, <2>3, <2>4, <2>5
<1> QED BY <1>4, <1>5

\* An item that is written is there.
LEMMA WritesKeep ==
  ASSUME MigrationTrue, NEW t \in Migrations, NEW i \in Items, RunWrites(t, i) \/ FinalizeItem(t, i)
  PROVE  MigrationTrue'
<1> USE MigrationAssumption
<1>0. /\ MigrationTypeOK /\ RunKnown(t) /\ run[t] \in MigrationRuns /\ Prior \subseteq targets
  BY DEF MigrationTrue, MigrationTypeOK, MigrationSound, PriorReposKept
<1>1. /\ UNCHANGED <<status, policy, targets, spawned, admin, resumes, migrationCrashes, rolledBack>>
      /\ Prior \subseteq targets' /\ targets' \subseteq Targets /\ rolledBack' \subseteq Items
      /\ status' \in [Migrations -> Statuses] /\ spawned' \in [Migrations -> Nat]
  BY <1>0 DEF RunWrites, FinalizeItem, MigrationTypeOK
<1>2. PICK what \in {"copy", "local"} : artifact' = [artifact EXCEPT ![i] = what]
  BY <1>0 DEF RunWrites, FinalizeItem, MigrationTypeOK, ItemStates
<1>3. artifact' \in [Items -> ItemStates] /\ Brought \subseteq Brought' /\ i \in Brought'
  BY <1>0, <1>1, <1>2 DEF MigrationTypeOK, ItemStates, Brought, Present
<1>4. \A u \in Migrations : status'[u] = "completed" => status[u] = "completed" \/ Wanted[u] \subseteq Brought'
  BY <1>1
<1>5. CASE RunWrites(t, i)
  <2> DEFINE saved == run[t].finished \cup {i}
             call == [run[t] EXCEPT !.step = "copying", !.left = run[t].left \ {i}, !.now = {},
                                    !.finished = saved, !.known = run[t].known \cup {i}]
  <2>1. /\ run[t].step = "writing" /\ run' = [run EXCEPT ![t] = call]
        /\ checkpoint' = checkpoint \/ checkpoint' = [checkpoint EXCEPT ![t] = saved]
    BY <1>5 DEF RunWrites, Saved
  <2>2. saved \in SUBSET Items /\ saved \subseteq Brought' BY <1>0, <1>3 DEF RunKnown, MigrationRuns
  <2>3. /\ call \in MigrationRuns /\ call.created = run[t].created /\ call.finished = saved
        /\ call.known = run[t].known \cup {i} /\ call.left = run[t].left \ {i}
    BY <1>0, <2>2 DEF MigrationRuns, RunSteps
  <2>4. Wanted[t] \subseteq call.left \cup call.finished BY <1>0, <2>1, <2>3 DEF RunKnown
  <2> HIDE DEF call, saved
  <2>5. call.known \subseteq Brought' /\ call.created \cap Prior = {} BY <1>0, <1>3, <2>3 DEF RunKnown
  <2> QED BY <1>1, <1>3, <1>4, <2>1, <2>2, <2>3, <2>4, <2>5, RunMoves
<1>6. CASE FinalizeItem(t, i)
  <2> DEFINE call == [run[t] EXCEPT !.left = run[t].left \ {i}]
  <2>1. /\ run[t].step = "finalizing" /\ run' = [run EXCEPT ![t] = call] /\ UNCHANGED checkpoint
    BY <1>6 DEF FinalizeItem
  <2>2. /\ call \in MigrationRuns /\ call.step = "finalizing" /\ call.created = run[t].created
        /\ call.finished = run[t].finished /\ call.known = run[t].known
    BY <1>0, <2>1 DEF MigrationRuns
  <2> HIDE DEF call
  <2>3. /\ call.created \cap Prior = {} /\ call.finished \subseteq Brought' /\ call.known \subseteq Brought'
        /\ call.step \notin {"copying", "writing"} /\ {} \in SUBSET Items /\ {} \subseteq Brought'
    BY <1>0, <1>3, <2>2 DEF RunKnown
  <2> QED BY <1>1, <1>3, <1>4, <2>1, <2>2, <2>3, RunMoves
<1> QED BY <1>5, <1>6

\* Local publications and restarts take no item away.
LEMMA OutsideKeeps ==
  ASSUME MigrationTrue, MigrationRestart \/ (\E i \in Items : LocalPublish(i)) \/ UNCHANGED migrationVars
  PROVE  MigrationTrue'
<1> USE MigrationAssumption, NoRunIsARun
<1>0. MigrationTypeOK /\ MigrationSound /\ \A u \in Migrations : RunKnown(u) BY DEF MigrationTrue
<1>1. CASE MigrationRestart
  <2>1. /\ status' = [t \in Migrations |-> IF status[t] = "running" THEN "failed" ELSE status[t]]
        /\ run' = [t \in Migrations |-> NoRun] /\ spawned' = [t \in Migrations |-> 0]
        /\ admin' = [a \in Admins |-> AdminIdle]
        /\ UNCHANGED <<policy, checkpoint, targets, artifact, resumes, rolledBack>>
        /\ migrationCrashes < MigrationCrashes /\ migrationCrashes' = migrationCrashes + 1
    BY <1>1 DEF MigrationRestart
  <2>2. status' \in [Migrations -> Statuses]
        /\ \A u \in Migrations : status'[u] = "completed" => status[u] = "completed"
    BY <1>0, <2>1 DEF MigrationTypeOK, Statuses
  <2>3. migrationCrashes' \in 0 .. MigrationCrashes BY <1>0, <2>1 DEF MigrationTypeOK
  <2>4. run' \in [Migrations -> MigrationRuns] /\ spawned' \in [Migrations -> Nat] BY <2>1
  <2>5. MigrationTypeOK' BY <1>0, <2>1, <2>2, <2>3, <2>4 DEF MigrationTypeOK
  <2>6. \A u \in Migrations : RunKnown(u)' BY <2>1 DEF RunKnown
  <2>7. MigrationSound'
    BY <1>0, <2>1, <2>2 DEF MigrationSound, CompletedWhole, CheckpointTrue, PriorReposKept, Present
  <2> QED BY <2>5, <2>6, <2>7 DEF MigrationTrue
<1>2. ASSUME NEW i \in Items, LocalPublish(i) PROVE MigrationTrue'
  <2>1. /\ artifact' = [artifact EXCEPT ![i] = "local"]
        /\ UNCHANGED <<status, policy, checkpoint, targets, run, spawned, admin, resumes,
                       migrationCrashes, rolledBack>>
    BY <1>2 DEF LocalPublish
  <2>2. MigrationTypeOK' BY <1>0, <2>1 DEF MigrationTypeOK, ItemStates
  <2>3. Present \subseteq Present' BY <1>0, <2>1 DEF MigrationTypeOK, Present
  <2>4. \A u \in Migrations : RunKnown(u)' BY <1>0, <2>1, <2>3 DEF RunKnown, Brought
  <2>5. MigrationSound'
    BY <1>0, <2>1, <2>3 DEF MigrationSound, CompletedWhole, CheckpointTrue, PriorReposKept
  <2> QED BY <2>2, <2>4, <2>5 DEF MigrationTrue
<1>3. CASE UNCHANGED migrationVars
  BY <1>0, <1>3
     DEF MigrationTrue, migrationVars, MigrationTypeOK, RunKnown, Brought, Present, MigrationSound,
         CompletedWhole, CheckpointTrue, PriorReposKept
<1> QED BY <1>1, <1>2, <1>3

\* MigrationTrue holds in every state of MigrationSpec.
LEMMA MigrationsStayTrue == MigrationSpec => []MigrationTrue
<1>1. ASSUME MigrationTrue, [MigrationNext]_migrationVars PROVE MigrationTrue'
  <2>1. ASSUME NEW t \in Migrations,
               \/ RunLocks(t) \/ RunRegisters(t) \/ RunLoads(t) \/ RunCreates(t) \/ RunCreateFails(t)
               \/ RunStops(t) \/ RunWriteFails(t) \/ RunFails(t) \/ RunCancelled(t)
               \/ RunCompletes(t) \/ RunLeaves(t) \/ FinalizeBegins(t) \/ FinalizeEnds(t)
        PROVE  MigrationTrue'
    BY <1>1, <2>1, RunTurnsKeep, RunLooksKeep, ReposKeep, StatusesKeep
  <2>2. ASSUME NEW t \in Migrations, NEW i \in Items,
               \/ RunReadsPaths(t, i) \/ RunSkips(t, i) \/ RunConflicts(t, i)
               \/ RunDecides(t, i) \/ RunWrites(t, i) \/ FinalizeItem(t, i)
        PROVE  MigrationTrue'
    BY <1>1, <2>2, RunLooksKeep, WritesKeep
  <2>3. ASSUME NEW t \in Migrations, NEW r \in Targets, RunRollsBack(t, r) PROVE MigrationTrue'
    BY <1>1, <2>3, ReposKeep
  <2> QED BY <1>1, <2>1, <2>2, <2>3, RequestsKeep, OutsideKeeps DEF MigrationNext
<1> QED BY <1>1, MigrationsBegin, PTL DEF MigrationSpec

\* A completed task has brought all it wanted but what a rollback has deleted since, a
\* checkpoint names nothing else, and no failing task deletes a repository that was
\* there before, through any cancellations, resumes and restarts (run, loadCheckpoint,
\* flushCP, plannedNewRepositories, rollbackCreatedRepositories).
THEOREM MigrationsAlwaysSound == MigrationSpec => []MigrationSound
<1>1. MigrationTrue => MigrationSound BY DEF MigrationTrue
<1> QED BY <1>1, MigrationsStayTrue, PTL

-----------------------------------------------------------------------------
(***************************************************************************)
(* OfflineIndex.                                                           *)
(* For any files, scans, listings and restarts: an index that says it is   *)
(* ready is the index of its last scan, and a listing of a ready index     *)
(* leaves nothing out.                                                     *)
(***************************************************************************)

\* What a scan has met is what has been there, it deletes only what it has not
\* met, and once it has walked it has met what was there all along.
ScanMarks ==
  scan # NoScan =>
    /\ propsThere \cup scan.seen \subseteq sometime
    /\ scan.batch \subseteq scan.seen /\ scan.keep \subseteq scan.seen
    /\ ~scan.full => scan.batch \subseteq scan.keep
    /\ scan.at \in {"registered", "begun"} => scan.seen = {}
    /\ scan.at = "pruning" => ~scan.full
    /\ scan.at \in {"pruning", "pruned"} => scan.batch = {}
    /\ scan.at \in {"walked", "pruning", "pruned"} => throughout \subseteq scan.seen
    /\ scan.full /\ scan.at \in {"walking", "walked", "pruned"} => indexRows \subseteq sometime

\* Rows that the end of the scan will not delete.
RowsKept == IF scan.full THEN indexRows ELSE indexRows \cap scan.keep

\* What a scan has met has its row or is about to get it.
RowsCome ==
  scan.at \in {"walking", "walked", "pruning", "pruned"} =>
    AssetsOf(throughout \cap scan.seen) \subseteq AssetsOf(RowsKept \cup scan.batch)

\* A scan at work does not read ready, and leaves no row of what was never there.
StatusTells ==
  scanErrors = 0 =>
    /\ scan.at \in {"begun", "walking", "walked", "pruning", "pruned", "failing"} => indexStatus # "ready"
    /\ scan.at = "pruned" => indexRows \subseteq sometime

\* No scan has touched the rows of a migration that has seen the index ready.
ListersKnow ==
  scanErrors = 0 =>
    \A l \in Listers : lister[l].at = "ready" /\ lister[l].apart =>
      /\ scan.at \in {"none", "ending"}
      /\ AssetsOf(lister[l].due) \subseteq AssetsOf(indexRows)

OfflineTrue ==
  OfflineTypeOK /\ ScanMarks /\ RowsCome /\ StatusTells /\ ListersKnow /\ OfflineSound

\* The invariant holds before the first scan.
LEMMA OfflineBegins == OfflineInit => OfflineTrue
<1> SUFFICES ASSUME OfflineInit PROVE OfflineTrue
  OBVIOUS
<1> USE OfflineAssumption DEF OfflineInit
<1>1. OfflineTypeOK BY DEF OfflineTypeOK, ListerStates
<1>2. ScanMarks /\ RowsCome BY DEF ScanMarks, RowsCome, NoScan
<1>3. StatusTells /\ ListersKnow BY DEF StatusTells, ListersKnow, NoScan, ListerIdle
<1>4. OfflineSound BY DEF OfflineSound, ReadyIsIndexed, ListIsWhole, ListerIdle
<1> QED BY <1>1, <1>2, <1>3, <1>4 DEF OfflineTrue

\* More files make no fewer assets.
LEMMA AssetsGrow ==
  ASSUME NEW P, NEW Q, P \subseteq Q
  PROVE  AssetsOf(P) \subseteq AssetsOf(Q)
BY DEF AssetsOf

\* A scan that is at a step is a scan.
LEMMA ScanIsThere ==
  ASSUME OfflineTypeOK, scan # NoScan \/ scan.at # "none"
  PROVE  scan \in Scans /\ scan # NoScan /\ scan.at \in ScanSteps /\ scan.at # "none"
BY DEF OfflineTypeOK, NoScan, Scans, ScanSteps

\* A scan that goes on keeps all but its step.
LEMMA ScanGoesOn ==
  ASSUME scan \in Scans, NEW step \in ScanSteps, ScanGoes(step)
  PROVE  /\ scan' \in Scans /\ scan'.at = step /\ scan' # NoScan
         /\ scan'.full = scan.full /\ scan'.seen = scan.seen /\ scan'.batch = scan.batch
         /\ scan'.keep = scan.keep
BY DEF Scans, ScanGoes, NoScan, ScanSteps

\* A step of a scan at work that leaves status and migrations alone.
LEMMA ScanWorks ==
  ASSUME OfflineTrue,
         scan.at \in {"begun", "walking", "walked", "pruning", "failing"},
         scan' \in Scans,
         scan'.at \in {"walking", "walked", "pruning", "pruned", "failing"},
         indexRows' \subseteq Props, throughout' \subseteq throughout,
         scanErrors' = scanErrors \/ scanErrors' = scanErrors + 1,
         scanErrors' \in 0 .. ScanErrors,
         UNCHANGED <<propsThere, indexStatus, lister, scans, fileChanges, scanRestarts, sometime, indexed>>,
         ScanMarks', RowsCome',
         scanErrors' = 0 /\ scan'.at = "pruned" => indexRows' \subseteq sometime
  PROVE  OfflineTrue'
<1> USE OfflineAssumption
<1>0. OfflineTypeOK /\ StatusTells /\ ListersKnow /\ ReadyIsIndexed /\ ListIsWhole
      /\ (scanErrors' = 0 => scanErrors = 0)
  BY DEF OfflineTrue, OfflineSound, OfflineTypeOK
<1>1. OfflineTypeOK' BY <1>0 DEF OfflineTypeOK
<1>2. StatusTells' BY <1>0 DEF StatusTells
<1>3. ListersKnow' BY <1>0 DEF ListersKnow
<1>4. ReadyIsIndexed' BY <1>0 DEF ReadyIsIndexed, StatusTells
<1>5. ListIsWhole' BY <1>0 DEF ListIsWhole
<1> QED BY <1>1, <1>2, <1>3, <1>4, <1>5 DEF OfflineTrue, OfflineSound

\* A scan that fails has nothing to say about its rows.
LEMMA FailingIsLoose ==
  ASSUME OfflineTrue, scan \in Scans, scan # NoScan, ScanGoes("failing"),
         UNCHANGED <<propsThere, sometime>>
  PROVE  ScanMarks' /\ RowsCome' /\ scan' \in Scans /\ scan'.at = "failing"
<1>1. "failing" \in ScanSteps BY DEF ScanSteps
<1> QED BY <1>1, ScanGoesOn DEF OfflineTrue, ScanMarks, RowsCome

\* A scan that clears the index, is stopped, or has walked all of the directory.
LEMMA ScanClearsKeeps ==
  ASSUME OfflineTrue, ScanClears \/ ScanStops \/ ScanWalked
  PROVE  OfflineTrue'
<1> USE OfflineAssumption
<1>0. OfflineTypeOK /\ ScanMarks /\ RowsCome BY DEF OfflineTrue
<1>1. /\ scan.at \in {"begun", "walking"} /\ scan \in Scans /\ scan # NoScan
      /\ UNCHANGED <<propsThere, indexStatus, lister, scans, fileChanges, scanErrors, scanRestarts,
                     throughout, sometime, indexed>>
  BY <1>0, ScanIsThere DEF ScanClears, ScanStops, ScanWalked, scanBounds, scanHistory
<1>2. scanErrors' \in 0 .. ScanErrors /\ indexRows \subseteq Props BY <1>0, <1>1 DEF OfflineTypeOK
<1>3. "walking" \in ScanSteps /\ "walked" \in ScanSteps BY DEF ScanSteps
<1>4. CASE ScanGoes("failing") /\ UNCHANGED indexRows
  BY <1>1, <1>2, <1>4, FailingIsLoose, ScanWorks
<1>5. CASE ScanClears /\ ScanGoes("walking") /\ indexRows' = IF scan.full THEN {} ELSE indexRows
  <2>1. /\ scan' \in Scans /\ scan'.at = "walking" /\ scan' # NoScan
        /\ scan'.full = scan.full /\ scan'.seen = scan.seen /\ scan'.batch = scan.batch
        /\ scan'.keep = scan.keep
    BY <1>1, <1>3, <1>5, ScanGoesOn
  <2>2. scan.seen = {} BY <1>0, <1>1, <1>5 DEF ScanMarks, ScanClears
  <2>3. ScanMarks' BY <1>0, <1>1, <1>5, <2>1 DEF ScanMarks
  <2>4. RowsCome' BY <2>1, <2>2 DEF RowsCome, AssetsOf
  <2>5. indexRows' \subseteq Props BY <1>2, <1>5
  <2> QED BY <1>1, <1>2, <2>1, <2>3, <2>4, <2>5, ScanWorks
<1>6. CASE ScanWalked
  <2>1. /\ scan' \in Scans /\ scan'.at = "walked" /\ scan' # NoScan
        /\ scan'.full = scan.full /\ scan'.seen = scan.seen /\ scan'.batch = scan.batch
        /\ scan'.keep = scan.keep
    BY <1>1, <1>3, <1>6, ScanGoesOn DEF ScanWalked
  <2>2. /\ scan.at = "walking" /\ throughout \subseteq scan.seen /\ UNCHANGED indexRows
    BY <1>6 DEF ScanWalked
  <2>3. ScanMarks' BY <1>0, <1>1, <2>1, <2>2 DEF ScanMarks
  <2>4. RowsCome' BY <1>0, <1>1, <2>1, <2>2 DEF RowsCome, RowsKept
  <2> QED BY <1>1, <1>2, <2>1, <2>2, <2>3, <2>4, ScanWorks
<1> QED BY <1>4, <1>5, <1>6 DEF ScanClears, ScanStops

\* A file that is met goes into the batch, one that is passed over does not count.
LEMMA MeetingKeeps ==
  ASSUME OfflineTrue, NEW p \in Props, ScanMeets(p) \/ ScanPasses(p)
  PROVE  OfflineTrue'
<1> USE OfflineAssumption
<1>0. OfflineTypeOK /\ ScanMarks /\ RowsCome BY DEF OfflineTrue
<1>1. /\ scan.at = "walking" /\ scan \in Scans /\ scan # NoScan /\ p \in propsThere
      /\ UNCHANGED <<propsThere, indexRows, indexStatus, lister, scans, fileChanges, scanErrors,
                     scanRestarts, sometime, indexed>>
  BY <1>0, ScanIsThere DEF ScanMeets, ScanPasses, scanBounds, scanHistory
<1>2. scanErrors' \in 0 .. ScanErrors /\ indexRows' \subseteq Props BY <1>0, <1>1 DEF OfflineTypeOK
<1>3. throughout' \subseteq throughout BY DEF ScanMeets, ScanPasses, scanHistory
<1>4. /\ scan' \in Scans /\ scan' # NoScan /\ scan'.at = "walking" /\ scan'.full = scan.full
      /\ scan'.seen = scan.seen \cup {p}
  <2>1. CASE ScanMeets(p)
    <3> DEFINE keep == IF scan.full THEN scan.keep ELSE scan.keep \cup {p}
    <3>1. scan' = [scan EXCEPT !.seen = scan.seen \cup {p}, !.batch = scan.batch \cup {p}, !.keep = keep]
      BY <2>1 DEF ScanMeets
    <3>2. keep \subseteq Props BY <1>1 DEF Scans
    <3> HIDE DEF keep
    <3> QED BY <1>1, <3>1, <3>2 DEF Scans, NoScan
  <2>2. CASE ScanPasses(p) BY <1>1, <2>2 DEF ScanPasses, Scans, NoScan
  <2> QED BY <2>1, <2>2
<1>5. CASE ScanMeets(p)
  <2>1. /\ throughout' = throughout /\ scan'.batch = scan.batch \cup {p}
        /\ scan'.keep = IF scan.full THEN scan.keep ELSE scan.keep \cup {p}
    BY <1>1, <1>5 DEF ScanMeets, Scans, scanHistory
  <2>2. ScanMarks' BY <1>0, <1>1, <1>4, <2>1 DEF ScanMarks
  <2>3. RowsCome'
    <3>1. AssetsOf(throughout \cap scan.seen) \subseteq AssetsOf(RowsKept \cup scan.batch)
      BY <1>0, <1>1 DEF RowsCome
    <3>2. AssetsOf(throughout' \cap scan'.seen) \subseteq AssetsOf(throughout \cap scan.seen) \cup {AssetOf[p]}
      BY <1>4, <2>1 DEF AssetsOf
    <3>3. (RowsKept \cup scan.batch) \cup {p} \subseteq (RowsKept \cup scan.batch)'
      BY <1>1, <1>4, <2>1 DEF RowsKept
    <3>4. AssetsOf(RowsKept \cup scan.batch) \cup {AssetOf[p]} \subseteq AssetsOf((RowsKept \cup scan.batch)')
      BY <3>3 DEF AssetsOf
    <3> QED BY <3>1, <3>2, <3>4 DEF RowsCome, AssetsOf
  <2> QED BY <1>1, <1>2, <1>3, <1>4, <2>2, <2>3, ScanWorks
<1>6. CASE ScanPasses(p)
  <2>1. /\ throughout' = throughout \ {p} /\ scan'.batch = scan.batch /\ scan'.keep = scan.keep
    BY <1>1, <1>6 DEF ScanPasses, Scans
  <2>2. ScanMarks' BY <1>0, <1>1, <1>4, <2>1 DEF ScanMarks
  <2>3. RowsCome' BY <1>0, <1>1, <1>4, <2>1 DEF RowsCome, RowsKept, AssetsOf
  <2> QED BY <1>1, <1>2, <1>3, <1>4, <2>2, <2>3, ScanWorks
<1> QED BY <1>5, <1>6

\* Rows of the batch take the place of others of their assets.
LEMMA FlushKeeps ==
  ASSUME OfflineTrue, ScanFlushes
  PROVE  OfflineTrue'
<1> USE OfflineAssumption
<1>0. OfflineTypeOK /\ ScanMarks /\ RowsCome BY DEF OfflineTrue
<1>1. /\ scan.at \in {"walking", "walked"} /\ scan \in Scans /\ scan # NoScan
      /\ UNCHANGED <<propsThere, indexStatus, lister, scans, fileChanges, scanErrors,
                     scanRestarts, throughout, sometime, indexed>>
  BY <1>0, ScanIsThere DEF ScanFlushes, scanBounds, scanHistory
<1>2. scanErrors' \in 0 .. ScanErrors /\ indexRows \subseteq Props BY <1>0, <1>1 DEF OfflineTypeOK
<1>3. CASE ScanGoes("failing") /\ UNCHANGED indexRows
  BY <1>1, <1>2, <1>3, FailingIsLoose, ScanWorks
<1>4. ASSUME NEW w \in OnePerAsset(scan.batch),
             indexRows' = {e \in indexRows : AssetOf[e] \notin AssetsOf(w)} \cup w,
             scan' = [scan EXCEPT !.batch = {}, !.at =
               IF @ = "walking" THEN @ ELSE IF scan.full THEN "pruned" ELSE "pruning"]
      PROVE  OfflineTrue'
  <2>1. /\ scan' \in Scans /\ scan' # NoScan /\ scan'.batch = {} /\ scan'.full = scan.full
        /\ scan'.seen = scan.seen /\ scan'.keep = scan.keep
        /\ scan'.at = IF scan.at = "walking" THEN "walking" ELSE IF scan.full THEN "pruned" ELSE "pruning"
    BY <1>1, <1>4 DEF Scans, NoScan, ScanSteps
  <2>2. w \subseteq scan.batch /\ AssetsOf(w) = AssetsOf(scan.batch) BY <1>4 DEF OnePerAsset
  <2>3. indexRows' \subseteq Props BY <1>1, <1>2, <1>4, <2>2 DEF Scans
  <2>4. w \subseteq scan.seen /\ w \subseteq sometime /\ (~scan.full => w \subseteq scan.keep)
    BY <1>0, <1>1, <2>2 DEF ScanMarks
  <2>5. ScanMarks'
    <3>1. scan.full => indexRows' \subseteq sometime BY <1>0, <1>1, <1>4, <2>4 DEF ScanMarks
    <3> QED BY <1>0, <1>1, <2>1, <3>1 DEF ScanMarks
  <2>6. AssetsOf(RowsKept \cup scan.batch) \subseteq AssetsOf(RowsKept')
    <3>1. w \subseteq RowsKept' BY <1>4, <2>1, <2>4 DEF RowsKept
    <3>2. \A e \in RowsKept : e \in RowsKept' \/ AssetOf[e] \in AssetsOf(w) BY <1>4, <2>1 DEF RowsKept
    <3>3. AssetsOf(w) \subseteq AssetsOf(RowsKept') BY <3>1, AssetsGrow
    <3> QED BY <2>2, <3>2, <3>3 DEF AssetsOf
  <2>7. RowsCome'
    <3>1. AssetsOf(throughout \cap scan.seen) \subseteq AssetsOf(RowsKept') BY <1>0, <1>1, <2>6 DEF RowsCome
    <3>2. (RowsKept \cup scan.batch)' = RowsKept' BY <2>1
    <3> QED BY <1>1, <2>1, <3>1, <3>2 DEF RowsCome, AssetsOf
  <2>8. scan'.at = "pruned" => indexRows' \subseteq sometime
    BY <1>0, <1>1, <1>4, <2>1, <2>4 DEF ScanMarks
  <2> QED BY <1>1, <1>2, <2>1, <2>3, <2>5, <2>7, <2>8, ScanWorks
<1> QED BY <1>3, <1>4 DEF ScanFlushes

\* What is deleted is not kept.
LEMMA PruningKeeps ==
  ASSUME OfflineTrue, ScanPrunes
  PROVE  OfflineTrue'
<1> USE OfflineAssumption
<1>0. OfflineTypeOK /\ ScanMarks /\ RowsCome BY DEF OfflineTrue
<1>1. /\ scan.at = "pruning" /\ scan \in Scans /\ scan # NoScan /\ ~scan.full /\ scan.batch = {}
      /\ UNCHANGED <<propsThere, indexStatus, lister, scans, fileChanges, scanRestarts, throughout,
                     sometime, indexed>>
  BY <1>0, ScanIsThere DEF ScanPrunes, scanHistory, ScanMarks
<1>2. indexRows \subseteq Props /\ scanErrors \in Nat BY <1>0 DEF OfflineTypeOK
<1>3. ASSUME NEW q \in indexRows \ scan.keep, indexRows' = indexRows \ {q}, UNCHANGED <<scan, scanErrors>>
      PROVE  OfflineTrue'
  <2>1. ScanMarks' BY <1>0, <1>1, <1>3 DEF ScanMarks
  <2>2. RowsKept' = RowsKept BY <1>1, <1>3 DEF RowsKept
  <2>3. RowsCome' BY <1>0, <1>1, <1>3, <2>2 DEF RowsCome, AssetsOf
  <2>4. scanErrors' \in 0 .. ScanErrors /\ indexRows' \subseteq Props BY <1>0, <1>2, <1>3 DEF OfflineTypeOK
  <2> QED BY <1>1, <1>3, <2>1, <2>3, <2>4, ScanWorks
<1>4. ASSUME ScanGoes("pruned"), UNCHANGED indexRows,
             \/ indexRows \subseteq scan.keep /\ UNCHANGED scanErrors
             \/ scanErrors < ScanErrors /\ scanErrors' = scanErrors + 1
      PROVE  OfflineTrue'
  <2>0. "pruned" \in ScanSteps BY DEF ScanSteps
  <2>1. /\ scan' \in Scans /\ scan'.at = "pruned" /\ scan' # NoScan
        /\ scan'.full = scan.full /\ scan'.seen = scan.seen /\ scan'.batch = scan.batch
        /\ scan'.keep = scan.keep
    BY <1>1, <1>4, <2>0, ScanGoesOn
  <2>2. ScanMarks' BY <1>0, <1>1, <2>1 DEF ScanMarks
  <2>3. RowsCome' BY <1>0, <1>1, <1>4, <2>1 DEF RowsCome, RowsKept
  <2>4. scanErrors' \in 0 .. ScanErrors /\ (scanErrors' = scanErrors \/ scanErrors' = scanErrors + 1)
    BY <1>0, <1>4 DEF OfflineTypeOK
  <2>5. scanErrors' = 0 => indexRows' \subseteq sometime
    BY <1>0, <1>1, <1>2, <1>4 DEF ScanMarks
  <2> QED BY <1>1, <1>2, <1>4, <2>1, <2>2, <2>3, <2>4, <2>5, ScanWorks
<1> QED BY <1>3, <1>4 DEF ScanPrunes

\* The status changes as the scan says, or stays with an error counted.
LEMMA StatusIs ==
  ASSUME OfflineTypeOK, NEW news \in {"scanning", "ready", "failed"}, StatusBecomes(news)
  PROVE  /\ scanErrors' \in 0 .. ScanErrors
         /\ indexStatus' \in {"none", "scanning", "ready", "failed"}
         /\ indexStatus' = news \/ indexStatus' = indexStatus
         /\ scanErrors' = 0 => scanErrors = 0 /\ indexStatus' = news
BY OfflineAssumption DEF OfflineTypeOK, StatusBecomes

\* The first and the last step of a scan: the rows stay as they are.
LEMMA AnnouncingKeeps ==
  ASSUME OfflineTrue, ScanAnnounces \/ ScanReady \/ ScanFails
  PROVE  OfflineTrue'
<1> USE OfflineAssumption
<1>0. /\ OfflineTypeOK /\ ScanMarks /\ RowsCome /\ StatusTells /\ ListersKnow
      /\ ReadyIsIndexed /\ ListIsWhole
  BY DEF OfflineTrue, OfflineSound
<1>1. /\ scan.at \in {"registered", "pruned", "failing"} /\ scan \in Scans /\ scan # NoScan
      /\ UNCHANGED <<propsThere, indexRows, lister, scans, fileChanges, scanRestarts, throughout, sometime>>
  BY <1>0, ScanIsThere DEF ScanAnnounces, ScanReady, ScanFails, scanHistory
<1>2. PICK news \in {"scanning", "ready", "failed"} :
        /\ StatusBecomes(news)
        /\ news = "scanning" <=> ScanAnnounces
        /\ news = "ready" <=> ScanReady
        /\ news = "failed" <=> ScanFails
  BY DEF ScanAnnounces, ScanReady, ScanFails
<1>3. /\ scanErrors' \in 0 .. ScanErrors
      /\ indexStatus' \in {"none", "scanning", "ready", "failed"}
      /\ indexStatus' = news \/ indexStatus' = indexStatus
      /\ scanErrors' = 0 => scanErrors = 0 /\ indexStatus' = news
  BY <1>0, <1>2, StatusIs
<1>4. PICK step \in {"begun", "ending"} :
        ScanGoes(step) /\ (step = "begun" <=> ScanAnnounces)
  BY DEF ScanAnnounces, ScanReady, ScanFails
<1>5. step \in ScanSteps BY DEF ScanSteps
<1>6. /\ scan' \in Scans /\ scan'.at = step /\ scan' # NoScan
      /\ scan'.full = scan.full /\ scan'.seen = scan.seen /\ scan'.batch = scan.batch
      /\ scan'.keep = scan.keep
  BY <1>1, <1>4, <1>5, ScanGoesOn
<1>7. /\ indexed' \in [throughout : SUBSET Props, sometime : SUBSET Props]
      /\ ScanReady => indexed'.throughout = throughout /\ indexed'.sometime = sometime
      /\ ~ScanReady => indexed' = indexed
  BY <1>0 DEF ScanAnnounces, ScanReady, ScanFails, OfflineTypeOK, scanHistory
<1>8. OfflineTypeOK' BY <1>0, <1>1, <1>3, <1>6, <1>7 DEF OfflineTypeOK
<1>9. ScanMarks'
  <2>1. step = "begun" => scan.at = "registered" BY <1>4 DEF ScanAnnounces
  <2> QED BY <1>0, <1>1, <1>6, <2>1 DEF ScanMarks
<1>10. RowsCome' BY <1>6 DEF RowsCome
<1>11. StatusTells' BY <1>2, <1>3, <1>4, <1>6 DEF StatusTells
<1>12. ListersKnow' BY <1>0, <1>1, <1>3 DEF ListersKnow
<1>13. ReadyIsIndexed'
  <2> SUFFICES ASSUME indexStatus' = "ready", scanErrors' = 0
               PROVE  AssetsOf(indexed'.throughout) \subseteq AssetsOf(indexRows')
                      /\ indexRows' \subseteq indexed'.sometime
    BY DEF ReadyIsIndexed
  <2>1. ScanReady /\ scanErrors = 0 /\ scan.at = "pruned" BY <1>2, <1>3 DEF ScanReady
  <2>2. indexRows \subseteq sometime BY <1>0, <2>1 DEF StatusTells
  <2>3. throughout \subseteq scan.seen /\ scan.batch = {} BY <1>0, <1>1, <2>1 DEF ScanMarks
  <2>4. AssetsOf(throughout \cap scan.seen) \subseteq AssetsOf(RowsKept \cup scan.batch)
    BY <1>0, <2>1 DEF RowsCome
  <2>5. throughout \cap scan.seen = throughout /\ RowsKept \cup scan.batch = RowsKept BY <2>3
  <2>6. RowsKept \subseteq indexRows BY DEF RowsKept
  <2>7. AssetsOf(throughout) \subseteq AssetsOf(indexRows) BY <2>4, <2>5, <2>6, AssetsGrow DEF AssetsOf
  <2> QED BY <1>1, <1>7, <2>1, <2>2, <2>7
<1>14. ListIsWhole' BY <1>0, <1>1, <1>3 DEF ListIsWhole
<1> QED BY <1>8, <1>9, <1>10, <1>11, <1>12, <1>13, <1>14 DEF OfflineTrue, OfflineSound

\* A scan that begins parts the migrations from what they have seen.
LEMMA StartsKeep ==
  ASSUME OfflineTrue, NEW full \in BOOLEAN, ScanStarts(full)
  PROVE  OfflineTrue'
<1> USE OfflineAssumption
<1>0. OfflineTypeOK /\ ReadyIsIndexed /\ ListIsWhole BY DEF OfflineTrue, OfflineSound
<1> DEFINE first == [at |-> "registered", full |-> full, seen |-> {}, batch |-> {}, keep |-> {},
                     cancelled |-> FALSE]
<1>1. /\ scan' = first /\ throughout' = propsThere /\ sometime' = propsThere
      /\ scans < MaxScans /\ scans' = scans + 1
      /\ UNCHANGED <<propsThere, indexRows, indexStatus, fileChanges, scanErrors, scanRestarts, indexed>>
  BY DEF ScanStarts
<1>2. /\ first \in Scans /\ first # NoScan /\ first.at = "registered" /\ first.seen = {}
      /\ first.batch = {} /\ first.keep = {}
  BY DEF Scans, ScanSteps, NoScan
<1> HIDE DEF first
<1>3. ASSUME NEW l \in Listers
      PROVE  /\ lister'[l] \in ListerStates /\ lister'[l].at = lister[l].at
             /\ lister[l].at = "ready" => ~lister'[l].apart
             /\ lister[l].at # "ready" => lister'[l] = lister[l]
  <2>1. lister'[l] = IF lister[l].at = "ready" THEN [lister[l] EXCEPT !.apart = FALSE] ELSE lister[l]
    BY DEF ScanStarts
  <2>2. lister[l] \in ListerStates BY <1>0 DEF OfflineTypeOK
  <2>3. CASE lister[l].at = "ready"
    <3>1. lister[l] \in [at : {"ready"}, due : SUBSET Props, apart : BOOLEAN]
      BY <2>2, <2>3 DEF ListerStates, ListerIdle
    <3> QED BY <2>1, <2>3, <3>1 DEF ListerStates
  <2>4. CASE lister[l].at # "ready" BY <2>1, <2>2, <2>4
  <2> QED BY <2>3, <2>4
<1>4. lister' \in [Listers -> ListerStates]
  <2>1. lister' = [l \in Listers |-> lister'[l]] BY DEF ScanStarts
  <2> QED BY <1>3, <2>1
<1>5. OfflineTypeOK' BY <1>0, <1>1, <1>2, <1>4 DEF OfflineTypeOK
<1>6. ScanMarks' /\ RowsCome' /\ StatusTells' BY <1>1, <1>2 DEF ScanMarks, RowsCome, StatusTells
<1>7. ListersKnow' BY <1>3 DEF ListersKnow
<1>8. ReadyIsIndexed' BY <1>0, <1>1 DEF ReadyIsIndexed
<1>9. ListIsWhole' BY <1>0, <1>1, <1>3 DEF ListIsWhole
<1> QED BY <1>5, <1>6, <1>7, <1>8, <1>9 DEF OfflineTrue, OfflineSound

\* It reports, is told to stop, has ended or is cut off.
LEMMA BetweenKeeps ==
  ASSUME OfflineTrue, ScanReports \/ ScanCancelled \/ ScanEnds \/ ScannerRestart
  PROVE  OfflineTrue'
<1> USE OfflineAssumption
<1>0. /\ OfflineTypeOK /\ ScanMarks /\ RowsCome /\ StatusTells /\ ListersKnow
      /\ ReadyIsIndexed /\ ListIsWhole
  BY DEF OfflineTrue, OfflineSound
<1>1. CASE ScanReports
  <2>1. /\ scan.at = "walking" /\ indexStatus' = "scanning"
        /\ UNCHANGED <<propsThere, indexRows, scan, lister, scans, fileChanges, scanErrors, scanRestarts,
                       throughout, sometime, indexed>>
    BY <1>1 DEF ScanReports, scanBounds, scanHistory
  <2>2. OfflineTypeOK' BY <1>0, <2>1 DEF OfflineTypeOK
  <2>3. ScanMarks' /\ RowsCome' BY <1>0, <2>1 DEF ScanMarks, RowsCome, RowsKept, AssetsOf
  <2>4. StatusTells' /\ ReadyIsIndexed' BY <2>1 DEF StatusTells, ReadyIsIndexed
  <2>5. ListersKnow' /\ ListIsWhole' BY <1>0, <2>1 DEF ListersKnow, ListIsWhole, AssetsOf
  <2> QED BY <2>2, <2>3, <2>4, <2>5 DEF OfflineTrue, OfflineSound
<1>2. CASE ScanCancelled
  <2>1. /\ scan' = [scan EXCEPT !.cancelled = TRUE] /\ scan.at # "none"
        /\ UNCHANGED <<propsThere, indexRows, indexStatus, lister, scans, fileChanges, scanErrors,
                       scanRestarts, throughout, sometime, indexed>>
    BY <1>2 DEF ScanCancelled, scanBounds, scanHistory
  <2>2. scan \in Scans BY <1>0, <2>1, ScanIsThere
  <2>3. /\ scan' \in Scans /\ scan'.at = scan.at /\ scan # NoScan /\ scan'.full = scan.full
        /\ scan'.seen = scan.seen /\ scan'.batch = scan.batch /\ scan'.keep = scan.keep
    BY <1>0, <2>1, <2>2, ScanIsThere DEF Scans
  <2>4. OfflineTypeOK' BY <1>0, <2>1, <2>3 DEF OfflineTypeOK
  <2>5. ScanMarks' BY <1>0, <2>1, <2>3 DEF ScanMarks
  <2>6. RowsCome' BY <1>0, <2>1, <2>3 DEF RowsCome, RowsKept
  <2>7. StatusTells' /\ ListersKnow' BY <1>0, <2>1, <2>3 DEF StatusTells, ListersKnow
  <2>8. ReadyIsIndexed' /\ ListIsWhole' BY <1>0, <2>1 DEF ReadyIsIndexed, ListIsWhole
  <2> QED BY <2>4, <2>5, <2>6, <2>7, <2>8 DEF OfflineTrue, OfflineSound
<1>3. CASE ScanEnds \/ ScannerRestart
  <2>1. /\ scan' = NoScan /\ throughout' = {} /\ sometime' = {}
        /\ UNCHANGED <<propsThere, indexRows, indexStatus, scans, fileChanges, scanErrors, indexed>>
        /\ scanRestarts' \in 0 .. ScanRestarts
    BY <1>0, <1>3 DEF ScanEnds, ScannerRestart, scanBounds, OfflineTypeOK
  <2>2. /\ lister' \in [Listers -> ListerStates]
        /\ \A l \in Listers : lister'[l] = lister[l] \/ lister'[l] = ListerIdle
        /\ scan.at # "ending" => \A l \in Listers : lister'[l].at # "ready"
    <3>1. CASE ScanEnds BY <1>0, <3>1 DEF ScanEnds, OfflineTypeOK
    <3>2. CASE ScannerRestart
      <4>1. lister' = [l \in Listers |-> IF lister[l].at = "ready" THEN ListerIdle ELSE lister[l]]
        BY <3>2 DEF ScannerRestart
      <4> QED BY <1>0, <4>1 DEF OfflineTypeOK, ListerStates, ListerIdle
    <3> QED BY <1>3, <3>1, <3>2
  <2>3. OfflineTypeOK' BY <1>0, <2>1, <2>2 DEF OfflineTypeOK
  <2>4. scan'.at = "none" BY <2>1 DEF NoScan
  <2>5. ScanMarks' /\ RowsCome' /\ StatusTells' BY <2>1, <2>4 DEF ScanMarks, RowsCome, StatusTells
  <2>6. ListersKnow' BY <1>0, <2>1, <2>2, <2>4 DEF ListersKnow, ListerIdle
  <2>7. ReadyIsIndexed' BY <1>0, <2>1 DEF ReadyIsIndexed
  <2>8. ListIsWhole' BY <1>0, <2>1, <2>2 DEF ListIsWhole, ListerIdle
  <2> QED BY <2>3, <2>5, <2>6, <2>7, <2>8 DEF OfflineTrue, OfflineSound
<1> QED BY <1>1, <1>2, <1>3

\* Files come and go.
LEMMA FilesKeep ==
  ASSUME OfflineTrue, NEW p \in Props, FileComes(p) \/ FileGoes(p)
  PROVE  OfflineTrue'
<1> USE OfflineAssumption
<1>0. /\ OfflineTypeOK /\ ScanMarks /\ RowsCome /\ StatusTells /\ ListersKnow
      /\ ReadyIsIndexed /\ ListIsWhole
  BY DEF OfflineTrue, OfflineSound
<1>1. /\ UNCHANGED <<indexRows, indexStatus, scan, lister, scans, scanErrors, scanRestarts, indexed>>
      /\ throughout' \subseteq throughout /\ sometime \subseteq sometime'
      /\ propsThere' \subseteq Props /\ fileChanges' \in 0 .. FileChanges
      /\ sometime' \subseteq Props
      /\ scan # NoScan /\ propsThere \subseteq sometime => propsThere' \subseteq sometime'
  BY <1>0 DEF FileComes, FileGoes, OfflineTypeOK
<1>2. OfflineTypeOK' BY <1>0, <1>1 DEF OfflineTypeOK
<1>3. ScanMarks' BY <1>0, <1>1 DEF ScanMarks
<1>4. RowsCome' BY <1>0, <1>1 DEF RowsCome, RowsKept, AssetsOf
<1>5. StatusTells' /\ ListersKnow' BY <1>0, <1>1 DEF StatusTells, ListersKnow
<1>6. ReadyIsIndexed' /\ ListIsWhole' BY <1>0, <1>1 DEF ReadyIsIndexed, ListIsWhole
<1> QED BY <1>2, <1>3, <1>4, <1>5, <1>6 DEF OfflineTrue, OfflineSound

\* A migration lists the rows of the scan that made the index ready.
LEMMA ListersKeep ==
  ASSUME OfflineTrue, NEW l \in Listers, ListerLooks(l) \/ ListerLists(l)
  PROVE  OfflineTrue'
<1> USE OfflineAssumption
<1>0. /\ OfflineTypeOK /\ ScanMarks /\ RowsCome /\ StatusTells /\ ListersKnow
      /\ ReadyIsIndexed /\ ListIsWhole
  BY DEF OfflineTrue, OfflineSound
<1>1. UNCHANGED <<propsThere, indexRows, indexStatus, scan, scans, fileChanges, scanErrors, scanRestarts,
                  throughout, sometime, indexed>>
  BY DEF ListerLooks, ListerLists, scanMemory, scanBounds, scanHistory
<1>2. ASSUME NEW call \in ListerStates, lister' = [lister EXCEPT ![l] = call],
             scanErrors = 0 /\ call.at = "ready" /\ call.apart =>
               scan.at \in {"none", "ending"} /\ AssetsOf(call.due) \subseteq AssetsOf(indexRows),
             scanErrors = 0 /\ call.at = "done" => call.lacks = {}
      PROVE  OfflineTrue'
  <2>1. /\ lister' \in [Listers -> ListerStates] /\ lister'[l] = call
        /\ \A m \in Listers : m # l => lister'[m] = lister[m]
    BY <1>0, <1>2 DEF OfflineTypeOK
  <2>2. OfflineTypeOK' BY <1>0, <1>1, <2>1 DEF OfflineTypeOK
  <2>3. ScanMarks' /\ RowsCome' /\ StatusTells'
    BY <1>0, <1>1 DEF ScanMarks, RowsCome, StatusTells, RowsKept, AssetsOf
  <2>4. ListersKnow' BY <1>0, <1>1, <1>2, <2>1 DEF ListersKnow
  <2>5. ReadyIsIndexed' BY <1>0, <1>1 DEF ReadyIsIndexed
  <2>6. ListIsWhole' BY <1>0, <1>1, <1>2, <2>1 DEF ListIsWhole
  <2> QED BY <2>2, <2>3, <2>4, <2>5, <2>6 DEF OfflineTrue, OfflineSound
<1>3. CASE ListerLooks(l)
  <2> DEFINE call == [at |-> "ready", due |-> indexed.throughout, apart |-> scan.at \in {"none", "ending"}]
  <2>1. indexStatus = "ready" /\ lister' = [lister EXCEPT ![l] = call] BY <1>3 DEF ListerLooks
  <2>2. indexed.throughout \in SUBSET Props BY <1>0 DEF OfflineTypeOK
  <2>3. (scan.at \in {"none", "ending"}) \in BOOLEAN OBVIOUS
  <2>4. call \in ListerStates BY <2>2, <2>3 DEF ListerStates
  <2>5. call.at = "ready" /\ call.due = indexed.throughout /\ (call.apart <=> scan.at \in {"none", "ending"})
    OBVIOUS
  <2> HIDE DEF call
  <2> QED BY <1>0, <1>2, <2>1, <2>4, <2>5 DEF ReadyIsIndexed
<1>4. CASE ListerLists(l)
  <2> DEFINE lacks == IF lister[l].apart THEN AssetsOf(lister[l].due) \ AssetsOf(indexRows) ELSE {}
             call == [at |-> "done", lacks |-> lacks]
  <2>1. lister[l].at = "ready" /\ lister' = [lister EXCEPT ![l] = call] BY <1>4 DEF ListerLists
  <2>2. lister[l].due \subseteq Props BY <1>0, <2>1 DEF OfflineTypeOK, ListerStates, ListerIdle
  <2>3. lacks \subseteq {AssetOf[p] : p \in Props} BY <2>2 DEF AssetsOf
  <2>4. scanErrors = 0 => lacks = {} BY <1>0, <2>1 DEF ListersKnow
  <2> HIDE DEF lacks
  <2>5. call \in ListerStates BY <2>3 DEF ListerStates
  <2>6. call.at = "done" /\ call.lacks = lacks OBVIOUS
  <2> HIDE DEF call
  <2> QED BY <1>2, <2>1, <2>4, <2>5, <2>6
<1> QED BY <1>3, <1>4

\* OfflineTrue holds in every state of OfflineSpec.
LEMMA OfflineStaysTrue == OfflineSpec => []OfflineTrue
<1>1. ASSUME OfflineTrue, [OfflineNext]_offlineVars PROVE OfflineTrue'
  <2>1. CASE ScanStep
    <3>1. CASE ScanAnnounces \/ ScanReady \/ ScanFails BY <1>1, <3>1, AnnouncingKeeps
    <3>2. CASE ScanClears \/ ScanStops \/ ScanWalked BY <1>1, <3>2, ScanClearsKeeps
    <3>3. ASSUME NEW p \in Props, ScanMeets(p) \/ ScanPasses(p) PROVE OfflineTrue'
      BY <1>1, <3>3, MeetingKeeps
    <3>4. CASE ScanFlushes BY <1>1, <3>4, FlushKeeps
    <3>5. CASE ScanPrunes BY <1>1, <3>5, PruningKeeps
    <3>6. CASE ScanEnds BY <1>1, <3>6, BetweenKeeps
    <3> QED BY <2>1, <3>1, <3>2, <3>3, <3>4, <3>5, <3>6 DEF ScanStep
  <2>2. CASE UNCHANGED offlineVars
    BY <1>1, <2>2
       DEF OfflineTrue, offlineVars, scanMemory, scanBounds, scanHistory, OfflineTypeOK, ScanMarks,
           RowsCome, RowsKept, AssetsOf, StatusTells, ListersKnow, OfflineSound, ReadyIsIndexed,
           ListIsWhole
  <2> QED BY <1>1, <2>1, <2>2, StartsKeep, BetweenKeeps, FilesKeep, ListersKeep DEF OfflineNext
<1> QED BY <1>1, OfflineBegins, PTL DEF OfflineSpec

\* Whatever scans were cancelled, failed or cut off before, an index that is ready has
\* the rows of its last scan, and a migration that has seen it ready lists all of it, as
\* long as no write of the index has failed unseen (run, fail, DeleteMissingProps,
\* enumerateFromOfflineIndex).
THEOREM OfflineAlwaysSound == OfflineSpec => []OfflineSound
<1>1. OfflineTrue => OfflineSound BY DEF OfflineTrue
<1> QED BY <1>1, OfflineStaysTrue, PTL
=============================================================================
