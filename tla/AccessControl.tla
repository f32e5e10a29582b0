--------------------------- MODULE AccessControl ---------------------------
(***************************************************************************)
(* Who may do what with a repository.                                      *)
(*                                                                         *)
(* Three pieces of code answer whether somebody may read a repository: the *)
(* check of one repository, the check of a list in a fixed number of       *)
(* queries, and the scope of a search.  They must never part.  A subject   *)
(* is a user with the groups that were read when the request began.        *)
(* Administrators pass before any of it and are left out.                  *)
(***************************************************************************)
EXTENDS FiniteSets

CONSTANTS
  Repos, Users, Groups,
  AnonymousUser,   \* the built-in user that stands for requests without one
  Nobody,          \* user id 0
  GrantEntries     \* <<subject, action>> pairs that somebody puts in a list

AllActions == {"read", "write", "publish", "delete", "acl_manage", "admin"}

ASSUME AccessAssumption ==
  /\ AnonymousUser \in Users /\ Nobody \notin Users
  /\ Users \cap Groups = {} /\ Nobody \notin Groups
  /\ GrantEntries \subseteq (Users \cup Groups) \X AllActions

VARIABLES
  visibility,       \* of each repository
  anonymousAccess,  \* the setting
  acl,              \* <<repository, subject, action>>: rows of the table acl
  members,          \* <<group, user>>
  groups,           \* rows of user_group
  usedGroups,       \* ids that were ever given out
  deletingGroup     \* groups whose entries a deletion has taken already

accessVars == <<visibility, anonymousAccess, acl, members, groups, usedGroups, deletingGroup>>

AccessTypeOK ==
  /\ visibility \in [Repos -> {"public", "private"}]
  /\ anonymousAccess \in BOOLEAN
  /\ acl \subseteq Repos \X (Users \cup Groups) \X AllActions
  /\ members \subseteq Groups \X Users
  /\ groups \subseteq usedGroups /\ usedGroups \subseteq Groups
  /\ deletingGroup \subseteq Groups

AccessInit ==
  /\ visibility = [r \in Repos |-> "private"] /\ anonymousAccess = FALSE
  /\ acl = {} /\ members = {} /\ groups = {} /\ usedGroups = {} /\ deletingGroup = {}

-----------------------------------------------------------------------------
(* The table of grants *)

\* satisfyingGrants: what a granted action must be for the asked one.
SatisfyingGrants(action) ==
  CASE action = "read" -> {"read", "write", "admin"}
    [] action = "publish" -> {"publish", "write", "admin"}
    [] OTHER -> {action, "admin"}

Subject(user, of) == [user |-> user, groups |-> of]

Subjects == [user : Users \cup {Nobody}, groups : SUBSET Groups]

\* HasPermission: a row of the user itself or of one of the groups.
HasPermission(r, subject, action) ==
  \E grant \in SatisfyingGrants(action), who \in {subject.user} \cup subject.groups :
    <<r, who, grant>> \in acl

\* RepoIDsWithPermission: one query for the user, one for the groups.
RepoIDsWithPermission(rs, subject, action) ==
  {r \in rs : \E grant \in SatisfyingGrants(action) : <<r, subject.user, grant>> \in acl}
    \cup {r \in rs : \E grant \in SatisfyingGrants(action), g \in subject.groups :
                       <<r, g, grant>> \in acl}

-----------------------------------------------------------------------------
(* The three answers *)

\* SubjectFor.
SubjectFor(user) ==
  Subject(user, IF user = Nobody THEN {} ELSE {g \in groups : <<g, user>> \in members})

\* CanAccessResolved and canAccessAnonymous.
CanAccess(r, subject, action) ==
  IF subject.user = Nobody
  THEN /\ anonymousAccess
       /\ \/ action = "read" /\ visibility[r] = "public"
          \/ HasPermission(r, Subject(AnonymousUser, {}), action)
  ELSE \/ action = "read" /\ visibility[r] = "public"
       \/ HasPermission(r, subject, action)

Public(rs) == {r \in rs : visibility[r] = "public"}

\* A mistake: the public repositories are let through before the setting
\* is looked at.
ReadableRepoIDsPublicFirst(rs, subject) ==
  LET anonymous == subject.user = Nobody
      aclSubject == IF anonymous THEN Subject(AnonymousUser, {}) ELSE subject
  IN Public(rs) \cup (IF anonymous /\ ~anonymousAccess THEN {}
                      ELSE RepoIDsWithPermission(rs \ Public(rs), aclSubject, "read"))

\* ReadableRepoIDs: the check of a list.
ReadableRepoIDs(rs, subject) ==
  LET anonymous == subject.user = Nobody
      aclSubject == IF anonymous THEN Subject(AnonymousUser, {}) ELSE subject
  IN IF anonymous /\ ~anonymousAccess THEN {}
     ELSE Public(rs) \cup RepoIDsWithPermission(rs \ Public(rs), aclSubject, "read")

\* readableRepoIDs: the scope of a search.  The groups of the anonymous user
\* count here.
SearchScope(user) ==
  LET aclUser == IF user = Nobody THEN AnonymousUser ELSE user
  IN IF user = Nobody /\ ~anonymousAccess THEN {}
     ELSE Public(Repos)
            \cup RepoIDsWithPermission(Repos \ Public(Repos), SubjectFor(aclUser), "read")

-----------------------------------------------------------------------------
(* Administration.  Every statement keeps the foreign keys.                *)

SetVisibility(r) ==
  /\ \E v \in {"public", "private"} : visibility' = [visibility EXCEPT ![r] = v]
  /\ UNCHANGED <<anonymousAccess, acl, members, groups, usedGroups, deletingGroup>>

SetAnonymousAccess ==
  /\ anonymousAccess' = ~anonymousAccess
  /\ UNCHANGED <<visibility, acl, members, groups, usedGroups, deletingGroup>>

\* SetAcl: the rows of the repository are replaced in one transaction, which
\* is refused as a whole if a subject is not there.
SetAcl(r) ==
  /\ \E entries \in SUBSET GrantEntries :
       /\ \A e \in entries : e[1] \in Users \cup groups
       /\ acl' = {row \in acl : row[1] # r} \cup {<<r, e[1], e[2]>> : e \in entries}
  /\ UNCHANGED <<visibility, anonymousAccess, members, groups, usedGroups, deletingGroup>>

\* A new group has an id nobody held before.
CreateGroup ==
  /\ \E g \in Groups \ usedGroups :
       groups' = groups \cup {g} /\ usedGroups' = usedGroups \cup {g}
  /\ UNCHANGED <<visibility, anonymousAccess, acl, members, deletingGroup>>

AddMember(g, u) ==
  /\ g \in groups /\ members' = members \cup {<<g, u>>}
  /\ UNCHANGED <<visibility, anonymousAccess, acl, groups, usedGroups, deletingGroup>>

RemoveMember(g, u) ==
  /\ <<g, u>> \in members /\ members' = members \ {<<g, u>>}
  /\ UNCHANGED <<visibility, anonymousAccess, acl, groups, usedGroups, deletingGroup>>

\* UserGroupService.Delete takes the entries of the group first.
DeleteByGroup(g) ==
  /\ g \in groups /\ deletingGroup' = deletingGroup \cup {g}
  /\ acl' = {row \in acl : row[2] # g}
  /\ UNCHANGED <<visibility, anonymousAccess, members, groups, usedGroups>>

\* The row goes; members and what entries there are again go with it.
DeleteGroup(g) ==
  /\ g \in deletingGroup /\ deletingGroup' = deletingGroup \ {g}
  /\ groups' = groups \ {g}
  /\ members' = {m \in members : m[1] # g}
  /\ acl' = {row \in acl : row[2] # g}
  /\ UNCHANGED <<visibility, anonymousAccess, usedGroups>>

AccessNext ==
  \/ \E r \in Repos : SetVisibility(r) \/ SetAcl(r)
  \/ SetAnonymousAccess \/ CreateGroup
  \/ \E g \in Groups : DeleteByGroup(g) \/ DeleteGroup(g)
  \/ \E g \in Groups, u \in Users : AddMember(g, u) \/ RemoveMember(g, u)

AccessSpec == AccessInit /\ [][AccessNext]_accessVars

-----------------------------------------------------------------------------
(* Properties *)

\* The check of a list says of every subject what the checks of its
\* repositories say one by one (ReadableRepoIDs, CanAccessResolved).
BatchAgrees ==
  \A subject \in Subjects :
    ReadableRepoIDs(Repos, subject) = {r \in Repos : CanAccess(r, subject, "read")}

\* A search looks where its user may read; for a request without a user
\* this needs the anonymous user to be in no group (readableRepoIDs).
ScopeAgrees ==
  \A user \in Users \cup {Nobody} :
    (user # Nobody \/ \A m \in members : m[2] # AnonymousUser) =>
      SearchScope(user) = {r \in Repos : CanAccess(r, SubjectFor(user), "read")}

\* No entry and no membership names a group that is gone, however deletions
\* and changes of the lists interleave (UserGroupService.Delete, SetAcl).
NoDanglingGrant ==
  /\ \A row \in acl : row[2] \in Users \cup groups
  /\ \A m \in members : m[1] \in groups

\* Three ways to ask who may read agree, and no grant outlives its group.
AccessAgrees == BatchAgrees /\ ScopeAgrees /\ NoDanglingGrant
=============================================================================
