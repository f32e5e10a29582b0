-------------------------- MODULE RepositoryNames --------------------------
(***************************************************************************)
(* Names of repositories.                                                  *)
(*                                                                         *)
(* A repository has a main name, unique by an index, and aliases, unique   *)
(* by a primary key.  That a name is not both is checked by the service    *)
(* before it writes.  Creating a repository takes several statements, each *)
(* of its own, and one that fails after the row is there takes it back by  *)
(* its name.  A rename keeps the old name as an alias.                     *)
(***************************************************************************)
EXTENDS FiniteSets

CONSTANTS
  FirstRepos, \* repositories that are there at the beginning
  Creates,    \* requests to create one; the id of the row is the request
  Renames, Updates, Deletes,
  Names,
  FirstName, \* main names of FirstRepos
  Unused      \* no name, no repository

RepoIds == FirstRepos \cup Creates

Requests == Creates \cup Renames \cup Updates \cup Deletes

ASSUME NamesAssumption ==
  /\ FirstName \in [FirstRepos -> Names]
  /\ \A r, s \in FirstRepos : FirstName[r] = FirstName[s] => r = s
  /\ Unused \notin Names \cup RepoIds
  /\ FirstRepos \cap Creates = {} /\ Creates \cap (Renames \cup Updates \cup Deletes) = {}
  /\ Renames \cap (Updates \cup Deletes) = {} /\ Updates \cap Deletes = {}

VARIABLES
  mainName,   \* of each row, or Unused if there is no such row
  aliasOf,    \* repository_alias: the repository of each alias, or Unused
  request,    \* where each request is
  spared      \* creations whose row cannot go when they fail

namesVars == <<mainName, aliasOf, request, spared>>

Idle == [step |-> "none", name |-> Unused, repo |-> Unused, aliases |-> {}]

RequestSteps == {"none", "checked", "inserted", "undoing", "done", "refused"}

NamesTypeOK ==
  /\ mainName \in [RepoIds -> Names \cup {Unused}]
  /\ aliasOf \in [Names -> RepoIds \cup {Unused}]
  /\ request \in [Requests -> [step : RequestSteps, name : Names \cup {Unused},
                               repo : RepoIds \cup {Unused}, aliases : SUBSET Names]]
  /\ spared \subseteq Creates

NamesInit ==
  /\ mainName = [r \in RepoIds |-> IF r \in FirstRepos THEN FirstName[r] ELSE Unused]
  /\ aliasOf = [n \in Names |-> Unused]
  /\ request = [q \in Requests |-> Idle]
  /\ spared = {}

NameTaken(n) == aliasOf[n] # Unused \/ \E r \in RepoIds : mainName[r] = n

\* GetByName: a main name goes before an alias.
Resolves(n, r) ==
  \/ mainName[r] = n
  \/ aliasOf[n] = r /\ \A s \in RepoIds : mainName[s] # n

\* A row takes its aliases along.
RemoveByName(n) ==
  /\ mainName' = [r \in RepoIds |-> IF mainName[r] = n THEN Unused ELSE mainName[r]]
  /\ aliasOf' = [a \in Names |->
                   IF aliasOf[a] # Unused /\ mainName[aliasOf[a]] = n THEN Unused
                   ELSE aliasOf[a]]

\* SetAliases: one transaction, refused by the primary key or, if the row is
\* gone, by the foreign key.
CanSetAliases(r, aliases) ==
  /\ aliases = {} \/ mainName[r] # Unused
  /\ \A a \in aliases : aliasOf[a] \in {r, Unused}

PutAliases(r, aliases) ==
  aliasOf' = [a \in Names |-> IF a \in aliases THEN r
                              ELSE IF aliasOf[a] = r THEN Unused ELSE aliasOf[a]]

Step(q, step) == request' = [request EXCEPT ![q].step = step]

-----------------------------------------------------------------------------
(* RepositoryService.Create *)

\* validateAliases; the main name is not looked for among the aliases.
CreateChecks(c) ==
  /\ request[c].step = "none"
  /\ \E n \in Names, aliases \in SUBSET Names :
       /\ n \notin aliases /\ \A a \in aliases : ~NameTaken(a)
       /\ request' = [request EXCEPT ![c] = [step |-> "checked", name |-> n, repo |-> c,
                                             aliases |-> aliases]]
  /\ UNCHANGED <<mainName, aliasOf, spared>>

CreateInserts(c) ==
  /\ request[c].step = "checked"
  /\ IF \E r \in RepoIds : mainName[r] = request[c].name
     THEN Step(c, "refused") /\ UNCHANGED mainName
     ELSE Step(c, "inserted") /\ mainName' = [mainName EXCEPT ![c] = request[c].name]
  /\ UNCHANGED <<aliasOf, spared>>

\* A mistake: a conflict is reported and the row stays.
CreateFinishesBare(c) ==
  /\ request[c].step = "inserted"
  /\ IF request[c].aliases = {} THEN Step(c, "done") /\ UNCHANGED aliasOf
     ELSE IF CanSetAliases(c, request[c].aliases)
          THEN Step(c, "done") /\ PutAliases(c, request[c].aliases)
          ELSE Step(c, "refused") /\ UNCHANGED aliasOf
  /\ UNCHANGED <<mainName, spared>>

\* finishCreate: the aliases, if there are any.
CreateFinishes(c) ==
  /\ request[c].step = "inserted"
  /\ IF request[c].aliases = {} THEN Step(c, "done") /\ UNCHANGED aliasOf
     ELSE IF CanSetAliases(c, request[c].aliases)
          THEN Step(c, "done") /\ PutAliases(c, request[c].aliases)
          ELSE Step(c, "undoing") /\ UNCHANGED aliasOf
  /\ UNCHANGED <<mainName, spared>>

\* A description or the aliases cannot be written.
CreateFails(c) ==
  /\ request[c].step = "inserted" /\ Step(c, "undoing")
  /\ UNCHANGED <<mainName, aliasOf, spared>>

\* The row that has the name of the request goes, whoever's it is.
CreateUndoes(c) ==
  /\ request[c].step = "undoing" /\ Step(c, "refused")
  /\ RemoveByName(request[c].name)
  /\ UNCHANGED spared

\* An error of the undoing is dropped.
CreateUndoFails(c) ==
  /\ request[c].step = "undoing" /\ Step(c, "refused")
  /\ spared' = spared \cup {c}
  /\ UNCHANGED <<mainName, aliasOf>>

-----------------------------------------------------------------------------
(* Rename, Update and Delete: a read of the row, and later the write *)

Reads(q, aliases) ==
  /\ request[q].step = "none"
  /\ \E n \in Names, r \in RepoIds :
       /\ Resolves(n, r)
       /\ request' = [request EXCEPT ![q] = [step |-> "checked", name |-> mainName[r],
                                             repo |-> r, aliases |-> aliases]]
  /\ UNCHANGED <<mainName, aliasOf, spared>>

RenameReads(q) == \E n \in Names : ~NameTaken(n) /\ Reads(q, {n})

\* The row that has the name now, and its old name among the aliases.
RenameWrites(q) ==
  /\ request[q].step = "checked"
  /\ LET old == request[q].name
         new == CHOOSE n \in Names : n \in request[q].aliases
     IN IF /\ \A r \in RepoIds : mainName[r] # new
           /\ aliasOf[old] = Unused
           /\ \E r \in RepoIds : mainName[r] = old
        THEN \E r \in RepoIds :
               /\ mainName[r] = old
               /\ mainName' = [mainName EXCEPT ![r] = new]
               /\ aliasOf' = [aliasOf EXCEPT ![old] = r]
               /\ spared' = IF r \in Creates /\ request[r].step \in {"inserted", "undoing"}
                            THEN spared \cup {r} ELSE spared
               /\ Step(q, "done")
        ELSE Step(q, "refused") /\ UNCHANGED <<mainName, aliasOf, spared>>

\* validateAliases lets the aliases pass that the repository has already.
UpdateReads(q) ==
  \E aliases \in SUBSET Names :
    /\ Reads(q, aliases)
    /\ request'[q].name \notin aliases
    /\ \A a \in aliases : aliasOf[a] = request'[q].repo \/ ~NameTaken(a)

UpdateWrites(q) ==
  /\ request[q].step = "checked"
  /\ IF CanSetAliases(request[q].repo, request[q].aliases)
     THEN Step(q, "done") /\ PutAliases(request[q].repo, request[q].aliases)
     ELSE Step(q, "refused") /\ UNCHANGED aliasOf
  /\ UNCHANGED <<mainName, spared>>

DeleteReads(q) == Reads(q, {})

\* The row that has the name now.
DeleteWrites(q) ==
  /\ request[q].step = "checked"
  /\ IF \E r \in RepoIds : mainName[r] = request[q].name
     THEN Step(q, "done") /\ RemoveByName(request[q].name)
     ELSE Step(q, "refused") /\ UNCHANGED <<mainName, aliasOf>>
  /\ UNCHANGED spared

NamesNext ==
  \/ \E c \in Creates :
       \/ CreateChecks(c) \/ CreateInserts(c) \/ CreateFinishes(c) \/ CreateFails(c)
       \/ CreateUndoes(c) \/ CreateUndoFails(c)
  \/ \E q \in Renames : RenameReads(q) \/ RenameWrites(q)
  \/ \E q \in Updates : UpdateReads(q) \/ UpdateWrites(q)
  \/ \E q \in Deletes : DeleteReads(q) \/ DeleteWrites(q)

NamesSpec == NamesInit /\ [][NamesNext]_namesVars

-----------------------------------------------------------------------------
(* Properties *)

\* A creation that was refused left no repository, whatever took its
\* aliases between the check and the write; only a rename in the middle or a
\* failing deletion may spare the row (Create, finishCreate).
FailedCreateGone ==
  \A c \in Creates : request[c].step = "refused" => mainName[c] = Unused \/ c \in spared

\* Rows of the two tables hold together: a main name has one repository and
\* an alias leads to a repository that is there (SetAliases, Rename, Delete).
NamesLead ==
  /\ \A r, s \in RepoIds : mainName[r] # Unused /\ mainName[r] = mainName[s] => r = s
  /\ \A n \in Names : aliasOf[n] # Unused => mainName[aliasOf[n]] # Unused

\* A refused creation leaves nothing, and every name leads somewhere.
NamesSound == FailedCreateGone /\ NamesLead
=============================================================================
