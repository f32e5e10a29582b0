----------------------------- MODULE CargoCrate -----------------------------
(***************************************************************************)
(* One crate of a hosted Cargo repository.                                 *)
(*                                                                         *)
(* A version has a file and a line in the sparse index of its crate.  A    *)
(* publish looks for both, stages its file, reads the index again and      *)
(* commits the file and the index with one more line; a yank rewrites the  *)
(* version's lines.  The commit compares the rows with images that are     *)
(* read last, so that a line written between the index and the images is   *)
(* lost.                                                                   *)
(***************************************************************************)
EXTENDS FiniteSets

CONSTANTS
  CrateVersions,
  CratePublishers, \* requests; a file and its checksum are named by the request
  Yankers,         \* requests to yank a version or to take that back
  NoCrate

ASSUME CrateAssumption ==
  /\ NoCrate \notin CrateVersions \cup CratePublishers
  /\ CratePublishers \cap Yankers = {}

Lines == [vers : CrateVersions, cksum : CratePublishers, yanked : BOOLEAN]

VARIABLES
  crate,      \* of each version, its file
  index,      \* the lines of the index
  crateCall,  \* where each request is, with the index it builds on and the images
  \* for the properties
  lastYank,   \* of each version, what was asked for last
  lapsed      \* versions a commit wrote over without having seen them

crateVars == <<crate, index, crateCall, lastYank, lapsed>>

CrateIdle ==
  [step |-> "none", vers |-> NoCrate, yank |-> FALSE, seen |-> {}, old |-> {}, oldCrate |-> NoCrate]

CrateCalls ==
  [step : {"none", "checked", "read", "planned", "done", "refused"},
   vers : CrateVersions \cup {NoCrate}, yank : BOOLEAN,
   seen : SUBSET Lines, old : SUBSET Lines, oldCrate : CratePublishers \cup {NoCrate}]

CrateTypeOK ==
  /\ crate \in [CrateVersions -> CratePublishers \cup {NoCrate}]
  /\ index \subseteq Lines
  /\ crateCall \in [CratePublishers \cup Yankers -> CrateCalls]
  /\ lastYank \in [CrateVersions -> BOOLEAN]
  /\ lapsed \subseteq CrateVersions

CrateInit ==
  /\ crate = [v \in CrateVersions |-> NoCrate] /\ index = {}
  /\ crateCall = [r \in CratePublishers \cup Yankers |-> CrateIdle]
  /\ lastYank = [v \in CrateVersions |-> FALSE] /\ lapsed = {}

LinesOf(lines, v) == {line \in lines : line.vers = v}

\* Neither a file nor a line: the version may be published.
CrateChecks(p, v) ==
  /\ crateCall[p].step = "none"
  /\ crateCall' = [crateCall EXCEPT
       ![p].step = IF crate[v] = NoCrate /\ LinesOf(index, v) = {} THEN "checked" ELSE "refused",
       ![p].vers = v]
  /\ UNCHANGED <<crate, index, lastYank, lapsed>>

\* With the file staged the index is read again.
CrateReads(p) ==
  /\ crateCall[p].step = "checked"
  /\ crateCall' = [crateCall EXCEPT ![p].step = "read", ![p].seen = index]
  /\ UNCHANGED <<crate, index, lastYank, lapsed>>

YankReads(r, v, yank) ==
  /\ crateCall[r].step = "none" /\ LinesOf(index, v) # {}
  /\ crateCall' = [crateCall EXCEPT ![r] = [CrateIdle EXCEPT !.step = "read", !.vers = v,
                                                             !.yank = yank, !.seen = index]]
  /\ UNCHANGED <<crate, index, lastYank, lapsed>>

\* publishMutationItems.
CratePlans(r) ==
  /\ crateCall[r].step = "read"
  /\ crateCall' = [crateCall EXCEPT ![r].step = "planned", ![r].old = index,
                                    ![r].oldCrate = crate[crateCall[r].vers]]
  /\ UNCHANGED <<crate, index, lastYank, lapsed>>

\* What a commit writes over unseen: lines written between its two reads of the
\* index, and its own version published since it looked for it.
Lapses(r) ==
  {v \in CrateVersions : LinesOf(crateCall[r].seen, v) # LinesOf(crateCall[r].old, v)}
    \cup (IF r \in CratePublishers /\ crateCall[r].oldCrate # NoCrate
          THEN {crateCall[r].vers} ELSE {})

CrateRefused(r) ==
  /\ crateCall' = [crateCall EXCEPT ![r].step = "refused"]
  /\ UNCHANGED <<crate, index, lastYank, lapsed>>

\* A mistake: only the version's own file is compared with its image.
CrateCommitsOfFile(p) ==
  LET v == crateCall[p].vers
  IN /\ crateCall[p].step = "planned"
     /\ IF crate[v] = crateCall[p].oldCrate
        THEN /\ crate' = [crate EXCEPT ![v] = p]
             /\ index' = crateCall[p].seen \cup {[vers |-> v, cksum |-> p, yanked |-> FALSE]}
             /\ lastYank' = [lastYank EXCEPT ![v] = FALSE]
             /\ lapsed' = lapsed \cup Lapses(p)
             /\ crateCall' = [crateCall EXCEPT ![p].step = "done"]
        ELSE CrateRefused(p)

CrateCommits(p) ==
  LET v == crateCall[p].vers
  IN /\ crateCall[p].step = "planned"
     /\ IF index = crateCall[p].old /\ crate[v] = crateCall[p].oldCrate
        THEN /\ crate' = [crate EXCEPT ![v] = p]
             /\ index' = crateCall[p].seen \cup {[vers |-> v, cksum |-> p, yanked |-> FALSE]}
             /\ lastYank' = [lastYank EXCEPT ![v] = FALSE]
             /\ lapsed' = lapsed \cup Lapses(p)
             /\ crateCall' = [crateCall EXCEPT ![p].step = "done"]
        ELSE CrateRefused(p)

YankCommits(r) ==
  LET v == crateCall[r].vers
  IN /\ crateCall[r].step = "planned"
     /\ IF index = crateCall[r].old
        THEN /\ index' = {IF line.vers = v THEN [line EXCEPT !.yanked = crateCall[r].yank] ELSE line :
                            line \in crateCall[r].seen}
             /\ lastYank' = [lastYank EXCEPT ![v] = crateCall[r].yank]
             /\ lapsed' = lapsed \cup Lapses(r)
             /\ crateCall' = [crateCall EXCEPT ![r].step = "done"]
             /\ UNCHANGED crate
        ELSE CrateRefused(r)

CrateNext ==
  \/ \E p \in CratePublishers :
       (\E v \in CrateVersions : CrateChecks(p, v)) \/ CrateReads(p) \/ CratePlans(p) \/ CrateCommits(p)
  \/ \E r \in Yankers :
       \/ \E v \in CrateVersions, yank \in BOOLEAN : YankReads(r, v, yank)
       \/ CratePlans(r) \/ YankCommits(r)

CrateSpec == CrateInit /\ [][CrateNext]_crateVars

-----------------------------------------------------------------------------
(* Properties *)

\* A version has a file exactly if it has a line, one line with the checksum of
\* the file, yanked as was asked for last; only versions that were written
\* between what a commit read and its images are spared (publishCargo, SetYanked).
CratesSound ==
  \A v \in CrateVersions \ lapsed :
    LinesOf(index, v) =
      IF crate[v] = NoCrate THEN {}
      ELSE {[vers |-> v, cksum |-> crate[v], yanked |-> lastYank[v]]}
=============================================================================
