----------------------------- MODULE NpmPackage -----------------------------
(***************************************************************************)
(* One package of a hosted npm repository.                                 *)
(*                                                                         *)
(* The packument, a document that lists the versions and the tags, is an   *)
(* asset like the tarballs.  Whoever changes the package reads the         *)
(* document, builds a new one from it, later reads the rows again as       *)
(* images, and commits all of it at once if the rows are still those of    *)
(* the images.  What happens between the first and the second read is not  *)
(* noticed: the new document then goes back to what was read.              *)
(***************************************************************************)
EXTENDS FiniteSets

CONSTANTS
  NpmVersions,
  NpmPublishers,    \* requests to publish; a tarball is named by its request
  NpmTaggers,       \* requests to set or delete a tag
  NpmUnpublishers,  \* requests to delete a version or the package
  NpmTags, Latest,
  Void              \* no version, no tarball

NpmRequests == NpmPublishers \cup NpmTaggers \cup NpmUnpublishers

ASSUME NpmAssumption ==
  /\ Latest \in NpmTags
  /\ Void \notin NpmVersions \cup NpmPublishers
  /\ NpmPublishers \cap (NpmTaggers \cup NpmUnpublishers) = {}
  /\ NpmTaggers \cap NpmUnpublishers = {}

Docs == [listed : [NpmVersions -> NpmPublishers \cup {Void}],
         tags : [NpmTags -> NpmVersions \cup {Void}]]

\* A package that is not there.
NoDoc == [listed |-> [v \in NpmVersions |-> Void], tags |-> [t \in NpmTags |-> Void]]

TarballRows == [NpmVersions -> NpmPublishers \cup {Void}]

VARIABLES
  npmImmutable, \* ImmutableRelease of the repository
  packument,    \* the row of the document
  tarball,      \* the rows of the tarballs
  npmStored,    \* the tarballs whose bytes are in the blob store
  npmCall,      \* of each request: where it is and what it has read
  \* for the properties
  release,      \* of each version, the publish that counts
  republished,  \* versions published twice
  overtaken     \* versions that changed between the two reads of a commit

npmVars ==
  <<npmImmutable, packument, tarball, npmStored, npmCall, release, republished, overtaken>>

\* doc: the new document; seen: the one it was built from; version: what it
\* adds or removes; rows: tarballs to be written; old...: the images.
NpmIdle == [step |-> "none", version |-> Void, seen |-> NoDoc, doc |-> NoDoc,
            rows |-> NoDoc.listed, oldDoc |-> NoDoc, oldRows |-> NoDoc.listed]

NpmCalls ==
  [step : {"none", "read", "staged", "planned", "done", "refused"},
   version : NpmVersions \cup {Void}, seen : Docs, doc : Docs, rows : TarballRows,
   oldDoc : Docs, oldRows : TarballRows]

NpmTypeOK ==
  /\ npmImmutable \in BOOLEAN
  /\ packument \in Docs /\ tarball \in TarballRows
  /\ npmStored \subseteq NpmPublishers
  /\ npmCall \in [NpmRequests -> NpmCalls]
  /\ release \in [NpmVersions -> NpmPublishers \cup {Void}]
  /\ republished \subseteq NpmVersions /\ overtaken \subseteq NpmVersions

NpmInit ==
  /\ npmImmutable \in BOOLEAN
  /\ packument = NoDoc /\ tarball = NoDoc.listed /\ npmStored = {}
  /\ npmCall = [r \in NpmRequests |-> NpmIdle]
  /\ release = NoDoc.listed /\ republished = {} /\ overtaken = {}

NpmGhosts == <<release, republished, overtaken>>

NpmEnds(r, how) == npmCall' = [npmCall EXCEPT ![r] = [NpmIdle EXCEPT !.step = how]]

\* Stored bytes follow the rows: a commit removes what no row names any more.
StoredAfter(rows) ==
  npmStored' = npmStored \ {c \in NpmPublishers :
                              /\ \E v \in NpmVersions : tarball[v] = c
                              /\ \A v \in NpmVersions : rows[v] # c}

\* A mistake: the document is written whatever it has become.
ImagesHoldOfRows(r) ==
  \A v \in NpmVersions : npmCall[r].rows[v] # Void => tarball[v] = npmCall[r].oldRows[v]

\* The compare and swap of a commit: every row it writes is as its image was.
ImagesHold(r) ==
  /\ packument = npmCall[r].oldDoc
  /\ \A v \in NpmVersions : npmCall[r].rows[v] # Void => tarball[v] = npmCall[r].oldRows[v]

-----------------------------------------------------------------------------
(* npm publish *)

\* The stored document and the new version make the next one; a repository of
\* immutable releases refuses a version that is listed.
PublishReads(p, v) ==
  /\ npmCall[p].step = "none"
  /\ IF npmImmutable /\ packument.listed[v] # Void THEN NpmEnds(p, "refused")
     ELSE npmCall' = [npmCall EXCEPT ![p] =
            [NpmIdle EXCEPT !.step = "read", !.version = v, !.seen = packument,
                            !.doc = [listed |-> [packument.listed EXCEPT ![v] = p],
                                     tags |-> [packument.tags EXCEPT ![Latest] = v]]]]
  /\ UNCHANGED <<npmImmutable, packument, tarball, npmStored, NpmGhosts>>

\* The tarballs the package has are published again with the new one; their
\* rows are taken as they are and nothing holds their bytes.
PublishStages(p) ==
  /\ npmCall[p].step = "read"
  /\ npmStored' = npmStored \cup {p}
  /\ npmCall' = [npmCall EXCEPT ![p].step = "staged",
                                ![p].rows = [tarball EXCEPT ![npmCall[p].version] = p]]
  /\ UNCHANGED <<npmImmutable, packument, tarball, NpmGhosts>>

\* publishMutationItems: one read for each row, which the commit compares one
\* by one, so that a change in between counts as one after the last of them.
ReadsImages(r) ==
  npmCall' = [npmCall EXCEPT ![r].step = "planned", ![r].oldDoc = packument,
                             ![r].oldRows = tarball]

PublishPlans(p) ==
  /\ npmCall[p].step = "staged"
  /\ ReadsImages(p)
  /\ UNCHANGED <<npmImmutable, packument, tarball, npmStored, NpmGhosts>>

\* What a commit writes without having noticed that it changed.
Overtaken(r) ==
  {v \in NpmVersions :
     \/ npmCall[r].seen.listed[v] # npmCall[r].oldDoc.listed[v]
     \/ v # npmCall[r].version /\ npmCall[r].rows[v] \notin {Void, npmCall[r].oldRows[v]}}

PublishCommits(p) ==
  LET v == npmCall[p].version
      rows == [w \in NpmVersions |-> IF npmCall[p].rows[w] # Void THEN npmCall[p].rows[w]
                                     ELSE tarball[w]]
  IN /\ npmCall[p].step = "planned" /\ ImagesHold(p)
     /\ packument' = npmCall[p].doc /\ tarball' = rows /\ StoredAfter(rows)
     /\ release' = [release EXCEPT ![v] = p]
     /\ republished' = IF release[v] # Void THEN republished \cup {v} ELSE republished
     /\ overtaken' = overtaken \cup Overtaken(p)
     /\ NpmEnds(p, "done")
     /\ UNCHANGED npmImmutable

\* A publish that loses takes its tarball back (DiscardStagedAssets).
PublishConflicts(p) ==
  /\ npmCall[p].step = "planned" /\ ~ImagesHold(p)
  /\ npmStored' = npmStored \ {p}
  /\ NpmEnds(p, "refused")
  /\ UNCHANGED <<npmImmutable, packument, tarball, NpmGhosts>>

PublishStep(p) ==
  \/ \E v \in NpmVersions : PublishReads(p, v)
  \/ PublishStages(p) \/ PublishPlans(p) \/ PublishCommits(p) \/ PublishConflicts(p)

-----------------------------------------------------------------------------
(* npm dist-tag *)

TagReads(r, tag, v) ==
  /\ npmCall[r].step = "none"
  /\ IF v = Void
     THEN tag # Latest /\ packument.tags[tag] # Void
     ELSE packument.listed[v] # Void
  /\ npmCall' = [npmCall EXCEPT ![r] =
       [NpmIdle EXCEPT !.step = "read", !.seen = packument,
                       !.doc = [packument EXCEPT !.tags[tag] = v]]]
  /\ UNCHANGED <<npmImmutable, packument, tarball, npmStored, NpmGhosts>>

TagPlans(r) ==
  /\ npmCall[r].step = "read"
  /\ ReadsImages(r)
  /\ UNCHANGED <<npmImmutable, packument, tarball, npmStored, NpmGhosts>>

TagCommits(r) ==
  /\ npmCall[r].step = "planned"
  /\ IF ImagesHold(r)
     THEN packument' = npmCall[r].doc /\ overtaken' = overtaken \cup Overtaken(r)
     ELSE UNCHANGED <<packument, overtaken>>
  /\ NpmEnds(r, "done")
  /\ UNCHANGED <<npmImmutable, tarball, npmStored, release, republished>>

TagStep(r) ==
  \/ \E tag \in NpmTags, v \in NpmVersions \cup {Void} : TagReads(r, tag, v)
  \/ TagPlans(r) \/ TagCommits(r)

-----------------------------------------------------------------------------
(* npm unpublish *)

\* Without the version and the tags that name it.
Without(doc, v) ==
  [listed |-> [doc.listed EXCEPT ![v] = Void],
   tags |-> [t \in NpmTags |-> IF doc.tags[t] = v THEN Void ELSE doc.tags[t]]]

\* The plan reads the rows it will compare first, so that the document it
\* builds is the next one after its image.  Void stands for the package, which
\* also goes with its last version.
UnpublishPlans(r, v) ==
  /\ npmCall[r].step = "none"
  /\ IF v = Void THEN packument # NoDoc ELSE packument.listed[v] # Void
  /\ LET rest == IF v = Void THEN NoDoc.listed ELSE Without(packument, v).listed
         all == rest = NoDoc.listed
         gone == {w \in NpmVersions : all \/ w = v}
     IN npmCall' = [npmCall EXCEPT ![r] =
          [NpmIdle EXCEPT !.step = "planned", !.version = v,
                          !.doc = IF all THEN NoDoc ELSE Without(packument, v),
                          !.rows = [w \in NpmVersions |-> IF w \in gone THEN tarball[w] ELSE Void],
                          !.oldDoc = packument, !.oldRows = tarball]]
  /\ UNCHANGED <<npmImmutable, packument, tarball, npmStored, NpmGhosts>>

UnpublishCommits(r) ==
  LET gone == {w \in NpmVersions : npmCall[r].doc = NoDoc \/ w = npmCall[r].version}
      rows == [w \in NpmVersions |-> IF npmCall[r].rows[w] # Void THEN Void ELSE tarball[w]]
  IN /\ npmCall[r].step = "planned"
     /\ IF ImagesHold(r)
        THEN /\ packument' = npmCall[r].doc /\ tarball' = rows /\ StoredAfter(rows)
             /\ release' = [w \in NpmVersions |-> IF w \in gone THEN Void ELSE release[w]]
             /\ republished' = republished \ gone
        ELSE UNCHANGED <<packument, tarball, npmStored, release, republished>>
     /\ NpmEnds(r, "done")
     /\ UNCHANGED <<npmImmutable, overtaken>>

UnpublishStep(r) ==
  \/ \E v \in NpmVersions \cup {Void} : UnpublishPlans(r, v)
  \/ UnpublishCommits(r)

NpmNext ==
  \/ \E p \in NpmPublishers : PublishStep(p)
  \/ \E r \in NpmTaggers : TagStep(r)
  \/ \E r \in NpmUnpublishers : UnpublishStep(r)

NpmSpec == NpmInit /\ [][NpmNext]_npmVars

-----------------------------------------------------------------------------
(* Properties *)

\* What the document lists, what the rows hold and what was published last
\* are one, and the bytes are there, however requests overlap; only versions
\* that changed between the two reads of another request are spared
\* (publishAssets, planNpmTarget).
VersionsAgree ==
  \A v \in NpmVersions \ overtaken :
    /\ packument.listed[v] = tarball[v] /\ tarball[v] = release[v]
    /\ tarball[v] # Void => tarball[v] \in npmStored

\* No tag names a version that is not listed (distTagPut, planNpmTarget).
TagsLead ==
  \A t \in NpmTags : packument.tags[t] # Void => packument.listed[packument.tags[t]] # Void

\* An immutable version is published once (npmImmutableVersionExists).
ImmutableOnce == npmImmutable => republished \subseteq overtaken

\* The document, the tarballs and the tags of a package hold together.
NpmSound == VersionsAgree /\ TagsLead /\ ImmutableOnce
=============================================================================
