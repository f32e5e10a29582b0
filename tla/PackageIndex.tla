---------------------------- MODULE PackageIndex ----------------------------
(***************************************************************************)
(* The files of a PyPI or NuGet repository and the rows that list them.    *)
(*                                                                         *)
(* A hosted repository writes a file and its row in one transaction.  A    *)
(* proxy writes all rows when it first reads the upstream's index, where   *)
(* they say where a file comes from, and a file when somebody wants it.    *)
(* Requests for the same index or the same file share one flight.  The     *)
(* retention of the cache deletes files and knows nothing of the rows.     *)
(***************************************************************************)
EXTENDS FiniteSets

CONSTANTS
  Files,
  Uploads,    \* requests that publish; a content is named by its upload
  Fetches,    \* requests that read
  Originals,  \* contents of the upstream
  NoFile      \* no file, no content, no flight

ASSUME IndexedAssumption ==
  /\ Originals # {}
  /\ NoFile \notin Files \cup Uploads \cup Originals \cup Fetches
  /\ Uploads \cap (Fetches \cup Originals) = {}

FileContents == Uploads \cup Originals

NoRow == [digest |-> NoFile, source |-> FALSE]

\* digest: Sha256, NoFile when the upstream does not say it; source:
\* metadata_json says where the file comes from.
RowValues == [digest : FileContents \cup {NoFile}, source : BOOLEAN]

VARIABLES
  feed,      \* "hosted", "pypi" or "nuget", the latter two proxies
  listing,   \* rows of format_metadata
  file,      \* rows of asset, with their content
  origin,    \* what the upstream has
  upload, fetch, \* where each request is
  loader,    \* the leader of the flight for the index
  fetcher,   \* of each file, the leader of its flight
  overlaid   \* files another request published between the check and the images of one

packageVars == <<feed, listing, file, origin, upload, fetch, loader, fetcher, overlaid>>

NoUpload == [step |-> "none", file |-> NoFile, old |-> NoFile]

NoFetch == [step |-> "none", file |-> NoFile, row |-> NoRow, content |-> NoFile]

FetchSteps ==
  {"none", "unlisted", "loading", "awaits index", "listed", "absent", "fetching", "awaits file",
   "staged", "cached", "served", "failed"}

FetchCalls == [step : FetchSteps, file : Files \cup {NoFile}, row : RowValues \cup {NoRow},
               content : FileContents \cup {NoFile}]

UploadCalls == [step : {"none", "checked", "planned", "stored", "refused"},
                file : Files \cup {NoFile}, old : FileContents \cup {NoFile}]

PackageTypeOK ==
  /\ feed \in {"hosted", "pypi", "nuget"}
  /\ listing \in [Files -> RowValues \cup {NoRow}]
  /\ file \in [Files -> FileContents \cup {NoFile}]
  /\ origin \in [Files -> Originals]
  /\ upload \in [Uploads -> UploadCalls] /\ fetch \in [Fetches -> FetchCalls]
  /\ loader \in Fetches \cup {NoFile} /\ fetcher \in [Files -> Fetches \cup {NoFile}]
  /\ overlaid \subseteq Files

PackageInit ==
  /\ feed \in {"hosted", "pypi", "nuget"}
  /\ listing = [f \in Files |-> NoRow] /\ file = [f \in Files |-> NoFile]
  /\ origin = [f \in Files |-> CHOOSE o \in Originals : TRUE]
  /\ upload = [u \in Uploads |-> NoUpload] /\ fetch = [r \in Fetches |-> NoFetch]
  /\ loader = NoFile /\ fetcher = [f \in Files |-> NoFile] /\ overlaid = {}

\* A row is there; those of a fresh NuGet index say no digest, but where from.
Listed(f) == listing[f] # NoRow

FetchVars == <<fetch, loader, fetcher>>

-----------------------------------------------------------------------------
(* Publishing *)

UploadChecks(u, f) ==
  /\ feed = "hosted" /\ upload[u].step = "none"
  /\ upload' = [upload EXCEPT ![u] = [NoUpload EXCEPT !.step = IF Listed(f) THEN "refused" ELSE "checked",
                                                      !.file = f]]
  /\ UNCHANGED <<feed, listing, file, origin, overlaid, FetchVars>>

\* The content is in the store; the image of the file's row is read.
UploadPlans(u) ==
  LET f == upload[u].file
  IN /\ upload[u].step = "checked"
     /\ upload' = [upload EXCEPT ![u].step = "planned", ![u].old = file[f]]
     /\ overlaid' = IF file[f] # NoFile THEN overlaid \cup {f} ELSE overlaid
     /\ UNCHANGED <<feed, listing, file, origin, FetchVars>>

\* File and row in one transaction, which compares the file's row with its
\* image and has the new row of the listing take the place of an old one.
UploadCommits(u) ==
  LET f == upload[u].file
  IN /\ upload[u].step = "planned"
     /\ IF file[f] = upload[u].old
        THEN /\ file' = [file EXCEPT ![f] = u]
             /\ listing' = [listing EXCEPT ![f] = [digest |-> u, source |-> FALSE]]
             /\ upload' = [upload EXCEPT ![u].step = "stored"]
        ELSE upload' = [upload EXCEPT ![u].step = "refused"] /\ UNCHANGED <<file, listing>>
     /\ UNCHANGED <<feed, origin, overlaid, FetchVars>>

-----------------------------------------------------------------------------
(* Reading *)

FetchEnds(rs, how) ==
  fetch' = [r \in Fetches |-> IF r \in rs THEN [fetch[r] EXCEPT !.step = how] ELSE fetch[r]]

\* The rows are read; a proxy without any has to load them.
FetchLists(r, f) ==
  /\ fetch[r].step = "none"
  /\ LET empty == feed # "hosted" /\ \A g \in Files : ~Listed(g)
         step == IF empty THEN "unlisted" ELSE IF Listed(f) THEN "listed" ELSE "failed"
     IN fetch' = [fetch EXCEPT ![r] = [NoFetch EXCEPT !.step = step, !.file = f, !.row = listing[f]]]
  /\ UNCHANGED <<feed, listing, file, origin, upload, loader, fetcher, overlaid>>

\* pypiSF and nugetSF: the first leads, the others wait for it.
IndexJoins(r) ==
  /\ fetch[r].step = "unlisted"
  /\ IF loader = NoFile
     THEN FetchEnds({r}, "loading") /\ loader' = r
     ELSE FetchEnds({r}, "awaits index") /\ UNCHANGED loader
  /\ UNCHANGED <<feed, listing, file, origin, upload, fetcher, overlaid>>

\* Who has led a flight for the index hands its rows to all that wait.
IndexFlight(r) == {r} \cup {s \in Fetches : fetch[s].step = "awaits index"}

\* What the index of the upstream tells of a file.
PyPIRow(f) == [digest |-> origin[f], source |-> TRUE]
NuGetRow(f) == [digest |-> NoFile, source |-> TRUE]

FreshRows == [f \in Files |-> IF feed = "pypi" THEN PyPIRow(f) ELSE NuGetRow(f)]

IndexArrives(r, rows) ==
  /\ listing' = rows
  /\ fetch' = [s \in Fetches |-> IF s \in IndexFlight(r)
                                 THEN [fetch[s] EXCEPT !.step = "listed",
                                                       !.row = rows[fetch[s].file]]
                                 ELSE fetch[s]]
  /\ loader' = NoFile
  /\ UNCHANGED <<feed, file, origin, upload, fetcher, overlaid>>

\* A mistake: the flight does not look again, so that one behind another's end
\* writes the rows anew.
IndexLoadsAnew(r) ==
  /\ fetch[r].step = "loading" /\ loader = r
  /\ IndexArrives(r, FreshRows)

\* In the flight the rows are looked for again; if there are still none the
\* upstream's are written.
IndexLoads(r) ==
  /\ fetch[r].step = "loading" /\ loader = r
  /\ IndexArrives(r, IF \E f \in Files : Listed(f) THEN listing ELSE FreshRows)

IndexFails(r) ==
  /\ fetch[r].step = "loading" /\ loader = r
  /\ FetchEnds(IndexFlight(r), "failed") /\ loader' = NoFile
  /\ UNCHANGED <<feed, listing, file, origin, upload, fetcher, overlaid>>

FileWanted(r) ==
  /\ fetch[r].step = "listed"
  /\ FetchEnds({r}, IF feed = "hosted" \/ file[fetch[r].file] # NoFile THEN "cached" ELSE "absent")
  /\ UNCHANGED <<feed, listing, file, origin, upload, loader, fetcher, overlaid>>

FileJoins(r) ==
  LET f == fetch[r].file
  IN /\ fetch[r].step = "absent"
     /\ IF fetcher[f] = NoFile
        THEN FetchEnds({r}, "fetching") /\ fetcher' = [fetcher EXCEPT ![f] = r]
        ELSE FetchEnds({r}, "awaits file") /\ UNCHANGED fetcher
     /\ UNCHANGED <<feed, listing, file, origin, upload, loader, overlaid>>

FileFlight(r) ==
  {r} \cup {s \in Fetches : fetch[s].step = "awaits file" /\ fetch[s].file = fetch[r].file}

FetchFlightEnds(r, how) ==
  /\ FetchEnds(FileFlight(r), how)
  /\ fetcher' = [fetcher EXCEPT ![fetch[r].file] = NoFile]

\* A PyPI file comes from where its row says by now, and has to have the digest
\* that the reader has seen.
PyPIAnswers(r) ==
  feed = "pypi" /\ listing[fetch[r].file].source /\ origin[fetch[r].file] = fetch[r].row.digest

\* A NuGet package comes from there or, failing that, from the path of the asset.
NuGetAnswers == feed = "nuget"

\* In the flight the file is looked for again.
FileFetched(r) ==
  LET f == fetch[r].file
  IN /\ fetch[r].step = "fetching"
     /\ \/ /\ file[f] # NoFile
           /\ FetchFlightEnds(r, "cached")
        \/ /\ file[f] = NoFile
           /\ PyPIAnswers(r) \/ NuGetAnswers
           /\ fetch' = [fetch EXCEPT ![r].step = "staged", ![r].content = origin[f]]
           /\ UNCHANGED fetcher
        \/ /\ file[f] = NoFile
           /\ FetchFlightEnds(r, "failed")
     /\ UNCHANGED <<feed, listing, file, origin, upload, loader, overlaid>>

\* File and row in one transaction; the row says no more where from.  Only
\* the flight writes the file of a proxy, so that its image holds.
FileCached(r) ==
  LET f == fetch[r].file
  IN /\ fetch[r].step = "staged"
     /\ file' = [file EXCEPT ![f] = fetch[r].content]
     /\ listing' = [listing EXCEPT ![f] = [digest |-> fetch[r].content, source |-> FALSE]]
     /\ FetchFlightEnds(r, "cached")
     /\ UNCHANGED <<feed, origin, upload, loader, overlaid>>

FileServed(r) ==
  /\ fetch[r].step = "cached"
  /\ LET content == file[fetch[r].file]
     IN fetch' = [fetch EXCEPT ![r].step = IF content = NoFile THEN "failed" ELSE "served",
                               ![r].content = content]
  /\ UNCHANGED <<feed, listing, file, origin, upload, loader, fetcher, overlaid>>

\* purgeExpiredProxyCache, on a file past its retention.
FilePurged(f) ==
  /\ feed # "hosted" /\ file[f] # NoFile
  /\ file' = [file EXCEPT ![f] = NoFile]
  /\ UNCHANGED <<feed, listing, origin, upload, overlaid, FetchVars>>

\* The upstream replaces a file.
OriginChanges(f) ==
  /\ feed # "hosted"
  /\ \E o \in Originals \ {origin[f]} : origin' = [origin EXCEPT ![f] = o]
  /\ UNCHANGED <<feed, listing, file, upload, overlaid, FetchVars>>

FetchStep(r) ==
  \/ \E f \in Files : FetchLists(r, f)
  \/ IndexJoins(r) \/ IndexLoads(r) \/ IndexFails(r)
  \/ FileWanted(r) \/ FileJoins(r) \/ FileFetched(r) \/ FileCached(r) \/ FileServed(r)

PackageNext ==
  \/ \E u \in Uploads : (\E f \in Files : UploadChecks(u, f)) \/ UploadPlans(u) \/ UploadCommits(u)
  \/ \E r \in Fetches : FetchStep(r)
  \/ \E f \in Files : FilePurged(f) \/ OriginChanges(f)

PackageSpec == PackageInit /\ [][PackageNext]_packageVars

-----------------------------------------------------------------------------
(* Properties *)

\* The digest the index gives for a file is that of the file, whatever loads,
\* publishes and purges overlap (PublishAssetsWithEnvelope, pypiFiles).
DigestsTrue == \A f \in Files : file[f] # NoFile => listing[f].digest = file[f]

\* A file that is published stays as it is, unless it came between the check
\* and the images of another request (publishPyPI, publishNuGet).
FilesStay ==
  \A u \in Uploads : upload[u].step = "stored" =>
    file[upload[u].file] = u \/ upload[u].file \in overlaid

\* A reader of a PyPI proxy gets the content whose digest it was shown
\* (cachePyPIProxyFile).
ShownIsServed ==
  feed = "pypi" =>
    \A r \in Fetches : fetch[r].step = "served" => fetch[r].content = fetch[r].row.digest

PackagesSound == DigestsTrue /\ FilesStay /\ ShownIsServed
=============================================================================
