---------------------------- MODULE NegativeCache ----------------------------
(***************************************************************************)
(* The 404 cache and the reads that fill it, for one path.                 *)
(*                                                                         *)
(* A group has hosted and proxy members.  A read looks at the local copies *)
(* of all members, then asks the proxies at once, each through one flight  *)
(* per proxy that concurrent reads share, and records the path as missing  *)
(* when every member is sure.  A publish or a fetch removes the entry of   *)
(* its own repository.  The entry of the group only goes with its time, or *)
(* when the cache is full or purged.                                       *)
(***************************************************************************)
EXTENDS Naturals, FiniteSets

CONSTANTS
  Proxies,     \* proxy members
  Hosted,      \* the hosted member
  Group,       \* the repository that has them as members
  Readers,     \* requests
  Packagers,   \* requests that fetch for the NuGet metadata, not in the flight
  MaxMisreads  \* bound on failing reads of the hosted member

ASSUME NegativeAssumption ==
  /\ Proxies # {} /\ {Hosted, Group} \cap Proxies = {} /\ Hosted # Group
  /\ Readers \cap Packagers = {} /\ MaxMisreads \in Nat

VARIABLES
  atSource,    \* hosted members and upstreams that have the artifact
  local,       \* proxies that have a cached copy
  entry,       \* the 404 cache: how old each repository's entry is
  reader,      \* what each request is doing
  unlooked,    \* members whose local copy it has still to look at
  unsure,      \* it has met a member it cannot decide about
  ask,         \* the state of its question to each proxy
  flight,      \* the single flight of each proxy: who leads it, and its step
  packager,    \* the fetches outside of it
  misreads,
  \* history
  always,      \* members that have had the artifact from the beginning
  late         \* proxies whose 404 came in after the artifact was stored

sourceVars == <<atSource, local, always>>
readVars == <<reader, unlooked, unsure, ask>>
negativeVars == <<sourceVars, entry, readVars, flight, packager, misreads, late>>

Members == Proxies \cup {Hosted}

\* 2 is past the TTL.  An entry of that age is as good as none.
Ages == 0..2

NoEntry == 3

Live(k) == entry[k] < 2

ReaderSteps == {"idle", "looking", "asking", "direct"}

AskSteps == {"none", "begun", "missed", "leads", "waits", "reread", "confirmed", "unsure", "found"}

NoFlight == [step |-> "none"]

FlightBusy == [step : {"sent", "answered404", "got", "stored"}, by : Readers]

PackagerSteps == {"idle", "sent", "answered404", "got", "stored"}

NegativeTypeOK ==
  /\ atSource \subseteq Members /\ local \subseteq Proxies /\ always \subseteq atSource
  /\ entry \in [Proxies \cup {Group} -> Ages \cup {NoEntry}]
  /\ reader \in [Readers -> ReaderSteps]
  /\ unlooked \in [Readers -> SUBSET Members]
  /\ unsure \in [Readers -> BOOLEAN]
  /\ ask \in [Readers -> [Proxies -> AskSteps]]
  /\ flight \in [Proxies -> FlightBusy \cup {NoFlight}]
  /\ packager \in [Packagers -> [Proxies -> PackagerSteps]]
  /\ misreads \in 0..MaxMisreads /\ late \subseteq Proxies

NegativeInit ==
  /\ atSource \in SUBSET Members /\ always = atSource
  /\ local = {}
  /\ entry = [k \in Proxies \cup {Group} |-> NoEntry]
  /\ reader = [r \in Readers |-> "idle"]
  /\ unlooked = [r \in Readers |-> {}]
  /\ unsure = [r \in Readers |-> FALSE]
  /\ ask = [r \in Readers |-> [p \in Proxies |-> "none"]]
  /\ flight = [p \in Proxies |-> NoFlight]
  /\ packager = [f \in Packagers |-> [p \in Proxies |-> "idle"]]
  /\ misreads = 0 /\ late = {}

-----------------------------------------------------------------------------
(* The cache.                                                              *)

\* hit deletes an entry that is past its time.
Hits(k) == entry' = IF entry[k] = 2 THEN [entry EXCEPT ![k] = NoEntry] ELSE entry

Adds(k) == entry' = [entry EXCEPT ![k] = 0]

Removes(k) == entry' = [entry EXCEPT ![k] = NoEntry]

EntryAges(k) ==
  /\ entry[k] < 2 /\ entry' = [entry EXCEPT ![k] = @ + 1]
  /\ UNCHANGED <<sourceVars, readVars, flight, packager, misreads, late>>

\* purge by an administrator, or evictOldestLocked for another path.
EntryGoes(k) ==
  /\ entry[k] # NoEntry /\ entry' = [entry EXCEPT ![k] = NoEntry]
  /\ UNCHANGED <<sourceVars, readVars, flight, packager, misreads, late>>

-----------------------------------------------------------------------------
(* resolve and groupGet.                                                   *)

Goes(r, step) == reader' = [reader EXCEPT ![r] = step]

\* A mistake: a hit renews the entry.
ReadBeginRenews(r) ==
  /\ reader[r] = "idle"
  /\ entry' = IF Live(Group) THEN [entry EXCEPT ![Group] = 0] ELSE [entry EXCEPT ![Group] = NoEntry]
  /\ IF Live(Group) THEN UNCHANGED <<reader, unlooked>>
     ELSE Goes(r, "looking") /\ unlooked' = [unlooked EXCEPT ![r] = Members]
  /\ UNCHANGED <<sourceVars, unsure, ask, flight, packager, misreads, late>>

\* A read of the group; a live entry answers it.
ReadBegin(r) ==
  /\ reader[r] = "idle"
  /\ Hits(Group)
  /\ IF Live(Group) THEN UNCHANGED <<reader, unlooked>>
     ELSE Goes(r, "looking") /\ unlooked' = [unlooked EXCEPT ![r] = Members]
  /\ UNCHANGED <<sourceVars, unsure, ask, flight, packager, misreads, late>>

\* A read of one proxy.
ReadDirect(r, p) ==
  /\ reader[r] = "idle" /\ Goes(r, "direct")
  /\ ask' = [ask EXCEPT ![r][p] = "begun"]
  /\ UNCHANGED <<sourceVars, entry, unlooked, unsure, flight, packager, misreads, late>>

ReadEnds(r) ==
  /\ Goes(r, "idle")
  /\ unlooked' = [unlooked EXCEPT ![r] = {}] /\ unsure' = [unsure EXCEPT ![r] = FALSE]
  /\ ask' = [ask EXCEPT ![r] = [p \in Proxies |-> "none"]]

HasCopy(m) == IF m = Hosted THEN Hosted \in atSource ELSE m \in local

\* The first local copy is served; a member that is offline is not looked at.
\* A read that fails counts as a miss.
ReadLook(r, m) ==
  /\ reader[r] = "looking" /\ m \in unlooked[r]
  /\ \/ /\ HasCopy(m) /\ ReadEnds(r) /\ UNCHANGED misreads
     \/ /\ unlooked' = [unlooked EXCEPT ![r] = @ \ {m}]
        /\ \/ ~HasCopy(m) /\ UNCHANGED <<unsure, misreads>>
           \/ unsure' = [unsure EXCEPT ![r] = TRUE] /\ UNCHANGED misreads
           \/ /\ HasCopy(m) /\ m = Hosted
              /\ misreads < MaxMisreads /\ misreads' = misreads + 1
              /\ UNCHANGED unsure
        /\ UNCHANGED <<reader, ask>>
  /\ UNCHANGED <<sourceVars, entry, flight, packager, late>>

\* A standby node, or no proxy that may be asked: nobody has decided.
ReadGivesUp(r) ==
  /\ reader[r] = "looking" /\ unlooked[r] = {} /\ ReadEnds(r)
  /\ UNCHANGED <<sourceVars, entry, flight, packager, misreads, late>>

\* The proxies are asked, except those that are offline or blocked.
ReadFork(r) ==
  /\ reader[r] = "looking" /\ unlooked[r] = {}
  /\ \E blocked \in SUBSET Proxies :
       /\ blocked # Proxies \/ Proxies = {}
       /\ unsure' = [unsure EXCEPT ![r] = @ \/ blocked # {}]
       /\ ask' = [ask EXCEPT ![r] = [p \in Proxies |-> IF p \in blocked THEN "none" ELSE "begun"]]
  /\ Goes(r, "asking")
  /\ UNCHANGED <<sourceVars, entry, unlooked, flight, packager, misreads, late>>

Concluded == {"none", "confirmed", "unsure", "found"}

\* All have answered, and only a member that is sure counts as missing.
ReadSettle(r) ==
  /\ reader[r] \in {"asking", "direct"}
  /\ \A p \in Proxies : ask[r][p] \in Concluded
  /\ IF reader[r] = "asking" /\ ~unsure[r]
        /\ \A p \in Proxies : ask[r][p] \in {"none", "confirmed"}
     THEN Adds(Group) ELSE UNCHANGED entry
  /\ ReadEnds(r)
  /\ UNCHANGED <<sourceVars, flight, packager, misreads, late>>

-----------------------------------------------------------------------------
(* resolve and proxyGet of one member, and the flight.                     *)

AskGoes(r, p, step) == ask' = [ask EXCEPT ![r][p] = step]

\* A live entry of the proxy is a confirmation.
AskEntry(r, p) ==
  /\ ask[r][p] = "begun"
  /\ Hits(p) /\ AskGoes(r, p, IF Live(p) THEN "confirmed" ELSE "missed")
  /\ UNCHANGED <<sourceVars, reader, unlooked, unsure, flight, packager, misreads, late>>

\* The local copy; then a standby, an offline or a blocked proxy is not asked,
\* and a flight that is under way is joined.
AskLocal(r, p) ==
  /\ ask[r][p] = "missed"
  /\ IF p \in local THEN AskGoes(r, p, "found") /\ UNCHANGED flight
     ELSE \/ AskGoes(r, p, "unsure") /\ UNCHANGED flight
          \/ flight[p] # NoFlight /\ AskGoes(r, p, "waits") /\ UNCHANGED flight
          \/ flight[p] = NoFlight /\ AskGoes(r, p, "leads")
             /\ flight' = [flight EXCEPT ![p] = [step |-> "sent", by |-> r]]
  /\ UNCHANGED <<sourceVars, entry, reader, unlooked, unsure, packager, misreads, late>>

\* The leader has its verdict, and everybody that waits has another.
Lands(p, mine, theirs) ==
  /\ ask' = [r \in Readers |-> [ask[r] EXCEPT ![p] =
       IF @ = "leads" THEN mine ELSE IF @ = "waits" THEN theirs ELSE @]]
  /\ flight' = [flight EXCEPT ![p] = NoFlight]

FlightGoes(p, step) == flight' = [flight EXCEPT ![p].step = step]

\* The flight finds a copy that has come in, or the upstream has the artifact,
\* or it has not, and says so before the answer is dealt with.
FlightAsks(p) ==
  /\ flight[p] # NoFlight /\ flight[p].step = "sent"
  /\ IF p \in local THEN Lands(p, "reread", "reread")
     ELSE FlightGoes(p, IF p \in atSource THEN "got" ELSE "answered404") /\ UNCHANGED ask
  /\ UNCHANGED <<sourceVars, entry, reader, unlooked, unsure, packager, misreads, late>>

\* A mistake: a fetch that fails is taken for an answer.
FlightFailsSure(p) ==
  /\ flight[p] # NoFlight /\ flight[p].step \in {"sent", "got"}
  /\ Lands(p, "confirmed", "unsure")
  /\ UNCHANGED <<sourceVars, entry, reader, unlooked, unsure, packager, misreads, late>>

\* A timeout, an error of the upstream or of the disk, the circuit breaker, or
\* the leader has been cancelled: nobody is sure.
FlightFails(p) ==
  /\ flight[p] # NoFlight /\ flight[p].step \in {"sent", "got"}
  /\ Lands(p, "unsure", "unsure")
  /\ UNCHANGED <<sourceVars, entry, reader, unlooked, unsure, packager, misreads, late>>

NotesLate(p) == late' = IF p \in local THEN late \cup {p} ELSE late \ {p}

\* The 404 is kept.  It confirms to the leader alone, unless its watchdog was
\* faster: those that waited have no verdict in their own context.
FlightMisses(p) ==
  /\ flight[p] # NoFlight /\ flight[p].step = "answered404"
  /\ Adds(p) /\ NotesLate(p)
  /\ Lands(p, "confirmed", "unsure") \/ Lands(p, "unsure", "unsure")
  /\ UNCHANGED <<sourceVars, reader, unlooked, unsure, packager, misreads>>

FlightStores(p) ==
  /\ flight[p] # NoFlight /\ flight[p].step = "got"
  /\ local' = local \cup {p} /\ FlightGoes(p, "stored")
  /\ UNCHANGED <<atSource, always, entry, readVars, packager, misreads, late>>

\* A mistake: the entry stays.
FlightEndsKeeping(p) ==
  /\ flight[p] # NoFlight /\ flight[p].step = "stored"
  /\ Lands(p, "reread", "reread")
  /\ UNCHANGED <<sourceVars, entry, reader, unlooked, unsure, packager, misreads, late>>

\* The artifact is stored, and a 404 that was kept before it goes.
FlightEnds(p) ==
  /\ flight[p] # NoFlight /\ flight[p].step = "stored"
  /\ Removes(p) /\ Lands(p, "reread", "reread") /\ late' = late \ {p}
  /\ UNCHANGED <<sourceVars, reader, unlooked, unsure, packager, misreads>>

\* Everybody opens the copy, which may have been deleted by now.
AskAgain(r, p) ==
  /\ ask[r][p] = "reread"
  /\ AskGoes(r, p, IF p \in local THEN "found" ELSE "unsure")
  /\ UNCHANGED <<sourceVars, entry, reader, unlooked, unsure, flight, packager, misreads, late>>

-----------------------------------------------------------------------------
(* cacheNuGetProxyPackage, which fetches in a flight of its own.           *)

PackagerGoes(f, p, step) == packager' = [packager EXCEPT ![f][p] = step]

PackagerBegins(f, p) ==
  /\ packager[f][p] = "idle" /\ p \notin local
  /\ \A g \in Packagers : packager[g][p] = "idle"
  /\ PackagerGoes(f, p, "sent")
  /\ UNCHANGED <<sourceVars, entry, readVars, flight, misreads, late>>

PackagerAsks(f, p) ==
  /\ packager[f][p] = "sent"
  /\ \/ PackagerGoes(f, p, IF p \in atSource THEN "got" ELSE "answered404")
     \/ PackagerGoes(f, p, "idle")
  /\ UNCHANGED <<sourceVars, entry, readVars, flight, misreads, late>>

PackagerEnds(f, p) ==
  /\ \/ /\ packager[f][p] = "answered404" /\ Adds(p) /\ NotesLate(p)
        /\ PackagerGoes(f, p, "idle") /\ UNCHANGED local
     \/ /\ packager[f][p] = "got" /\ local' = local \cup {p}
        /\ PackagerGoes(f, p, "stored") /\ UNCHANGED <<entry, late>>
     \/ /\ packager[f][p] = "stored" /\ Removes(p) /\ late' = late \ {p}
        /\ PackagerGoes(f, p, "idle") /\ UNCHANGED local
  /\ UNCHANGED <<atSource, always, readVars, flight, misreads>>

-----------------------------------------------------------------------------
(* Publishing and deleting, here and at the upstreams.                     *)

Published(m) ==
  /\ m \notin atSource /\ atSource' = atSource \cup {m}
  /\ UNCHANGED <<local, always, entry, readVars, flight, packager, misreads, late>>

Withdrawn(m) ==
  /\ m \in atSource \ always /\ atSource' = atSource \ {m}
  /\ UNCHANGED <<local, always, entry, readVars, flight, packager, misreads, late>>

\* Delete of a cached copy.
CopyDeleted(p) ==
  /\ p \in local /\ local' = local \ {p}
  /\ Removes(p) /\ late' = late \ {p}
  /\ UNCHANGED <<atSource, always, readVars, flight, packager, misreads>>

-----------------------------------------------------------------------------

FlightStep(p) ==
  FlightAsks(p) \/ FlightFails(p) \/ FlightMisses(p) \/ FlightStores(p) \/ FlightEnds(p)

NegativeNext ==
  \/ \E k \in Proxies \cup {Group} : EntryAges(k) \/ EntryGoes(k)
  \/ \E r \in Readers :
       \/ ReadBegin(r) \/ ReadGivesUp(r) \/ ReadFork(r) \/ ReadSettle(r)
       \/ \E m \in Members : ReadLook(r, m)
       \/ \E p \in Proxies : ReadDirect(r, p) \/ AskEntry(r, p) \/ AskLocal(r, p) \/ AskAgain(r, p)
  \/ \E p \in Proxies :
       \/ FlightStep(p) \/ CopyDeleted(p)
       \/ \E f \in Packagers : PackagerBegins(f, p) \/ PackagerAsks(f, p) \/ PackagerEnds(f, p)
  \/ \E m \in Members : Published(m) \/ Withdrawn(m)

NegativeSpec == NegativeInit /\ [][NegativeNext]_negativeVars

-----------------------------------------------------------------------------
(* Properties.                                                             *)

\* Only a certain 404 is kept: neither a timeout, an error, a blocked or offline
\* proxy nor a cancelled or shared fetch ever hides an artifact that a member
\* has had all along.  A failing read of a hosted member does, see ReadLook.
NeverDenied ==
  /\ \A p \in Proxies \cap always : entry[p] = NoEntry
  /\ always # {} /\ misreads = 0 => entry[Group] = NoEntry

BeingStored(p) ==
  \/ flight[p] # NoFlight /\ flight[p].step = "stored"
  \/ \E f \in Packagers : packager[f][p] = "stored"

\* A cached copy is not hidden by an entry of its own repository, except by a
\* 404 that was on its way when the artifact came in by the other flight.
CopyIsSeen == \A p \in local : Live(p) => BeingStored(p) \/ p \in late

\* An artifact that a hosted member has got and keeps is served by the group in
\* the end, however often it was asked for before.
PublishedIsSeen == <>[](Hosted \in atSource) => <>[](~Live(Group))

\* Nothing that is there is hidden, be it upstream or a cached copy.
NothingHidden == NeverDenied /\ CopyIsSeen
==============================================================================
