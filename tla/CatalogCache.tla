---------------------------- MODULE CatalogCache ----------------------------
(***************************************************************************)
(* The models.dev catalog: its cache file, which previews, publications    *)
(* and model fetches of all processes refresh without a lock and through   *)
(* one temporary file, and what they do with it: look a model up and fill  *)
(* its entry (catalog/catalog.go, gateway/enrich.go, profile/fetch.go).    *)
(***************************************************************************)
EXTENDS Naturals, FiniteSets, Sequences

CONSTANTS
    Readers,    \* callers of Ensure: web handlers, CLI commands, TUIs
    Payloads,   \* what models.dev may serve: sets of listings
    Asked,      \* Asked[r]: the model r enriches, the providers it tries, its policies
    Entries,    \* entries before they are filled
    Values,     \* values a catalog or a user gives a field
    Missing, Blank, Garbled, NoFile, NoSnap,
    MaxCalls,   \* bound: calls of all readers together
    MaxDays,    \* bound: how often the cache gets older than its TTL
    MaxReleases \* bound: changes of what models.dev serves

Fields == {"name", "limit", "price", "reasoning"}
Entry  == [Fields -> Values \cup {"absent", "zero"}]
Policies == {"generated", "draft", "seed"}
Torn   == {Blank, Garbled}

ASSUME CatalogAssumption ==
    /\ \A r \in Readers : Asked[r].policies \subseteq Policies
    /\ {} \in Payloads
    /\ \A P \in Payloads : IsFiniteSet(P)
    /\ \A P \in Payloads : \A l \in P : l.meta \in [Fields -> Values \cup {"zero"}]
    /\ Entries \subseteq Entry /\ Entries # {}
    /\ ({Missing, Blank, Garbled, NoFile, NoSnap} \cap Payloads) = {}
    /\ Missing \notin Torn /\ NoFile \notin Torn
    /\ MaxCalls \in Nat /\ MaxDays \in Nat /\ MaxReleases \in Nat

VARIABLES
    live,       \* what models.dev serves now
    cache,      \* the cache file
    young,      \* it is less than 24 h old
    tmp,        \* the temporary file
    pc,         \* pc[r]: where r is
    policy,     \* policy[r]: how it fills the entry
    entry,      \* entry[r]: the model's entry, as r has it
    snap,       \* snap[r]: the catalog r has in memory
    holds,      \* holds[r]: which name its open file has by now
    outcome,    \* outcome[r]: what Ensure said of the catalog
    today,      \* history: catalogs served within the last 24 h
    kept,       \* history: a catalog with listings got into the cache
    crossed,    \* history: two refreshes had the temporary file at once
    filled,     \* filled[r]: the catalog and the policy of its last filling
    calls, days, releases

world  == <<live, cache, young, tmp>>
local  == <<pc, policy, entry, snap, holds, outcome>>
ghosts == <<today, kept, crossed, filled>>
bounds == <<calls, days, releases>>
vars   == <<world, local, ghosts, bounds>>

Init ==
    /\ live \in Payloads
    /\ cache \in Payloads \cup {Missing}
    /\ young = FALSE /\ tmp = NoFile
    /\ pc = [r \in Readers |-> "idle"]
    /\ policy = [r \in Readers |-> "seed"]
    /\ entry \in [Readers -> Entries]
    /\ snap = [r \in Readers |-> NoSnap]
    /\ holds = [r \in Readers |-> "none"]
    /\ outcome = [r \in Readers |-> "none"]
    /\ today = {live}
    /\ kept = (cache \notin {Missing, {}})
    /\ crossed = FALSE
    /\ filled = [r \in Readers |-> [from |-> NoSnap, policy |-> "seed"]]
    /\ calls = 0 /\ days = 0 /\ releases = 0

-----------------------------------------------------------------------------
\* Where a catalog lists the model: under a provider, and anywhere.
Under(P, provider, tail) == {l \in P : l.provider = provider /\ l.tail = tail}
Anywhere(P, tail)        == {l \in P : l.tail = tail}

\* byBare holds the first id of a tail (a mutant).
Unique_First(P, tail) == Anywhere(P, tail)

\* byBare: a tail that several ids share is not found.
Unique(P, tail) ==
    IF Cardinality(Anywhere(P, tail)) = 1 THEN Anywhere(P, tail) ELSE {}

\* The listings a lookup may end at: those under the first provider tried
\* that has any, or else the unique one.  Several only if one provider lists
\* ids with one tail; which of them byProviderBare keeps is up to a map walk.
Hits(P, id) ==
    LET named == {i \in DOMAIN id.providers : Under(P, id.providers[i], id.tail) # {}}
        first == CHOOSE i \in named : \A j \in named : i <= j
    IN  IF named # {} THEN Under(P, id.providers[first], id.tail) ELSE Unique(P, id.tail)

Twins(P) == \E l, k \in P : l # k /\ l.provider = k.provider /\ l.tail = k.tail

\* A zero limit and no price at all are gaps; a price of zero is a price.
FillMissing(e, m) ==
    LET gaps == {f \in Fields : e[f] = "absent" /\ (m[f] # "zero" \/ f = "reasoning")}
                \cup {f \in {"limit"} : e[f] = "zero" /\ m[f] # "zero"}
    IN  [f \in Fields |-> IF f \in gaps THEN m[f] ELSE e[f]]

\* What models.dev knows, except over a name.
FillOverwrite(e, m) ==
    LET known == {f \in Fields : m[f] # "zero" \/ f = "reasoning"}
        named == {f \in {"name"} : e[f] \notin {"absent", "zero"}}
    IN  [f \in Fields |-> IF f \in known \ named THEN m[f] ELSE e[f]]

\* A model just fetched takes the name, too.
Seeded(e, m) ==
    [f \in Fields |-> IF m[f] # "zero" \/ f = "reasoning" THEN m[f] ELSE e[f]]

Fill(how, e, m) ==
    CASE how = "draft" -> FillMissing(e, m)
      [] how = "generated" -> FillOverwrite(e, m)
      [] how = "seed" -> Seeded(e, m)

-----------------------------------------------------------------------------
Goto(r, step) == pc' = [pc EXCEPT ![r] = step]

\* The call is over: what it held in memory is gone.
Ends(r) ==
    /\ Goto(r, "idle")
    /\ snap' = [snap EXCEPT ![r] = NoSnap]
    /\ policy' = [policy EXCEPT ![r] = "seed"]
    /\ outcome' = [outcome EXCEPT ![r] = "none"]
    /\ holds' = [holds EXCEPT ![r] = "none"]

\* A preview or a publication, generated or of a draft, takes the entry up
\* again; fetch-models starts from a bare id.
Begin(r) ==
    /\ pc[r] = "idle" /\ calls < MaxCalls /\ calls' = calls + 1
    /\ \E how \in Asked[r].policies :
          /\ policy' = [policy EXCEPT ![r] = how]
          /\ IF how = "seed"
             THEN /\ entry' = [entry EXCEPT ![r] = [f \in Fields |-> "absent"]]
                  /\ filled' = [filled EXCEPT ![r].from = NoSnap]
             ELSE UNCHANGED <<entry, filled>>
    /\ Goto(r, "stat")
    /\ UNCHANGED <<world, snap, holds, outcome, today, kept, crossed, days, releases>>

\* Any cache will do (a mutant).
Stat_AnyAge(r) ==
    /\ pc[r] = "stat"
    /\ Goto(r, IF cache # Missing THEN "read" ELSE "fetch")
    /\ UNCHANGED <<world, policy, entry, snap, holds, outcome, ghosts, bounds>>

Stat(r) ==
    /\ pc[r] = "stat"
    /\ Goto(r, IF cache # Missing /\ young THEN "read" ELSE "fetch")
    /\ UNCHANGED <<world, policy, entry, snap, holds, outcome, ghosts, bounds>>

\* A cache that does not parse is as good as none.
ReadCache(r) ==
    /\ pc[r] = "read"
    /\ IF cache \in Payloads
       THEN /\ snap' = [snap EXCEPT ![r] = cache]
            /\ outcome' = [outcome EXCEPT ![r] = "current"]
            /\ Goto(r, "enrich")
       ELSE Goto(r, "fetch") /\ UNCHANGED <<snap, outcome>>
    /\ UNCHANGED <<world, policy, entry, holds, ghosts, bounds>>

\* models.dev answers 2xx with a whole payload.
Fetched(r) ==
    /\ pc[r] = "fetch"
    /\ snap' = [snap EXCEPT ![r] = live]
    /\ outcome' = [outcome EXCEPT ![r] = "current"]
    /\ Goto(r, "open")
    /\ UNCHANGED <<world, policy, entry, holds, ghosts, bounds>>

\* No answer within 15 s, another status, a body that is no catalog.
FetchFails(r) ==
    /\ pc[r] = "fetch"
    /\ Goto(r, "fallback")
    /\ UNCHANGED <<world, policy, entry, snap, holds, outcome, ghosts, bounds>>

\* The cache itself is opened and emptied (a mutant).
OpenTemp_InPlace(r) ==
    /\ pc[r] = "open"
    /\ cache' = Blank
    /\ holds' = [holds EXCEPT ![r] = "cache"]
    /\ Goto(r, "write")
    /\ UNCHANGED <<live, young, tmp, policy, entry, snap, outcome, ghosts, bounds>>

\* os.WriteFile creates the temporary file or empties the one that is there.
OpenTemp(r) ==
    /\ pc[r] = "open"
    /\ tmp' = Blank
    /\ holds' = [holds EXCEPT ![r] = "tmp"]
    /\ crossed' = (crossed \/ \E q \in Readers \ {r} : pc[q] \in {"write", "rename"})
    /\ Goto(r, "write")
    /\ UNCHANGED <<live, cache, young, policy, entry, snap, outcome, today, kept, filled, bounds>>

\* Over an empty file this is the payload; over a longer one its end stays.
Written(r, before) == {snap[r]} \cup IF before = Blank THEN {} ELSE {Garbled}

\* Into the file it opened, whatever its name is by now.
WriteTemp(r) ==
    /\ pc[r] = "write"
    /\ IF holds[r] = "tmp" THEN tmp' \in Written(r, tmp) ELSE UNCHANGED tmp
    /\ IF holds[r] = "cache" THEN cache' \in Written(r, cache) ELSE UNCHANGED cache
    /\ young' = (young \/ holds[r] = "cache")
    /\ holds' = [holds EXCEPT ![r] = "none"]
    /\ Goto(r, "rename")
    /\ UNCHANGED <<live, policy, entry, snap, outcome, ghosts, bounds>>

\* Another file gets the name of the cache; open files keep theirs.
Replaced(held) == IF held = "tmp" THEN "cache" ELSE IF held = "cache" THEN "gone" ELSE held

\* os.Rename of whatever has the temporary name; its error is dropped.
Rename(r) ==
    /\ pc[r] = "rename"
    /\ Goto(r, "enrich")
    /\ tmp' = NoFile
    /\ IF tmp = NoFile
       THEN UNCHANGED <<cache, young, holds, kept>>
       ELSE /\ cache' = tmp /\ young' = TRUE
            /\ holds' = [q \in Readers |-> Replaced(holds[q])]
            /\ kept' = (tmp # {})
    /\ UNCHANGED <<live, policy, entry, snap, outcome, today, crossed, filled, bounds>>

\* The directory or the disk refuses the temporary file; that is ignored.
CacheRefused(r) ==
    /\ pc[r] \in {"open", "write"}
    /\ holds' = [holds EXCEPT ![r] = "none"]
    /\ Goto(r, "enrich")
    /\ UNCHANGED <<world, policy, entry, snap, outcome, ghosts, bounds>>

\* The old cache, if it has listings; else nothing, and a warning.
Fallback(r) ==
    /\ pc[r] = "fallback"
    /\ LET usable == cache \in Payloads \ {{}}
       IN  /\ snap' = [snap EXCEPT ![r] = IF usable THEN cache ELSE {}]
           /\ outcome' = [outcome EXCEPT ![r] = IF usable THEN "stale" ELSE "unavailable"]
    /\ Goto(r, "enrich")
    /\ UNCHANGED <<world, policy, entry, holds, ghosts, bounds>>

\* The entry is filled from a listing found, or left alone.
Enrich(r) ==
    /\ pc[r] = "enrich"
    /\ LET hits == Hits(snap[r], Asked[r])
       IN  IF hits = {} THEN UNCHANGED entry
           ELSE \E l \in hits : entry' = [entry EXCEPT ![r] = Fill(policy[r], entry[r], l.meta)]
    /\ filled' = [filled EXCEPT ![r] = [from |-> snap[r], policy |-> policy[r]]]
    /\ Ends(r)
    /\ UNCHANGED <<world, today, kept, crossed, bounds>>

\* A CLI command is killed, a temporary file stays as it is.
Stops(r) ==
    /\ pc[r] # "idle"
    /\ Ends(r)
    /\ UNCHANGED <<world, entry, ghosts, bounds>>

\* models.dev changes.
Release ==
    /\ releases < MaxReleases /\ releases' = releases + 1
    /\ live' \in Payloads
    /\ today' = today \cup {live'}
    /\ UNCHANGED <<cache, young, tmp, local, kept, crossed, filled, calls, days>>

\* 24 h without a refresh.  A call is over in far less.
DayPasses ==
    /\ days < MaxDays /\ days' = days + 1
    /\ \A r \in Readers : pc[r] = "idle"
    /\ young' = FALSE
    /\ today' = {live}
    /\ UNCHANGED <<live, cache, tmp, local, kept, crossed, filled, calls, releases>>

Next ==
    \/ \E r \in Readers :
          \/ Begin(r) \/ Stat(r) \/ ReadCache(r) \/ Fetched(r) \/ FetchFails(r)
          \/ OpenTemp(r) \/ WriteTemp(r) \/ Rename(r) \/ CacheRefused(r)
          \/ Fallback(r) \/ Enrich(r) \/ Stops(r)
    \/ Release \/ DayPasses

Spec == Init /\ [][Next]_vars

-----------------------------------------------------------------------------
TypeOK ==
    /\ live \in Payloads /\ cache \in Payloads \cup Torn \cup {Missing}
    /\ young \in BOOLEAN /\ tmp \in Payloads \cup Torn \cup {NoFile}
    /\ pc \in [Readers -> {"idle", "stat", "read", "fetch", "open", "write",
                           "rename", "fallback", "enrich"}]
    /\ policy \in [Readers -> Policies]
    /\ entry \in [Readers -> Entry]
    /\ snap \in [Readers -> Payloads \cup {NoSnap}]
    /\ holds \in [Readers -> {"none", "tmp", "cache", "gone"}]
    /\ outcome \in [Readers -> {"none", "current", "stale", "unavailable"}]
    /\ today \subseteq Payloads /\ kept \in BOOLEAN /\ crossed \in BOOLEAN
    /\ filled \in [Readers -> [from : Payloads \cup {NoSnap}, policy : Policies]]
    /\ calls \in 0 .. MaxCalls /\ days \in 0 .. MaxDays /\ releases \in 0 .. MaxReleases

(* Once a catalog with listings is in the cache, no failure to refresh it   *)
(* leaves a caller without one ("refresh failure falls back to stale cache, *)
(* no cache at all yields an empty snapshot", catalog.go:474), whoever was  *)
(* killed in the middle of a refresh; except after two refreshes had the    *)
(* temporary file at once, or models.dev served a catalog without listings. *)
OldCacheServes ==
    [][\A r \in Readers :
          Fallback(r) /\ outcome'[r] = "unavailable" => ~kept \/ crossed]_vars

(* What Ensure does not call stale is a catalog models.dev served within    *)
(* the last 24 h (catalog.go:23), whether it was fetched, read from the     *)
(* cache, or put there by a refresh that another one overtook.              *)
CurrentIsRecent ==
    \A r \in Readers : outcome[r] = "current" /\ pc[r] = "enrich" => snap[r] \in today

(* Enriching what was enriched from the same catalog changes nothing, when  *)
(* the policy is the same or the proposal came back as a draft: what is     *)
(* pending after a publication converges (catalog.go:220, "missing ids      *)
(* simply miss - never mismatch", catalog.go:79), unless one provider lists *)
(* two ids with one tail.                                                   *)
SameCatalogSameEntry ==
    [][\A r \in Readers :
          Enrich(r) /\ filled[r].from = snap[r] /\ ~Twins(snap[r])
              /\ policy[r] \in {filled[r].policy, "draft"}
          => entry' = entry]_vars
=============================================================================
