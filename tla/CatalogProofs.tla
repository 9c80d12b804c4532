---------------------------- MODULE CatalogProofs ----------------------------
(* Theorems about CatalogCache for every set of readers and payloads.       *)
EXTENDS CatalogCache, FiniteSetTheorems, TLAPS

Writing == {"write", "rename"}

\* What a reader has in memory once it has a catalog.
InMemory ==
    /\ live \in today
    /\ \A r \in Readers :
           /\ pc[r] \in {"open", "write", "rename", "enrich"} => snap[r] \in Payloads
           /\ pc[r] \in {"open", "write", "rename"} =>
                 snap[r] \in today /\ outcome[r] = "current"
           /\ pc[r] = "enrich" /\ outcome[r] = "current" => snap[r] \in today
           /\ pc[r] # "write" => holds[r] = "none"

\* A young cache and a temporary file in use hold what was served of late.
FilesRecent ==
    /\ young => cache \in today \cup Torn
    /\ \A r \in Readers :
        /\ pc[r] = "read" => young
        /\ pc[r] \in Writing => tmp \in today \cup Torn \cup {NoFile}

\* While no two refreshes have met, each has the temporary file to itself.
TempOwned ==
    ~crossed =>
        \A r \in Readers :
            /\ pc[r] \in Writing => \A q \in Readers \ {r} : pc[q] \notin Writing
            /\ pc[r] = "write" => holds[r] = "tmp" /\ tmp = Blank
            /\ pc[r] = "rename" => tmp = snap[r]

CacheKept == kept /\ ~crossed => cache \in Payloads \ {{}}

IInv == TypeOK /\ InMemory /\ FilesRecent /\ TempOwned /\ CacheKept

-----------------------------------------------------------------------------
\* A lookup ends at a listing of the catalog, if anywhere.
LEMMA HitsAreListed ==
    ASSUME NEW P, NEW id
    PROVE  Hits(P, id) \subseteq P
  BY DEF Hits, Under, Unique, Anywhere

\* Whatever the policy, what is filled is an entry.
LEMMA FillType ==
    ASSUME NEW how \in Policies, NEW e \in Entry,
           NEW m \in [Fields -> Values \cup {"zero"}]
    PROVE  Fill(how, e, m) \in Entry
<1>1. FillMissing(e, m) \in Entry
  BY DEF FillMissing, Entry
<1>2. FillOverwrite(e, m) \in Entry
  BY DEF FillOverwrite, Entry
<1>3. Seeded(e, m) \in Entry
  BY DEF Seeded, Entry
<1> QED
  BY <1>1, <1>2, <1>3 DEF Fill, Policies

LEMMA InitInv == Init => IInv
<1> SUFFICES ASSUME Init PROVE IInv
  OBVIOUS
<1>1. TypeOK
  <2>1. /\ live \in Payloads /\ cache \in Payloads \cup Torn \cup {Missing}
        /\ young \in BOOLEAN /\ tmp \in Payloads \cup Torn \cup {NoFile}
    BY CatalogAssumption DEF TypeOK, Init, Torn
  <2>2. /\ pc \in [Readers -> {"idle", "stat", "read", "fetch", "open", "write",
                               "rename", "fallback", "enrich"}]
        /\ policy \in [Readers -> Policies] /\ entry \in [Readers -> Entry]
    BY CatalogAssumption DEF TypeOK, Init, Torn, Policies
  <2>3. /\ snap \in [Readers -> Payloads \cup {NoSnap}]
        /\ holds \in [Readers -> {"none", "tmp", "cache", "gone"}]
        /\ outcome \in [Readers -> {"none", "current", "stale", "unavailable"}]
    BY CatalogAssumption DEF TypeOK, InMemory, Init, Torn
  <2>4. /\ today \subseteq Payloads /\ kept \in BOOLEAN /\ crossed \in BOOLEAN
        /\ filled \in [Readers -> [from : Payloads \cup {NoSnap}, policy : Policies]]
    BY CatalogAssumption DEF TypeOK, InMemory, Init, Torn, Policies
  <2>5. /\ calls \in 0 .. MaxCalls /\ days \in 0 .. MaxDays
        /\ releases \in 0 .. MaxReleases
    BY CatalogAssumption DEF TypeOK, Init, Torn
  <2> QED
    BY <2>1, <2>2, <2>3, <2>4, <2>5 DEF TypeOK
<1>2. InMemory /\ FilesRecent /\ TempOwned
  BY DEF Init, InMemory, FilesRecent, TempOwned, Writing
<1>3. CacheKept
  BY DEF Init, CacheKept
<1> QED
  BY <1>1, <1>2, <1>3 DEF IInv

LEMMA BeginInv ==
    ASSUME IInv, NEW r \in Readers, Begin(r)
    PROVE  IInv'
<1> USE DEF IInv
<1>1. TypeOK'
  <2>1. /\ live' \in Payloads /\ cache' \in Payloads \cup Torn \cup {Missing}
        /\ young' \in BOOLEAN /\ tmp' \in Payloads \cup Torn \cup {NoFile}
    BY CatalogAssumption DEF TypeOK, Begin, Goto, world, local, ghosts, bounds, Torn
  <2>2. /\ pc' \in [Readers -> {"idle", "stat", "read", "fetch", "open", "write",
                               "rename", "fallback", "enrich"}]
        /\ policy' \in [Readers -> Policies]
    BY CatalogAssumption DEF TypeOK, Begin, Goto
  <2>6. entry' \in [Readers -> Entry]
    <3>1. [f \in Fields |-> "absent"] \in Entry
      BY DEF Entry
    <3> QED
      BY <3>1 DEF TypeOK, Begin
  <2>3. /\ snap' \in [Readers -> Payloads \cup {NoSnap}]
        /\ holds' \in [Readers -> {"none", "tmp", "cache", "gone"}]
        /\ outcome' \in [Readers -> {"none", "current", "stale", "unavailable"}]
    BY CatalogAssumption DEF TypeOK, InMemory, Begin, Goto, world, local, ghosts, bounds, Torn
  <2>4. /\ today' \subseteq Payloads /\ kept' \in BOOLEAN /\ crossed' \in BOOLEAN
        /\ filled' \in [Readers -> [from : Payloads \cup {NoSnap}, policy : Policies]]
    <3>1. [filled[r] EXCEPT !.from = NoSnap] \in [from : Payloads \cup {NoSnap}, policy : Policies]
      BY DEF TypeOK
    <3>2. filled' \in {filled, [filled EXCEPT ![r] = [filled[r] EXCEPT !.from = NoSnap]]}
      BY DEF Begin, TypeOK
    <3> QED
      BY <3>1, <3>2 DEF TypeOK, Begin
  <2>5. /\ calls' \in 0 .. MaxCalls /\ days' \in 0 .. MaxDays
        /\ releases' \in 0 .. MaxReleases
    BY CatalogAssumption DEF TypeOK, Begin, Goto, world, local, ghosts, bounds, Torn
  <2> QED
    BY <2>1, <2>2, <2>3, <2>4, <2>5, <2>6 DEF TypeOK
<1>2. InMemory'
  BY CatalogAssumption DEF TypeOK, InMemory, Begin, Goto, world, local, ghosts, bounds
<1>3. FilesRecent'
  BY CatalogAssumption DEF TypeOK, InMemory, FilesRecent, Begin, Goto, Writing, Torn, world,
     local, ghosts, bounds
<1>4. TempOwned'
  BY CatalogAssumption DEF TypeOK, InMemory, TempOwned, Begin, Goto, Writing, Torn, world, local,
     ghosts, bounds
<1>5. CacheKept'
  BY CatalogAssumption DEF TypeOK, InMemory, TempOwned, CacheKept, Begin, Goto, Writing, world,
     local, ghosts, bounds
<1> QED
  BY <1>1, <1>2, <1>3, <1>4, <1>5

LEMMA StatInv ==
    ASSUME IInv, NEW r \in Readers, Stat(r)
    PROVE  IInv'
<1> USE DEF IInv
<1>1. TypeOK'
  BY CatalogAssumption DEF TypeOK, Stat, Goto, world, local, ghosts, bounds, Torn
<1>2. InMemory'
  BY CatalogAssumption DEF TypeOK, InMemory, Stat, Goto, world, local, ghosts, bounds
<1>3. FilesRecent'
  BY CatalogAssumption DEF TypeOK, InMemory, FilesRecent, Stat, Goto, Writing, Torn, world, local,
     ghosts, bounds
<1>4. TempOwned'
  BY CatalogAssumption DEF TypeOK, InMemory, TempOwned, Stat, Goto, Writing, Torn, world, local,
     ghosts, bounds
<1>5. CacheKept'
  BY CatalogAssumption DEF TypeOK, InMemory, TempOwned, CacheKept, Stat, Goto, Writing, world,
     local, ghosts, bounds
<1> QED
  BY <1>1, <1>2, <1>3, <1>4, <1>5

LEMMA ReadCacheInv ==
    ASSUME IInv, NEW r \in Readers, ReadCache(r)
    PROVE  IInv'
<1> USE DEF IInv
<1>1. TypeOK'
  <2>1. /\ live' \in Payloads /\ cache' \in Payloads \cup Torn \cup {Missing}
        /\ young' \in BOOLEAN /\ tmp' \in Payloads \cup Torn \cup {NoFile}
    BY CatalogAssumption DEF TypeOK, ReadCache, Goto, world, local, ghosts, bounds, Torn
  <2>2. /\ pc' \in [Readers -> {"idle", "stat", "read", "fetch", "open", "write",
                               "rename", "fallback", "enrich"}]
        /\ policy' \in [Readers -> Policies] /\ entry' \in [Readers -> Entry]
    BY CatalogAssumption DEF TypeOK, ReadCache, Goto, world, local, ghosts, bounds, Torn, Policies
  <2>3. /\ snap' \in [Readers -> Payloads \cup {NoSnap}]
        /\ holds' \in [Readers -> {"none", "tmp", "cache", "gone"}]
        /\ outcome' \in [Readers -> {"none", "current", "stale", "unavailable"}]
    <3>1. CASE cache \in Payloads
      BY <3>1 DEF TypeOK, ReadCache
    <3>2. CASE cache \notin Payloads
      BY <3>2 DEF TypeOK, ReadCache
    <3> QED
      BY <3>1, <3>2
  <2>4. /\ today' \subseteq Payloads /\ kept' \in BOOLEAN /\ crossed' \in BOOLEAN
        /\ filled' \in [Readers -> [from : Payloads \cup {NoSnap}, policy : Policies]]
    BY CatalogAssumption DEF TypeOK, InMemory, ReadCache, Goto, world, local, ghosts, bounds,
       Torn, Policies
  <2>5. /\ calls' \in 0 .. MaxCalls /\ days' \in 0 .. MaxDays
        /\ releases' \in 0 .. MaxReleases
    BY CatalogAssumption DEF TypeOK, ReadCache, Goto, world, local, ghosts, bounds, Torn
  <2> QED
    BY <2>1, <2>2, <2>3, <2>4, <2>5 DEF TypeOK
<1>2. InMemory'
  <2>1. CASE cache \in Payloads
    <3>1. cache \in today
      BY <2>1, CatalogAssumption DEF FilesRecent, ReadCache, Torn
    <3> QED
      BY <2>1, <3>1 DEF TypeOK, InMemory, ReadCache, Goto, world, ghosts
  <2>2. CASE cache \notin Payloads
    BY <2>2 DEF TypeOK, InMemory, ReadCache, Goto, world, ghosts
  <2> QED
    BY <2>1, <2>2
<1>3. FilesRecent'
  BY CatalogAssumption DEF TypeOK, InMemory, FilesRecent, ReadCache, Goto, Writing, Torn, world,
     local, ghosts, bounds
<1>4. TempOwned'
  BY CatalogAssumption DEF TypeOK, InMemory, TempOwned, ReadCache, Goto, Writing, Torn, world,
     local, ghosts, bounds
<1>5. CacheKept'
  BY CatalogAssumption DEF TypeOK, InMemory, TempOwned, CacheKept, ReadCache, Goto, Writing,
     world, local, ghosts, bounds
<1> QED
  BY <1>1, <1>2, <1>3, <1>4, <1>5

LEMMA FetchedInv ==
    ASSUME IInv, NEW r \in Readers, Fetched(r)
    PROVE  IInv'
<1> USE DEF IInv
<1>1. TypeOK'
  BY CatalogAssumption DEF TypeOK, Fetched, Goto, world, local, ghosts, bounds, Torn
<1>2. InMemory'
  BY CatalogAssumption DEF TypeOK, InMemory, Fetched, Goto, world, local, ghosts, bounds
<1>3. FilesRecent'
  BY CatalogAssumption DEF TypeOK, InMemory, FilesRecent, Fetched, Goto, Writing, Torn, world,
     local, ghosts, bounds
<1>4. TempOwned'
  BY CatalogAssumption DEF TypeOK, InMemory, TempOwned, Fetched, Goto, Writing, Torn, world,
     local, ghosts, bounds
<1>5. CacheKept'
  BY CatalogAssumption DEF TypeOK, InMemory, TempOwned, CacheKept, Fetched, Goto, Writing, world,
     local, ghosts, bounds
<1> QED
  BY <1>1, <1>2, <1>3, <1>4, <1>5

LEMMA FetchFailsInv ==
    ASSUME IInv, NEW r \in Readers, FetchFails(r)
    PROVE  IInv'
<1> USE DEF IInv
<1>1. TypeOK'
  BY CatalogAssumption DEF TypeOK, FetchFails, Goto, world, local, ghosts, bounds, Torn
<1>2. InMemory'
  BY CatalogAssumption DEF TypeOK, InMemory, FetchFails, Goto, world, local, ghosts, bounds
<1>3. FilesRecent'
  BY CatalogAssumption DEF TypeOK, InMemory, FilesRecent, FetchFails, Goto, Writing, Torn, world,
     local, ghosts, bounds
<1>4. TempOwned'
  BY CatalogAssumption DEF TypeOK, InMemory, TempOwned, FetchFails, Goto, Writing, Torn, world,
     local, ghosts, bounds
<1>5. CacheKept'
  BY CatalogAssumption DEF TypeOK, InMemory, TempOwned, CacheKept, FetchFails, Goto, Writing,
     world, local, ghosts, bounds
<1> QED
  BY <1>1, <1>2, <1>3, <1>4, <1>5

LEMMA OpenTempInv ==
    ASSUME IInv, NEW r \in Readers, OpenTemp(r)
    PROVE  IInv'
<1> USE DEF IInv
<1>1. TypeOK'
  BY CatalogAssumption DEF TypeOK, OpenTemp, Goto, world, local, ghosts, bounds, Torn
<1>2. InMemory'
  BY CatalogAssumption DEF TypeOK, InMemory, OpenTemp, Goto, world, local, ghosts, bounds
<1>3. FilesRecent'
  BY CatalogAssumption DEF TypeOK, InMemory, FilesRecent, OpenTemp, Goto, Writing, Torn, world,
     local, ghosts, bounds
<1>4. TempOwned'
  BY CatalogAssumption DEF TypeOK, InMemory, TempOwned, OpenTemp, Goto, Writing, Torn, world,
     local, ghosts, bounds
<1>5. CacheKept'
  BY CatalogAssumption DEF TypeOK, InMemory, TempOwned, CacheKept, OpenTemp, Goto, Writing, world,
     local, ghosts, bounds
<1> QED
  BY <1>1, <1>2, <1>3, <1>4, <1>5

LEMMA WriteTempInv ==
    ASSUME IInv, NEW r \in Readers, WriteTemp(r)
    PROVE  IInv'
<1> USE DEF IInv
<1>1. TypeOK'
  <2>1. /\ live' \in Payloads /\ cache' \in Payloads \cup Torn \cup {Missing}
        /\ young' \in BOOLEAN /\ tmp' \in Payloads \cup Torn \cup {NoFile}
    <3>1. snap[r] \in Payloads
      BY DEF InMemory, WriteTemp
    <3>2. tmp' \in Payloads \cup Torn \cup {NoFile}
      BY <3>1 DEF TypeOK, WriteTemp, Written, Torn
    <3>3. cache' \in Payloads \cup Torn \cup {Missing}
      BY <3>1 DEF TypeOK, WriteTemp, Written, Torn
    <3> QED
      BY <3>2, <3>3 DEF TypeOK, WriteTemp
  <2>2. /\ pc' \in [Readers -> {"idle", "stat", "read", "fetch", "open", "write",
                               "rename", "fallback", "enrich"}]
        /\ policy' \in [Readers -> Policies] /\ entry' \in [Readers -> Entry]
    BY CatalogAssumption DEF TypeOK, WriteTemp, Goto, world, local, ghosts, bounds, Torn, Written,
       Replaced, Policies
  <2>3. /\ snap' \in [Readers -> Payloads \cup {NoSnap}]
        /\ holds' \in [Readers -> {"none", "tmp", "cache", "gone"}]
        /\ outcome' \in [Readers -> {"none", "current", "stale", "unavailable"}]
    BY CatalogAssumption DEF TypeOK, InMemory, WriteTemp, Goto, world, local, ghosts, bounds,
       Torn, Written, Replaced
  <2>4. /\ today' \subseteq Payloads /\ kept' \in BOOLEAN /\ crossed' \in BOOLEAN
        /\ filled' \in [Readers -> [from : Payloads \cup {NoSnap}, policy : Policies]]
    BY CatalogAssumption DEF TypeOK, InMemory, WriteTemp, Goto, world, local, ghosts, bounds,
       Torn, Written, Replaced, Policies
  <2>5. /\ calls' \in 0 .. MaxCalls /\ days' \in 0 .. MaxDays
        /\ releases' \in 0 .. MaxReleases
    BY CatalogAssumption DEF TypeOK, WriteTemp, Goto, world, local, ghosts, bounds, Torn, Written,
       Replaced
  <2> QED
    BY <2>1, <2>2, <2>3, <2>4, <2>5 DEF TypeOK
<1>2. InMemory'
  BY CatalogAssumption DEF TypeOK, InMemory, WriteTemp, Goto, world, local, ghosts, bounds
<1>3. FilesRecent'
  BY CatalogAssumption DEF TypeOK, InMemory, FilesRecent, WriteTemp, Written, Goto, Writing, Torn,
     world, local, ghosts, bounds
<1>4. TempOwned'
  BY CatalogAssumption DEF TypeOK, InMemory, TempOwned, WriteTemp, Written, Goto, Writing, Torn,
     world, local, ghosts, bounds
<1>5. CacheKept'
  BY CatalogAssumption DEF TypeOK, InMemory, TempOwned, CacheKept, WriteTemp, Written, Goto,
     Writing, world, local, ghosts, bounds
<1> QED
  BY <1>1, <1>2, <1>3, <1>4, <1>5

LEMMA RenameInv ==
    ASSUME IInv, NEW r \in Readers, Rename(r)
    PROVE  IInv'
<1> USE DEF IInv
<1>1. TypeOK'
  <2>1. /\ live' \in Payloads /\ cache' \in Payloads \cup Torn \cup {Missing}
        /\ young' \in BOOLEAN /\ tmp' \in Payloads \cup Torn \cup {NoFile}
    BY CatalogAssumption DEF TypeOK, Rename, Goto, world, local, ghosts, bounds, Torn, Written,
       Replaced
  <2>2. /\ pc' \in [Readers -> {"idle", "stat", "read", "fetch", "open", "write",
                               "rename", "fallback", "enrich"}]
        /\ policy' \in [Readers -> Policies] /\ entry' \in [Readers -> Entry]
    BY CatalogAssumption DEF TypeOK, Rename, Goto, world, local, ghosts, bounds, Torn, Written,
       Replaced, Policies
  <2>3. /\ snap' \in [Readers -> Payloads \cup {NoSnap}]
        /\ holds' \in [Readers -> {"none", "tmp", "cache", "gone"}]
        /\ outcome' \in [Readers -> {"none", "current", "stale", "unavailable"}]
    BY CatalogAssumption DEF TypeOK, InMemory, Rename, Goto, world, local, ghosts, bounds, Torn,
       Written, Replaced
  <2>4. /\ today' \subseteq Payloads /\ kept' \in BOOLEAN /\ crossed' \in BOOLEAN
        /\ filled' \in [Readers -> [from : Payloads \cup {NoSnap}, policy : Policies]]
    BY CatalogAssumption DEF TypeOK, InMemory, Rename, Goto, world, local, ghosts, bounds, Torn,
       Written, Replaced, Policies
  <2>5. /\ calls' \in 0 .. MaxCalls /\ days' \in 0 .. MaxDays
        /\ releases' \in 0 .. MaxReleases
    BY CatalogAssumption DEF TypeOK, Rename, Goto, world, local, ghosts, bounds, Torn, Written,
       Replaced
  <2> QED
    BY <2>1, <2>2, <2>3, <2>4, <2>5 DEF TypeOK
<1>2. InMemory'
  BY CatalogAssumption DEF TypeOK, InMemory, Rename, Replaced, Goto, world, local, ghosts, bounds
<1>3. FilesRecent'
  BY CatalogAssumption DEF TypeOK, InMemory, FilesRecent, Rename, Goto, Writing, Torn, world,
     local, ghosts, bounds
<1>4. TempOwned'
  BY CatalogAssumption DEF TypeOK, InMemory, TempOwned, Rename, Goto, Writing, Torn, world, local,
     ghosts, bounds
<1>5. CacheKept'
  <2> SUFFICES ASSUME kept', ~crossed' PROVE cache' \in Payloads \ {{}}
    BY DEF CacheKept
  <2>1. tmp = snap[r] /\ snap[r] \in Payloads /\ tmp # NoFile
    BY CatalogAssumption DEF InMemory, TempOwned, Rename, Writing
  <2>2. cache' = tmp /\ kept' = (tmp # {})
    BY <2>1 DEF Rename
  <2> QED
    BY <2>1, <2>2
<1> QED
  BY <1>1, <1>2, <1>3, <1>4, <1>5

LEMMA CacheRefusedInv ==
    ASSUME IInv, NEW r \in Readers, CacheRefused(r)
    PROVE  IInv'
<1> USE DEF IInv
<1>1. TypeOK'
  BY CatalogAssumption DEF TypeOK, CacheRefused, Goto, world, local, ghosts, bounds, Torn
<1>2. InMemory'
  BY CatalogAssumption DEF TypeOK, InMemory, CacheRefused, Goto, world, local, ghosts, bounds
<1>3. FilesRecent'
  BY CatalogAssumption DEF TypeOK, InMemory, FilesRecent, CacheRefused, Goto, Writing, Torn,
     world, local, ghosts, bounds
<1>4. TempOwned'
  BY CatalogAssumption DEF TypeOK, InMemory, TempOwned, CacheRefused, Goto, Writing, Torn, world,
     local, ghosts, bounds
<1>5. CacheKept'
  BY CatalogAssumption DEF TypeOK, InMemory, TempOwned, CacheKept, CacheRefused, Goto, Writing,
     world, local, ghosts, bounds
<1> QED
  BY <1>1, <1>2, <1>3, <1>4, <1>5

LEMMA FallbackInv ==
    ASSUME IInv, NEW r \in Readers, Fallback(r)
    PROVE  IInv'
<1> USE DEF IInv
<1>1. TypeOK'
  BY CatalogAssumption DEF TypeOK, Fallback, Goto, world, local, ghosts, bounds, Torn
<1>2. InMemory'
  BY CatalogAssumption DEF TypeOK, InMemory, Fallback, Goto, world, local, ghosts, bounds
<1>3. FilesRecent'
  BY CatalogAssumption DEF TypeOK, InMemory, FilesRecent, Fallback, Goto, Writing, Torn, world,
     local, ghosts, bounds
<1>4. TempOwned'
  BY CatalogAssumption DEF TypeOK, InMemory, TempOwned, Fallback, Goto, Writing, Torn, world,
     local, ghosts, bounds
<1>5. CacheKept'
  BY CatalogAssumption DEF TypeOK, InMemory, TempOwned, CacheKept, Fallback, Goto, Writing, world,
     local, ghosts, bounds
<1> QED
  BY <1>1, <1>2, <1>3, <1>4, <1>5

LEMMA EnrichInv ==
    ASSUME IInv, NEW r \in Readers, Enrich(r)
    PROVE  IInv'
<1> USE DEF IInv
<1>1. TypeOK'
  <2>1. /\ live' \in Payloads /\ cache' \in Payloads \cup Torn \cup {Missing}
        /\ young' \in BOOLEAN /\ tmp' \in Payloads \cup Torn \cup {NoFile}
    BY CatalogAssumption DEF TypeOK, Enrich, Ends, Goto, world, local, ghosts, bounds, Torn
  <2>2. /\ pc' \in [Readers -> {"idle", "stat", "read", "fetch", "open", "write",
                               "rename", "fallback", "enrich"}]
        /\ policy' \in [Readers -> Policies]
    BY DEF TypeOK, Enrich, Ends, Goto, Policies
  <2>6. entry' \in [Readers -> Entry]
    <3>1. CASE UNCHANGED entry
      BY <3>1 DEF TypeOK
    <3>2. CASE \E l \in Hits(snap[r], Asked[r]) :
                  entry' = [entry EXCEPT ![r] = Fill(policy[r], entry[r], l.meta)]
      <4>1. PICK l \in Hits(snap[r], Asked[r]) :
                  entry' = [entry EXCEPT ![r] = Fill(policy[r], entry[r], l.meta)]
        BY <3>2
      <4>2. snap[r] \in Payloads /\ l \in snap[r]
        BY HitsAreListed DEF InMemory, Enrich
      <4>3. l.meta \in [Fields -> Values \cup {"zero"}]
        BY <4>2, CatalogAssumption
      <4>4. Fill(policy[r], entry[r], l.meta) \in Entry
        BY <4>3, FillType DEF TypeOK
      <4> QED
        BY <4>1, <4>4 DEF TypeOK
    <3> QED
      BY <3>1, <3>2 DEF Enrich
  <2>3. /\ snap' \in [Readers -> Payloads \cup {NoSnap}]
        /\ holds' \in [Readers -> {"none", "tmp", "cache", "gone"}]
        /\ outcome' \in [Readers -> {"none", "current", "stale", "unavailable"}]
    BY CatalogAssumption DEF TypeOK, InMemory, Enrich, Ends, Goto, world, local, ghosts, bounds,
       Torn
  <2>4. /\ today' \subseteq Payloads /\ kept' \in BOOLEAN /\ crossed' \in BOOLEAN
        /\ filled' \in [Readers -> [from : Payloads \cup {NoSnap}, policy : Policies]]
    BY CatalogAssumption DEF TypeOK, InMemory, Enrich, Ends, Goto, world, local, ghosts, bounds,
       Torn, Policies
  <2>5. /\ calls' \in 0 .. MaxCalls /\ days' \in 0 .. MaxDays
        /\ releases' \in 0 .. MaxReleases
    BY CatalogAssumption DEF TypeOK, Enrich, Ends, Goto, world, local, ghosts, bounds, Torn
  <2> QED
    BY <2>1, <2>2, <2>3, <2>4, <2>5, <2>6 DEF TypeOK
<1>2. InMemory'
  BY CatalogAssumption DEF TypeOK, InMemory, Enrich, Ends, Goto, world, local, ghosts, bounds
<1>3. FilesRecent'
  BY CatalogAssumption DEF TypeOK, InMemory, FilesRecent, Enrich, Ends, Goto, Writing, Torn,
     world, local, ghosts, bounds
<1>4. TempOwned'
  BY CatalogAssumption DEF TypeOK, InMemory, TempOwned, Enrich, Ends, Goto, Writing, Torn, world,
     local, ghosts, bounds
<1>5. CacheKept'
  BY CatalogAssumption DEF TypeOK, InMemory, TempOwned, CacheKept, Enrich, Ends, Goto, Writing,
     world, local, ghosts, bounds
<1> QED
  BY <1>1, <1>2, <1>3, <1>4, <1>5

LEMMA StopsInv ==
    ASSUME IInv, NEW r \in Readers, Stops(r)
    PROVE  IInv'
<1> USE DEF IInv
<1>1. TypeOK'
  <2>1. /\ live' \in Payloads /\ cache' \in Payloads \cup Torn \cup {Missing}
        /\ young' \in BOOLEAN /\ tmp' \in Payloads \cup Torn \cup {NoFile}
    BY CatalogAssumption DEF TypeOK, Stops, Ends, Goto, world, local, ghosts, bounds, Torn
  <2>2. /\ pc' \in [Readers -> {"idle", "stat", "read", "fetch", "open", "write",
                               "rename", "fallback", "enrich"}]
        /\ policy' \in [Readers -> Policies] /\ entry' \in [Readers -> Entry]
    BY CatalogAssumption DEF TypeOK, Stops, Ends, Goto, world, local, ghosts, bounds, Torn,
       Policies
  <2>3. /\ snap' \in [Readers -> Payloads \cup {NoSnap}]
        /\ holds' \in [Readers -> {"none", "tmp", "cache", "gone"}]
        /\ outcome' \in [Readers -> {"none", "current", "stale", "unavailable"}]
    BY CatalogAssumption DEF TypeOK, InMemory, Stops, Ends, Goto, world, local, ghosts, bounds,
       Torn
  <2>4. /\ today' \subseteq Payloads /\ kept' \in BOOLEAN /\ crossed' \in BOOLEAN
        /\ filled' \in [Readers -> [from : Payloads \cup {NoSnap}, policy : Policies]]
    BY CatalogAssumption DEF TypeOK, InMemory, Stops, Ends, Goto, world, local, ghosts, bounds,
       Torn, Policies
  <2>5. /\ calls' \in 0 .. MaxCalls /\ days' \in 0 .. MaxDays
        /\ releases' \in 0 .. MaxReleases
    BY CatalogAssumption DEF TypeOK, Stops, Ends, Goto, world, local, ghosts, bounds, Torn
  <2> QED
    BY <2>1, <2>2, <2>3, <2>4, <2>5 DEF TypeOK
<1>2. InMemory'
  BY CatalogAssumption DEF TypeOK, InMemory, Stops, Ends, Goto, world, local, ghosts, bounds
<1>3. FilesRecent'
  BY CatalogAssumption DEF TypeOK, InMemory, FilesRecent, Stops, Ends, Goto, Writing, Torn, world,
     local, ghosts, bounds
<1>4. TempOwned'
  BY CatalogAssumption DEF TypeOK, InMemory, TempOwned, Stops, Ends, Goto, Writing, Torn, world,
     local, ghosts, bounds
<1>5. CacheKept'
  BY CatalogAssumption DEF TypeOK, InMemory, TempOwned, CacheKept, Stops, Ends, Goto, Writing,
     world, local, ghosts, bounds
<1> QED
  BY <1>1, <1>2, <1>3, <1>4, <1>5

LEMMA ReleaseInv ==
    ASSUME IInv, Release
    PROVE  IInv'
<1> USE DEF IInv
<1>1. TypeOK'
  BY CatalogAssumption DEF TypeOK, Release, local
<1>2. InMemory'
  BY DEF InMemory, Release, local
<1>3. FilesRecent'
  BY DEF FilesRecent, Release, local, Writing
<1>4. TempOwned' /\ CacheKept'
  BY DEF TempOwned, CacheKept, Release, local, Writing
<1> QED
  BY <1>1, <1>2, <1>3, <1>4

LEMMA DayPassesInv ==
    ASSUME IInv, DayPasses
    PROVE  IInv'
<1> USE DEF IInv
<1>1. TypeOK'
  <2>1. /\ live' \in Payloads /\ cache' \in Payloads \cup Torn \cup {Missing}
        /\ young' \in BOOLEAN /\ tmp' \in Payloads \cup Torn \cup {NoFile}
    BY CatalogAssumption DEF TypeOK, DayPasses, local
  <2>2. /\ pc' \in [Readers -> {"idle", "stat", "read", "fetch", "open", "write",
                               "rename", "fallback", "enrich"}]
        /\ policy' \in [Readers -> Policies] /\ entry' \in [Readers -> Entry]
    BY CatalogAssumption DEF TypeOK, DayPasses, local, Policies
  <2>3. /\ snap' \in [Readers -> Payloads \cup {NoSnap}]
        /\ holds' \in [Readers -> {"none", "tmp", "cache", "gone"}]
        /\ outcome' \in [Readers -> {"none", "current", "stale", "unavailable"}]
    BY CatalogAssumption DEF TypeOK, InMemory, DayPasses, local
  <2>4. /\ today' \subseteq Payloads /\ kept' \in BOOLEAN /\ crossed' \in BOOLEAN
        /\ filled' \in [Readers -> [from : Payloads \cup {NoSnap}, policy : Policies]]
    BY CatalogAssumption DEF TypeOK, InMemory, DayPasses, local, Policies
  <2>5. /\ calls' \in 0 .. MaxCalls /\ days' \in 0 .. MaxDays
        /\ releases' \in 0 .. MaxReleases
    BY CatalogAssumption DEF TypeOK, DayPasses, local
  <2> QED
    BY <2>1, <2>2, <2>3, <2>4, <2>5 DEF TypeOK
<1>2. InMemory'
  BY DEF InMemory, DayPasses, local
<1>3. FilesRecent'
  BY DEF FilesRecent, DayPasses, local, Writing
<1>4. TempOwned' /\ CacheKept'
  BY DEF TempOwned, CacheKept, DayPasses, local, Writing
<1> QED
  BY <1>1, <1>2, <1>3, <1>4

LEMMA NextInv == IInv /\ [Next]_vars => IInv'
<1> SUFFICES ASSUME IInv, [Next]_vars PROVE IInv'
  OBVIOUS
<1>1. CASE UNCHANGED vars
  BY <1>1 DEF IInv, TypeOK, InMemory, FilesRecent, TempOwned, CacheKept, Writing, vars, world,
     local, ghosts, bounds
<1>2. CASE Next
  BY <1>2, BeginInv, StatInv, ReadCacheInv, FetchedInv, FetchFailsInv, OpenTempInv, WriteTempInv,
     RenameInv, CacheRefusedInv, FallbackInv, EnrichInv, StopsInv, ReleaseInv, DayPassesInv DEF
     Next
<1> QED
  BY <1>1, <1>2

\* The inductive invariant.
THEOREM CatalogInvariance == Spec => []IInv
<1>1. Init => IInv
  BY InitInv
<1>2. IInv /\ [Next]_vars => IInv'
  BY NextInv
<1> QED
  BY <1>1, <1>2, PTL DEF Spec

\* The cache, the temporary file and what readers hold are of their types.
THEOREM CatalogTypeCorrect == Spec => []TypeOK
<1>1. IInv => TypeOK
  BY DEF IInv
<1> QED
  BY <1>1, CatalogInvariance, PTL

\* What Ensure does not call stale was served within 24 h (catalog.go:23).
THEOREM CurrentCatalogsRecent == Spec => []CurrentIsRecent
<1>1. IInv => CurrentIsRecent
  BY DEF IInv, InMemory, CurrentIsRecent
<1> QED
  BY <1>1, CatalogInvariance, PTL

\* A catalog once cached serves whoever cannot refresh it (catalog.go:472).
THEOREM OldCachesServe == Spec => OldCacheServes
<1>1. IInv /\ [Next]_vars =>
        [\A r \in Readers :
            Fallback(r) /\ outcome'[r] = "unavailable" => ~kept \/ crossed]_vars
  <2> SUFFICES ASSUME IInv, NEW r \in Readers, Fallback(r), outcome'[r] = "unavailable", kept, ~crossed
               PROVE  FALSE
    OBVIOUS
  <2>1. cache \in Payloads \ {{}}
    BY DEF IInv, CacheKept
  <2> QED
    BY <2>1 DEF IInv, TypeOK, Fallback
<1> QED
  BY <1>1, CatalogInvariance, PTL DEF Spec, OldCacheServes

-----------------------------------------------------------------------------
(* Filling an entry twice from one catalog.                                 *)

\* A lookup ends at one listing at most, unless a provider lists twins.
LEMMA OneHit ==
    ASSUME NEW P \in Payloads, NEW id, ~Twins(P),
           NEW l \in Hits(P, id), NEW k \in Hits(P, id)
    PROVE  l = k
<1>1. CASE \E i : l \in Under(P, id.providers[i], id.tail)
                  /\ k \in Under(P, id.providers[i], id.tail)
  BY <1>1 DEF Twins, Under
<1>2. CASE l \in Unique(P, id.tail) /\ k \in Unique(P, id.tail)
  <2> DEFINE all == Anywhere(P, id.tail)
  <2>1. IsFiniteSet(all)
    BY CatalogAssumption, FS_Subset DEF Anywhere
  <2>2. Cardinality(all) = 1 /\ l \in all /\ k \in all
    BY <1>2 DEF Unique
  <2> HIDE DEF all
  <2>3. PICK x : all = {x}
    BY <2>1, <2>2, FS_Singleton
  <2> QED
    BY <2>2, <2>3
<1> QED
  BY <1>1, <1>2 DEF Hits

\* What was filled from a listing stays as it is when the same listing fills it
\* again, by the same policy or as a draft.
LEMMA FillTwice ==
    ASSUME NEW how \in Policies, NEW e \in Entry,
           NEW m \in [Fields -> Values \cup {"zero"}],
           NEW again \in {how, "draft"}
    PROVE  Fill(again, Fill(how, e, m), m) = Fill(how, e, m)
<1>1. FillMissing(FillMissing(e, m), m) = FillMissing(e, m)
  BY DEF FillMissing, Entry, Fields
<1>2. FillOverwrite(FillOverwrite(e, m), m) = FillOverwrite(e, m)
  BY DEF FillOverwrite, Entry, Fields
<1>3. Seeded(Seeded(e, m), m) = Seeded(e, m)
  BY DEF Seeded, Entry, Fields
<1>4. FillMissing(FillOverwrite(e, m), m) = FillOverwrite(e, m)
  BY DEF FillMissing, FillOverwrite, Entry, Fields
<1>5. FillMissing(Seeded(e, m), m) = Seeded(e, m)
  BY DEF FillMissing, Seeded, Entry, Fields
<1> QED
  BY <1>1, <1>2, <1>3, <1>4, <1>5 DEF Fill, Policies

\* Since its last filling, filling an entry again from that catalog, by that
\* policy or as a draft, would leave it as it is.
Settled ==
    \A r \in Readers :
        LET from == filled[r].from
        IN  from \in Payloads /\ ~Twins(from) =>
                \A how \in {filled[r].policy, "draft"} : \A l \in Hits(from, Asked[r]) :
                    Fill(how, entry[r], l.meta) = entry[r]

LEMMA SettledStep == IInv /\ Settled /\ [Next]_vars => Settled'
<1> SUFFICES ASSUME IInv, Settled, [Next]_vars PROVE Settled'
  OBVIOUS
<1> USE DEF IInv
<1>1. CASE UNCHANGED <<entry, filled>>
  BY <1>1 DEF Settled
<1>2. ASSUME NEW r \in Readers, Begin(r), policy'[r] = "seed"
      PROVE  Settled'
  <2>1. filled'[r].from \notin Payloads
    BY <1>2, CatalogAssumption DEF Begin, TypeOK
  <2>2. \A q \in Readers \ {r} : filled'[q] = filled[q] /\ entry'[q] = entry[q]
    BY <1>2 DEF Begin, TypeOK
  <2> QED
    BY <2>1, <2>2 DEF Settled
<1>3. ASSUME NEW r \in Readers, Begin(r), policy'[r] # "seed"
      PROVE  UNCHANGED <<entry, filled>>
  BY <1>3 DEF Begin, TypeOK
<1>4. ASSUME NEW r \in Readers, Enrich(r)
      PROVE  Settled'
  <2> DEFINE P    == snap[r]
             hits == Hits(P, Asked[r])
  <2>1. P \in Payloads
    BY <1>4 DEF InMemory, Enrich
  <2>2. filled'[r] = [from |-> P, policy |-> policy[r]]
        /\ \A q \in Readers \ {r} : filled'[q] = filled[q]
    BY <1>4 DEF Enrich, TypeOK
  <2>3. \A q \in Readers \ {r} : entry'[q] = entry[q]
    BY <1>4 DEF Enrich, TypeOK
  <2>4. ASSUME ~Twins(P), NEW how \in {policy[r], "draft"}, NEW l \in hits
        PROVE  Fill(how, entry'[r], l.meta) = entry'[r]
    <3>1. PICK k \in hits : entry' = [entry EXCEPT ![r] = Fill(policy[r], entry[r], k.meta)]
      BY <1>4, <2>4 DEF Enrich
    <3>2. k = l
      BY <2>1, <2>4, <3>1, OneHit
    <3>3. l.meta \in [Fields -> Values \cup {"zero"}]
      BY <2>1, <2>4, HitsAreListed, CatalogAssumption
    <3>4. entry'[r] = Fill(policy[r], entry[r], l.meta)
      BY <3>1, <3>2 DEF TypeOK
    <3> QED
      BY <2>4, <3>3, <3>4, FillTwice DEF TypeOK
  <2> HIDE DEF P
  <2> QED
    BY <2>2, <2>3, <2>4 DEF Settled
<1>5. ASSUME NEW r \in Readers,
             \/ Stat(r) \/ ReadCache(r) \/ Fetched(r) \/ FetchFails(r)
             \/ OpenTemp(r) \/ WriteTemp(r) \/ Rename(r) \/ CacheRefused(r)
             \/ Fallback(r) \/ Stops(r)
      PROVE  UNCHANGED <<entry, filled>>
  BY <1>5 DEF Stat, ReadCache, Fetched, FetchFails, OpenTemp, WriteTemp, Rename,
     CacheRefused, Fallback, Stops, ghosts
<1>6. CASE Release \/ DayPasses \/ UNCHANGED vars
  BY <1>1, <1>6 DEF Release, DayPasses, vars, local, ghosts
<1> QED
  BY <1>1, <1>2, <1>3, <1>4, <1>5, <1>6 DEF Next

\* Enriching again from the same catalog changes nothing: what is pending
\* after a publication converges (catalog.go:220).
THEOREM SameCatalogsSettle == Spec => SameCatalogSameEntry
<1>1. Init => Settled
  BY CatalogAssumption DEF Init, Settled
<1>2. IInv /\ Settled /\ [Next]_vars =>
        [\A r \in Readers :
            Enrich(r) /\ filled[r].from = snap[r] /\ ~Twins(snap[r])
                /\ policy[r] \in {filled[r].policy, "draft"}
            => entry' = entry]_vars
  <2> SUFFICES ASSUME IInv, Settled, NEW r \in Readers, Enrich(r),
                      filled[r].from = snap[r], ~Twins(snap[r]),
                      policy[r] \in {filled[r].policy, "draft"}
               PROVE  entry' = entry
    OBVIOUS
  <2>1. snap[r] \in Payloads
    BY DEF IInv, InMemory, Enrich
  <2>2. \A l \in Hits(snap[r], Asked[r]) : Fill(policy[r], entry[r], l.meta) = entry[r]
    BY <2>1 DEF Settled
  <2> QED
    BY <2>2 DEF IInv, TypeOK, Enrich
<1> QED
  BY <1>1, <1>2, SettledStep, CatalogInvariance, PTL DEF Spec, SameCatalogSameEntry
=============================================================================
