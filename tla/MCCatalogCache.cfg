SPECIFICATION Spec
CONSTANTS
    web = web  cli = cli
    Readers <- MCReaders
    Payloads <- MCPayloads
    Asked <- MCAsked
    Entries <- MCEntries
    Values <- MCValues
    Missing = Missing
    Blank = Blank
    Garbled = Garbled
    NoFile = NoFile
    NoSnap = NoSnap
    MaxCalls = 3
    MaxDays = 1
    MaxReleases = 1
INVARIANTS
    CurrentIsRecent
PROPERTIES
    OldCacheServes
    SameCatalogSameEntry
CHECK_DEADLOCK FALSE
