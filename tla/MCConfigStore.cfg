SPECIFICATION Spec
CONSTANTS
    p1 = p1  p2 = p2  m1 = m1  m2 = m2  c1 = c1  c2 = c2  web = web  cli = cli
    Names <- MCNames
    Channels <- MCChannels
    Models <- MCModels
    Main = "main"
    Unnamed = "unnamed"
    NoProfile = NoProfile
    NoChannel = NoChannel
    DefaultName = p1
    DefaultModel = m1
    Missing = Missing
    Corrupt = Corrupt
    Torn = Torn
    Nothing = Nothing
    NoClient = NoClient
    Clients <- TwoClients
    Processes <- MCProcesses
    ProcessOf <- MCProcessOf
    Hung <- OneHung
    InitialFiles <- MCFiles
    Calls <- MCCalls
    MaxCalls = 1
    MaxCrashes = 1
INVARIANTS
    NeverTorn
PROPERTIES
    NoLostUpdate
    BrokenIsNotDefault
    FetchOnlyAdds
    ActiveSupplierKept
    ExposuresServable
    Implements
    EveryCallReturns
CHECK_DEADLOCK FALSE
