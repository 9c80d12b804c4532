SPECIFICATION Spec
CONSTANTS
    ca = ca  cb = cb  other = other  m1 = m1  m2 = m2  web = web  tui = tui
    Channels <- MCChannels
    Strangers <- MCStrangers
    Models <- MCModels
    Known <- MCKnown
    Metas <- MCMetas
    Extras <- MCExtras
    Reasoning <- MCReasoning
    NoMeta = NoMeta
    NoExtra = NoExtra
    NoModel = NoModel
    NoEntry = NoEntry
    NoChannel = NoChannel
    Malformed = Malformed
    Generated = Generated
    Conflict = Conflict
    Publishers <- TwoPublishers
    Tui <- OneTui
    Drafts <- MCDrafts
    Picks <- MCPicks
    Configs <- MCConfigs
    Files <- MCFiles
    StrangerEntries <- MCStrangerEntries
    Everything = Everything
    Missing = Missing
    Corrupt = Corrupt
    Blank = Blank
    Garbled = Garbled
    NoFile = NoFile
    NoPlan = NoPlan
    MaxCalls = 1
    MaxEdits = 1
    MaxChanges = 1
INVARIANTS
    WholeUnlessCrossed
    PlanKeepsStrangers
    EditsSurvive
    PublicationConverges
PROPERTIES
    PublishIsAtomicUnlessStale
CHECK_DEADLOCK FALSE
