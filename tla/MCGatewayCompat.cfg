SPECIFICATION Spec
CONSTANTS
    ca = ca  cb = cb  other = other  m1 = m1  m2 = m2  web = web  tui = tui
    Channels <- MCChannels
    Strangers <- MCStrangers
    Models <- MCModels
    Known <- MCKnown
    Metas <- MCMetas
    Extras <- MCExtras
    Reasoning <- MCReasoning
    NoMeta = NoMeta
    NoExtra = NoExtra
    NoModel = NoModel
    NoEntry = NoEntry
    NoChannel = NoChannel
    Malformed = Malformed
    Generated = Generated
    Conflict = Conflict
    Publishers <- OneWeb
    Tui <- NoTui
    Drafts <- CompatDrafts
    Picks <- NoPicks
    Configs <- OnlyBoth
    Files <- NoFiles
    StrangerEntries <- MCStrangerEntries
    Everything = Everything
    Missing = Missing
    Corrupt = Corrupt
    Blank = Blank
    Garbled = Garbled
    NoFile = NoFile
    NoPlan = NoPlan
    MaxCalls = 2
    MaxEdits = 0
    MaxChanges = 0
PROPERTIES
    CompatSurvives
CHECK_DEADLOCK FALSE
