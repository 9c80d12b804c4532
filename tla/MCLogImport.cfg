SPECIFICATION Spec
CONSTANTS
    r1 = r1  r2 = r2  h1 = h1  h2 = h2  proxy = proxy  webui = webui
    Requests <- OneRequest
    History <- OneOld
    Importers <- BothServices
    Proxy = proxy
    BatchSize = 1
    MaxImports = 3
    MaxCrashes = 1
    MaxFiles = 2
    None = None
    Live = Live
INVARIANTS
    NoOtherDuplicate
    NothingSkipped
    DoneCovers
CHECK_DEADLOCK FALSE
