SPECIFICATION Spec
CONSTANTS
    npm = npm  git = git  local = local  web = web  cli = cli
    Pkgs <- MCPkgs
    Twins <- MCTwins
    Callers <- MCCallers
    MaxCalls = 3
    MaxEdits = 1
    NoRow = NoRow
    NoOne = NoOne
INVARIANTS
    KeptForUser
    TogglesCount
PROPERTIES
    ImportIsWhole
CHECK_DEADLOCK FALSE
