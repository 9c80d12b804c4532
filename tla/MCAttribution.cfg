SPECIFICATION Spec
CONSTANTS
    s1 = s1  s2 = s2  s3 = s3  own = own  m = m  r1 = r1
    Sessions <- MCSessions
    Clients <- MCClients
    Models <- MCModels
    Hints <- MCHints
    Requests <- MCRequests
    Window = 1
    Gap = 1
    TTL = 1
    Unlabeled = Unlabeled
    NoId = NoId
    NoModel = NoModel
    NoHint = NoHint
    NoSession = NoSession
    NoScan = NoScan
    NoRequest = NoRequest
    NoAnswer = NoAnswer
    Over = Over
    MaxTime = 2
    MaxWrites = 2
    MaxChanges = 1
    MaxReads = 1
SYMMETRY Alike
INVARIANTS
    ExplicitWins
    NoGuess
    PageAgrees
CHECK_DEADLOCK FALSE
