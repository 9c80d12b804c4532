\* Every request, every branch, streams of up to four frames.
SPECIFICATION Spec
CONSTANTS
    s1 = s1
    s2 = s2
    main = main
    m1 = m1
    m2 = m2
    Suppliers = {s1, s2}
    Ambiguous = ambiguous
    ChannelNames = {main, ambiguous}
    Unnamed = unnamed
    Models = {m1, m2}
    Slashed = slashed
    Unstated = unstated
    DefaultModel = m1
    NoProfile = noprofile
    Inherited = inherited
    Calls = {k1, k2}
    Message = message
    NoItem = noitem
    None = none
    MaxFrames = 4
    Requests <- MCRequests
    Configs <- MCConfigs
INVARIANTS
    Accounted
    CallsAreDue
    SuccessIsWholeUnlessUnreported
    ChatGrammar
PROPERTIES
    ResponsesGrammar
    RequestEnds
