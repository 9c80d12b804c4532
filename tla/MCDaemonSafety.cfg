SPECIFICATION Spec
CONSTANTS
    o1 = o1  o2 = o2  s1 = s1  d0 = d0  d1 = d1  d2 = d2
    Operators <- TwoOperators
    Observers <- NoObserver
    Children <- ThreeChildren
    Old = d0
    Absent = Absent
    Dead = Dead
    Free = Free
    Foreign = Foreign
    ForeignAnswers = TRUE
    HangsEnd = TRUE
    MaxCalls = 1
    MaxDeaths = 1
    MaxForeign = 1
SYMMETRY Symmetry
INVARIANTS
    TypeOK
    IdentityProtects
    FailedStartLeavesNothing
    StoppedIsGone
CHECK_DEADLOCK FALSE
