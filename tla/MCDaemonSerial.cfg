SPECIFICATION Spec
CONSTANTS
    o1 = o1  o2 = o2  s1 = s1  d0 = d0  d1 = d1  d2 = d2
    Operators <- OneOperator
    Observers <- OneObserver
    Children <- ThreeChildren
    Old = d0
    Absent = Absent
    Dead = Dead
    Free = Free
    Foreign = Foreign
    ForeignAnswers = TRUE
    HangsEnd = FALSE
    MaxCalls = 2
    MaxDeaths = 0
    MaxForeign = 0
INVARIANTS
    StartedIsRecorded
PROPERTIES
    EveryCallReturns
CHECK_DEADLOCK FALSE
