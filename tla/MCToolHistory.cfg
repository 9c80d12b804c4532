SPECIFICATION HistorySpec
CONSTANTS
    Blank = Blank
    NotSent = NotSent
    MaxParts = 4
    MaxAnswer = 2
    MaxOdd = 1
    MaxVaried = 1
INVARIANTS
    NothingLost
    HearsItself
PROPERTIES
    AnswersSendable
CHECK_DEADLOCK FALSE
