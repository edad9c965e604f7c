SPECIFICATION FairSpec
CONSTANTS
    a = a
    b = b
    NoOne = NoOne
    Callees <- Two
    MaxRetry = 1
    MaxAttempts = 2
INVARIANTS RightCallees
PROPERTIES AnswerIsMet ClosedIsReleased
CHECK_DEADLOCK FALSE
