SPECIFICATION FairSpec
CONSTANTS
    LastCount = 1
    Copies <- AtMost
    MaxMessages = 4
    MaxQueue = 2
INVARIANTS NoDangling OneFinal
PROPERTIES EndedIsReleased
CHECK_DEADLOCK FALSE
