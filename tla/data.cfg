SPECIFICATION Spec
CONSTANTS
    MaxCalls = 4
    MaxLines = 6
    MaxRequests = 4
    MaxChanges = 1
    MaxPackets = 10
INVARIANTS PrintedIsReadAgain HoldsWhatWasGiven TextIsCurrent NumberedOnce ChallengedAgainForAReason CodecsAgree
PROPERTIES PlaysFirstOfPair
CHECK_DEADLOCK FALSE
