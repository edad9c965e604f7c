SPECIFICATION FairSpec
CONSTANTS
    Tick = 24
    Asks <- McAsks
    MinExpires = 50
    MaxSubscribes = 3
    MaxNotifies = 2
    MaxTrouble = 1
INVARIANTS StaysSubscribed SameForBoth NoStaleUse
PROPERTIES EndsForBoth
CHECK_DEADLOCK FALSE
