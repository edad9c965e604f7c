SPECIFICATION RegFairSpec
CONSTANTS
    Tick = 15
    Asks <- McAsks
    MinExpires = 300
    Grants <- McGrants
    MaxTrouble = 2
INVARIANTS StaysBound
PROPERTIES Recovers
CHECK_DEADLOCK FALSE
