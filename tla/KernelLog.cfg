CONSTANTS
    MaxGroupSize = 3
    MaxGroupTime = 2
    MaxSkew = 1
    MaxMessages = 4
    MaxTime = 5
SPECIFICATION Spec
INVARIANTS
    EveryMessageOnce
    GroupHasTimer
    BurstsAreKeptTogether
PROPERTY ImplementsSink
CHECK_DEADLOCK FALSE
