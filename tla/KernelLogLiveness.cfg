CONSTANTS
    MaxGroupSize = 2
    MaxGroupTime = 2
    MaxSkew = 1
    MaxMessages = 3
    MaxTime = 5
SPECIFICATION FairSpec
PROPERTIES
    EveryMessageIsProcessed
    CloseTerminates
CHECK_DEADLOCK FALSE
