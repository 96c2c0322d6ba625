CONSTANTS
    Scrapes = {r1, r2}
    MaxInFlight = 2
    Containers = {"d1", "d2"}
    RuntimeOf <- MCRuntimeOf
    CacheSize = 1
    LeftOut <- MCLeftOut
    None = None
SPECIFICATION Spec
INVARIANTS
    NothingIsUsedAfterClose
    ExitLeavesNothingOpen
CHECK_DEADLOCK FALSE
PROPERTIES
    ScrapesEnd
    HangHoldsOnlyTheWalk
    ShutdownEnds
