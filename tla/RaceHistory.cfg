CONSTANTS
    Groups = {g1, g2, g3}
    MaxRetries = 1
    MaxActiveRaces = 2
    MaxHistory = 4
SPECIFICATION HistorySpec
SYMMETRY Symmetry
INVARIANTS
    PersistentRaceIsReported
    CountsMatchHistory
    FewGroupsAreForgiven
    ReportsAreFinal
CHECK_DEADLOCK FALSE
