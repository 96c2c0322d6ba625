CONSTANTS
    Kinds = {user, system}
    Children = {c1, c2}
    MaxTicks = 3
    MaxLost = 1
    MaxRemovals = 1
SPECIFICATION Spec
SYMMETRY Symmetry
INVARIANTS
    TypeOK
    NetTracksOwnUsage
    NetIsBoundedByCounters
PROPERTY NetNeverGoesBack
