CONSTANTS
    Kinds = {operations}
    Devices = {d1, d2}
    Children = {c1, c2}
    MaxTicks = 3
    MaxRemovals = 1
SPECIFICATION Spec
SYMMETRY Symmetry
INVARIANTS
    NothingIsCountedTwice
    ExactWhenUndisturbed
PROPERTIES
    FailuresHaveACause
    ReportNeverGoesBack
