SPECIFICATION Spec
CONSTANTS
  Pids = {p1, p2}
  Collections = {a, b}
  Names = {"kworker/", "kworkers", "ksoftirqd"}
  Kworker = "kworker/"
  None = None
  MaxTicks = 3
  MaxStarts = 1
  MaxCollections = 3
SYMMETRY Symmetry
INVARIANTS
  OnlyRepeatedIsCountedTwice
  ExactWhenUndisturbed
  NoDuplicateSamples
PROPERTY
  KworkersNeverGoBack
CHECK_DEADLOCK FALSE
