SPECIFICATION Spec
CONSTANTS
  Elements <- SomeElements
  LocalAddresses = {}
  LocalNetworks <- LocalIps
  BatchSize = 2
  NetlinkFails = TRUE
  MaxCollections = 4
INVARIANTS
  DeletedWereWarned
  ScannersAreFound
PROPERTY
  WarningsAlternate
CHECK_DEADLOCK FALSE
