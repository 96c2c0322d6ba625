SPECIFICATION Spec
CONSTANTS
  Elements <- TwoScanners
  LocalAddresses = {}
  LocalNetworks = {}
  BatchSize = 1000
  NetlinkFails = FALSE
  MaxCollections = 3
PROPERTY
  RemovedOnNextIteration
CHECK_DEADLOCK FALSE
