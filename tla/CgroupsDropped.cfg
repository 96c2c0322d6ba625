CONSTANTS
    Groups <- MCGroups
    Root = "/"
    Parent <- MCParent
    Listing <- MCListing
    Service <- MCService
    Unclassified <- MCUnclassified
    Users <- MCUsers
    Docker <- MCDocker
    Podman <- MCPodman
    Totals <- MCTotals
    Excluding <- MCExcluding
    Unresolvable <- MCUnresolvable
    Switchable <- MCSwitchable
    MaxRetries = 1
    MaxActiveRaces = 2
    MaxChanges = 2
    MaxCollections = 2
SPECIFICATION Spec
PROPERTY DroppedMeansDeleted
CHECK_DEADLOCK FALSE
