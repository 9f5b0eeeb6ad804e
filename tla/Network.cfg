\* Two floors; discoveries that may lose two answers, or two edits of the network.
SPECIFICATION Spec
CONSTANTS
    TOTAL_FLOORS = 2
    APS_PER_FLOOR = 2
    UPLINK = 9
    WIRED_VLANS = {10}
    WIRELESS_VLANS = {30}
    ENDPOINT_COUNTS <- MCEndpointCounts
    PORT_RANGES <- MCPortRanges
    EditDevices <- MCEditDevices
    EditPlaces <- MCEditPlaces
    Unknown = Unknown
    NoId = NoId
    Profiles <- MCProfiles
INVARIANTS
    CountsMatchClients
    ParentListsAp
    SnapshotSound
PROPERTIES
    CompleteWhenHeard
    Recovers
