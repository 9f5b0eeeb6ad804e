\* Pairs of requests of each kind; a failure and a page that may leave.
SPECIFICATION Spec
CONSTANTS
    Capacity = 2
    Token = 2
    r1 = r1
    r2 = r2
    n1 = n1
    n2 = n2
    n3 = n3
    a1 = a1
    s1 = s1
    s2 = s2
    p2 = p2
    x = x
    c1 = c1
    All = All
    NoSerial = NoSerial
    Requests = {r1, r2}
    NetworkOrder <- MCNetworks
    HashOrder <- MCHashOrder
    Mixes <- MCMixes
    Devices <- MCDevices
    Availabilities <- MCAvailabilities
    LinkLayer <- MCLinkLayer
    Vlans <- MCVlans
    Stacks <- MCStacks
    DeviceClients <- MCDeviceClients
    MaxFailures = 1
    MaxLeavings = 1
INVARIANTS
    WindowBound
    PartialsAddUp
    RoutesAgree
PROPERTIES
    RequestsEnd
