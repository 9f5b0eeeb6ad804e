\* One page that may lose its connection, the loop and a request, two discoveries that lose answers.
SPECIFICATION BoundedSpec
CONSTANTS
    p1 = p1
    trigger = trigger
    Loop = Loop
    Topologies = {a, b}
    NoTopology = NoTopology
    Pages <- OnePage
    Triggers <- OneTrigger
    MaxSockets = 2
    MaxLossy = 2
    MaxDrops = 1
    MaxEvents = 3
INVARIANTS
    BroadcastReachesAll
PROPERTIES
    VersionsInOrder
    PagesConverge
    SnapshotRecovers
CHECK_DEADLOCK FALSE
