\* Three starts, two overlapping stop requests, every task fair.
SPECIFICATION FairSpec
CONSTANTS
    h1 = h1
    h2 = h2
    MaxStarts = 3
    Handlers <- TwoHandlers
INVARIANTS
    AutoShutdownPending
    PollingIsAttended
    StopsAwaitTheEnding
PROPERTIES
    EverythingComesToRest
CHECK_DEADLOCK FALSE
