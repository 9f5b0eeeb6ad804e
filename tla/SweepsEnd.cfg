\* One row, three endpoints in chunks of two, two tasks; a crash and a failed call.
SPECIFICATION FairSpec
CONSTANTS
    Keys = {k1, k2, k3}
    Hashes = {h1}
    Tasks = {t1, t2}
    None = None
    MaxRuns = 1
    CHUNK = 2
    Budget <- BudgetEnd
INVARIANTS
    CountersAddUp
PROPERTIES
    SweepsUnderWayEnd
CHECK_DEADLOCK FALSE
