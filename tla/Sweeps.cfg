\* Two endpoints, two configurations, two rows and two tasks; everything fails once.
SPECIFICATION Spec
CONSTANTS
    Keys = {k1, k2}
    Hashes = {h1, h2}
    Tasks = {t1, t2}
    None = None
    MaxRuns = 2
    CHUNK = 2
    Budget <- BudgetSafety
SYMMETRY Symmetry
INVARIANTS
    BaselineRowsRecordChanges
    DriftLabelsMatchHistory
    ResumptionIsExact
    AntiDriftAlwaysWrites
PROPERTIES
    AntiDriftLifecycle
    FinishedRunsAreFinal
CHECK_DEADLOCK FALSE
