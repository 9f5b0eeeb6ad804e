\* One row, three endpoints, two tasks; a crash and a failed call.  Nothing resumes the run.
SPECIFICATION FairSpec
CONSTANTS
    Keys = {k1, k2, k3}
    Hashes = {h1}
    Tasks = {t1, t2}
    None = None
    MaxRuns = 1
    CHUNK = 2
    Budget <- BudgetEnd
PROPERTIES
    InterruptedSweepsResume
CHECK_DEADLOCK FALSE
