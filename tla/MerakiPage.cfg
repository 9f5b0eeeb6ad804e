\* A page and its tables, or two savers and a loader, a crash and a save of the sites list.
SPECIFICATION PageSpec
CONSTANTS
    n1 = n1
    n2 = n2
    o1 = o1
    o2 = o2
    Sites = {n1, n2}
    All = All
    MyOrg = o1
    Slots = {1, 2, 3}
    Seeds <- MCSeeds
    Budgets <- MCBudgets
    Nothing = Nothing
    Savers = {t1, t2}
    Loaders = {t3}
    Snapshots <- MCSnapshots
    Broken <- MCBroken
    MaxCrashes = 1
    MaxSites = 1
INVARIANTS
    StoredIsOneSave
    QuietLoads
    ShowsSelected
    EntriesOfTheirSites
CHECK_DEADLOCK FALSE
