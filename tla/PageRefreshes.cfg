\* Three selections of two sites that are not cached, and nothing else.
SPECIFICATION PageSpec
CONSTANTS
    n1 = n1
    n2 = n2
    o1 = o1
    o2 = o2
    Sites = {n1, n2}
    All = All
    MyOrg = o1
    Slots = {1, 2, 3}
    Seeds = {}
    Budgets <- SelectionsOnly
    Nothing = Nothing
    Savers = {t1}
    Loaders = {t3}
    Snapshots = {}
    Broken = {}
    MaxCrashes = 0
    MaxSites = 0
INVARIANTS
    AtMostOneRefresh
CHECK_DEADLOCK FALSE
