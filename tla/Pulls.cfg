\* Two endpoints and two refreshes; four profiles of what may happen around them.
SPECIFICATION Spec
CONSTANTS
    k1 = k1
    k2 = k2
    Keys <- MCKeys
    Hashes = {h1, h2}
    Scopes <- WideScope
    AreaSets <- WideAreaSets
    Slots = {s1, s2}
    POLLS = 2
    MaxDown = 1
    None = None
    Budgets <- BudgetsPulls
SYMMETRY Symmetry
INVARIANTS
    ChangeRowsRecordChanges
    CitationsFresh
    RefreshesRegistered
CHECK_DEADLOCK FALSE
