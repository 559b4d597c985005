\* Two issues that fit on a page, calls that may fail, one restart.
SPECIFICATION WatcherSpec
CONSTANTS
    Plans = {p1, p2}
    Approvals = {a1, a2}
    Execs = {}
    Issues = {i1, i2}
    None = None
    PageSize = 2
    CallsFail = TRUE
    LabelSets = {{"approved"}, {"pending", "approved"}, {"denied"}}
    MaxRestarts = 1
INVARIANTS
    LastIsStored
PROPERTIES
    DecisionApplied
    OverdueDecided
