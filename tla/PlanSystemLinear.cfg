\* One request at a time next to the watcher, people who change labels, failing
\* calls and one restart, without automatic approval.
SPECIFICATION Spec
CONSTANTS
    Plans = {p1}
    Approvals = {a1, a2}
    Execs = {e1}
    Issues = {i1}
    Reqs = {r1}
    None = None
    PlanRisks = {"medium"}
    AutoApproveLow = FALSE
    PolicyConfigured = TRUE
    LinearConfigured = TRUE
    ExecutorConfigured = FALSE
    PageSize = 1
    CallsFail = TRUE
    LabelSets = {{"approved"}, {"denied"}}
    MaxRestarts = 1
INVARIANTS
    ApprovedRowGranted
    IInv
SYMMETRY Symmetry
CHECK_DEADLOCK FALSE
