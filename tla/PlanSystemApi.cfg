\* Two concurrent requests, low risks approved automatically, approvals through
\* the API only, one restart.
SPECIFICATION Spec
CONSTANTS
    Plans = {p1}
    Approvals = {a1}
    Execs = {e1}
    Issues = {}
    Reqs = {r1, r2}
    None = None
    PlanRisks = {"read", "low", "medium"}
    AutoApproveLow = TRUE
    PolicyConfigured = TRUE
    LinearConfigured = FALSE
    ExecutorConfigured = TRUE
    PageSize = 1
    CallsFail = FALSE
    LabelSets = {}
    MaxRestarts = 1
INVARIANTS
    ReferentialIntegrity
    WriteExecutionGranted
    HumanApproval
    PolicyHeeded
PROPERTIES
    ExecutionsLifecycle
SYMMETRY Symmetry
CHECK_DEADLOCK FALSE
