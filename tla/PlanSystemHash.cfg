\* Is an unmodified plan ever refused as modified?
SPECIFICATION Spec
CONSTANTS
    Plans = {p1}
    Approvals = {a1}
    Execs = {e1}
    Issues = {}
    Reqs = {r1}
    None = None
    PlanRisks = {"medium"}
    AutoApproveLow = FALSE
    PolicyConfigured = TRUE
    LinearConfigured = FALSE
    ExecutorConfigured = TRUE
    PageSize = 100
    CallsFail = FALSE
    LabelSets = {}
    MaxRestarts = 0
INVARIANT UnmodifiedPlanNotRefused
CHECK_DEADLOCK FALSE
