\* Two requests: can a plan have two active executions?
SPECIFICATION Spec
CONSTANTS
    Plans = {p1}
    Approvals = {a1}
    Execs = {e1, e2}
    Issues = {}
    Reqs = {r1, r2}
    None = None
    PlanRisks = {"read"}
    AutoApproveLow = FALSE
    PolicyConfigured = TRUE
    LinearConfigured = FALSE
    ExecutorConfigured = TRUE
    PageSize = 100
    CallsFail = FALSE
    LabelSets = {}
    MaxRestarts = 0
INVARIANT OneActiveExecution
CHECK_DEADLOCK FALSE
