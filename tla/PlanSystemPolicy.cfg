\* Does a plan that the policy wants approved always wait for a person?
SPECIFICATION Spec
CONSTANTS
    Plans = {p1}
    Approvals = {a1}
    Execs = {e1}
    Issues = {}
    Reqs = {r1}
    None = None
    PlanRisks = {"low"}
    AutoApproveLow = TRUE
    PolicyConfigured = TRUE
    LinearConfigured = FALSE
    ExecutorConfigured = TRUE
    PageSize = 100
    CallsFail = FALSE
    LabelSets = {}
    MaxRestarts = 0
INVARIANT RequireApprovalBlocks
CHECK_DEADLOCK FALSE
