\* Does a webhook's plan whose steps write always wait for a person?
SPECIFICATION Spec
CONSTANTS
    Plans = {p1}
    Approvals = {a1}
    Execs = {e1}
    Issues = {}
    Reqs = {r1}
    None = None
    PlanRisks = {"read"}
    AutoApproveLow = FALSE
    PolicyConfigured = TRUE
    LinearConfigured = FALSE
    ExecutorConfigured = TRUE
    PageSize = 100
    CallsFail = FALSE
    LabelSets = {}
    MaxRestarts = 0
INVARIANT HooksNeedPeople
CHECK_DEADLOCK FALSE
