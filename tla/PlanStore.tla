------------------------------ MODULE PlanStore ------------------------------
(***************************************************************************)
(* What the gateway, the approval watcher and the execution workflows      *)
(* share: the tables plans, approvals and executions of Postgres           *)
(* (internal/db), the approval issues of Linear and the workflows of       *)
(* Temporal (both external).  Every SQL statement is one operator, and a   *)
(* table changes by one statement at a time.                               *)
(*                                                                         *)
(* A table is a function from a finite pool of row ids to rows; an unused  *)
(* id holds the row whose "plan" is None (for plans: whose "row" is        *)
(* "absent").  db.newID makes ids from the clock and never reuses one.     *)
(***************************************************************************)
EXTENDS Policy

CONSTANTS Plans, Approvals, Execs, Issues,   \* pools of row ids
          None                               \* no row

ASSUME NoneAssumption == None \notin Plans \cup Approvals \cup Execs \cup Issues

VARIABLES
    plans,       \* table plans with its plan_steps
    approvals,   \* table approvals
    executions,  \* table executions
    issues,      \* Linear issues that ask for an approval (external)
    workflows,   \* Temporal: the workflow of an execution (external)
    granted      \* history: who has ever approved which plan

storeVars == <<plans, approvals, executions, issues, workflows, granted>>

(***************************************************************************)
(* Rows                                                                    *)
(***************************************************************************)
Triggers         == {"api", "webhook", "alert", "scheduled", "workflow"}
ApprovalStatuses == {"pending", "approved", "denied", "expired"}
ExecStatuses     == {"pending", "running", "succeeded", "failed", "cancelled"}
Labels           == ApprovalStatuses
Granters         == {"auto", "api", "linear"}

\* approved_hash is a hash of the plan's intent and steps: of no steps at
\* all, or of the steps stored in plan_steps.  "none" is NULL.
Hashes == {"none", "empty", "stored"}

\* The plan's rows in plan_steps: none, or steps that riskFromSteps all rates
\* "read", or some step that it rates higher.
StepKinds == {"none", "reads", "writes"}

\* "risk" is the column risk_level, which the steps need not agree with;
\* "decision" is the policy decision the plan was created under, "none" for a
\* scheduled plan (history, not a column), "trigger" the code that created it.
PlanRow == [row: {"absent", "present", "deleted"}, trigger: Triggers,
            risk: Risks, steps: StepKinds,
            decision: {"none", "allow", "require_approval"}]

ApprovalRow == [plan: Plans \cup {None}, status: ApprovalStatuses, hash: Hashes]

\* "via" is the handler that created the execution (history).
ExecRow == [plan: Plans \cup {None}, status: ExecStatuses,
            via: {"none", "execute", "workflow"}, workflow_id: BOOLEAN]

\* "overdue": the issue is older than the watcher's Timeout.
Issue == [plan: Plans \cup {None}, labels: SUBSET Labels, overdue: BOOLEAN]

WorkflowStates == {"none", "new", "running", "ended"}

NoPlan      == [row |-> "absent", trigger |-> "api", risk |-> "read",
                steps |-> "none", decision |-> "none"]
NoApproval  == [plan |-> None, status |-> "pending", hash |-> "none"]
NoExecution == [plan |-> None, status |-> "pending", via |-> "none",
                workflow_id |-> FALSE]
NoIssue     == [plan |-> None, labels |-> {}, overdue |-> FALSE]

StoreTypeOK ==
    /\ plans \in [Plans -> PlanRow]
    /\ approvals \in [Approvals -> ApprovalRow]
    /\ executions \in [Execs -> ExecRow]
    /\ issues \in [Issues -> Issue]
    /\ workflows \in [Execs -> WorkflowStates]
    /\ granted \subseteq Plans \X Granters

StoreInit ==
    /\ plans = [p \in Plans |-> NoPlan]
    /\ approvals = [a \in Approvals |-> NoApproval]
    /\ executions = [e \in Execs |-> NoExecution]
    /\ issues = [i \in Issues |-> NoIssue]
    /\ workflows = [e \in Execs |-> "none"]
    /\ granted = {}

(***************************************************************************)
(* Queries                                                                 *)
(***************************************************************************)
Present(p)     == plans[p].row = "present"
ApprovalsOf(p) == {a \in Approvals : approvals[a].plan = p}
ExecsOf(p)     == {e \in Execs : executions[e].plan = p}
Active(e)      == executions[e].status \in {"pending", "running"}

\* HasActiveExecution: SELECT COUNT( * ) ... status IN ('pending','running').
HasActiveExecution(p) == \E e \in ExecsOf(p) : Active(e)

\* ComputePlanHash over the steps that are there.
ComputePlanHash(steps) == IF steps THEN "stored" ELSE "empty"

(***************************************************************************)
(* Statements.  Each gives the table after the statement.                  *)
(***************************************************************************)
\* CreatePlan: the plan and its steps, in one transaction.
CreatePlan(p, trigger, risk, steps, decision) ==
    [plans EXCEPT ![p] = [row |-> "present", trigger |-> trigger, risk |-> risk,
                          steps |-> steps, decision |-> decision]]

\* The foreign keys of plan_steps, approvals and executions have no cascade,
\* so DELETE FROM plans fails while a row refers to the plan.
MutantUnreferenced(p) == plans[p].steps = "none" /\ ExecsOf(p) = {}
Unreferenced(p) ==
    plans[p].steps = "none" /\ ApprovalsOf(p) = {} /\ ExecsOf(p) = {}

CreateApproval(a, p) ==
    [approvals EXCEPT ![a] = [plan |-> p, status |-> "pending", hash |-> "none"]]

UpdateApprovalStatusByPlan(p, status) ==
    [a \in Approvals |-> IF approvals[a].plan = p
                         THEN [approvals[a] EXCEPT !.status = status]
                         ELSE approvals[a]]

SetApprovalHash(p, hash) ==
    [a \in Approvals |-> IF approvals[a].plan = p
                         THEN [approvals[a] EXCEPT !.hash = hash]
                         ELSE approvals[a]]

CreateExecution(e, p, via) ==
    [executions EXCEPT ![e] = [plan |-> p, status |-> "pending", via |-> via,
                               workflow_id |-> FALSE]]

\* UpdateExecutionStatus and CompleteExecution: UPDATE ... WHERE execution_id,
\* whatever the status was.
SetExecutionStatus(e, status) == [executions EXCEPT ![e].status = status]

UpdateExecutionWorkflowID(e) == [executions EXCEPT ![e].workflow_id = TRUE]

\* CancelExecution: UPDATE ... AND status IN ('pending','running').
MutantCancellable(e) == executions[e].plan # None /\ executions[e].status # "cancelled"
Cancellable(e) == executions[e].plan # None /\ Active(e)
=============================================================================
