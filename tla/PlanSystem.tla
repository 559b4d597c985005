----------------------------- MODULE PlanSystem ------------------------------
(***************************************************************************)
(* The gateway, the approval watcher and the execution workflows over      *)
(* their shared tables: from a plan's creation over its approval to its    *)
(* executions.  The workflows appear by what they do to the table of       *)
(* executions, PlanExecution shows the rest of them.                       *)
(***************************************************************************)
EXTENDS Gateway, ApprovalWatcher

vars == <<storeVars, req, watch>>

(***************************************************************************)
(* PlanExecutionWorkflow                                                   *)
(***************************************************************************)
\* UpdateExecutionStatus "running".  An attempt may reach the database and
\* its answer be lost: the workflow then tries again.
WorkflowMarksRunning(e) ==
    /\ workflows[e] = "new"
    /\ executions' = SetExecutionStatus(e, "running")
    /\ \E answered \in BOOLEAN :
         workflows' = IF answered THEN [workflows EXCEPT ![e] = "running"] ELSE workflows
    /\ UNCHANGED <<plans, approvals, issues, granted, req, watch>>

\* CompleteExecution, with the same uncertainty: a lost answer is the first
\* of these steps, and the same activity again.
MutantWorkflowCompletes(e) ==
    /\ workflows[e] \in {"running", "ended"}
    /\ \E status \in {"succeeded", "failed"} :
         executions' = SetExecutionStatus(e, status)
    /\ UNCHANGED <<plans, approvals, issues, workflows, granted, req, watch>>
WorkflowCompletes(e) ==
    /\ workflows[e] = "running"
    /\ \E status \in {"succeeded", "failed"} :
         /\ executions[e].status \in {"succeeded", "failed"}
              => status = executions[e].status
         /\ executions' = SetExecutionStatus(e, status)
    /\ UNCHANGED <<plans, approvals, issues, workflows, granted, req, watch>>

\* The workflow returns: after CompleteExecution, or because every attempt of
\* an activity that writes the status has failed.
WorkflowEnds(e) ==
    /\ workflows[e] \in {"new", "running"}
    /\ workflows' = [workflows EXCEPT ![e] = "ended"]
    /\ UNCHANGED <<plans, approvals, executions, issues, granted, req, watch>>

WorkflowNext == \E e \in Execs :
    WorkflowMarksRunning(e) \/ WorkflowCompletes(e) \/ WorkflowEnds(e)

(***************************************************************************)
(* The system                                                              *)
(***************************************************************************)
\* The gateway's process restarts: its requests and its watcher are gone.
Restart ==
    /\ RestartWatcher
    /\ req' = [r \in Reqs |-> Idle]
    /\ UNCHANGED storeVars

Init == StoreInit /\ GatewayInit /\ WatcherInit

WatcherSteps == LinearConfigured /\ (Poll \/ Process \/ CallFails)

Next ==
    \/ GatewayNext /\ UNCHANGED watch
    \/ WatcherSteps /\ UNCHANGED req
    \/ People /\ UNCHANGED <<req, watch>>
    \/ WorkflowNext
    \/ Restart

Spec == Init /\ [][Next]_vars

(***************************************************************************)
(* Properties                                                              *)
(***************************************************************************)
\* Types of the tables, of the requests and of the watcher.
TypeOK == StoreTypeOK /\ GatewayTypeOK /\ WatcherTypeOK

\* DELETE /v1/plans never leaves an approval or an execution without its plan,
\* whatever requests are in flight.
ReferentialIntegrity ==
    /\ \A a \in Approvals : approvals[a].plan # None => Present(approvals[a].plan)
    /\ \A e \in Execs : executions[e].plan # None => Present(executions[e].plan)

Write(p) == ActionType(plans[p].risk) = "write"

Executed(p) == ExecsOf(p) # {}

\* What makes plans without anybody asking for them.
Unattended == {"webhook", "alert", "scheduled"}

GrantedBy(p, who) == \E g \in who : <<p, g>> \in granted

\* :execute never creates an execution of a plan whose risk is a write and that
\* nobody has approved, neither a person nor the automatic approval.
WriteExecutionGranted ==
    \A e \in Execs, p \in Plans :
       executions[e].plan = p /\ executions[e].via = "execute" /\ Write(p)
          => GrantedBy(p, Granters)

\* Some person has approved the plan, in Linear or through the API.
ByPeople(p) == GrantedBy(p, {"api", "linear"})

StepsWrite(p) == plans[p].steps = "writes"

\* A plan nobody asked for is executed only after a person has approved it, if
\* its risk is a write; and if it comes from an alert or a schedule, already if
\* one of its steps writes, whatever keywords the alert's text holds.
HumanApproval ==
    \A p \in Plans : Executed(p) =>
       /\ plans[p].trigger \in Unattended /\ Write(p) => ByPeople(p)
       /\ plans[p].trigger \in Unattended \ {"webhook"} /\ StepsWrite(p) => ByPeople(p)

\* "Webhook-triggered plans always require human approval regardless of risk
\* level": a webhook's plan with a step that writes is executed only after a
\* person has approved it.  TLC refutes it with PlanSystemHook.cfg: handleHook
\* takes the risk from the intent's keywords alone.
HooksNeedPeople ==
    \A p \in Plans :
       Executed(p) /\ plans[p].trigger = "webhook" /\ StepsWrite(p) => ByPeople(p)

\* "require_approval ... blocks execution until approved": no execution of a
\* plan that the policy wants approved before a person approves it.  TLC refutes
\* it with PlanSystemPolicy.cfg: workflow starts go by risk and AutoApproveLow.
RequireApprovalBlocks ==
    \A p \in Plans :
       Executed(p) /\ plans[p].decision = "require_approval" => ByPeople(p)

\* What the code keeps of it, whatever the configuration: an execution of a plan
\* that the policy wants approved has a person's approval, and the automatic
\* approval never stands in for it; the one way past it is the start of a
\* workflow of low risk with AutoApproveLow.
PolicyHeeded ==
    \A e \in Execs, p \in Plans :
       executions[e].plan = p /\ plans[p].decision = "require_approval"
          => \/ ByPeople(p)
             \/ executions[e].via = "workflow" /\ AutoApproveLow /\ plans[p].risk = "low"

\* An approval that says "approved" goes back to somebody's approval of that
\* plan, through every path and delay of the watcher.
ApprovedRowGranted ==
    \A p \in Plans : \A a \in ApprovalsOf(p) :
       approvals[a].status = "approved" => GrantedBy(p, Granters)

\* A plan never has two executions that are pending or running: what the 409
\* of :execute is for.
OneActiveExecution ==
    \A p \in Plans : \A e, f \in ExecsOf(p) : Active(e) /\ Active(f) => e = f

\* Nothing in the system modifies a stored plan, so :execute never has to
\* refuse one as "modified after approval".
UnmodifiedPlanNotRefused == \A r \in Reqs : req[r].reply # "modified"

(***************************************************************************)
(* The inductive invariant behind these, table by table: what a row may    *)
(* claim of a plan and of who has approved it.                             *)
(***************************************************************************)
Known(p) == plans[p].row # "absent"

\* The automatic approval is for plans that people or workflows asked for and
\* that the policy allows.
MayAutoApprove(p) == plans[p].trigger \notin Unattended
                       /\ plans[p].decision # "require_approval"

\* A write is approved before a handler gets past the approval.
Approved(p) == Write(p) => GrantedBy(p, Granters)

GoodRequest(q) == q.pc # "idle" =>
    /\ q.plan \in Plans /\ Known(q.plan)
    /\ q.auto => MayAutoApprove(q.plan)
    /\ q.pc = "autoApprove" => q.auto
    /\ q.pc = "readApproval" => q.kind = "execute"
    /\ q.kind = "workflow" => plans[q.plan].trigger = "workflow"
    /\ q.pc \in {"readHash", "checkActive", "insertExec"} =>
         \/ q.kind = "execute" /\ Approved(q.plan)
         \/ q.kind = "workflow" /\ AutoApproveLow /\ plans[q.plan].risk = "low"

GoodApproval(row) == row.plan # None =>
    /\ Present(row.plan)
    /\ row.status = "approved" => GrantedBy(row.plan, Granters)

GoodExecution(row) == row.plan # None =>
    /\ Present(row.plan)
    /\ \/ row.via = "execute" /\ Approved(row.plan)
       \/ /\ row.via = "workflow" /\ AutoApproveLow
          /\ plans[row.plan].trigger = "workflow" /\ plans[row.plan].risk = "low"

\* An issue, and the watcher's copy of it, claims an approval only if somebody
\* set that label.
GoodIssue(i) ==
    /\ issues[i].plan # None => Known(issues[i].plan)
    /\ "approved" \in issues[i].labels => <<issues[i].plan, "linear">> \in granted
GoodItem(item) ==
    /\ issues[item.issue].plan # None
    /\ item.status = "approved" => <<issues[item.issue].plan, "linear">> \in granted

GoodGrant(p, g) == Known(p) /\ (g = "auto" => MayAutoApprove(p))

\* What the policy wants approved is a write, so that :execute asks for it, and
\* so are an alert's and a schedule's plans with steps that write.
GoodPlan(p) ==
    /\ plans[p].decision = "require_approval" => Write(p)
    /\ plans[p].trigger \in Unattended \ {"webhook"} /\ StepsWrite(p) => Write(p)

PlansGood      == \A p \in Plans : GoodPlan(p)
RequestsGood   == \A r \in Reqs : GoodRequest(req[r])
ApprovalsGood  == \A a \in Approvals : GoodApproval(approvals[a])
ExecutionsGood == \A e \in Execs : GoodExecution(executions[e])
IssuesGood     == \A i \in Issues : GoodIssue(i)
BatchGood      == \A item \in watch.batch : GoodItem(item)
GrantsGood     == \A p \in Plans, g \in Granters : <<p, g>> \in granted => GoodGrant(p, g)

\* Every table, every request in flight and every stale copy the watcher holds
\* is consistent with who really approved which plan.
IInv == /\ TypeOK /\ PlansGood
        /\ RequestsGood /\ ApprovalsGood /\ ExecutionsGood
        /\ IssuesGood /\ BatchGood /\ GrantsGood

Lifecycle(e) == INSTANCE ExecutionLifecycle WITH
    status   <- IF executions[e].plan = None THEN "absent" ELSE executions[e].status,
    workflow <- workflows[e]
LifecycleStep(e) == Lifecycle(e)!Next \/ UNCHANGED Lifecycle(e)!vars

\* Every execution lives the life of ExecutionLifecycle; so once it has succeeded
\* or failed, no later cancel request, retry or workflow step changes its status.
ExecutionsLifecycle ==
    /\ \A e \in Execs : Lifecycle(e)!Init
    /\ [][\A e \in Execs : LifecycleStep(e)]_vars
=============================================================================
