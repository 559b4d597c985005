------------------------------- MODULE Gateway -------------------------------
(***************************************************************************)
(* The gateway's request handlers (internal/web) that create, approve and  *)
(* execute plans.  A handler holds no lock: it is a sequence of SQL        *)
(* statements and calls to Linear and Temporal, and each of these is one   *)
(* step here, so that handlers interleave between any two of them.         *)
(*                                                                         *)
(* A slot of Reqs serves one request after the other.  Its "pc" names the  *)
(* statement the handler will make next.  A handler may stop at any of     *)
(* them (the call fails, the client goes away, the process crashes): the   *)
(* rows already written stay.                                              *)
(***************************************************************************)
EXTENDS PlanStore

CONSTANTS Reqs,                \* concurrent requests
          PlanRisks,           \* the risks plans are created with (a bound)
          AutoApproveLow,      \* configuration of the server
          PolicyConfigured, LinearConfigured, ExecutorConfigured

ASSUME GatewayAssumption ==
    /\ Reqs # {}
    /\ PlanRisks \subseteq Risks
    /\ {AutoApproveLow, PolicyConfigured, LinearConfigured, ExecutorConfigured}
         \subseteq BOOLEAN

VARIABLE req    \* the requests in flight

PCs == {"idle",
        "insertApproval", "createIssue", "autoApprove", "autoHash", "setHash",
        "readApproval", "readHash", "checkActive", "insertExec",
        "startWorkflow", "saveWorkflowID"}

\* "kind" is the handler, "auto" its choice to approve on its own, "steps"
\* whether it has read any plan steps, "reply" what the last request of this
\* slot was told ("modified": 403 "plan modified after approval").
Request == [pc: PCs, kind: {"none", "plan", "hook", "workflow", "approval", "execute"},
            plan: Plans \cup {None}, exec: Execs \cup {None},
            auto: BOOLEAN, steps: BOOLEAN, reply: {"none", "modified"}]

Idle == [pc |-> "idle", kind |-> "none", plan |-> None, exec |-> None,
         auto |-> FALSE, steps |-> FALSE, reply |-> "none"]

GatewayTypeOK == req \in [Reqs -> Request]
GatewayInit   == req = [r \in Reqs |-> Idle]

Free(r)     == req[r].pc = "idle"
At(r, pc)   == req[r].pc = pc
Goto(r, pc) == [req EXCEPT ![r].pc = pc]
Done(r)     == [req EXCEPT ![r] = Idle]
Begin(r, kind, p, pc, auto, steps) ==
    [req EXCEPT ![r] = [pc |-> pc, kind |-> kind, plan |-> p, exec |-> None,
                        auto |-> auto, steps |-> steps, reply |-> "none"]]

(***************************************************************************)
(* Policy                                                                  *)
(***************************************************************************)
CheckerAnswers == IF PolicyConfigured THEN Answers \ {"unconfigured"}
                  ELSE {"unconfigured"}

\* The decisions a handler can meet for a plan of this risk, whatever the
\* checker answers and the environment is; "headers" are the values that
\* X-Break-Glass may have.
PossibleDecisions(risk, blasts, headers) ==
    {PolicyDecision(answer, ActionType(risk), prod, risk, blast, breakGlass) :
       answer \in CheckerAnswers, prod \in BOOLEAN, blast \in blasts,
       breakGlass \in headers}

\* The decisions that let the handler go on.  Plans are created with a target
\* count of 0.
CreateDecisions(risk, headers) ==
    {d \in PossibleDecisions(risk, {BlastRadius(FALSE, 0)}, headers) :
       Proceeds(d, ActionType(risk))}
ExecuteDecisions(risk) ==
    {d \in PossibleDecisions(risk, {"namespace", "cluster", "account"}, BOOLEAN) :
       Proceeds(d, ActionType(risk))}

\* policyCheck: only "allow" passes.
PolicyCheck(risk) == "allow" \in PossibleDecisions(risk, {"namespace"}, BOOLEAN)

(***************************************************************************)
(* Creating plans                                                          *)
(***************************************************************************)
MutantAutoApproves(risk, decision) == risk = "low" /\ AutoApproveLow
AutoApproves(risk, decision) ==
    risk = "low" /\ AutoApproveLow /\ decision # "require_approval"

NewPlan(p) == plans[p].row = "absent"

\* A plan with the steps of the planner's text, if any, and its approval.  The
\* risk is the one of the intent's keywords, whatever the steps do.
PlanRequest(r, p, trigger, kind, mayAutoApprove) ==
    /\ Free(r) /\ NewPlan(p)
    /\ \E risk \in PlanRisks, steps \in StepKinds :
         \E decision \in CreateDecisions(risk, BOOLEAN) :
            /\ plans' = CreatePlan(p, trigger, risk, steps, decision)
            /\ req' = IF ActionType(risk) = "write"
                      THEN Begin(r, kind, p, "insertApproval",
                                 mayAutoApprove /\ AutoApproves(risk, decision), FALSE)
                      ELSE Done(r)
    /\ UNCHANGED <<approvals, executions, issues, workflows, granted>>

\* POST /v1/plans
CreatePlanRequest(r, p) == PlanRequest(r, p, "api", "plan", TRUE)

\* A hook that makes a plan of its own never approves it automatically; but
\* like POST /v1/plans it asks for an approval only if the risk is a write.
HookRequest(r, p) == PlanRequest(r, p, "webhook", "hook", FALSE)

RiskRank(risk) == CASE risk = "read" -> 0 [] risk = "low"  -> 1
                    [] risk = "medium" -> 2 [] risk = "high" -> 3

\* runAlertEventLoop: the policy is asked about the risk of the intent, without
\* any header; the plan is stored with the risk of its steps where that is
\* higher, so that steps that write make the plan a write.
MutantAlertEventLoop(r, p) == PlanRequest(r, p, "alert", "hook", FALSE)
AlertEventLoop(r, p) ==
    /\ Free(r) /\ NewPlan(p)
    /\ \E intentRisk, risk \in PlanRisks, steps \in StepKinds :
         /\ RiskRank(risk) >= RiskRank(intentRisk)
         /\ risk # intentRisk => steps = "writes"
         /\ steps = "writes" => risk # "read"
         /\ \E decision \in CreateDecisions(intentRisk, {FALSE}) :
              /\ plans' = CreatePlan(p, "alert", risk, steps, decision)
              /\ req' = IF ActionType(risk) = "write"
                        THEN Begin(r, "hook", p, "insertApproval", FALSE, FALSE)
                        ELSE Done(r)
    /\ UNCHANGED <<approvals, executions, issues, workflows, granted>>

\* Scheduler.RunOnce: no policy decision, no steps, no approval row.
ScheduledPlan(p) ==
    /\ NewPlan(p)
    /\ \E risk \in PlanRisks :
         plans' = CreatePlan(p, "scheduled", risk, "none", "none")
    /\ UNCHANGED <<approvals, executions, issues, workflows, granted, req>>

\* POST /v1/workflows/{name}/start: a plan with steps, and for a low risk the
\* execution in the same request.  No template has the risk "read".
StartWorkflowRequest(r, p) ==
    /\ Free(r) /\ NewPlan(p) /\ ExecutorConfigured
    /\ \E risk \in PlanRisks \ {"read"} :
         \E decision \in CreateDecisions(risk, BOOLEAN) :
            /\ plans' = CreatePlan(p, "workflow", risk, "writes", decision)
            /\ req' = Begin(r, "workflow", p, "insertApproval",
                            AutoApproves(risk, decision), TRUE)
    /\ UNCHANGED <<approvals, executions, issues, workflows, granted>>

(***************************************************************************)
(* createApproval and the automatic approval                               *)
(***************************************************************************)
\* What a handler does once the approval is there.
ThenExecute(r) == IF /\ req[r].kind = "workflow"
                     /\ plans[req[r].plan].risk = "low" /\ AutoApproveLow
                  THEN Goto(r, "checkActive") ELSE Done(r)

\* INSERT INTO approvals; the foreign key fails when the plan is gone.
InsertApproval(r, a) ==
    /\ At(r, "insertApproval") /\ approvals[a].plan = None
    /\ Present(req[r].plan)
    /\ approvals' = CreateApproval(a, req[r].plan)
    /\ req' = CASE req[r].auto                       -> Goto(r, "autoApprove")
                [] ~req[r].auto /\ LinearConfigured  -> Goto(r, "createIssue")
                [] ~req[r].auto /\ ~LinearConfigured -> ThenExecute(r)
    /\ UNCHANGED <<plans, executions, issues, workflows, granted>>

\* CreateApprovalIssue: the answer of Linear may be lost, and the handler
\* then stops though the issue is there.
CreateIssue(r, i) ==
    /\ At(r, "createIssue") /\ issues[i].plan = None
    /\ issues' = [issues EXCEPT ![i] = [plan |-> req[r].plan,
                                        labels |-> {"pending"}, overdue |-> FALSE]]
    /\ req' \in {ThenExecute(r), Done(r)}
    /\ UNCHANGED <<plans, approvals, executions, workflows, granted>>

AutoApprove(r) ==
    /\ At(r, "autoApprove")
    /\ approvals' = UpdateApprovalStatusByPlan(req[r].plan, "approved")
    /\ granted' = granted \cup {<<req[r].plan, "auto">>}
    /\ req' = IF req[r].kind = "plan" THEN Goto(r, "autoHash") ELSE ThenExecute(r)
    /\ UNCHANGED <<plans, executions, issues, workflows>>

\* The steps in the handler's hands are drafts, which parsePlanStepsPayload
\* turns into none: the hash is the one of no steps.
AutoApproveHash(r) ==
    /\ At(r, "autoHash")
    /\ approvals' = SetApprovalHash(req[r].plan, ComputePlanHash(FALSE))
    /\ req' = Done(r)
    /\ UNCHANGED <<plans, executions, issues, workflows, granted>>

(***************************************************************************)
(* POST /v1/approvals                                                      *)
(***************************************************************************)
ApprovalRequest(r, p, status) ==
    /\ Free(r) /\ ~NewPlan(p) /\ PolicyCheck("read")
    /\ approvals' = IF status = "pending" THEN approvals
                    ELSE UpdateApprovalStatusByPlan(p, status)
    /\ granted' = IF status = "approved" THEN granted \cup {<<p, "api">>} ELSE granted
    /\ req' = CASE status = "pending"  ->
                     Begin(r, "approval", p, "insertApproval", FALSE, FALSE)
                [] status = "approved" ->
                     Begin(r, "approval", p, "setHash", FALSE, FALSE)
                [] OTHER -> Done(r)
    /\ UNCHANGED <<plans, executions, issues, workflows>>

\* GetPlan does not return the steps, so this too is the hash of no steps.
SetHash(r) ==
    /\ At(r, "setHash")
    /\ approvals' = IF Present(req[r].plan)
                    THEN SetApprovalHash(req[r].plan, ComputePlanHash(FALSE))
                    ELSE approvals
    /\ req' = Done(r)
    /\ UNCHANGED <<plans, executions, issues, workflows, granted>>

(***************************************************************************)
(* POST /v1/plans/{id}:execute                                             *)
(***************************************************************************)
\* GetPlan, ListPlanSteps (whose error is taken for no steps), the policy
\* decision and the constraints.
ExecuteRequest(r, p) ==
    /\ Free(r) /\ Present(p)
    /\ ExecuteDecisions(plans[p].risk) # {}
    /\ \E steps \in {plans[p].steps # "none", FALSE} :
         req' = Begin(r, "execute", p,
                      IF ActionType(plans[p].risk) = "write" THEN "readApproval"
                                                             ELSE "readHash",
                      FALSE, steps)
    /\ UNCHANGED storeVars

\* approvalStatus: with a token, the row of that id; without one, ORDER BY
\* expires_at LIMIT 1, and expires_at is never set: any row of the plan.
MutantReadApproval(r) ==
    /\ At(r, "readApproval")
    /\ \E a \in ApprovalsOf(req[r].plan) :
         req' = IF approvals[a].status \notin {"denied", "expired"}
                THEN Goto(r, "readHash") ELSE Done(r)
    /\ UNCHANGED storeVars
ReadApproval(r) ==
    /\ At(r, "readApproval")
    /\ \E a \in ApprovalsOf(req[r].plan) :
         req' = IF approvals[a].status = "approved"
                THEN Goto(r, "readHash") ELSE Done(r)
    /\ UNCHANGED storeVars

\* GetApprovalHash; its error, no row and NULL are all taken for no hash.
ReadHash(r) ==
    /\ At(r, "readHash")
    /\ \E hash \in {approvals[a].hash : a \in ApprovalsOf(req[r].plan)} \cup {"none"} :
         req' = IF hash \in {"none", ComputePlanHash(req[r].steps)}
                THEN Goto(r, "checkActive")
                ELSE [req EXCEPT ![r] = [Idle EXCEPT !.reply = "modified"]]
    /\ UNCHANGED storeVars

CheckActive(r) ==
    /\ At(r, "checkActive")
    /\ req' = IF HasActiveExecution(req[r].plan) THEN Done(r) ELSE Goto(r, "insertExec")
    /\ UNCHANGED storeVars

InsertExecution(r, e) ==
    /\ At(r, "insertExec") /\ executions[e].plan = None
    /\ Present(req[r].plan)
    /\ executions' = CreateExecution(e, req[r].plan,
                        IF req[r].kind = "workflow" THEN "workflow" ELSE "execute")
    /\ req' = IF ExecutorConfigured
              THEN [req EXCEPT ![r].pc = "startWorkflow", ![r].exec = e]
              ELSE Done(r)
    /\ UNCHANGED <<plans, approvals, issues, workflows, granted>>

\* StartExecution: Temporal may have started the workflow though the call
\* reports an error, which the handler ignores.
StartWorkflow(r) ==
    /\ At(r, "startWorkflow")
    /\ workflows' = [workflows EXCEPT ![req[r].exec] = "new"]
    /\ req' \in {Goto(r, "saveWorkflowID"), Done(r)}
    /\ UNCHANGED <<plans, approvals, executions, issues, granted>>

SaveWorkflowID(r) ==
    /\ At(r, "saveWorkflowID")
    /\ executions' = UpdateExecutionWorkflowID(req[r].exec)
    /\ req' = Done(r)
    /\ UNCHANGED <<plans, approvals, issues, workflows, granted>>

(***************************************************************************)
(* Requests of one statement, and requests that stop half way              *)
(***************************************************************************)
\* POST /v1/executions/{id}/cancel: the row only; Temporal is not told.
MutantCancelExecution(e) ==
    /\ Cancellable(e) /\ PolicyCheck("low")
    /\ executions' = SetExecutionStatus(e, "canceled")
    /\ UNCHANGED <<plans, approvals, issues, workflows, granted, req>>
CancelExecution(e) ==
    /\ Cancellable(e) /\ PolicyCheck("low")
    /\ executions' = SetExecutionStatus(e, "cancelled")
    /\ UNCHANGED <<plans, approvals, issues, workflows, granted, req>>

\* DELETE /v1/plans/{id}
DeletePlan(p) ==
    /\ Present(p) /\ Unreferenced(p)
    /\ plans' = [plans EXCEPT ![p].row = "deleted"]
    /\ UNCHANGED <<approvals, executions, issues, workflows, granted, req>>

\* A call of the handler fails, or nobody waits for the answer any more.
EndRequest(r) ==
    /\ ~Free(r)
    /\ req' = Done(r)
    /\ UNCHANGED storeVars

GatewayNext ==
    \/ \E r \in Reqs, p \in Plans :
         \/ CreatePlanRequest(r, p) \/ HookRequest(r, p) \/ AlertEventLoop(r, p)
         \/ StartWorkflowRequest(r, p) \/ ExecuteRequest(r, p)
         \/ \E status \in ApprovalStatuses : ApprovalRequest(r, p, status)
    \/ \E r \in Reqs, a \in Approvals : InsertApproval(r, a)
    \/ \E r \in Reqs, i \in Issues : CreateIssue(r, i)
    \/ \E r \in Reqs, e \in Execs : InsertExecution(r, e)
    \/ \E r \in Reqs : AutoApprove(r) \/ AutoApproveHash(r) \/ SetHash(r)
    \/ \E r \in Reqs : ReadApproval(r) \/ ReadHash(r) \/ CheckActive(r)
    \/ \E r \in Reqs : StartWorkflow(r) \/ SaveWorkflowID(r) \/ EndRequest(r)
    \/ \E p \in Plans : ScheduledPlan(p) \/ DeletePlan(p)
    \/ \E e \in Execs : CancelExecution(e)
=============================================================================
