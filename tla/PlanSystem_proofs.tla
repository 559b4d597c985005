-------------------------- MODULE PlanSystem_proofs --------------------------
(***************************************************************************)
(* Proofs about PlanSystem, for any pools of rows and requests and any     *)
(* configuration.                                                          *)
(***************************************************************************)
EXTENDS PlanSystem, TLAPS

(***************************************************************************)
(* Types of the operators the actions are built from                       *)
(***************************************************************************)
\* Moving a request on, ending it and starting one keep it a request.
LEMMA RequestTypes ==
    ASSUME GatewayTypeOK, NEW r \in Reqs
    PROVE  /\ \A pc \in PCs : Goto(r, pc) \in [Reqs -> Request]
           /\ Done(r) \in [Reqs -> Request]
           /\ ThenExecute(r) \in [Reqs -> Request]
           /\ \A kind \in {"plan", "hook", "workflow", "approval", "execute"},
                 p \in Plans, pc \in PCs, auto, steps \in BOOLEAN :
                 Begin(r, kind, p, pc, auto, steps) \in [Reqs -> Request]
<1>1. Idle \in Request
  BY DEF Idle, Request, PCs
<1>2. \A pc \in PCs : Goto(r, pc) \in [Reqs -> Request]
  BY DEF GatewayTypeOK, Goto, Request
<1>3. Done(r) \in [Reqs -> Request]
  BY <1>1 DEF GatewayTypeOK, Done
<1>4. "checkActive" \in PCs
  BY DEF PCs
<1>5. ThenExecute(r) \in [Reqs -> Request]
  BY <1>2, <1>3, <1>4 DEF ThenExecute
<1>6. \A kind \in {"plan", "hook", "workflow", "approval", "execute"},
         p \in Plans, pc \in PCs, auto, steps \in BOOLEAN :
         Begin(r, kind, p, pc, auto, steps) \in [Reqs -> Request]
  BY DEF GatewayTypeOK, Begin, Request
<1>7. QED
  BY <1>2, <1>3, <1>5, <1>6

\* The statements keep the types of their tables.
LEMMA StatementTypes ==
    ASSUME StoreTypeOK
    PROVE  /\ \A p \in Plans, trigger \in Triggers, risk \in Risks, steps \in StepKinds,
                 decision \in {"none", "allow", "require_approval"} :
                 CreatePlan(p, trigger, risk, steps, decision) \in [Plans -> PlanRow]
           /\ \A a \in Approvals, p \in Plans :
                 CreateApproval(a, p) \in [Approvals -> ApprovalRow]
           /\ \A status \in ApprovalStatuses : \A p :
                 UpdateApprovalStatusByPlan(p, status) \in [Approvals -> ApprovalRow]
           /\ \A hash \in Hashes : \A p :
                 SetApprovalHash(p, hash) \in [Approvals -> ApprovalRow]
           /\ \A e \in Execs, p \in Plans, via \in {"execute", "workflow"} :
                 CreateExecution(e, p, via) \in [Execs -> ExecRow]
           /\ \A status \in ExecStatuses, e \in Execs :
                 SetExecutionStatus(e, status) \in [Execs -> ExecRow]
           /\ \A e : UpdateExecutionWorkflowID(e) \in [Execs -> ExecRow]
<1>1. \A p \in Plans, trigger \in Triggers, risk \in Risks, steps \in StepKinds,
         decision \in {"none", "allow", "require_approval"} :
         CreatePlan(p, trigger, risk, steps, decision) \in [Plans -> PlanRow]
  BY DEF StoreTypeOK, CreatePlan, PlanRow
<1>2. \A a \in Approvals, p \in Plans :
         CreateApproval(a, p) \in [Approvals -> ApprovalRow]
  BY DEF StoreTypeOK, CreateApproval, ApprovalRow, ApprovalStatuses, Hashes
<1>3. \A status \in ApprovalStatuses : \A p :
         UpdateApprovalStatusByPlan(p, status) \in [Approvals -> ApprovalRow]
  BY DEF StoreTypeOK, UpdateApprovalStatusByPlan, ApprovalRow
<1>4. \A hash \in Hashes : \A p :
         SetApprovalHash(p, hash) \in [Approvals -> ApprovalRow]
  BY DEF StoreTypeOK, SetApprovalHash, ApprovalRow
<1>5. \A e \in Execs, p \in Plans, via \in {"execute", "workflow"} :
         CreateExecution(e, p, via) \in [Execs -> ExecRow]
  BY DEF StoreTypeOK, CreateExecution, ExecRow, ExecStatuses
<1>6. \A status \in ExecStatuses, e \in Execs :
         SetExecutionStatus(e, status) \in [Execs -> ExecRow]
  BY DEF StoreTypeOK, SetExecutionStatus, ExecRow
<1>7. \A e : UpdateExecutionWorkflowID(e) \in [Execs -> ExecRow]
  BY DEF StoreTypeOK, UpdateExecutionWorkflowID, ExecRow
<1>8. QED
  BY <1>1, <1>2, <1>3, <1>4, <1>5, <1>6, <1>7

\* A decision that lets a handler go on is one that a plan can be stored with.
LEMMA CreateDecisionType ==
    ASSUME NEW risk, NEW headers, NEW decision \in CreateDecisions(risk, headers)
    PROVE  /\ decision \in {"allow", "require_approval"}
           /\ decision = "require_approval" => ActionType(risk) = "write"
BY DEF CreateDecisions, Proceeds

(***************************************************************************)
(* Frames: a table that a step leaves alone stays good as long as no plan  *)
(* is forgotten and no approval is taken back.                             *)
(***************************************************************************)
SamePlan(p) == /\ plans'[p].row # "absent"
               /\ plans'[p].trigger = plans[p].trigger
               /\ plans'[p].risk = plans[p].risk
               /\ plans'[p].decision = plans[p].decision
Keeps == /\ \A p \in Plans : Known(p) => SamePlan(p)
         /\ granted \subseteq granted'
KeepsRows == \A p \in Plans : Present(p) => plans'[p].row = "present"

\* A step that leaves the tables plans and granted alone keeps them.
LEMMA NothingKeeps == UNCHANGED <<plans, granted>> => Keeps /\ KeepsRows
BY DEF Keeps, KeepsRows, SamePlan, Known, Present

\* A request that a step does not touch stays good.
LEMMA OtherRequest ==
    ASSUME Keeps, NEW r \in Reqs, GoodRequest(req[r]), req'[r] = req[r]
    PROVE  GoodRequest(req[r])'
BY DEF Keeps, SamePlan, Known, GoodRequest, MayAutoApprove, Approved, Write, GrantedBy

\* So do the rows of the tables approvals and executions.
LEMMA OtherApproval ==
    ASSUME Keeps, KeepsRows, NEW a \in Approvals, GoodApproval(approvals[a]),
           approvals[a].plan \in Plans \cup {None}, approvals'[a] = approvals[a]
    PROVE  GoodApproval(approvals[a])'
BY DEF Keeps, KeepsRows, Present, GoodApproval, GrantedBy

LEMMA OtherExecution ==
    ASSUME Keeps, KeepsRows, NEW e \in Execs, GoodExecution(executions[e]),
           executions[e].plan \in Plans \cup {None},
           executions'[e].plan = executions[e].plan,
           executions'[e].via = executions[e].via
    PROVE  GoodExecution(executions[e])'
BY DEF Keeps, KeepsRows, SamePlan, Known, Present, GoodExecution, Approved, Write,
       GrantedBy

\* All the tables that stay as they are, at once.
LEMMA Frame ==
    ASSUME IInv, Keeps
    PROVE  /\ UNCHANGED plans => PlansGood'
           /\ UNCHANGED req => RequestsGood'
           /\ KeepsRows /\ UNCHANGED approvals => ApprovalsGood'
           /\ KeepsRows /\ UNCHANGED executions => ExecutionsGood'
           /\ UNCHANGED issues => IssuesGood'
           /\ UNCHANGED <<issues, watch>> => BatchGood'
           /\ UNCHANGED granted => GrantsGood'
<1>1. UNCHANGED req => RequestsGood'
  BY OtherRequest DEF IInv, RequestsGood
<1>2. ASSUME KeepsRows, UNCHANGED approvals PROVE ApprovalsGood'
  <2> SUFFICES ASSUME NEW a \in Approvals PROVE GoodApproval(approvals[a])'
    BY DEF ApprovalsGood
  <2>1. approvals[a].plan \in Plans \cup {None} /\ GoodApproval(approvals[a])
    BY DEF IInv, TypeOK, StoreTypeOK, ApprovalRow, ApprovalsGood
  <2>2. QED
    BY <1>2, <2>1, OtherApproval
<1>3. ASSUME KeepsRows, UNCHANGED executions PROVE ExecutionsGood'
  <2> SUFFICES ASSUME NEW e \in Execs PROVE GoodExecution(executions[e])'
    BY DEF ExecutionsGood
  <2>1. executions[e].plan \in Plans \cup {None} /\ GoodExecution(executions[e])
    BY DEF IInv, TypeOK, StoreTypeOK, ExecRow, ExecutionsGood
  <2>2. QED
    BY <1>3, <2>1, OtherExecution
<1>4. ASSUME UNCHANGED issues PROVE IssuesGood'
  BY <1>4 DEF IInv, TypeOK, StoreTypeOK, Issue, IssuesGood, GoodIssue, Keeps, SamePlan,
              Known
<1>5. ASSUME UNCHANGED <<issues, watch>> PROVE BatchGood'
  BY <1>5 DEF IInv, BatchGood, GoodItem, Keeps
<1>6. ASSUME UNCHANGED granted PROVE GrantsGood'
  BY <1>6 DEF IInv, GrantsGood, GoodGrant, Keeps, SamePlan, Known, MayAutoApprove
<1>7. UNCHANGED plans => PlansGood'
  BY DEF IInv, PlansGood, GoodPlan, StepsWrite, Write
<1>8. QED
  BY <1>1, <1>2, <1>3, <1>4, <1>5, <1>6, <1>7

\* A step of one request leaves the others alone.
LEMMA OneRequest ==
    ASSUME IInv, Keeps, NEW r \in Reqs, GoodRequest(req[r])',
           \A s \in Reqs \ {r} : req'[s] = req[s]
    PROVE  RequestsGood'
<1> SUFFICES ASSUME NEW s \in Reqs PROVE GoodRequest(req[s])'
  BY DEF RequestsGood
<1>1. CASE s = r
  BY <1>1
<1>2. CASE s # r
  BY <1>2, OtherRequest DEF IInv, RequestsGood
<1>3. QED
  BY <1>1, <1>2

\* A request that ends is good, whatever it was.
LEMMA DoneGood ==
    ASSUME IInv, Keeps, NEW r \in Reqs, req' = Done(r)
    PROVE  RequestsGood'
<1>1. /\ \A s \in Reqs \ {r} : req'[s] = req[s]
      /\ req'[r].pc = "idle"
  BY DEF IInv, TypeOK, GatewayTypeOK, Done, Idle
<1>2. GoodRequest(req[r])'
  BY <1>1 DEF GoodRequest
<1>3. QED
  BY <1>1, <1>2, OneRequest

(***************************************************************************)
(* The initial state                                                       *)
(***************************************************************************)
\* All tables empty, all requests idle.
LEMMA InitIInv == Init => IInv
<1> SUFFICES ASSUME Init PROVE IInv
  OBVIOUS
<1> USE DEF Init, StoreInit, GatewayInit, WatcherInit
<1>1. StoreTypeOK
  BY DEF StoreTypeOK, NoPlan, NoApproval, NoExecution, NoIssue, PlanRow, ApprovalRow,
         ExecRow, Issue, Triggers, Risks, StepKinds, ApprovalStatuses, ExecStatuses,
         Hashes, WorkflowStates
<1>2. GatewayTypeOK
  BY DEF GatewayTypeOK, Idle, Request, PCs
<1>3. WatcherTypeOK
  BY WatcherAssumption DEF WatcherTypeOK, Watch, NewWatch
<1>4. RequestsGood /\ ApprovalsGood /\ ExecutionsGood
  BY DEF RequestsGood, ApprovalsGood, ExecutionsGood, GoodRequest, GoodApproval,
         GoodExecution, Idle, NoApproval, NoExecution
<1>5. PlansGood /\ IssuesGood /\ BatchGood /\ GrantsGood
  BY DEF PlansGood, GoodPlan, StepsWrite, IssuesGood, BatchGood, GrantsGood, GoodIssue,
         NoPlan, NoIssue, NewWatch
<1>6. QED
  BY <1>1, <1>2, <1>3, <1>4, <1>5 DEF IInv, TypeOK

(***************************************************************************)
(* Creating a plan                                                         *)
(***************************************************************************)
\* What the five ways to create a plan have in common.
Creates(r, p, trigger, risk, steps, decision) ==
    /\ plans' = CreatePlan(p, trigger, risk, steps, decision)
    /\ decision = "require_approval" => ActionType(risk) = "write"
    /\ trigger \in Unattended \ {"webhook"} /\ steps = "writes"
         => ActionType(risk) = "write"
    /\ \/ req' = req
       \/ req' = Done(r)
       \/ \E kind \in {"plan", "hook", "workflow"}, auto, given \in BOOLEAN :
            /\ req' = Begin(r, kind, p, "insertApproval", auto, given)
            /\ auto => trigger \notin Unattended /\ decision # "require_approval"
            /\ kind = "workflow" => trigger = "workflow"

CreatingAction(r, p) ==
    \/ CreatePlanRequest(r, p) \/ HookRequest(r, p) \/ AlertEventLoop(r, p)
    \/ StartWorkflowRequest(r, p) \/ ScheduledPlan(p)

PlanDecisions == {"none", "allow", "require_approval"}

\* Each of them creates a plan that was not there, and asks for the automatic
\* approval only where it may.
LEMMA Creation ==
    ASSUME NEW r \in Reqs, NEW p \in Plans, CreatingAction(r, p)
    PROVE  /\ NewPlan(p) /\ UNCHANGED <<approvals, executions, issues, workflows, granted>>
           /\ \E trigger \in Triggers, risk \in Risks, steps \in StepKinds,
                 decision \in PlanDecisions : Creates(r, p, trigger, risk, steps, decision)
<1> DEFINE Goal == \E trigger \in Triggers, risk \in Risks, steps \in StepKinds,
                      decision \in PlanDecisions :
                      Creates(r, p, trigger, risk, steps, decision)
<1>a. PlanRisks \subseteq Risks
  BY GatewayAssumption
<1>b. \A risk, headers : \A decision \in CreateDecisions(risk, headers) :
         /\ decision \in PlanDecisions
         /\ decision = "require_approval" => ActionType(risk) = "write"
  BY CreateDecisionType DEF PlanDecisions
<1>c. \A risk, decision : /\ AutoApproves(risk, decision) \in BOOLEAN
                          /\ AutoApproves(risk, decision) => decision # "require_approval"
  BY DEF AutoApproves
<1>1. ASSUME CreatePlanRequest(r, p) PROVE Goal
  <2>1. PICK risk \in PlanRisks, steps \in StepKinds :
          \E decision \in CreateDecisions(risk, BOOLEAN) :
            /\ plans' = CreatePlan(p, "api", risk, steps, decision)
            /\ req' = IF ActionType(risk) = "write"
                      THEN Begin(r, "plan", p, "insertApproval",
                                 TRUE /\ AutoApproves(risk, decision), FALSE)
                      ELSE Done(r)
    BY <1>1 DEF CreatePlanRequest, PlanRequest
  <2>2. PICK decision \in CreateDecisions(risk, BOOLEAN) :
            /\ plans' = CreatePlan(p, "api", risk, steps, decision)
            /\ req' = IF ActionType(risk) = "write"
                      THEN Begin(r, "plan", p, "insertApproval",
                                 TRUE /\ AutoApproves(risk, decision), FALSE)
                      ELSE Done(r)
    BY <2>1
  <2>3. Creates(r, p, "api", risk, steps, decision)
    BY <2>2, <1>b, <1>c DEF Creates, Unattended
  <2>4. QED
    BY <1>a, <1>b, <2>3 DEF Triggers
<1>2. ASSUME HookRequest(r, p) PROVE Goal
  <2>1. PICK risk \in PlanRisks, steps \in StepKinds :
          \E decision \in CreateDecisions(risk, BOOLEAN) :
            /\ plans' = CreatePlan(p, "webhook", risk, steps, decision)
            /\ req' = IF ActionType(risk) = "write"
                      THEN Begin(r, "hook", p, "insertApproval",
                                 FALSE /\ AutoApproves(risk, decision), FALSE)
                      ELSE Done(r)
    BY <1>2 DEF HookRequest, PlanRequest
  <2>2. PICK decision \in CreateDecisions(risk, BOOLEAN) :
            /\ plans' = CreatePlan(p, "webhook", risk, steps, decision)
            /\ req' = IF ActionType(risk) = "write"
                      THEN Begin(r, "hook", p, "insertApproval",
                                 FALSE /\ AutoApproves(risk, decision), FALSE)
                      ELSE Done(r)
    BY <2>1
  <2>3. Creates(r, p, "webhook", risk, steps, decision)
    BY <2>2, <1>b DEF Creates, Unattended
  <2>4. QED
    BY <1>a, <1>b, <2>3 DEF Triggers
<1>3. ASSUME AlertEventLoop(r, p) PROVE Goal
  <2>1. PICK intentRisk \in PlanRisks, risk \in PlanRisks, steps \in StepKinds :
          /\ RiskRank(risk) >= RiskRank(intentRisk)
          /\ steps = "writes" => risk # "read"
          /\ \E decision \in CreateDecisions(intentRisk, {FALSE}) :
              /\ plans' = CreatePlan(p, "alert", risk, steps, decision)
              /\ req' = IF ActionType(risk) = "write"
                        THEN Begin(r, "hook", p, "insertApproval", FALSE, FALSE)
                        ELSE Done(r)
    BY <1>3 DEF AlertEventLoop
  <2>2. PICK decision \in CreateDecisions(intentRisk, {FALSE}) :
              /\ plans' = CreatePlan(p, "alert", risk, steps, decision)
              /\ req' = IF ActionType(risk) = "write"
                        THEN Begin(r, "hook", p, "insertApproval", FALSE, FALSE)
                        ELSE Done(r)
    BY <2>1
  <2>3. ActionType(intentRisk) = "write" => ActionType(risk) = "write"
    BY <2>1, <1>a DEF ActionType, RiskRank, Risks
  <2>4. steps = "writes" => ActionType(risk) = "write"
    BY <2>1 DEF ActionType
  <2>5. Creates(r, p, "alert", risk, steps, decision)
    BY <2>2, <2>3, <2>4, <1>b DEF Creates, Unattended
  <2>6. QED
    BY <1>a, <1>b, <2>5 DEF Triggers
<1>4. ASSUME StartWorkflowRequest(r, p) PROVE Goal
  <2>1. PICK risk \in PlanRisks :
          \E decision \in CreateDecisions(risk, BOOLEAN) :
            /\ plans' = CreatePlan(p, "workflow", risk, "writes", decision)
            /\ req' = Begin(r, "workflow", p, "insertApproval",
                            AutoApproves(risk, decision), TRUE)
    BY <1>4 DEF StartWorkflowRequest
  <2>2. PICK decision \in CreateDecisions(risk, BOOLEAN) :
            Creates(r, p, "workflow", risk, "writes", decision)
    BY <2>1, <1>b, <1>c DEF Creates, Unattended
  <2>3. QED
    BY <1>a, <1>b, <2>2 DEF Triggers, StepKinds
<1>5. ASSUME ScheduledPlan(p) PROVE Goal
  <2>1. PICK risk \in PlanRisks :
          plans' = CreatePlan(p, "scheduled", risk, "none", "none") /\ req' = req
    BY <1>5 DEF ScheduledPlan
  <2>2. Creates(r, p, "scheduled", risk, "none", "none")
    BY <2>1 DEF Creates
  <2>3. QED
    BY <1>a, <2>2 DEF Triggers, PlanDecisions, StepKinds
<1>6. NewPlan(p) /\ UNCHANGED <<approvals, executions, issues, workflows, granted>>
  BY DEF CreatingAction, CreatePlanRequest, HookRequest, PlanRequest, AlertEventLoop,
         StartWorkflowRequest, ScheduledPlan
<1>7. QED
  BY <1>1, <1>2, <1>3, <1>4, <1>5, <1>6 DEF CreatingAction

\* Creating a plan preserves the invariant.
LEMMA CreatingIInv ==
    ASSUME IInv, NEW r \in Reqs, NEW p \in Plans, CreatingAction(r, p), UNCHANGED watch
    PROVE  IInv'
<1>1. NewPlan(p) /\ UNCHANGED <<approvals, executions, issues, workflows, granted>>
  BY Creation
<1>2. PICK trigger \in Triggers, risk \in Risks, steps \in StepKinds,
           decision \in PlanDecisions : Creates(r, p, trigger, risk, steps, decision)
  BY Creation
<1>3. plans' \in [Plans -> PlanRow]
  BY <1>2, StatementTypes DEF Creates, PlanDecisions, IInv, TypeOK
<1>4. /\ plans'[p].row = "present" /\ plans'[p].trigger = trigger
      /\ plans'[p].decision = decision /\ plans'[p].risk = risk
      /\ plans'[p].steps = steps
      /\ \A q \in Plans \ {p} : plans'[q] = plans[q]
  BY <1>2 DEF Creates, CreatePlan, IInv, TypeOK, StoreTypeOK
<1>5. Keeps /\ KeepsRows
  BY <1>1, <1>4 DEF Keeps, KeepsRows, SamePlan, Known, NewPlan, Present
<1>6. req' \in [Reqs -> Request]
  <2>1. GatewayTypeOK /\ "insertApproval" \in PCs
    BY DEF IInv, TypeOK, PCs
  <2>2. /\ req \in [Reqs -> Request] /\ Done(r) \in [Reqs -> Request]
        /\ \A kind \in {"plan", "hook", "workflow"}, auto, given \in BOOLEAN :
              Begin(r, kind, p, "insertApproval", auto, given) \in [Reqs -> Request]
    BY <2>1, RequestTypes DEF GatewayTypeOK
  <2>3. QED
    BY <1>2, <2>2 DEF Creates
<1>7. RequestsGood'
  <2>1. CASE req' = req
    BY <2>1, <1>5, Frame
  <2>2. CASE req' = Done(r)
    BY <2>2, <1>5, DoneGood
  <2>3. ASSUME NEW kind \in {"plan", "hook", "workflow"},
               NEW auto \in BOOLEAN, NEW given \in BOOLEAN,
               req' = Begin(r, kind, p, "insertApproval", auto, given),
               auto => trigger \notin Unattended /\ decision # "require_approval",
               kind = "workflow" => trigger = "workflow"
        PROVE  RequestsGood'
    <3>1. /\ req'[r].pc = "insertApproval" /\ req'[r].kind = kind /\ req'[r].plan = p
          /\ req'[r].auto => trigger \notin Unattended /\ decision # "require_approval"
          /\ \A s \in Reqs \ {r} : req'[s] = req[s]
      BY <2>3 DEF Begin, IInv, TypeOK, GatewayTypeOK
    <3>2. GoodRequest(req[r])'
      BY <2>3, <3>1, <1>4 DEF GoodRequest, Known, MayAutoApprove
    <3>3. QED
      BY <3>1, <3>2, <1>5, OneRequest
  <2>4. QED
    BY <2>1, <2>2, <2>3, <1>2 DEF Creates
<1>8. TypeOK'
  BY <1>1, <1>3, <1>6 DEF IInv, TypeOK, StoreTypeOK, GatewayTypeOK, WatcherTypeOK
<1>9. PlansGood'
  BY <1>2, <1>4 DEF Creates, IInv, PlansGood, GoodPlan, StepsWrite, Write
<1>10. QED
  BY <1>1, <1>5, <1>7, <1>8, <1>9, Frame DEF IInv

(***************************************************************************)
(* What a step of a handler does to its request and to the approvals       *)
(***************************************************************************)
\* A request that goes on is good if what its new pc claims is true.
LEMMA GotoGood ==
    ASSUME IInv, Keeps, NEW r \in Reqs, ~Free(r), NEW pc \in PCs, req' = Goto(r, pc),
           pc = "autoApprove" => req[r].auto, pc # "readApproval",
           pc \in {"readHash", "checkActive", "insertExec"} =>
             \/ req[r].kind = "execute" /\ Approved(req[r].plan)'
             \/ /\ req[r].kind = "workflow" /\ AutoApproveLow
                /\ plans[req[r].plan].risk = "low"
    PROVE  RequestsGood' /\ req' \in [Reqs -> Request]
<1>1. /\ req'[r].pc = pc /\ req'[r].kind = req[r].kind /\ req'[r].plan = req[r].plan
      /\ req'[r].auto = req[r].auto
      /\ \A s \in Reqs \ {r} : req'[s] = req[s]
  BY DEF Goto, IInv, TypeOK, GatewayTypeOK, Request
<1>2. GoodRequest(req[r]) /\ req[r].pc # "idle"
  BY DEF IInv, RequestsGood, Free
<1>3. GoodRequest(req[r])'
  BY <1>1, <1>2 DEF GoodRequest, Keeps, SamePlan, Known, MayAutoApprove, Approved, Write,
                    GrantedBy
<1>4. req' \in [Reqs -> Request]
  BY RequestTypes DEF IInv, TypeOK
<1>5. QED
  BY <1>1, <1>3, <1>4, OneRequest

\* A request that is over has the right type too.
LEMMA DoneOK ==
    ASSUME IInv, Keeps, NEW r \in Reqs, req' = Done(r)
    PROVE  RequestsGood' /\ req' \in [Reqs -> Request]
BY DoneGood, RequestTypes DEF IInv, TypeOK

\* What follows the approval: the start of a workflow, or nothing.
LEMMA ThenExecuteGood ==
    ASSUME IInv, Keeps, NEW r \in Reqs, ~Free(r), req' = ThenExecute(r)
    PROVE  RequestsGood' /\ req' \in [Reqs -> Request]
<1>1. CASE /\ req[r].kind = "workflow" /\ AutoApproveLow
           /\ plans[req[r].plan].risk = "low"
           /\ req' = Goto(r, "checkActive")
  <2>1. "checkActive" \in PCs
    BY DEF PCs
  <2>2. QED
    BY <1>1, <2>1, GotoGood
<1>2. CASE req' = Done(r)
  BY <1>2, DoneOK
<1>3. QED
  BY <1>1, <1>2 DEF ThenExecute

\* An UPDATE of the status keeps the table good if "approved" is true of the
\* plan.
LEMMA UpdateGood ==
    ASSUME IInv, Keeps, KeepsRows, NEW p, NEW status \in ApprovalStatuses,
           approvals' = UpdateApprovalStatusByPlan(p, status),
           status = "approved" => GrantedBy(p, Granters)'
    PROVE  ApprovalsGood' /\ approvals' \in [Approvals -> ApprovalRow]
<1>1. approvals' \in [Approvals -> ApprovalRow]
  BY StatementTypes DEF IInv, TypeOK
<1> SUFFICES ASSUME NEW a \in Approvals PROVE GoodApproval(approvals[a])'
  BY <1>1 DEF ApprovalsGood
<1>2. approvals[a].plan \in Plans \cup {None} /\ GoodApproval(approvals[a])
  BY DEF IInv, TypeOK, StoreTypeOK, ApprovalRow, ApprovalsGood
<1>3. CASE approvals[a].plan = p
  <2>1. approvals'[a].plan = p /\ approvals'[a].status = status
    BY <1>3 DEF UpdateApprovalStatusByPlan, IInv, TypeOK, StoreTypeOK, ApprovalRow
  <2>2. QED
    BY <1>2, <1>3, <2>1 DEF GoodApproval, KeepsRows, Present
<1>4. CASE approvals[a].plan # p
  <2>1. approvals'[a] = approvals[a]
    BY <1>4 DEF UpdateApprovalStatusByPlan
  <2>2. QED
    BY <1>2, <2>1, OtherApproval
<1>5. QED
  BY <1>3, <1>4

\* An UPDATE of the hash changes nothing the invariant speaks of.
LEMMA HashGood ==
    ASSUME IInv, Keeps, KeepsRows, NEW p, NEW hash \in Hashes,
           approvals' = SetApprovalHash(p, hash)
    PROVE  ApprovalsGood' /\ approvals' \in [Approvals -> ApprovalRow]
<1>1. approvals' \in [Approvals -> ApprovalRow]
  BY StatementTypes DEF IInv, TypeOK
<1> SUFFICES ASSUME NEW a \in Approvals PROVE GoodApproval(approvals[a])'
  BY <1>1 DEF ApprovalsGood
<1>2. approvals[a].plan \in Plans \cup {None} /\ GoodApproval(approvals[a])
  BY DEF IInv, TypeOK, StoreTypeOK, ApprovalRow, ApprovalsGood
<1>3. approvals'[a].plan = approvals[a].plan /\ approvals'[a].status = approvals[a].status
  BY DEF SetApprovalHash, IInv, TypeOK, StoreTypeOK, ApprovalRow
<1>4. QED
  BY <1>2, <1>3 DEF GoodApproval, Keeps, KeepsRows, Present, GrantedBy

(***************************************************************************)
(* createApproval and the automatic approval                               *)
(***************************************************************************)
\* INSERT INTO approvals: a pending row for a plan that is there.
LEMMA InsertApprovalIInv ==
    ASSUME IInv, NEW r \in Reqs, NEW a \in Approvals, InsertApproval(r, a),
           UNCHANGED watch
    PROVE  IInv'
<1> DEFINE p == req[r].plan
<1>1. /\ ~Free(r) /\ Present(p) /\ approvals' = CreateApproval(a, p)
      /\ UNCHANGED <<plans, executions, issues, workflows, granted>>
  BY DEF InsertApproval, At, Free
<1>2. Keeps /\ KeepsRows
  BY <1>1, NothingKeeps
<1>3. p \in Plans
  BY <1>1 DEF IInv, RequestsGood, GoodRequest, Free
<1>4. RequestsGood' /\ req' \in [Reqs -> Request]
  <2>1. "autoApprove" \in PCs /\ "createIssue" \in PCs
    BY DEF PCs
  <2>2. req[r].auto \in BOOLEAN /\ LinearConfigured \in BOOLEAN
    BY GatewayAssumption DEF IInv, TypeOK, GatewayTypeOK, Request
  <2>3. \/ req[r].auto /\ req' = Goto(r, "autoApprove")
        \/ req' = Goto(r, "createIssue")
        \/ req' = ThenExecute(r)
    BY <2>2, Zenon DEF InsertApproval
  <2>4. QED
    BY <1>1, <1>2, <2>1, <2>3, GotoGood, ThenExecuteGood
<1>5. ApprovalsGood' /\ approvals' \in [Approvals -> ApprovalRow]
  <2>1. approvals' \in [Approvals -> ApprovalRow]
    BY <1>1, <1>3, StatementTypes DEF IInv, TypeOK
  <2> SUFFICES ASSUME NEW b \in Approvals PROVE GoodApproval(approvals[b])'
    BY <2>1 DEF ApprovalsGood
  <2>2. CASE b = a
    <3>1. approvals'[b].plan = p /\ approvals'[b].status = "pending"
      BY <1>1, <2>2 DEF CreateApproval, IInv, TypeOK, StoreTypeOK
    <3>2. QED
      BY <1>1, <3>1 DEF GoodApproval, Present
  <2>3. CASE b # a
    <3>1. approvals'[b] = approvals[b]
      BY <1>1, <2>3 DEF CreateApproval, IInv, TypeOK, StoreTypeOK
    <3>2. approvals[b].plan \in Plans \cup {None} /\ GoodApproval(approvals[b])
      BY DEF IInv, TypeOK, StoreTypeOK, ApprovalRow, ApprovalsGood
    <3>3. QED
      BY <1>2, <3>1, <3>2, OtherApproval
  <2>4. QED
    BY <2>2, <2>3
<1>6. TypeOK'
  BY <1>1, <1>4, <1>5 DEF IInv, TypeOK, StoreTypeOK, GatewayTypeOK, WatcherTypeOK
<1>7. QED
  BY <1>1, <1>2, <1>4, <1>5, <1>6, Frame DEF IInv

\* CreateApprovalIssue: a new issue, which no copy of the watcher speaks of.
LEMMA CreateIssueIInv ==
    ASSUME IInv, NEW r \in Reqs, NEW i \in Issues, CreateIssue(r, i), UNCHANGED watch
    PROVE  IInv'
<1> DEFINE p == req[r].plan
<1>1. /\ ~Free(r) /\ issues[i].plan = None
      /\ issues' = [issues EXCEPT ![i] = [plan |-> p, labels |-> {"pending"},
                                          overdue |-> FALSE]]
      /\ req' = ThenExecute(r) \/ req' = Done(r)
      /\ UNCHANGED <<plans, approvals, executions, workflows, granted>>
  BY DEF CreateIssue, At, Free
<1>2. Keeps /\ KeepsRows
  BY <1>1, NothingKeeps
<1>3. p \in Plans /\ Known(p)
  BY <1>1 DEF IInv, RequestsGood, GoodRequest, Free
<1>4. RequestsGood' /\ req' \in [Reqs -> Request]
  BY <1>1, <1>2, ThenExecuteGood, DoneOK
<1>5. issues' \in [Issues -> Issue]
  BY <1>1, <1>3 DEF IInv, TypeOK, StoreTypeOK, Issue, Labels, ApprovalStatuses
<1>6. /\ issues'[i].plan = p /\ issues'[i].labels = {"pending"}
      /\ \A j \in Issues \ {i} : issues'[j] = issues[j]
  BY <1>1 DEF IInv, TypeOK, StoreTypeOK
<1>7. IssuesGood'
  BY <1>1, <1>3, <1>6 DEF IInv, IssuesGood, GoodIssue, Known
<1>8. BatchGood'
  <2> SUFFICES ASSUME NEW item \in watch.batch PROVE GoodItem(item)'
    BY DEF BatchGood
  <2>1. item.issue \in Issues /\ GoodItem(item)
    BY DEF IInv, TypeOK, WatcherTypeOK, Watch, Item, BatchGood
  <2>2. item.issue # i
    BY <1>1, <2>1 DEF GoodItem
  <2>3. QED
    BY <1>1, <1>6, <2>1, <2>2 DEF GoodItem
<1>9. TypeOK'
  BY <1>1, <1>4, <1>5 DEF IInv, TypeOK, StoreTypeOK, GatewayTypeOK, WatcherTypeOK
<1>10. QED
  BY <1>1, <1>2, <1>4, <1>7, <1>8, <1>9, Frame DEF IInv

\* A step that leaves the plans alone and takes no approval back keeps them.
LEMMA GrantKeeps == UNCHANGED plans /\ granted \subseteq granted' => Keeps /\ KeepsRows
BY DEF Keeps, KeepsRows, SamePlan, Known, Present

\* One more approval, of a plan that is there.
LEMMA GrantGood ==
    ASSUME IInv, UNCHANGED plans, NEW p \in Plans, NEW g \in Granters, Known(p),
           g = "auto" => MayAutoApprove(p), granted' = granted \cup {<<p, g>>}
    PROVE  /\ Keeps /\ KeepsRows /\ GrantsGood'
           /\ GrantedBy(p, Granters)'
           /\ granted' \subseteq Plans \X Granters
<1>1. Keeps /\ KeepsRows
  BY GrantKeeps
<1>2. GrantsGood'
  BY DEF IInv, GrantsGood, GoodGrant, Known, MayAutoApprove
<1>3. GrantedBy(p, Granters)'
  BY DEF GrantedBy
<1>4. QED
  BY <1>1, <1>2, <1>3 DEF IInv, TypeOK, StoreTypeOK

\* The automatic approval, of a plan whose handler may approve it.
LEMMA AutoApproveIInv ==
    ASSUME IInv, NEW r \in Reqs, AutoApprove(r), UNCHANGED watch
    PROVE  IInv'
<1>1. PICK p \in Plans : p = req[r].plan /\ Known(p) /\ MayAutoApprove(p)
  BY DEF AutoApprove, At, IInv, RequestsGood, GoodRequest
<1>2. /\ ~Free(r)
      /\ approvals' = UpdateApprovalStatusByPlan(p, "approved")
      /\ granted' = granted \cup {<<p, "auto">>}
      /\ req' = Goto(r, "autoHash") \/ req' = ThenExecute(r)
      /\ UNCHANGED <<plans, executions, issues, workflows>>
  BY <1>1 DEF AutoApprove, At, Free
<1>3. /\ Keeps /\ KeepsRows /\ GrantsGood' /\ GrantedBy(p, Granters)'
      /\ granted' \subseteq Plans \X Granters
  <2>1. "auto" \in Granters
    BY DEF Granters
  <2>2. QED
    BY <1>2, <1>1, <2>1, GrantGood
<1>4. RequestsGood' /\ req' \in [Reqs -> Request]
  <2>1. "autoHash" \in PCs
    BY DEF PCs
  <2>2. QED
    BY <1>2, <1>3, <2>1, GotoGood, ThenExecuteGood
<1>5. ApprovalsGood' /\ approvals' \in [Approvals -> ApprovalRow]
  <2>1. "approved" \in ApprovalStatuses
    BY DEF ApprovalStatuses
  <2>2. QED
    BY <1>2, <1>3, <2>1, UpdateGood
<1>6. TypeOK'
  BY <1>2, <1>3, <1>4, <1>5 DEF IInv, TypeOK, StoreTypeOK, GatewayTypeOK, WatcherTypeOK
<1>7. QED
  BY <1>2, <1>3, <1>4, <1>5, <1>6, Frame DEF IInv

\* The statements that store the hash, and end their request.
LEMMA SetHashIInv ==
    ASSUME IInv, NEW r \in Reqs, AutoApproveHash(r) \/ SetHash(r), UNCHANGED watch
    PROVE  IInv'
<1>1. /\ \/ approvals' = SetApprovalHash(req[r].plan, ComputePlanHash(FALSE))
         \/ approvals' = approvals
      /\ req' = Done(r)
      /\ UNCHANGED <<plans, executions, issues, workflows, granted>>
  BY DEF AutoApproveHash, SetHash
<1>2. Keeps /\ KeepsRows
  BY <1>1, NothingKeeps
<1>3. RequestsGood' /\ req' \in [Reqs -> Request]
  BY <1>1, <1>2, DoneOK
<1>4. ApprovalsGood' /\ approvals' \in [Approvals -> ApprovalRow]
  <2>1. CASE approvals' = SetApprovalHash(req[r].plan, ComputePlanHash(FALSE))
    <3>1. ComputePlanHash(FALSE) \in Hashes
      BY DEF ComputePlanHash, Hashes
    <3>2. QED
      BY <1>2, <2>1, <3>1, HashGood
  <2>2. CASE approvals' = approvals
    BY <1>2, <2>2, Frame DEF IInv, TypeOK, StoreTypeOK
  <2>3. QED
    BY <1>1, <2>1, <2>2
<1>5. TypeOK'
  BY <1>1, <1>3, <1>4 DEF IInv, TypeOK, StoreTypeOK, GatewayTypeOK, WatcherTypeOK
<1>6. QED
  BY <1>1, <1>2, <1>3, <1>4, <1>5, Frame DEF IInv

(***************************************************************************)
(* POST /v1/approvals and POST /v1/plans/{id}:execute                      *)
(***************************************************************************)
\* A request that begins is good if what its pc claims is true.
LEMMA BeginGood ==
    ASSUME IInv, Keeps, NEW r \in Reqs, NEW kind \in {"approval", "execute"},
           NEW p \in Plans, Known(p), NEW pc \in PCs, pc # "autoApprove",
           pc = "readApproval" => kind = "execute",
           NEW steps \in BOOLEAN, req' = Begin(r, kind, p, pc, FALSE, steps),
           pc \in {"readHash", "checkActive", "insertExec"} =>
             kind = "execute" /\ Approved(p)'
    PROVE  RequestsGood' /\ req' \in [Reqs -> Request]
<1>1. /\ req'[r].pc = pc /\ req'[r].kind = kind /\ req'[r].plan = p
      /\ ~req'[r].auto
      /\ \A s \in Reqs \ {r} : req'[s] = req[s]
  BY DEF Begin, IInv, TypeOK, GatewayTypeOK
<1>2. Known(p)'
  BY DEF Keeps, SamePlan, Known
<1>3. GoodRequest(req[r])'
  BY <1>1, <1>2 DEF GoodRequest
<1>4. req' \in [Reqs -> Request]
  BY RequestTypes DEF IInv, TypeOK
<1>5. QED
  BY <1>1, <1>3, <1>4, OneRequest

\* A decision through the API is somebody's approval, or takes one back.
LEMMA ApprovalRequestIInv ==
    ASSUME IInv, NEW r \in Reqs, NEW p \in Plans, NEW status \in ApprovalStatuses,
           ApprovalRequest(r, p, status), UNCHANGED watch
    PROVE  IInv'
<1>1. /\ Known(p) /\ UNCHANGED <<plans, executions, issues, workflows>>
      /\ \/ req' = Begin(r, "approval", p, "insertApproval", FALSE, FALSE)
         \/ req' = Begin(r, "approval", p, "setHash", FALSE, FALSE)
         \/ req' = Done(r)
  BY DEF ApprovalRequest, NewPlan, Known
<1>2. /\ Keeps /\ KeepsRows /\ GrantsGood' /\ granted' \subseteq Plans \X Granters
      /\ status = "approved" => GrantedBy(p, Granters)'
  <2>1. CASE status = "approved"
    <3>1. "api" \in Granters /\ granted' = granted \cup {<<p, "api">>}
      BY <2>1 DEF ApprovalRequest, Granters
    <3>2. QED
      BY <1>1, <3>1, GrantGood
  <2>2. CASE status # "approved"
    <3>1. UNCHANGED granted
      BY <2>2 DEF ApprovalRequest
    <3>2. QED
      BY <1>1, <2>2, <3>1, NothingKeeps, Frame DEF IInv, TypeOK, StoreTypeOK
  <2>3. QED
    BY <2>1, <2>2
<1>3. RequestsGood' /\ req' \in [Reqs -> Request]
  <2>1. "insertApproval" \in PCs /\ "setHash" \in PCs
    BY DEF PCs
  <2>2. QED
    BY <1>1, <1>2, <2>1, BeginGood, DoneOK
<1>4. ApprovalsGood' /\ approvals' \in [Approvals -> ApprovalRow]
  <2>1. CASE status = "pending"
    <3>1. UNCHANGED approvals
      BY <2>1 DEF ApprovalRequest
    <3>2. QED
      BY <1>2, <3>1, Frame DEF IInv, TypeOK, StoreTypeOK
  <2>2. CASE status # "pending"
    <3>1. approvals' = UpdateApprovalStatusByPlan(p, status)
      BY <2>2 DEF ApprovalRequest
    <3>2. QED
      BY <1>2, <3>1, UpdateGood
  <2>3. QED
    BY <2>1, <2>2
<1>5. TypeOK'
  BY <1>1, <1>2, <1>3, <1>4
     DEF IInv, TypeOK, StoreTypeOK, GatewayTypeOK, WatcherTypeOK
<1>6. QED
  BY <1>1, <1>2, <1>3, <1>4, <1>5, Frame DEF IInv

\* A step that changes no table keeps the invariant if its request stays good.
LEMMA OnlyRequest ==
    ASSUME IInv, RequestsGood', req' \in [Reqs -> Request], UNCHANGED storeVars,
           UNCHANGED watch
    PROVE  IInv'
<1>1. Keeps /\ KeepsRows
  BY NothingKeeps DEF storeVars
<1>2. TypeOK'
  BY DEF IInv, TypeOK, StoreTypeOK, GatewayTypeOK, WatcherTypeOK, storeVars
<1>3. QED
  BY <1>1, <1>2, Frame DEF IInv, storeVars

\* The request to execute: a read needs no approval, a write goes to read it.
LEMMA ExecuteRequestIInv ==
    ASSUME IInv, NEW r \in Reqs, NEW p \in Plans, ExecuteRequest(r, p), UNCHANGED watch
    PROVE  IInv'
<1>1. Known(p) /\ UNCHANGED storeVars
  BY DEF ExecuteRequest, Present, Known
<1>2. Keeps
  BY <1>1, NothingKeeps DEF storeVars
<1>3. PICK steps \in BOOLEAN :
        req' = Begin(r, "execute", p,
                     IF ActionType(plans[p].risk) = "write" THEN "readApproval"
                                                            ELSE "readHash",
                     FALSE, steps)
  <2>1. (plans[p].steps # "none") \in BOOLEAN
    OBVIOUS
  <2>2. QED
    BY <2>1, Zenon DEF ExecuteRequest
<1>4. RequestsGood' /\ req' \in [Reqs -> Request]
  <2>1. "readApproval" \in PCs /\ "readHash" \in PCs
    BY DEF PCs
  <2>2. CASE ActionType(plans[p].risk) = "write"
    <3>1. req' = Begin(r, "execute", p, "readApproval", FALSE, steps)
      BY <1>3, <2>2
    <3>2. QED
      BY <1>1, <1>2, <2>1, <3>1, BeginGood
  <2>3. CASE ActionType(plans[p].risk) # "write"
    <3>1. req' = Begin(r, "execute", p, "readHash", FALSE, steps)
      BY <1>3, <2>3
    <3>2. Approved(p)'
      BY <1>1, <2>3 DEF Approved, Write, storeVars
    <3>3. QED
      BY <1>1, <1>2, <2>1, <3>1, <3>2, BeginGood
  <2>4. QED
    BY <2>2, <2>3
<1>5. QED
  BY <1>1, <1>4, OnlyRequest

\* The checks of :execute.  A row that says "approved" is one somebody approved,
\* so that the request that saw it may go on.
LEMMA CheckIInv ==
    ASSUME IInv, NEW r \in Reqs, ReadApproval(r) \/ ReadHash(r) \/ CheckActive(r),
           UNCHANGED watch
    PROVE  IInv'
<1>1. UNCHANGED storeVars /\ ~Free(r)
  BY DEF ReadApproval, ReadHash, CheckActive, At, Free
<1>2. Keeps
  BY <1>1, NothingKeeps DEF storeVars
<1>3. GoodRequest(req[r])
  BY DEF IInv, RequestsGood
<1>4. "readHash" \in PCs /\ "checkActive" \in PCs /\ "insertExec" \in PCs
  BY DEF PCs
<1>5. CASE req' = Done(r)
  BY <1>1, <1>2, <1>5, DoneOK, OnlyRequest
<1>6. CASE ReadHash(r) \/ CheckActive(r)
  <2> DEFINE p == req[r].plan
  <2>1. \/ req[r].kind = "execute" /\ Approved(p)
        \/ req[r].kind = "workflow" /\ AutoApproveLow /\ plans[p].risk = "low"
    BY <1>3, <1>6 DEF ReadHash, CheckActive, At, GoodRequest
  <2>2. CASE req' = Goto(r, "checkActive") \/ req' = Goto(r, "insertExec")
    <3>1. req'[r].plan = p
      BY <2>2 DEF Goto, IInv, TypeOK, GatewayTypeOK, Request
    <3>2. Approved(p) => Approved(p)'
      BY <1>1, <3>1 DEF Approved, Write, GrantedBy, storeVars
    <3>3. QED
      BY <1>1, <1>2, <1>4, <2>1, <2>2, <3>2, GotoGood, OnlyRequest
  <2>3. CASE req' = [req EXCEPT ![r] = [Idle EXCEPT !.reply = "modified"]]
    <3>1. /\ req'[r].pc = "idle" /\ \A s \in Reqs \ {r} : req'[s] = req[s]
          /\ req' \in [Reqs -> Request]
      BY <2>3 DEF Idle, PCs, Request, IInv, TypeOK, GatewayTypeOK
    <3>2. GoodRequest(req[r])'
      BY <3>1 DEF GoodRequest
    <3>3. QED
      BY <1>1, <1>2, <3>1, <3>2, OneRequest, OnlyRequest
  <2>4. QED
    BY <1>5, <1>6, <2>2, <2>3 DEF ReadHash, CheckActive
<1>7. CASE ReadApproval(r) /\ req' # Done(r)
  <2>1. PICK a \in ApprovalsOf(req[r].plan) :
          approvals[a].status = "approved" /\ req' = Goto(r, "readHash")
    BY <1>7 DEF ReadApproval
  <2>2. req[r].plan \in Plans /\ req[r].kind = "execute"
    BY <1>1, <1>3, <1>7 DEF ReadApproval, At, GoodRequest, Free
  <2>3. GrantedBy(req[r].plan, Granters)
    <3>1. a \in Approvals /\ approvals[a].plan = req[r].plan
      BY DEF ApprovalsOf
    <3>2. approvals[a].plan # None /\ GoodApproval(approvals[a])
      BY <2>2, <3>1, NoneAssumption DEF IInv, ApprovalsGood
    <3>3. QED
      BY <2>1, <3>1, <3>2 DEF GoodApproval
  <2>4. req'[r].plan = req[r].plan
    BY <2>1 DEF Goto, IInv, TypeOK, GatewayTypeOK, Request
  <2>5. Approved(req[r].plan)'
    BY <1>1, <2>3, <2>4 DEF Approved, GrantedBy, storeVars
  <2>6. QED
    BY <1>1, <1>2, <1>4, <2>1, <2>2, <2>5, GotoGood, OnlyRequest
<1>8. QED
  BY <1>5, <1>6, <1>7

(***************************************************************************)
(* Executions and deletion                                                 *)
(***************************************************************************)
\* A change of an execution that leaves its plan and its handler alone.
LEMMA ExecutionsKept ==
    ASSUME IInv, Keeps, KeepsRows,
           \A e \in Execs : /\ executions'[e].plan = executions[e].plan
                            /\ executions'[e].via = executions[e].via
    PROVE  ExecutionsGood'
<1> SUFFICES ASSUME NEW e \in Execs PROVE GoodExecution(executions[e])'
  BY DEF ExecutionsGood
<1>1. executions[e].plan \in Plans \cup {None} /\ GoodExecution(executions[e])
  BY DEF IInv, TypeOK, StoreTypeOK, ExecRow, ExecutionsGood
<1>2. QED
  BY <1>1, OtherExecution

\* A new status, and nothing else.
LEMMA StatusKept ==
    ASSUME IInv, Keeps, KeepsRows, NEW e \in Execs, NEW status \in ExecStatuses,
           executions' = SetExecutionStatus(e, status)
    PROVE  ExecutionsGood' /\ executions' \in [Execs -> ExecRow]
<1>1. executions' \in [Execs -> ExecRow]
  BY StatementTypes DEF IInv, TypeOK
<1>2. \A f \in Execs : /\ executions'[f].plan = executions[f].plan
                       /\ executions'[f].via = executions[f].via
  BY DEF SetExecutionStatus, IInv, TypeOK, StoreTypeOK, ExecRow
<1>3. QED
  BY <1>1, <1>2, ExecutionsKept

\* INSERT INTO executions, by a request that has passed the checks.
LEMMA InsertExecutionIInv ==
    ASSUME IInv, NEW r \in Reqs, NEW e \in Execs, InsertExecution(r, e), UNCHANGED watch
    PROVE  IInv'
<1> DEFINE p == req[r].plan
           via == IF req[r].kind = "workflow" THEN "workflow" ELSE "execute"
<1>1. /\ req[r].pc = "insertExec" /\ Present(p)
      /\ executions' = CreateExecution(e, p, via)
      /\ \/ req' = [req EXCEPT ![r].pc = "startWorkflow", ![r].exec = e]
         \/ req' = Done(r)
      /\ UNCHANGED <<plans, approvals, issues, workflows, granted>>
  BY DEF InsertExecution, At
<1>2. Keeps /\ KeepsRows
  BY <1>1, NothingKeeps
<1>3. GoodRequest(req[r]) /\ p \in Plans /\ via \in {"execute", "workflow"}
  BY <1>1 DEF IInv, RequestsGood, GoodRequest
<1>4. RequestsGood' /\ req' \in [Reqs -> Request]
  <2>1. CASE req' = [req EXCEPT ![r].pc = "startWorkflow", ![r].exec = e]
    <3>1. req' \in [Reqs -> Request]
      <4>1. "startWorkflow" \in PCs
        BY DEF PCs
      <4>2. req \in [Reqs -> Request]
        BY DEF IInv, TypeOK, GatewayTypeOK
      <4>3. [req[r] EXCEPT !.pc = "startWorkflow", !.exec = e] \in Request
        BY <4>1, <4>2 DEF Request
      <4>4. req' = [req EXCEPT ![r] = [req[r] EXCEPT !.pc = "startWorkflow", !.exec = e]]
        BY <2>1
      <4>5. QED
        BY <4>2, <4>3, <4>4
    <3>2. /\ req'[r].pc = "startWorkflow" /\ req'[r].plan = p
          /\ req'[r].kind = req[r].kind /\ req'[r].auto = req[r].auto
          /\ \A s \in Reqs \ {r} : req'[s] = req[s]
      BY <2>1 DEF IInv, TypeOK, GatewayTypeOK, Request
    <3>3. GoodRequest(req[r])'
      BY <1>1, <1>3, <3>2 DEF GoodRequest, Known, MayAutoApprove
    <3>4. QED
      BY <1>2, <3>1, <3>2, <3>3, OneRequest
  <2>2. CASE req' = Done(r)
    BY <1>2, <2>2, DoneOK
  <2>3. QED
    BY <1>1, <2>1, <2>2
<1>5. executions' \in [Execs -> ExecRow]
  <2>1. StoreTypeOK
    BY DEF IInv, TypeOK
  <2>2. QED
    BY <1>1, <1>3, <2>1, StatementTypes
<1>6. ExecutionsGood'
  <2> SUFFICES ASSUME NEW f \in Execs PROVE GoodExecution(executions[f])'
    BY DEF ExecutionsGood
  <2>1. CASE f = e
    <3>1. executions'[f].plan = p /\ executions'[f].via = via
      BY <1>1, <2>1 DEF CreateExecution, IInv, TypeOK, StoreTypeOK
    <3>2. \/ req[r].kind = "execute" /\ Approved(p)
          \/ /\ req[r].kind = "workflow" /\ AutoApproveLow
             /\ plans[p].trigger = "workflow" /\ plans[p].risk = "low"
      BY <1>1, <1>3 DEF GoodRequest
    <3>3. QED
      BY <1>1, <3>1, <3>2 DEF GoodExecution, Present, Approved, Write, GrantedBy
  <2>2. CASE f # e
    <3>1. executions'[f] = executions[f]
      BY <1>1, <2>2 DEF CreateExecution, IInv, TypeOK, StoreTypeOK
    <3>2. executions[f].plan \in Plans \cup {None} /\ GoodExecution(executions[f])
      BY DEF IInv, TypeOK, StoreTypeOK, ExecRow, ExecutionsGood
    <3>3. QED
      BY <1>2, <3>1, <3>2, OtherExecution
  <2>3. QED
    BY <2>1, <2>2
<1>7. TypeOK'
  BY <1>1, <1>4, <1>5 DEF IInv, TypeOK, StoreTypeOK, GatewayTypeOK, WatcherTypeOK
<1>8. QED
  BY <1>1, <1>2, <1>4, <1>6, <1>7, Frame DEF IInv

\* Starting the workflow and storing its id.
LEMMA StartWorkflowIInv ==
    ASSUME IInv, NEW r \in Reqs, StartWorkflow(r) \/ SaveWorkflowID(r), UNCHANGED watch
    PROVE  IInv'
<1>1. /\ ~Free(r) /\ UNCHANGED <<plans, approvals, issues, granted>>
      /\ req' = Goto(r, "saveWorkflowID") \/ req' = Done(r)
      /\ \/ workflows' = [workflows EXCEPT ![req[r].exec] = "new"]
         \/ UNCHANGED workflows
      /\ \/ executions' = UpdateExecutionWorkflowID(req[r].exec)
         \/ UNCHANGED executions
  BY DEF StartWorkflow, SaveWorkflowID, At, Free
<1>2. Keeps /\ KeepsRows
  BY <1>1, NothingKeeps
<1>3. RequestsGood' /\ req' \in [Reqs -> Request]
  <2>1. "saveWorkflowID" \in PCs
    BY DEF PCs
  <2>2. QED
    BY <1>1, <1>2, <2>1, GotoGood, DoneOK
<1>4. workflows' \in [Execs -> WorkflowStates]
  BY <1>1 DEF IInv, TypeOK, StoreTypeOK, WorkflowStates
<1>5. executions' \in [Execs -> ExecRow]
  <2>1. StoreTypeOK
    BY DEF IInv, TypeOK
  <2>2. QED
    BY <1>1, <2>1, StatementTypes DEF StoreTypeOK
<1>6. ExecutionsGood'
  <2>1. \A e \in Execs : /\ executions'[e].plan = executions[e].plan
                         /\ executions'[e].via = executions[e].via
    BY <1>1 DEF UpdateExecutionWorkflowID, IInv, TypeOK, StoreTypeOK, ExecRow
  <2>2. QED
    BY <1>2, <2>1, ExecutionsKept
<1>7. TypeOK'
  BY <1>1, <1>3, <1>4, <1>5 DEF IInv, TypeOK, StoreTypeOK, GatewayTypeOK, WatcherTypeOK
<1>8. QED
  BY <1>1, <1>2, <1>3, <1>6, <1>7, Frame DEF IInv

\* Steps that only write the status of an execution: the cancel request and
\* the workflow's.
LEMMA ExecutionStatusIInv ==
    ASSUME IInv, NEW e \in Execs, NEW status \in ExecStatuses,
           executions' = SetExecutionStatus(e, status) \/ UNCHANGED executions,
           workflows' \in [Execs -> WorkflowStates],
           UNCHANGED <<plans, approvals, issues, granted, req, watch>>
    PROVE  IInv'
<1>1. Keeps /\ KeepsRows
  BY NothingKeeps
<1>2. ExecutionsGood' /\ executions' \in [Execs -> ExecRow]
  BY <1>1, StatusKept, Frame DEF IInv, TypeOK, StoreTypeOK
<1>3. TypeOK'
  BY <1>2 DEF IInv, TypeOK, StoreTypeOK, GatewayTypeOK, WatcherTypeOK
<1>4. QED
  BY <1>1, <1>2, <1>3, Frame DEF IInv

\* POST /v1/executions/{id}/cancel and the steps of the workflow.
LEMMA WorkflowIInv ==
    ASSUME IInv, NEW e \in Execs,
           \/ CancelExecution(e) /\ UNCHANGED watch
           \/ WorkflowMarksRunning(e) \/ WorkflowCompletes(e) \/ WorkflowEnds(e)
    PROVE  IInv'
<1>1. workflows \in [Execs -> WorkflowStates]
  BY DEF IInv, TypeOK, StoreTypeOK
<1>2. workflows' \in [Execs -> WorkflowStates]
  BY <1>1 DEF CancelExecution, WorkflowMarksRunning, WorkflowCompletes, WorkflowEnds,
              WorkflowStates
<1>3. UNCHANGED <<plans, approvals, issues, granted, req, watch>>
  BY DEF CancelExecution, WorkflowMarksRunning, WorkflowCompletes, WorkflowEnds
<1>4. \E status \in ExecStatuses :
        executions' = SetExecutionStatus(e, status) \/ UNCHANGED executions
  BY DEF CancelExecution, WorkflowMarksRunning, WorkflowCompletes, WorkflowEnds,
         ExecStatuses
<1>5. QED
  BY <1>2, <1>3, <1>4, ExecutionStatusIInv

\* DELETE /v1/plans/{id}, of a plan that no row refers to.
LEMMA DeletePlanIInv ==
    ASSUME IInv, NEW p \in Plans, DeletePlan(p), UNCHANGED watch
    PROVE  IInv'
<1>1. /\ Present(p) /\ ApprovalsOf(p) = {} /\ ExecsOf(p) = {}
      /\ plans' = [plans EXCEPT ![p].row = "deleted"]
      /\ UNCHANGED <<approvals, executions, issues, workflows, granted, req>>
  BY DEF DeletePlan, Unreferenced
<1>2. /\ plans' \in [Plans -> PlanRow] /\ SamePlan(p)
      /\ plans'[p].steps = plans[p].steps
      /\ \A q \in Plans \ {p} : plans'[q] = plans[q]
  BY <1>1 DEF SamePlan, IInv, TypeOK, StoreTypeOK, PlanRow
<1>3. Keeps
  BY <1>1, <1>2 DEF Keeps, SamePlan, Known
<1>4. ApprovalsGood'
  <2> SUFFICES ASSUME NEW a \in Approvals PROVE GoodApproval(approvals[a])'
    BY DEF ApprovalsGood
  <2>1. /\ approvals[a].plan \in Plans \cup {None} /\ GoodApproval(approvals[a])
        /\ approvals[a].plan # p
    BY <1>1 DEF IInv, TypeOK, StoreTypeOK, ApprovalRow, ApprovalsGood, ApprovalsOf
  <2>2. QED
    BY <1>1, <1>2, <2>1 DEF GoodApproval, Present, GrantedBy
<1>5. ExecutionsGood'
  <2> SUFFICES ASSUME NEW e \in Execs PROVE GoodExecution(executions[e])'
    BY DEF ExecutionsGood
  <2>1. /\ executions[e].plan \in Plans \cup {None} /\ GoodExecution(executions[e])
        /\ executions[e].plan # p
    BY <1>1 DEF IInv, TypeOK, StoreTypeOK, ExecRow, ExecutionsGood, ExecsOf
  <2>2. QED
    BY <1>1, <1>2, <2>1 DEF GoodExecution, Present, Approved, Write, GrantedBy
<1>6. TypeOK'
  BY <1>1, <1>2 DEF IInv, TypeOK, StoreTypeOK, GatewayTypeOK, WatcherTypeOK
<1>7. PlansGood'
  BY <1>2 DEF SamePlan, IInv, PlansGood, GoodPlan, StepsWrite, Write
<1>8. QED
  BY <1>1, <1>3, <1>4, <1>5, <1>6, <1>7, Frame DEF IInv

\* A request that stops half way.
LEMMA EndRequestIInv ==
    ASSUME IInv, NEW r \in Reqs, EndRequest(r), UNCHANGED watch
    PROVE  IInv'
<1>1. req' = Done(r) /\ UNCHANGED storeVars
  BY DEF EndRequest
<1>2. Keeps
  BY <1>1, NothingKeeps DEF storeVars
<1>3. QED
  BY <1>1, <1>2, DoneOK, OnlyRequest

(***************************************************************************)
(* The watcher and the people                                              *)
(***************************************************************************)
\* A step of the watcher alone keeps the invariant if its copies stay true.
LEMMA OnlyWatch ==
    ASSUME IInv, UNCHANGED storeVars, UNCHANGED req, watch' \in Watch,
           \A item \in watch'.batch : GoodItem(item)
    PROVE  IInv'
<1>1. Keeps /\ KeepsRows
  BY NothingKeeps DEF storeVars
<1>2. BatchGood'
  BY DEF BatchGood, GoodItem, storeVars
<1>3. TypeOK'
  BY DEF IInv, TypeOK, StoreTypeOK, GatewayTypeOK, WatcherTypeOK, storeVars
<1>4. QED
  BY <1>1, <1>2, <1>3, Frame DEF IInv, storeVars

\* ListApprovalIssues: a copy of an issue claims no more than the issue.
LEMMA ListIssuesIInv ==
    ASSUME IInv, ListIssues, UNCHANGED req
    PROVE  IInv'
<1>1. PICK page \in Pages :
        watch' = [watch EXCEPT !.polling = TRUE, !.batch = {Snapshot(i) : i \in page}]
  BY DEF ListIssues
<1>2. page \subseteq Listed
  BY DEF Pages
<1>3. ASSUME NEW i \in Listed
      PROVE  Snapshot(i) \in Item /\ GoodItem(Snapshot(i))
  <2>1. /\ i \in Issues /\ issues[i].plan # None /\ issues[i].labels # {}
        /\ issues[i].labels \subseteq ApprovalStatuses /\ issues[i].overdue \in BOOLEAN
        /\ GoodIssue(i)
    BY DEF Listed, IInv, TypeOK, StoreTypeOK, Issue, Labels, IssuesGood
  <2>2. /\ ApprovalStatus(issues[i].labels) \in ApprovalStatuses
        /\ ApprovalStatus(issues[i].labels) = "approved" => "approved" \in issues[i].labels
    BY <2>1 DEF ApprovalStatus, ApprovalStatuses
  <2>3. Snapshot(i) \in Item
    BY <2>1, <2>2 DEF Snapshot, Item
  <2>4. /\ Snapshot(i).issue = i
        /\ Snapshot(i).status = ApprovalStatus(issues[i].labels)
    BY DEF Snapshot
  <2>5. GoodItem(Snapshot(i))
    BY <2>1, <2>2, <2>4 DEF GoodItem, GoodIssue
  <2>6. QED
    BY <2>3, <2>5
<1> DEFINE batch == {Snapshot(i) : i \in page}
<1>4. \A item \in batch : item \in Item /\ GoodItem(item)
  BY <1>2, <1>3
<1> HIDE DEF batch
<1>5. watch' \in Watch /\ watch'.batch = batch
  BY <1>1, <1>4 DEF IInv, TypeOK, WatcherTypeOK, Watch, batch
<1>6. QED
  BY <1>4, <1>5, OnlyWatch DEF ListIssues

\* Steps of the watcher that only forget, the restart of the process included.
LEMMA ForgettingIInv ==
    ASSUME IInv, UNCHANGED storeVars,
           \/ /\ UNCHANGED req
              /\ Tick \/ CallFails \/ \E item \in watch.batch : Skip(item)
           \/ Restart
    PROVE  IInv'
<1>1. watch \in Watch /\ \A item \in watch.batch : GoodItem(item)
  BY DEF IInv, TypeOK, WatcherTypeOK, BatchGood
<1>2. watch' \in Watch /\ watch'.batch \subseteq watch.batch
  <2>1. CASE Tick
    BY <1>1, <2>1 DEF Tick, Watch
  <2>2. CASE CallFails
    BY <1>1, <2>2 DEF CallFails, NewWatch, Watch
  <2>3. ASSUME NEW item \in watch.batch, Skip(item)
        PROVE  watch' \in Watch /\ watch'.batch \subseteq watch.batch
    BY <1>1, <2>3 DEF Skip, Watch
  <2>4. CASE Restart
    BY <1>1, <2>4, WatcherAssumption DEF Restart, RestartWatcher, NewWatch, Watch
  <2>5. QED
    BY <2>1, <2>2, <2>3, <2>4
<1>3. CASE UNCHANGED req
  BY <1>1, <1>2, <1>3, OnlyWatch
<1>4. CASE Restart
  <2>1. Keeps /\ KeepsRows
    BY NothingKeeps DEF storeVars
  <2>2. req' = [r \in Reqs |-> Idle]
    BY <1>4 DEF Restart
  <2>3. RequestsGood' /\ req' \in [Reqs -> Request]
    BY <2>2 DEF RequestsGood, GoodRequest, Idle, Request, PCs
  <2>4. BatchGood'
    BY <1>1, <1>2 DEF BatchGood, GoodItem, storeVars
  <2>5. TypeOK'
    BY <1>2, <2>3 DEF IInv, TypeOK, StoreTypeOK, GatewayTypeOK, WatcherTypeOK, storeVars
  <2>6. QED
    BY <2>1, <2>3, <2>4, <2>5, Frame DEF IInv, storeVars
<1>5. QED
  BY <1>3, <1>4

\* A change of labels: no issue changes its plan, and an issue is approved
\* afterwards only if it was before or if a person has done it.
LEMMA LabelsIInv ==
    ASSUME IInv, UNCHANGED <<plans, approvals, executions, workflows, req>>,
           issues' \in [Issues -> Issue], watch' \in Watch, Keeps, GrantsGood',
           granted' \subseteq Plans \X Granters,
           \A i \in Issues : issues'[i].plan = issues[i].plan,
           \A i \in Issues : "approved" \in issues'[i].labels =>
              "approved" \in issues[i].labels \/ <<issues[i].plan, "linear">> \in granted',
           \A item \in watch'.batch : item.issue \in Issues /\ GoodItem(item)
    PROVE  IInv'
<1>1. KeepsRows
  BY DEF KeepsRows, Present
<1>2. IssuesGood'
  BY DEF IInv, IssuesGood, GoodIssue, Known, Keeps
<1>3. BatchGood'
  BY DEF BatchGood, GoodItem, Keeps
<1>4. TypeOK'
  BY DEF IInv, TypeOK, StoreTypeOK, GatewayTypeOK, WatcherTypeOK
<1>5. QED
  BY <1>1, <1>2, <1>3, <1>4, Frame DEF IInv

\* Somebody sets the labels of an issue, or time passes.
LEMMA PeopleIInv ==
    ASSUME IInv, People, UNCHANGED <<req, watch>>
    PROVE  IInv'
<1>1. watch' \in Watch /\ \A item \in watch'.batch : item.issue \in Issues /\ GoodItem(item)
  BY DEF IInv, TypeOK, WatcherTypeOK, Watch, Item, BatchGood
<1>2. ASSUME NEW i \in Issues, Age(i) PROVE IInv'
  <2>1. /\ issues' = [issues EXCEPT ![i].overdue = TRUE]
        /\ UNCHANGED <<plans, approvals, executions, workflows, granted>>
    BY <1>2 DEF Age
  <2>2. /\ issues' \in [Issues -> Issue]
        /\ \A j \in Issues : /\ issues'[j].plan = issues[j].plan
                             /\ issues'[j].labels = issues[j].labels
    BY <2>1 DEF IInv, TypeOK, StoreTypeOK, Issue
  <2>3. Keeps /\ GrantsGood' /\ granted' \subseteq Plans \X Granters
    BY <2>1, NothingKeeps, Frame DEF IInv, TypeOK, StoreTypeOK
  <2>4. QED
    BY <1>1, <2>1, <2>2, <2>3, LabelsIInv
<1>3. ASSUME NEW i \in Issues, NEW labels \in LabelSets, Relabel(i, labels) PROVE IInv'
  <2>1. /\ issues[i].plan # None
        /\ issues' = [issues EXCEPT ![i].labels = labels]
        /\ UNCHANGED <<plans, approvals, executions, workflows>>
    BY <1>3 DEF Relabel
  <2>2. PICK p \in Plans : p = issues[i].plan /\ Known(p)
    BY <2>1 DEF IInv, TypeOK, StoreTypeOK, Issue, IssuesGood, GoodIssue
  <2>3. labels \subseteq Labels
    BY WatcherAssumption
  <2>4. /\ issues' \in [Issues -> Issue]
        /\ \A j \in Issues : issues'[j].plan = issues[j].plan
        /\ \A j \in Issues \ {i} : issues'[j].labels = issues[j].labels
        /\ issues'[i].labels = labels
    BY <2>1, <2>3 DEF IInv, TypeOK, StoreTypeOK, Issue
  <2>5. CASE "approved" \in labels
    <3>1. granted' = granted \cup {<<p, "linear">>} /\ "linear" \in Granters
      BY <1>3, <2>2, <2>5 DEF Relabel, Granters
    <3>2. Keeps /\ GrantsGood' /\ granted' \subseteq Plans \X Granters
      BY <2>1, <2>2, <3>1, GrantGood
    <3>3. QED
      BY <1>1, <2>1, <2>2, <2>4, <3>1, <3>2, LabelsIInv
  <2>6. CASE "approved" \notin labels
    <3>1. UNCHANGED granted
      BY <1>3, <2>6 DEF Relabel
    <3>2. Keeps /\ GrantsGood' /\ granted' \subseteq Plans \X Granters
      BY <2>1, <3>1, NothingKeeps, Frame DEF IInv, TypeOK, StoreTypeOK
    <3>3. QED
      BY <1>1, <2>1, <2>4, <2>6, <3>2, LabelsIInv
  <2>7. QED
    BY <2>5, <2>6
<1>4. QED
  BY <1>2, <1>3 DEF People

\* The watcher expires an issue: it approves nothing.
LEMMA ExpireIInv ==
    ASSUME IInv, NEW item \in watch.batch, Expire(item), UNCHANGED req
    PROVE  IInv'
<1> DEFINE expired == [item EXCEPT !.status = "expired"]
<1>1. /\ issues' = [issues EXCEPT ![item.issue].labels = {"expired"}]
      /\ watch' = [watch EXCEPT !.batch = (@ \ {item}) \cup {expired}, !.hand = item.issue]
      /\ UNCHANGED <<plans, approvals, executions, workflows, granted>>
  BY DEF Expire
<1>2. watch \in Watch /\ item \in Item
  BY DEF IInv, TypeOK, WatcherTypeOK, Watch
<1>3. expired \in Item /\ expired.issue = item.issue /\ expired.status = "expired"
  BY <1>2 DEF Item, ApprovalStatuses
<1>4. GoodItem(expired)
  BY <1>3 DEF GoodItem, IInv, BatchGood
<1>5. watch' \in Watch /\ watch'.batch = (watch.batch \ {item}) \cup {expired}
  <2> HIDE DEF expired
  <2>1. item.issue \in Issues
    BY <1>2 DEF Item
  <2>2. QED
    BY <1>1, <1>2, <1>3, <2>1 DEF Watch
<1>6. \A it \in watch'.batch : it.issue \in Issues /\ GoodItem(it)
  BY <1>2, <1>3, <1>4, <1>5 DEF Watch, Item, IInv, BatchGood
<1>7. /\ issues' \in [Issues -> Issue]
      /\ \A i \in Issues : issues'[i].plan = issues[i].plan
      /\ \A i \in Issues : "approved" \in issues'[i].labels
                             => "approved" \in issues[i].labels
  BY <1>1 DEF IInv, TypeOK, StoreTypeOK, Issue, Labels, ApprovalStatuses
<1>8. Keeps /\ GrantsGood' /\ granted' \subseteq Plans \X Granters
  BY <1>1, NothingKeeps, Frame DEF IInv, TypeOK, StoreTypeOK
<1>9. QED
  BY <1>1, <1>5, <1>6, <1>7, <1>8, LabelsIInv

\* The watcher stores the status of its copy: what the copy claims is true.
LEMMA StoreIInv ==
    ASSUME IInv, NEW item \in watch.batch, Store(item), UNCHANGED req
    PROVE  IInv'
<1>1. PICK p, status : p = issues[item.issue].plan /\ status = item.status
  OBVIOUS
<1>2. /\ approvals' = UpdateApprovalStatusByPlan(p, status)
      /\ watch' = [watch EXCEPT !.batch = @ \ {item}, !.hand = None,
                                !.last[item.issue] = item.status]
      /\ UNCHANGED <<plans, executions, issues, workflows, granted>>
  BY <1>1 DEF Store
<1>3. Keeps /\ KeepsRows
  BY <1>2, NothingKeeps
<1>4. watch \in Watch /\ item.issue \in Issues /\ status \in ApprovalStatuses
  BY <1>1 DEF IInv, TypeOK, WatcherTypeOK, Watch, Item
<1>5. status = "approved" => GrantedBy(p, Granters)'
  BY <1>1, <1>2 DEF IInv, BatchGood, GoodItem, GrantedBy, Granters
<1>6. ApprovalsGood' /\ approvals' \in [Approvals -> ApprovalRow]
  BY <1>2, <1>3, <1>4, <1>5, UpdateGood
<1>7. watch' \in Watch /\ watch'.batch \subseteq watch.batch
  BY <1>1, <1>2, <1>4 DEF Watch
<1>8. BatchGood'
  BY <1>2, <1>7 DEF IInv, BatchGood, GoodItem
<1>9. TypeOK'
  BY <1>2, <1>6, <1>7 DEF IInv, TypeOK, StoreTypeOK, GatewayTypeOK, WatcherTypeOK
<1>10. QED
  BY <1>2, <1>3, <1>6, <1>8, <1>9, Frame DEF IInv

(***************************************************************************)
(* The theorems                                                            *)
(***************************************************************************)
\* Every step of the gateway preserves the invariant.
LEMMA GatewayIInv == IInv /\ GatewayNext /\ UNCHANGED watch => IInv'
<1> SUFFICES ASSUME IInv, GatewayNext, UNCHANGED watch PROVE IInv'
  OBVIOUS
<1>1. ASSUME NEW r \in Reqs, NEW p \in Plans,
             \/ CreatePlanRequest(r, p) \/ HookRequest(r, p) \/ AlertEventLoop(r, p)
             \/ StartWorkflowRequest(r, p) \/ ExecuteRequest(r, p)
             \/ \E status \in ApprovalStatuses : ApprovalRequest(r, p, status)
      PROVE  IInv'
  BY <1>1, CreatingIInv, ExecuteRequestIInv, ApprovalRequestIInv DEF CreatingAction
<1>2. ASSUME NEW p \in Plans, ScheduledPlan(p) PROVE IInv'
  <2>1. PICK r \in Reqs : TRUE
    BY GatewayAssumption
  <2>2. QED
    BY <1>2, CreatingIInv DEF CreatingAction
<1>3. ASSUME NEW r \in Reqs,
             \/ \E a \in Approvals : InsertApproval(r, a)
             \/ \E i \in Issues : CreateIssue(r, i)
             \/ \E e \in Execs : InsertExecution(r, e)
      PROVE  IInv'
  BY <1>3, InsertApprovalIInv, CreateIssueIInv, InsertExecutionIInv
<1>4. ASSUME NEW r \in Reqs,
             \/ AutoApprove(r) \/ AutoApproveHash(r) \/ SetHash(r)
             \/ ReadApproval(r) \/ ReadHash(r) \/ CheckActive(r)
             \/ StartWorkflow(r) \/ SaveWorkflowID(r) \/ EndRequest(r)
      PROVE  IInv'
  BY <1>4, AutoApproveIInv, SetHashIInv, CheckIInv, StartWorkflowIInv, EndRequestIInv
<1>5. ASSUME NEW p \in Plans, DeletePlan(p) PROVE IInv'
  BY <1>5, DeletePlanIInv
<1>6. ASSUME NEW e \in Execs, CancelExecution(e) PROVE IInv'
  BY <1>6, WorkflowIInv
<1>7. QED
  BY <1>1, <1>2, <1>3, <1>4, <1>5, <1>6 DEF GatewayNext

\* Every step of the watcher preserves the invariant.
LEMMA WatcherIInv == IInv /\ WatcherSteps /\ UNCHANGED req => IInv'
<1> SUFFICES ASSUME IInv, WatcherSteps, UNCHANGED req PROVE IInv'
  OBVIOUS
<1>1. CASE Poll
  BY <1>1, ListIssuesIInv, ForgettingIInv DEF Poll, Tick
<1>2. CASE Process
  BY <1>2, ExpireIInv, StoreIInv, ForgettingIInv DEF Process, Skip
<1>3. CASE CallFails
  BY <1>3, ForgettingIInv DEF CallFails
<1>4. QED
  BY <1>1, <1>2, <1>3 DEF WatcherSteps

\* The invariant is inductive.
LEMMA NextIInv == IInv /\ [Next]_vars => IInv'
<1> SUFFICES ASSUME IInv, [Next]_vars PROVE IInv'
  OBVIOUS
<1>1. CASE GatewayNext /\ UNCHANGED watch
  BY <1>1, GatewayIInv
<1>2. CASE WatcherSteps /\ UNCHANGED req
  BY <1>2, WatcherIInv
<1>3. CASE People /\ UNCHANGED <<req, watch>>
  BY <1>3, PeopleIInv
<1>4. CASE WorkflowNext
  BY <1>4, WorkflowIInv DEF WorkflowNext
<1>5. CASE Restart
  BY <1>5, ForgettingIInv DEF Restart
<1>6. CASE UNCHANGED vars
  <2>1. UNCHANGED storeVars /\ UNCHANGED req /\ UNCHANGED watch
    BY <1>6 DEF vars
  <2>2. watch' \in Watch /\ \A item \in watch'.batch : GoodItem(item)
    BY <2>1 DEF IInv, TypeOK, WatcherTypeOK, BatchGood
  <2>3. QED
    BY <2>1, <2>2, OnlyWatch
<1>7. QED
  BY <1>1, <1>2, <1>3, <1>4, <1>5, <1>6 DEF Next

\* The tables, the requests in flight and the copies the watcher holds always
\* agree with who approved which plan, whatever handlers, watcher, people,
\* workflows and restarts do between any two statements.
THEOREM Invariance == Spec => []IInv
<1>1. QED
  BY InitIInv, NextIInv, PTL DEF Spec

\* The types of all tables and processes.
THEOREM TypeCorrect == Spec => []TypeOK
<1>1. IInv => TypeOK
  BY DEF IInv
<1>2. QED
  BY <1>1, Invariance, PTL

\* No approval and no execution outlives its plan, though DELETE races every
\* handler that inserts one.
THEOREM Integrity == Spec => []ReferentialIntegrity
<1>1. IInv => ReferentialIntegrity
  BY DEF IInv, ReferentialIntegrity, ApprovalsGood, ExecutionsGood, GoodApproval,
         GoodExecution
<1>2. QED
  BY <1>1, Invariance, PTL

\* :execute never creates an execution of a write plan that nobody approved.
THEOREM WritesGranted == Spec => []WriteExecutionGranted
<1>1. IInv => WriteExecutionGranted
  <2> SUFFICES ASSUME IInv, NEW e \in Execs, NEW p \in Plans, executions[e].plan = p,
                      executions[e].via = "execute", Write(p)
               PROVE  GrantedBy(p, Granters)
    BY DEF WriteExecutionGranted
  <2>1. executions[e].plan # None /\ GoodExecution(executions[e])
    BY NoneAssumption DEF IInv, ExecutionsGood
  <2>2. QED
    BY <2>1 DEF GoodExecution, Approved
<1>2. QED
  BY <1>1, Invariance, PTL

\* A plan nobody asked for that is a write, and an alert's or a schedule's plan
\* with a step that writes, is never executed before a person has approved it.
THEOREM PeopleApproved == Spec => []HumanApproval
<1>1. ASSUME IInv, NEW p \in Plans, Executed(p), Write(p), plans[p].trigger \in Unattended
      PROVE  ByPeople(p)
  <2>1. PICK e \in Execs : executions[e].plan = p
    BY <1>1 DEF Executed, ExecsOf
  <2>2. executions[e].plan # None /\ GoodExecution(executions[e])
    BY <1>1, <2>1, NoneAssumption DEF IInv, ExecutionsGood
  <2>3. plans[p].trigger # "workflow"
    BY <1>1 DEF Unattended
  <2>4. GrantedBy(p, Granters)
    BY <1>1, <2>1, <2>2, <2>3 DEF GoodExecution, Approved
  <2>5. <<p, "auto">> \notin granted
    BY <1>1 DEF IInv, GrantsGood, GoodGrant, MayAutoApprove, Granters
  <2>6. QED
    BY <2>4, <2>5 DEF ByPeople, GrantedBy, Granters
<1>2. ASSUME IInv, NEW p \in Plans, StepsWrite(p),
             plans[p].trigger \in Unattended \ {"webhook"}
      PROVE  Write(p)
  BY <1>2 DEF IInv, PlansGood, GoodPlan
<1>3. IInv => HumanApproval
  <2> SUFFICES ASSUME IInv, NEW p \in Plans, Executed(p)
               PROVE  /\ plans[p].trigger \in Unattended /\ Write(p) => ByPeople(p)
                      /\ plans[p].trigger \in Unattended \ {"webhook"} /\ StepsWrite(p)
                           => ByPeople(p)
    BY DEF HumanApproval
  <2>1. plans[p].trigger \in Unattended /\ Write(p) => ByPeople(p)
    BY <1>1
  <2>2. plans[p].trigger \in Unattended \ {"webhook"} /\ StepsWrite(p)
          => plans[p].trigger \in Unattended /\ Write(p)
    BY <1>2
  <2>3. QED
    BY <2>1, <2>2
<1>4. QED
  BY <1>3, Invariance, PTL

\* A row that says "approved" goes back to somebody's approval of its plan.
THEOREM RowsGranted == Spec => []ApprovedRowGranted
<1>1. IInv => ApprovedRowGranted
  <2> SUFFICES ASSUME IInv, NEW p \in Plans, NEW a \in ApprovalsOf(p),
                      approvals[a].status = "approved"
               PROVE  GrantedBy(p, Granters)
    BY DEF ApprovedRowGranted
  <2>1. a \in Approvals /\ approvals[a].plan = p
    BY DEF ApprovalsOf
  <2>2. approvals[a].plan # None /\ GoodApproval(approvals[a])
    BY <2>1, NoneAssumption DEF IInv, ApprovalsGood
  <2>3. QED
    BY <2>1, <2>2 DEF GoodApproval
<1>2. QED
  BY <1>1, Invariance, PTL

\* A plan that the policy wants approved is not executed before a person has
\* approved it, unless AutoApproveLow lets a workflow of low risk start; in no
\* case is the automatic approval taken for the person's.
THEOREM PolicyObeyed == Spec => []PolicyHeeded
<1>1. IInv => PolicyHeeded
  <2> SUFFICES ASSUME IInv, NEW e \in Execs, NEW p \in Plans, executions[e].plan = p,
                      plans[p].decision = "require_approval"
               PROVE  \/ ByPeople(p)
                      \/ /\ executions[e].via = "workflow" /\ AutoApproveLow
                         /\ plans[p].risk = "low"
    BY DEF PolicyHeeded
  <2>1. executions[e].plan # None /\ GoodExecution(executions[e])
    BY NoneAssumption DEF IInv, ExecutionsGood
  <2>2. CASE executions[e].via = "execute" /\ Approved(p)
    <3>1. Write(p)
      BY DEF IInv, PlansGood, GoodPlan
    <3>2. GrantedBy(p, Granters)
      BY <2>2, <3>1 DEF Approved
    <3>3. <<p, "auto">> \notin granted
      BY DEF IInv, GrantsGood, GoodGrant, MayAutoApprove, Granters
    <3>4. QED
      BY <3>2, <3>3 DEF ByPeople, GrantedBy, Granters
  <2>3. CASE executions[e].via = "workflow" /\ AutoApproveLow /\ plans[p].risk = "low"
    BY <2>3
  <2>4. QED
    BY <2>1, <2>2, <2>3 DEF GoodExecution
<1>2. QED
  BY <1>1, Invariance, PTL

(***************************************************************************)
(* Executions and their workflows: PlanSystem implements the lifecycle.    *)
(***************************************************************************)
Final == {"succeeded", "failed"}

Starting(r, e) == req[r].pc = "startWorkflow" /\ req[r].exec = e

\* A workflow belongs to a row, a final row to a workflow that got as far, and a
\* handler about to start one is the only one and the first.
WorkflowGood(e) ==
    /\ executions[e].plan = None => workflows[e] = "none"
    /\ executions[e].status \in Final => workflows[e] \in {"running", "ended"}
    /\ \A r \in Reqs : Starting(r, e) =>
         /\ executions[e].plan # None /\ workflows[e] = "none"
         /\ \A s \in Reqs : Starting(s, e) => s = r
WorkflowsGood == \A e \in Execs : WorkflowGood(e)

\* No handler comes to the start of a workflow.
NoNewStart == \A r \in Reqs, e \in Execs : Starting(r, e)' => Starting(r, e)

\* The step leaves the execution and its workflow alone.
Untouched(e) == executions'[e] = executions[e] /\ workflows'[e] = workflows[e]

LEMMA UntouchedGood ==
    ASSUME WorkflowsGood, NoNewStart, NEW e \in Execs, Untouched(e)
    PROVE  WorkflowGood(e)' /\ LifecycleStep(e)
<1>1. WorkflowGood(e)'
  BY DEF WorkflowsGood, WorkflowGood, NoNewStart, Untouched
<1>2. UNCHANGED Lifecycle(e)!vars
  BY DEF Untouched, Lifecycle!vars
<1>3. QED
  BY <1>1, <1>2 DEF LifecycleStep

\* Ending or moving on a request, and beginning another one.
Moves(r, pcs) ==
    \/ req' = Done(r)
    \/ \E pc \in pcs : req' = Goto(r, pc)
    \/ \E kind, p, auto, steps : \E pc \in pcs : req' = Begin(r, kind, p, pc, auto, steps)
    \/ req' = [req EXCEPT ![r] = [Idle EXCEPT !.reply = "modified"]]

LEMMA RequestMoves ==
    ASSUME IInv, NEW r \in Reqs, NEW pcs, Moves(r, pcs)
    PROVE  (\A s \in Reqs \ {r} : req'[s] = req[s]) /\ req'[r].pc \in pcs \cup {"idle"}
<1>1. req \in [Reqs -> Request]
  BY DEF IInv, TypeOK, GatewayTypeOK
<1>2. QED
  BY <1>1 DEF Moves, Done, Goto, Begin, Idle, Request

\* The handlers' steps before an execution is there; but for the check of active
\* executions, none of them leads to the INSERT of an execution.
EarlyPCs == {"insertApproval", "createIssue", "autoApprove", "autoHash", "setHash",
             "readApproval", "readHash", "checkActive"}

EarlyStep(r) ==
    \/ \E p \in Plans :
         \/ CreatePlanRequest(r, p) \/ HookRequest(r, p) \/ AlertEventLoop(r, p)
         \/ StartWorkflowRequest(r, p) \/ ExecuteRequest(r, p)
         \/ \E status \in ApprovalStatuses : ApprovalRequest(r, p, status)
    \/ \E a \in Approvals : InsertApproval(r, a)
    \/ \E i \in Issues : CreateIssue(r, i)
    \/ AutoApprove(r) \/ AutoApproveHash(r) \/ SetHash(r)
    \/ ReadApproval(r) \/ ReadHash(r) \/ EndRequest(r)

LEMMA EarlyMoves ==
    ASSUME IInv, NEW r \in Reqs, EarlyStep(r)
    PROVE  Moves(r, EarlyPCs) /\ UNCHANGED <<executions, workflows>>
<1>1. UNCHANGED <<executions, workflows>>
  BY DEF EarlyStep, CreatePlanRequest, HookRequest, PlanRequest, AlertEventLoop,
         StartWorkflowRequest, ExecuteRequest, ApprovalRequest, InsertApproval,
         CreateIssue, AutoApprove, AutoApproveHash, SetHash, ReadApproval, ReadHash,
         EndRequest, storeVars
<1>3. ThenExecute(r) \in {Goto(r, "checkActive"), Done(r)}
  BY DEF ThenExecute
<1>4. ASSUME NEW p \in Plans,
             CreatePlanRequest(r, p) \/ HookRequest(r, p) \/ AlertEventLoop(r, p)
                \/ StartWorkflowRequest(r, p)
      PROVE  \/ req' = Done(r)
             \/ \E kind, auto, steps :
                  req' = Begin(r, kind, p, "insertApproval", auto, steps)
  BY <1>4 DEF CreatePlanRequest, HookRequest, PlanRequest, AlertEventLoop,
              StartWorkflowRequest
<1>5. ASSUME NEW p \in Plans, ExecuteRequest(r, p)
      PROVE  \E kind, auto, steps : \E pc \in {"readApproval", "readHash"} :
               req' = Begin(r, kind, p, pc, auto, steps)
  BY <1>5 DEF ExecuteRequest
<1>6. ASSUME NEW p \in Plans, NEW status \in ApprovalStatuses,
             ApprovalRequest(r, p, status)
      PROVE  \/ req' = Done(r)
             \/ \E kind, auto, steps : \E pc \in {"insertApproval", "setHash"} :
                  req' = Begin(r, kind, p, pc, auto, steps)
  BY <1>6 DEF ApprovalRequest
<1>7. ASSUME NEW a \in Approvals, InsertApproval(r, a)
      PROVE  req' = Done(r) \/ \E pc \in {"autoApprove", "createIssue", "checkActive"} :
                                  req' = Goto(r, pc)
  <2>1. req[r].auto \in BOOLEAN /\ LinearConfigured \in BOOLEAN
    BY GatewayAssumption DEF IInv, TypeOK, GatewayTypeOK, Request
  <2>2. QED
    BY <1>3, <1>7, <2>1 DEF InsertApproval
<1>8. ASSUME \/ \E i \in Issues : CreateIssue(r, i)
             \/ AutoApprove(r) \/ AutoApproveHash(r) \/ SetHash(r)
      PROVE  req' = Done(r) \/ \E pc \in {"autoHash", "checkActive"} : req' = Goto(r, pc)
  BY <1>3, <1>8 DEF CreateIssue, AutoApprove, AutoApproveHash, SetHash
<1>9. ASSUME ReadApproval(r) \/ ReadHash(r) \/ EndRequest(r)
      PROVE  \/ req' = Done(r)
             \/ \E pc \in {"readHash", "checkActive"} : req' = Goto(r, pc)
             \/ req' = [req EXCEPT ![r] = [Idle EXCEPT !.reply = "modified"]]
  BY <1>9 DEF ReadApproval, ReadHash, EndRequest
<1>10. Moves(r, EarlyPCs)
  BY <1>4, <1>5, <1>6, <1>7, <1>8, <1>9 DEF EarlyStep, Moves, EarlyPCs
<1>11. QED
  BY <1>1, <1>10

LEMMA HandlersUntouched ==
    ASSUME IInv, NEW r \in Reqs, EarlyStep(r) \/ CheckActive(r)
    PROVE  NoNewStart /\ UNCHANGED <<executions, workflows>>
<1>1. Moves(r, EarlyPCs \cup {"insertExec"}) /\ UNCHANGED <<executions, workflows>>
  <2>1. CASE EarlyStep(r)
    BY <2>1, EarlyMoves DEF Moves
  <2>2. CASE CheckActive(r)
    BY <2>2 DEF CheckActive, Moves, storeVars
  <2>3. QED
    BY <2>1, <2>2
<1>2. "startWorkflow" \notin EarlyPCs \cup {"insertExec"} \cup {"idle"}
  BY DEF EarlyPCs
<1>3. QED
  BY <1>1, <1>2, RequestMoves DEF NoNewStart, Starting

\* INSERT INTO executions: Create of a row that nobody knows yet.
LEMMA InsertExecutionLives ==
    ASSUME IInv, WorkflowsGood, NEW r \in Reqs, NEW f \in Execs, InsertExecution(r, f)
    PROVE  \A e \in Execs : WorkflowGood(e)' /\ LifecycleStep(e)
<1> SUFFICES ASSUME NEW e \in Execs PROVE WorkflowGood(e)' /\ LifecycleStep(e)
  OBVIOUS
<1>1. /\ req[r].pc = "insertExec" /\ executions[f].plan = None
      /\ executions' \in [Execs -> ExecRow] /\ req[r].plan \in Plans
      /\ executions'[f].plan = req[r].plan /\ executions'[f].status = "pending"
      /\ \A g \in Execs \ {f} : executions'[g] = executions[g]
      /\ UNCHANGED workflows
  <2>1. req[r].plan \in Plans /\ req[r].pc = "insertExec"
    BY DEF InsertExecution, At, IInv, RequestsGood, GoodRequest
  <2>2. executions \in [Execs -> ExecRow]
    BY DEF IInv, TypeOK, StoreTypeOK
  <2>3. executions' = CreateExecution(f, req[r].plan,
                         IF req[r].kind = "workflow" THEN "workflow" ELSE "execute")
    BY DEF InsertExecution
  <2>4. executions' \in [Execs -> ExecRow]
    <3>1. StoreTypeOK
      BY DEF IInv, TypeOK
    <3>2. QED
      BY <2>1, <2>3, <3>1, StatementTypes
  <2>5. QED
    BY <2>1, <2>2, <2>3, <2>4 DEF InsertExecution, CreateExecution
<1>2. \A s \in Reqs \ {r} : req'[s] = req[s]
  BY DEF InsertExecution, Done, IInv, TypeOK, GatewayTypeOK
<1>3. \A g \in Execs : Starting(r, g)' => g = f
  <2>1. req \in [Reqs -> Request]
    BY DEF IInv, TypeOK, GatewayTypeOK
  <2>2. CASE req' = Done(r)
    BY <2>1, <2>2 DEF Done, Idle, Starting
  <2>3. CASE req' = [req EXCEPT ![r].pc = "startWorkflow", ![r].exec = f]
    BY <2>1, <2>3 DEF Starting, Request
  <2>4. QED
    BY <2>2, <2>3 DEF InsertExecution
<1>4. workflows[f] = "none" /\ \A s \in Reqs : ~Starting(s, f)
  BY <1>1 DEF WorkflowsGood, WorkflowGood
<1>5. CASE e = f
  <2>1. executions'[e].plan # None
    BY <1>1, <1>5, NoneAssumption
  <2>2. \A s \in Reqs : Starting(s, e)' => s = r
    BY <1>2, <1>4, <1>5 DEF Starting
  <2>3. WorkflowGood(e)'
    BY <1>1, <1>4, <1>5, <2>1, <2>2 DEF WorkflowGood, Final
  <2>4. Lifecycle(e)!Create
    BY <1>1, <1>5, <2>1 DEF Lifecycle!Create
  <2>5. QED
    BY <2>3, <2>4 DEF LifecycleStep, Lifecycle!Next
<1>6. CASE e # f
  <2>1. Untouched(e)
    BY <1>1, <1>6 DEF Untouched
  <2>2. \A s \in Reqs : Starting(s, e)' => Starting(s, e)
    BY <1>2, <1>3, <1>6 DEF Starting
  <2>3. WorkflowGood(e)'
    BY <2>1, <2>2 DEF WorkflowsGood, WorkflowGood, Untouched
  <2>4. UNCHANGED Lifecycle(e)!vars
    BY <2>1 DEF Untouched, Lifecycle!vars
  <2>5. QED
    BY <2>3, <2>4 DEF LifecycleStep
<1>7. QED
  BY <1>5, <1>6

\* StartExecution, and its id stored.
LEMMA StartWorkflowLives ==
    ASSUME IInv, WorkflowsGood, NEW r \in Reqs, StartWorkflow(r) \/ SaveWorkflowID(r)
    PROVE  \A e \in Execs : WorkflowGood(e)' /\ LifecycleStep(e)
<1> SUFFICES ASSUME NEW e \in Execs PROVE WorkflowGood(e)' /\ LifecycleStep(e)
  OBVIOUS
<1>1. NoNewStart /\ req'[r].pc # "startWorkflow"
  <2>1. Moves(r, {"saveWorkflowID"})
    BY DEF StartWorkflow, SaveWorkflowID, Moves
  <2>2. QED
    BY <2>1, RequestMoves DEF NoNewStart, Starting
<1>2. CASE StartWorkflow(r) /\ req[r].exec = e
  <2>1. /\ Starting(r, e) /\ workflows'[e] = "new" /\ UNCHANGED executions
    BY <1>2 DEF StartWorkflow, Starting, At, IInv, TypeOK, StoreTypeOK
  <2>2. executions[e].plan # None /\ workflows[e] = "none"
        /\ executions[e].status \notin Final /\ \A s \in Reqs : Starting(s, e) => s = r
    BY <2>1 DEF WorkflowsGood, WorkflowGood
  <2>3. WorkflowGood(e)'
    <3>1. \A s \in Reqs : ~Starting(s, e)'
      BY <1>1, <2>2 DEF NoNewStart, Starting
    <3>2. QED
      BY <2>1, <2>2, <3>1 DEF WorkflowGood
  <2>4. executions[e].status # "absent"
    BY DEF IInv, TypeOK, StoreTypeOK, ExecRow, ExecStatuses
  <2>5. Lifecycle(e)!Start
    BY <2>1, <2>2, <2>4 DEF Lifecycle!Start
  <2>6. QED
    BY <2>3, <2>5 DEF LifecycleStep, Lifecycle!Next
<1>3. CASE StartWorkflow(r) /\ req[r].exec # e
  <2>1. Untouched(e)
    BY <1>3 DEF StartWorkflow, Untouched, IInv, TypeOK, StoreTypeOK
  <2>2. QED
    BY <1>1, <2>1, UntouchedGood
<1>4. CASE SaveWorkflowID(r)
  <2>1. executions'[e].plan = executions[e].plan /\ workflows'[e] = workflows[e]
        /\ executions'[e].status = executions[e].status
    BY <1>4 DEF SaveWorkflowID, UpdateExecutionWorkflowID, IInv, TypeOK, StoreTypeOK,
                ExecRow
  <2>2. WorkflowGood(e)'
    BY <1>1, <2>1 DEF WorkflowsGood, WorkflowGood, NoNewStart
  <2>3. UNCHANGED Lifecycle(e)!vars
    BY <2>1 DEF Lifecycle!vars
  <2>4. QED
    BY <2>2, <2>3 DEF LifecycleStep
<1>5. QED
  BY <1>2, <1>3, <1>4

\* The cancel request and the workflow's own steps.
LEMMA WorkflowLives ==
    ASSUME IInv, WorkflowsGood, NEW f \in Execs,
           CancelExecution(f) \/ WorkflowMarksRunning(f) \/ WorkflowCompletes(f)
              \/ WorkflowEnds(f)
    PROVE  \A e \in Execs : WorkflowGood(e)' /\ LifecycleStep(e)
<1> SUFFICES ASSUME NEW e \in Execs PROVE WorkflowGood(e)' /\ LifecycleStep(e)
  OBVIOUS
<1>1. UNCHANGED req /\ NoNewStart
  BY DEF CancelExecution, WorkflowMarksRunning, WorkflowCompletes, WorkflowEnds,
         NoNewStart, Starting
<1>2. /\ executions \in [Execs -> ExecRow] /\ workflows \in [Execs -> WorkflowStates]
      /\ executions[f].status \in ExecStatuses
  BY DEF IInv, TypeOK, StoreTypeOK, ExecRow
<1>3. CASE e # f
  <2>1. Untouched(e)
    BY <1>2, <1>3 DEF CancelExecution, WorkflowMarksRunning, WorkflowCompletes,
                      WorkflowEnds, SetExecutionStatus, Untouched
  <2>2. QED
    BY <1>1, <2>1, UntouchedGood
<1>4. CASE e = f
  <2> USE <1>4
  <2>1. /\ \A s : executions' = SetExecutionStatus(e, s) =>
             executions'[e].plan = executions[e].plan /\ executions'[e].status = s
        /\ \A w : workflows' = [workflows EXCEPT ![e] = w] => workflows'[e] = w
    BY <1>2 DEF SetExecutionStatus, ExecRow
  <2>2. WorkflowGood(e)
    BY DEF WorkflowsGood
  <2>3. CASE CancelExecution(f)
    <3>1. /\ executions[e].plan # None /\ executions[e].status \in {"pending", "running"}
          /\ executions'[e].plan = executions[e].plan
          /\ executions'[e].status = "cancelled" /\ workflows'[e] = workflows[e]
      BY <2>1, <2>3 DEF CancelExecution, Cancellable, Active
    <3>2. WorkflowGood(e)'
      BY <1>1, <2>2, <3>1 DEF WorkflowGood, Final, Starting
    <3>3. Lifecycle(e)!Cancel
      BY <3>1 DEF Lifecycle!Cancel
    <3>4. QED
      BY <3>2, <3>3 DEF LifecycleStep, Lifecycle!Next
  <2>4. CASE WorkflowMarksRunning(f)
    <3>1. /\ workflows[e] = "new" /\ executions'[e].plan = executions[e].plan
          /\ executions'[e].status = "running" /\ workflows'[e] \in {"new", "running"}
      <4>1. workflows' = workflows \/ workflows' = [workflows EXCEPT ![e] = "running"]
        BY <2>4 DEF WorkflowMarksRunning
      <4>2. QED
        BY <2>1, <2>4, <4>1 DEF WorkflowMarksRunning
    <3>2. executions[e].plan # None
      BY <2>2, <3>1 DEF WorkflowGood
    <3>3. WorkflowGood(e)'
      BY <1>1, <2>2, <3>1, <3>2 DEF WorkflowGood, Final, Starting
    <3>4. Lifecycle(e)!MarkRunning
      BY <3>1, <3>2 DEF Lifecycle!MarkRunning
    <3>5. QED
      BY <3>3, <3>4 DEF LifecycleStep, Lifecycle!Next
  <2>5. CASE WorkflowCompletes(f)
    <3>1. PICK s \in Final :
            /\ executions[e].status \in Final => s = executions[e].status
            /\ executions' = SetExecutionStatus(e, s)
      BY <2>5 DEF WorkflowCompletes, Final
    <3>2. /\ workflows[e] = "running" /\ executions'[e].plan = executions[e].plan
          /\ executions'[e].status = s /\ workflows'[e] = workflows[e]
      BY <2>1, <2>5, <3>1 DEF WorkflowCompletes
    <3>3. executions[e].plan # None
      BY <2>2, <3>2 DEF WorkflowGood
    <3>4. WorkflowGood(e)'
      BY <1>1, <2>2, <3>2, <3>3 DEF WorkflowGood, Starting
    <3>5. Lifecycle(e)!MarkFinal
      BY <3>1, <3>2, <3>3 DEF Lifecycle!MarkFinal, Lifecycle!Final, Final
    <3>6. QED
      BY <3>4, <3>5 DEF LifecycleStep, Lifecycle!Next
  <2>6. CASE WorkflowEnds(f)
    <3>1. /\ workflows[e] \in {"new", "running"} /\ executions'[e] = executions[e]
          /\ workflows'[e] = "ended"
      BY <2>1, <2>6 DEF WorkflowEnds
    <3>2. executions[e].plan # None
      BY <2>2, <3>1 DEF WorkflowGood
    <3>3. WorkflowGood(e)'
      BY <1>1, <2>2, <3>1, <3>2 DEF WorkflowGood, Starting
    <3>4. Lifecycle(e)!GiveUp
      BY <3>1, <3>2 DEF Lifecycle!GiveUp
    <3>5. QED
      BY <3>3, <3>4 DEF LifecycleStep, Lifecycle!Next
  <2>7. QED
    BY <2>3, <2>4, <2>5, <2>6
<1>5. QED
  BY <1>3, <1>4

\* Every step of the system is a step in the life of every execution, or none.
LEMMA NextLives ==
    IInv /\ WorkflowsGood /\ [Next]_vars
       => WorkflowsGood' /\ \A e \in Execs : LifecycleStep(e)
<1> SUFFICES ASSUME IInv, WorkflowsGood, [Next]_vars, NEW e \in Execs
             PROVE  WorkflowGood(e)' /\ LifecycleStep(e)
  BY DEF WorkflowsGood
<1>1. CASE NoNewStart /\ UNCHANGED <<executions, workflows>>
  BY <1>1, UntouchedGood DEF Untouched
<1>2. CASE GatewayNext
  <2>1. ASSUME NEW p \in Plans, ScheduledPlan(p) \/ DeletePlan(p)
        PROVE  NoNewStart /\ UNCHANGED <<executions, workflows>>
    BY <2>1 DEF ScheduledPlan, DeletePlan, NoNewStart, Starting
  <2>2. QED
    BY <1>1, <1>2, <2>1, HandlersUntouched, InsertExecutionLives, StartWorkflowLives,
       WorkflowLives DEF GatewayNext, EarlyStep
<1>3. CASE WatcherSteps /\ UNCHANGED req
  <2>1. NoNewStart
    BY <1>3 DEF NoNewStart, Starting
  <2>2. UNCHANGED <<executions, workflows>>
    BY <1>3 DEF WatcherSteps, Poll, ListIssues, Tick, Process, Skip, Expire, Store,
                CallFails, storeVars
  <2>3. QED
    BY <1>1, <2>1, <2>2
<1>4. CASE People /\ UNCHANGED <<req, watch>>
  <2>1. NoNewStart /\ UNCHANGED <<executions, workflows>>
    BY <1>4 DEF NoNewStart, Starting, People, Age, Relabel
  <2>2. QED
    BY <1>1, <2>1
<1>5. CASE WorkflowNext
  BY <1>5, WorkflowLives DEF WorkflowNext
<1>6. CASE Restart
  <2>1. NoNewStart /\ UNCHANGED <<executions, workflows>>
    BY <1>6 DEF Restart, NoNewStart, Starting, Idle, storeVars
  <2>2. QED
    BY <1>1, <2>1
<1>7. CASE UNCHANGED vars
  <2>1. NoNewStart /\ UNCHANGED <<executions, workflows>>
    BY <1>7 DEF vars, storeVars, NoNewStart, Starting
  <2>2. QED
    BY <1>1, <2>1
<1>8. QED
  BY <1>2, <1>3, <1>4, <1>5, <1>6, <1>7 DEF Next

\* Every execution lives the life of ExecutionLifecycle, however many handlers
\* insert, start and cancel executions while their workflows run: a workflow is
\* started once and only for a row that is there, and a status "succeeded" or
\* "failed" is never replaced.
THEOREM LifecyclesImplemented == Spec => ExecutionsLifecycle
<1>1. Init => WorkflowsGood /\ \A e \in Execs : Lifecycle(e)!Init
  BY DEF Init, StoreInit, GatewayInit, NoExecution, Idle, WorkflowsGood, WorkflowGood,
         Final, Starting, Lifecycle!Init
<1>2. IInv /\ WorkflowsGood /\ [Next]_vars => WorkflowsGood'
  BY NextLives
<1>3. IInv /\ WorkflowsGood /\ [Next]_vars => [\A e \in Execs : LifecycleStep(e)]_vars
  BY NextLives
<1>4. QED
  BY <1>1, <1>2, <1>3, Invariance, PTL DEF Spec, ExecutionsLifecycle

(***************************************************************************)
(* At most one execution of a plan is pending or running, but for two      *)
(* races.  Nothing in the code excludes them, so the theorem has their     *)
(* absence as its hypotheses.                                              *)
(***************************************************************************)
\* Between HasActiveExecution and the INSERT of :execute, no second request is
\* between them for the same plan.
ChecksApart ==
    \A r, s \in Reqs :
       At(r, "insertExec") /\ At(s, "insertExec") /\ req[r].plan = req[s].plan => r = s

\* No execution is cancelled whose workflow has yet to write "running": that
\* UPDATE asks for no earlier status and takes the cancelled row back.
CancelsLate ==
    \A e \in Execs : executions[e].status = "cancelled" => workflows[e] # "new"

\* A request about to INSERT has a plan without an active execution.
Blocked == \A r \in Reqs : At(r, "insertExec") => ~HasActiveExecution(req[r].plan)

OInv == OneActiveExecution /\ Blocked

\* No row of executions becomes active, and no request comes to the INSERT.
NoNewActive ==
    \A e \in Execs : Active(e)' /\ executions'[e].plan # None
                       => Active(e) /\ executions'[e].plan = executions[e].plan
NoNewInsert ==
    \A r \in Reqs : At(r, "insertExec")' => At(r, "insertExec") /\ req'[r] = req[r]

LEMMA CalmKeeps ==
    ASSUME IInv, OInv, NoNewActive, NoNewInsert
    PROVE  OInv'
<1>1. \A p \in Plans : p # None
  BY NoneAssumption
<1>2. \A r \in Reqs : At(r, "insertExec") => req[r].plan \in Plans
  BY DEF IInv, RequestsGood, GoodRequest, At
<1>3. OneActiveExecution'
  BY <1>1 DEF OInv, OneActiveExecution, NoNewActive, ExecsOf
<1>4. Blocked'
  <2> SUFFICES ASSUME NEW r \in Reqs, At(r, "insertExec")', NEW e \in Execs,
                      executions'[e].plan = req'[r].plan, Active(e)'
               PROVE  FALSE
    BY DEF Blocked, HasActiveExecution, ExecsOf
  <2>1. At(r, "insertExec") /\ req'[r] = req[r]
    BY DEF NoNewInsert
  <2>2. Active(e) /\ executions[e].plan = req[r].plan
    BY <1>1, <1>2, <2>1 DEF NoNewActive
  <2>3. QED
    BY <2>1, <2>2 DEF OInv, Blocked, HasActiveExecution, ExecsOf
<1>5. QED
  BY <1>3, <1>4 DEF OInv

LEMMA SameRowsCalm ==
    ASSUME UNCHANGED executions PROVE NoNewActive
BY DEF NoNewActive, Active

LEMMA ElsewhereCalm ==
    ASSUME IInv, NEW r \in Reqs, NEW pcs, "insertExec" \notin pcs, Moves(r, pcs)
    PROVE  NoNewInsert
<1>1. req'[r].pc # "insertExec" /\ \A s \in Reqs \ {r} : req'[s] = req[s]
  BY RequestMoves
<1>2. QED
  BY <1>1 DEF NoNewInsert, At

\* HasActiveExecution is what lets a request come to the INSERT.
LEMMA CheckActiveKeeps ==
    ASSUME IInv, OInv, NEW r \in Reqs, CheckActive(r)
    PROVE  OInv'
<1>1. UNCHANGED executions
  BY DEF CheckActive, storeVars
<1>2. req \in [Reqs -> Request]
  BY DEF IInv, TypeOK, GatewayTypeOK
<1>3. CASE HasActiveExecution(req[r].plan)
  <2>1. Moves(r, {})
    BY <1>3 DEF CheckActive, Moves
  <2>2. QED
    BY <1>1, <2>1, SameRowsCalm, ElsewhereCalm, CalmKeeps
<1>4. CASE ~HasActiveExecution(req[r].plan)
  <2>1. /\ req'[r].plan = req[r].plan
        /\ \A s \in Reqs \ {r} : req'[s] = req[s]
    BY <1>2, <1>4 DEF CheckActive, Goto, Request
  <2>2. Blocked'
    BY <1>1, <1>4, <2>1 DEF OInv, Blocked, HasActiveExecution, ExecsOf, Active, At
  <2>3. OneActiveExecution'
    BY <1>1 DEF OInv, OneActiveExecution, ExecsOf, Active
  <2>4. QED
    BY <2>2, <2>3 DEF OInv
<1>5. QED
  BY <1>3, <1>4

\* The INSERT: its plan has no other active execution, and no other request is
\* about to INSERT one of the same plan.
LEMMA InsertKeeps ==
    ASSUME IInv, OInv, ChecksApart, NEW r \in Reqs, NEW f \in Execs, InsertExecution(r, f)
    PROVE  OInv'
<1>1. /\ At(r, "insertExec") /\ req[r].plan \in Plans /\ executions[f].plan = None
      /\ executions'[f].plan = req[r].plan
      /\ \A g \in Execs \ {f} : executions'[g] = executions[g]
  <2>1. executions \in [Execs -> ExecRow]
    BY DEF IInv, TypeOK, StoreTypeOK
  <2>2. QED
    BY <2>1 DEF InsertExecution, CreateExecution, At, IInv, RequestsGood, GoodRequest
<1>2. req'[r].pc # "insertExec" /\ \A s \in Reqs \ {r} : req'[s] = req[s]
  <2>1. req \in [Reqs -> Request]
    BY DEF IInv, TypeOK, GatewayTypeOK
  <2>2. QED
    BY <2>1 DEF InsertExecution, Done, Idle, Request
<1>3. OneActiveExecution'
  <2> SUFFICES ASSUME NEW p \in Plans, NEW e \in Execs, NEW g \in Execs,
                      executions'[e].plan = p, executions'[g].plan = p,
                      Active(e)', Active(g)', e # f, e # g
               PROVE  FALSE
    BY DEF OneActiveExecution, ExecsOf
  <2>1. executions[e].plan = p /\ Active(e)
    BY <1>1 DEF Active
  <2>2. CASE g = f
    BY <1>1, <2>1, <2>2 DEF OInv, Blocked, HasActiveExecution, ExecsOf
  <2>3. CASE g # f
    BY <1>1, <2>1, <2>3 DEF OInv, OneActiveExecution, ExecsOf, Active
  <2>4. QED
    BY <2>2, <2>3
<1>4. Blocked'
  <2> SUFFICES ASSUME NEW s \in Reqs, At(s, "insertExec")', NEW e \in Execs,
                      executions'[e].plan = req'[s].plan, Active(e)'
               PROVE  FALSE
    BY DEF Blocked, HasActiveExecution, ExecsOf
  <2>1. s # r /\ req'[s] = req[s] /\ At(s, "insertExec")
    BY <1>2 DEF At
  <2>2. req[s].plan # req[r].plan
    BY <1>1, <2>1 DEF ChecksApart
  <2>3. e # f
    BY <1>1, <2>1, <2>2
  <2>4. executions[e].plan = req[s].plan /\ Active(e)
    BY <1>1, <2>1, <2>3 DEF Active
  <2>5. QED
    BY <2>1, <2>4 DEF OInv, Blocked, HasActiveExecution, ExecsOf
<1>5. QED
  BY <1>3, <1>4 DEF OInv

\* A cancel request and the workflow's own steps make no row active that was not:
\* "running" is written over "pending" or "running" unless a cancel came first.
LEMMA RowsCalm ==
    ASSUME IInv, WorkflowsGood, CancelsLate, NEW f \in Execs,
           CancelExecution(f) \/ WorkflowMarksRunning(f) \/ WorkflowCompletes(f)
              \/ WorkflowEnds(f)
    PROVE  NoNewActive /\ NoNewInsert
<1>1. executions \in [Execs -> ExecRow] /\ executions[f].status \in ExecStatuses
  BY DEF IInv, TypeOK, StoreTypeOK, ExecRow
<1>2. NoNewInsert
  BY DEF CancelExecution, WorkflowMarksRunning, WorkflowCompletes, WorkflowEnds,
         NoNewInsert, At
<1>3. ASSUME NEW s, executions' = SetExecutionStatus(f, s),
             s \in {"pending", "running"} => Active(f)
      PROVE  NoNewActive
  <2>1. executions'[f].plan = executions[f].plan /\ executions'[f].status = s
    BY <1>1, <1>3 DEF SetExecutionStatus, ExecRow
  <2>2. \A g \in Execs \ {f} : executions'[g] = executions[g]
    BY <1>1, <1>3 DEF SetExecutionStatus
  <2>3. QED
    BY <1>3, <2>1, <2>2 DEF NoNewActive, Active
<1>4. CASE CancelExecution(f)
  BY <1>2, <1>3, <1>4 DEF CancelExecution
<1>5. CASE WorkflowMarksRunning(f)
  <2>1. workflows[f] = "new" /\ executions' = SetExecutionStatus(f, "running")
    BY <1>5 DEF WorkflowMarksRunning
  <2>2. executions[f].status \notin Final
    BY <2>1 DEF WorkflowsGood, WorkflowGood
  <2>3. Active(f)
    BY <1>1, <2>1, <2>2 DEF Active, Final, ExecStatuses, CancelsLate
  <2>4. QED
    BY <1>2, <1>3, <2>1, <2>3
<1>6. CASE WorkflowCompletes(f)
  <2>1. PICK s \in {"succeeded", "failed"} : executions' = SetExecutionStatus(f, s)
    BY <1>6 DEF WorkflowCompletes
  <2>2. QED
    BY <1>2, <1>3, <2>1
<1>7. CASE WorkflowEnds(f)
  BY <1>2, <1>7, SameRowsCalm DEF WorkflowEnds
<1>8. QED
  BY <1>4, <1>5, <1>6, <1>7

LEMMA StartCalm ==
    ASSUME IInv, NEW r \in Reqs, StartWorkflow(r) \/ SaveWorkflowID(r)
    PROVE  NoNewActive /\ NoNewInsert
<1>1. Moves(r, {"saveWorkflowID"})
  BY DEF StartWorkflow, SaveWorkflowID, Moves
<1>2. NoNewInsert
  BY <1>1, ElsewhereCalm
<1>3. \A e \in Execs : executions'[e].plan = executions[e].plan
                         /\ executions'[e].status = executions[e].status
  BY DEF StartWorkflow, SaveWorkflowID, UpdateExecutionWorkflowID, IInv, TypeOK,
         StoreTypeOK, ExecRow
<1>4. QED
  BY <1>2, <1>3 DEF NoNewActive, Active

LEMMA NextKeepsOne ==
    IInv /\ WorkflowsGood /\ OInv /\ ChecksApart /\ CancelsLate /\ [Next]_vars => OInv'
<1> SUFFICES ASSUME IInv, WorkflowsGood, OInv, ChecksApart, CancelsLate, [Next]_vars
             PROVE  OInv'
  OBVIOUS
<1>1. CASE UNCHANGED <<executions, req>>
  BY <1>1, SameRowsCalm, CalmKeeps DEF NoNewInsert, At
<1>2. CASE GatewayNext
  <2>1. ASSUME NEW p \in Plans, ScheduledPlan(p) \/ DeletePlan(p)
        PROVE  UNCHANGED <<executions, req>>
    BY <2>1 DEF ScheduledPlan, DeletePlan
  <2>2. ASSUME NEW r \in Reqs, EarlyStep(r) PROVE OInv'
    <3>1. "insertExec" \notin EarlyPCs
      BY DEF EarlyPCs
    <3>2. NoNewInsert /\ UNCHANGED executions
      BY <2>2, <3>1, EarlyMoves, ElsewhereCalm
    <3>3. QED
      BY <3>2, SameRowsCalm, CalmKeeps
  <2>3. ASSUME NEW r \in Reqs, StartWorkflow(r) \/ SaveWorkflowID(r) PROVE OInv'
    BY <2>3, StartCalm, CalmKeeps
  <2>4. ASSUME NEW e \in Execs, CancelExecution(e) PROVE OInv'
    BY <2>4, RowsCalm, CalmKeeps
  <2>5. QED
    BY <1>1, <1>2, <2>1, <2>2, <2>3, <2>4, CheckActiveKeeps, InsertKeeps
       DEF GatewayNext, EarlyStep
<1>3. CASE WatcherSteps /\ UNCHANGED req
  <2>1. UNCHANGED <<executions, req>>
    BY <1>3 DEF WatcherSteps, Poll, ListIssues, Tick, Process, Skip, Expire, Store,
                CallFails, storeVars
  <2>2. QED
    BY <1>1, <2>1
<1>4. CASE People /\ UNCHANGED <<req, watch>>
  <2>1. UNCHANGED <<executions, req>>
    BY <1>4 DEF People, Age, Relabel
  <2>2. QED
    BY <1>1, <2>1
<1>5. CASE WorkflowNext
  BY <1>5, RowsCalm, CalmKeeps DEF WorkflowNext
<1>6. CASE Restart
  <2>1. NoNewInsert /\ UNCHANGED executions
    BY <1>6 DEF Restart, NoNewInsert, At, Idle, storeVars
  <2>2. QED
    BY <2>1, SameRowsCalm, CalmKeeps
<1>7. CASE UNCHANGED vars
  <2>1. UNCHANGED <<executions, req>>
    BY <1>7 DEF vars, storeVars
  <2>2. QED
    BY <1>1, <2>1
<1>8. QED
  BY <1>2, <1>3, <1>4, <1>5, <1>6, <1>7 DEF Next

\* Where no two requests for a plan are between HasActiveExecution and the INSERT
\* of CreateExecution together, and nobody cancels an execution before its
\* workflow has written "running", no plan ever has two executions that are
\* pending or running: the two races are all that the 409 of :execute leaves open.
THEOREM OneActiveBarRaces ==
    Spec /\ []ChecksApart /\ []CancelsLate => []OneActiveExecution
<1>1. Init => WorkflowsGood /\ OInv
  BY NoneAssumption DEF Init, StoreInit, GatewayInit, NoExecution, Idle, WorkflowsGood, WorkflowGood,
         Final, Starting, OInv, OneActiveExecution, Blocked, ExecsOf, Active, At,
         HasActiveExecution
<1>2. IInv /\ WorkflowsGood /\ [Next]_vars => WorkflowsGood'
  BY NextLives
<1>3. OInv => OneActiveExecution
  BY DEF OInv
<1>4. QED
  BY <1>1, <1>2, <1>3, NextKeepsOne, Invariance, PTL DEF Spec

(***************************************************************************)
(* The approval watcher on its own: what it remembers of an issue is what  *)
(* the approvals of its plan say, so that skipping a status it remembers   *)
(* skips nothing.                                                          *)
(***************************************************************************)
LEMMA WatcherStartsRight == WatcherStart => LastIsStored
<1>1. SUFFICES ASSUME WatcherStart PROVE LastIsStored
  OBVIOUS
<1>2. StoreTypeOK
  BY <1>1 DEF WatcherStart, StoreInit, StoreTypeOK, NoPlan, NoApproval, NoExecution, NoIssue,
     PlanRow, ApprovalRow, ExecRow, Issue, WorkflowStates, Triggers, Risks, ApprovalStatuses,
     ExecStatuses, StepKinds, Hashes
<1>3. WatcherTypeOK
  BY <1>1, WatcherAssumption DEF WatcherStart, WatcherInit, WatcherTypeOK, NewWatch, Watch
<1>4. AskedOnce
  BY <1>1 DEF WatcherStart, StoreInit, AskedOnce, NoApproval, NoIssue
<1>5. WatchesIssues /\ Remembers
  BY <1>1 DEF WatcherStart, WatcherInit, NewWatch, WatchesIssues, Remembers
<1>6. QED
  BY <1>2, <1>3, <1>4, <1>5 DEF LastIsStored

\* A step of the watcher that stores nothing and remembers nothing new.
LEMMA WatchKeeps ==
  ASSUME LastIsStored, UNCHANGED storeVars, watch' \in Watch,
         \A item \in watch'.batch : issues[item.issue].plan # None,
         \A i \in Issues : watch'.last[i] \in {watch.last[i], "none"}
  PROVE  LastIsStored'
<1>1. StoreTypeOK' /\ WatcherTypeOK' /\ AskedOnce'
  BY DEF LastIsStored, StoreTypeOK, WatcherTypeOK, AskedOnce, storeVars
<1>2. WatchesIssues' /\ Remembers'
  BY DEF LastIsStored, WatchesIssues, Remembers, storeVars
<1>3. QED
  BY <1>1, <1>2 DEF LastIsStored

LEMMA ListIssuesKeeps ==
  ASSUME LastIsStored, ListIssues
  PROVE  LastIsStored'
<1>1. PICK page \in Pages :
        watch' = [watch EXCEPT !.polling = TRUE, !.batch = {Snapshot(i) : i \in page}]
  BY DEF ListIssues
<1>2. page \subseteq Listed
  BY DEF Pages
<1>3. ASSUME NEW i \in Listed
      PROVE  Snapshot(i) \in Item /\ issues[Snapshot(i).issue].plan # None
  <2>1. /\ i \in Issues /\ issues[i].plan # None /\ issues[i].labels # {}
        /\ issues[i].labels \subseteq ApprovalStatuses /\ issues[i].overdue \in BOOLEAN
    BY DEF Listed, LastIsStored, StoreTypeOK, Issue, Labels
  <2>2. ApprovalStatus(issues[i].labels) \in ApprovalStatuses
    BY <2>1 DEF ApprovalStatus, ApprovalStatuses
  <2>3. QED
    BY <2>1, <2>2 DEF Snapshot, Item
<1> DEFINE batch == {Snapshot(i) : i \in page}
<1>4. \A item \in batch : item \in Item /\ issues[item.issue].plan # None
  BY <1>2, <1>3
<1> HIDE DEF batch
<1>5. watch' \in Watch /\ watch'.batch = batch /\ watch'.last = watch.last
  BY <1>1, <1>4 DEF LastIsStored, WatcherTypeOK, Watch, batch
<1>6. QED
  BY <1>4, <1>5, WatchKeeps DEF ListIssues

\* Steps that only forget, the restart of the process included.
LEMMA ForgettingKeeps ==
  ASSUME LastIsStored, UNCHANGED storeVars,
         Tick \/ CallFails \/ RestartWatcher \/ \E item \in watch.batch : Skip(item)
  PROVE  LastIsStored'
<1>1. watch \in Watch /\ \A item \in watch.batch : issues[item.issue].plan # None
  BY DEF LastIsStored, WatcherTypeOK, WatchesIssues
<1>2. /\ watch' \in Watch /\ watch'.batch \subseteq watch.batch
      /\ \A i \in Issues : watch'.last[i] \in {watch.last[i], "none"}
  <2>1. CASE Tick
    BY <1>1, <2>1 DEF Tick, Watch
  <2>2. CASE CallFails
    BY <1>1, <2>2 DEF CallFails, NewWatch, Watch
  <2>3. CASE RestartWatcher
    BY <1>1, <2>3, WatcherAssumption DEF RestartWatcher, NewWatch, Watch
  <2>4. ASSUME NEW item \in watch.batch, Skip(item)
        PROVE  /\ watch' \in Watch /\ watch'.batch \subseteq watch.batch
               /\ \A i \in Issues : watch'.last[i] \in {watch.last[i], "none"}
    BY <1>1, <2>4 DEF Skip, Watch
  <2>5. QED
    BY <2>1, <2>2, <2>3, <2>4
<1>3. QED
  BY <1>1, <1>2, WatchKeeps

\* Labels and ages change, by the watcher or by people: no plan, no approval and
\* no memory with them.
LEMMA IssuesKeep ==
  ASSUME LastIsStored, UNCHANGED <<plans, approvals, executions, workflows>>,
         granted' \subseteq Plans \X Granters,
         issues' \in [Issues -> Issue], \A i \in Issues : issues'[i].plan = issues[i].plan,
         watch' \in Watch, watch'.last = watch.last,
         \A item \in watch'.batch : item.issue \in Issues /\ issues[item.issue].plan # None
  PROVE  LastIsStored'
<1>1. StoreTypeOK' /\ WatcherTypeOK'
  BY DEF LastIsStored, StoreTypeOK, WatcherTypeOK
<1>2. AskedOnce'
  BY DEF LastIsStored, AskedOnce
<1>3. WatchesIssues' /\ Remembers'
  BY DEF LastIsStored, WatchesIssues, Remembers
<1>4. QED
  BY <1>1, <1>2, <1>3 DEF LastIsStored

LEMMA PeopleKeep ==
  ASSUME LastIsStored, People, UNCHANGED watch
  PROVE  LastIsStored'
<1>1. /\ watch' \in Watch /\ watch'.last = watch.last
      /\ \A item \in watch'.batch : item.issue \in Issues /\ issues[item.issue].plan # None
  BY DEF LastIsStored, WatcherTypeOK, WatchesIssues, Watch, Item
<1>2. ASSUME NEW i \in Issues, Age(i) PROVE LastIsStored'
  <2>1. /\ issues' \in [Issues -> Issue]
        /\ \A j \in Issues : issues'[j].plan = issues[j].plan
    BY <1>2 DEF Age, LastIsStored, StoreTypeOK, Issue
  <2>2. granted' \subseteq Plans \X Granters
    BY <1>2 DEF Age, LastIsStored, StoreTypeOK
  <2>3. QED
    BY <1>1, <1>2, <2>1, <2>2, IssuesKeep DEF Age
<1>3. ASSUME NEW i \in Issues, NEW labels \in LabelSets, Relabel(i, labels)
      PROVE  LastIsStored'
  <2>1. labels \subseteq Labels
    BY WatcherAssumption
  <2>2. /\ issues' \in [Issues -> Issue]
        /\ \A j \in Issues : issues'[j].plan = issues[j].plan
    BY <1>3, <2>1 DEF Relabel, LastIsStored, StoreTypeOK, Issue
  <2>3. PICK p \in Plans : p = issues[i].plan
    BY <1>3 DEF Relabel, LastIsStored, StoreTypeOK, Issue
  <2>4. granted' \subseteq granted \cup {<<p, "linear">>}
    BY <1>3, <2>3 DEF Relabel
  <2>5. granted' \subseteq Plans \X Granters
    BY <2>3, <2>4 DEF Granters, LastIsStored, StoreTypeOK
  <2>6. QED
    BY <1>1, <1>3, <2>2, <2>5, IssuesKeep DEF Relabel
<1>4. QED
  BY <1>2, <1>3 DEF People

LEMMA ExpireKeeps ==
  ASSUME LastIsStored, NEW item \in watch.batch, Expire(item)
  PROVE  LastIsStored'
<1> DEFINE expired == [item EXCEPT !.status = "expired"]
<1>1. /\ issues' = [issues EXCEPT ![item.issue].labels = {"expired"}]
      /\ watch' = [watch EXCEPT !.batch = (@ \ {item}) \cup {expired}, !.hand = item.issue]
      /\ UNCHANGED <<plans, approvals, executions, workflows, granted>>
  BY DEF Expire
<1>2. watch \in Watch /\ item \in Item /\ item.issue \in Issues /\ issues[item.issue].plan # None
  BY DEF LastIsStored, WatcherTypeOK, Watch, Item, WatchesIssues
<1>3. expired \in Item /\ expired.issue = item.issue
  BY <1>2 DEF Item, ApprovalStatuses
<1> HIDE DEF expired
<1>4. /\ watch' \in Watch /\ watch'.batch = (watch.batch \ {item}) \cup {expired}
      /\ watch'.last = watch.last
  BY <1>1, <1>2, <1>3 DEF Watch
<1>5. \A it \in watch'.batch : it.issue \in Issues /\ issues[it.issue].plan # None
  BY <1>2, <1>3, <1>4 DEF Watch, Item, LastIsStored, WatchesIssues
<1>6. /\ issues' \in [Issues -> Issue]
      /\ \A i \in Issues : issues'[i].plan = issues[i].plan
  BY <1>1 DEF LastIsStored, StoreTypeOK, Issue, Labels, ApprovalStatuses
<1>7. granted' \subseteq Plans \X Granters
  BY <1>1 DEF LastIsStored, StoreTypeOK
<1>8. QED
  BY <1>1, <1>4, <1>5, <1>6, <1>7, IssuesKeep

\* UpdateApprovalStatusByPlan: the approvals of the plan, and of no other issue's
\* plan, get the status that is remembered.
LEMMA StoreKeeps ==
  ASSUME LastIsStored, NEW item \in watch.batch, Store(item)
  PROVE  LastIsStored'
<1>1. PICK i, p, status :
        i = item.issue /\ p = issues[item.issue].plan /\ status = item.status
  OBVIOUS
<1>2. /\ approvals' = UpdateApprovalStatusByPlan(p, status)
      /\ watch' = [watch EXCEPT !.batch = @ \ {item}, !.hand = None, !.last[i] = status]
      /\ UNCHANGED <<plans, executions, issues, workflows, granted>>
  BY <1>1 DEF Store
<1>3. /\ watch \in Watch /\ i \in Issues /\ status \in ApprovalStatuses
      /\ p = issues[i].plan /\ p # None
  BY <1>1 DEF LastIsStored, WatcherTypeOK, Watch, Item, WatchesIssues
<1>4. /\ watch' \in Watch /\ watch'.batch \subseteq watch.batch
      /\ \A j \in Issues : watch'.last[j] = IF j = i THEN status ELSE watch.last[j]
  BY <1>2, <1>3 DEF Watch
<1>5. /\ approvals' \in [Approvals -> ApprovalRow]
      /\ \A a \in Approvals :
           /\ approvals'[a].plan = approvals[a].plan
           /\ approvals'[a].status = IF approvals[a].plan = p THEN status
                                     ELSE approvals[a].status
  BY <1>2, <1>3 DEF UpdateApprovalStatusByPlan, LastIsStored, StoreTypeOK, ApprovalRow
<1>6. StoreTypeOK' /\ WatcherTypeOK' /\ AskedOnce'
  BY <1>2, <1>4, <1>5 DEF LastIsStored, StoreTypeOK, WatcherTypeOK, AskedOnce
<1>7. WatchesIssues'
  BY <1>2, <1>3, <1>4 DEF LastIsStored, WatchesIssues
<1>8. Remembers'
  <2>1. SUFFICES ASSUME NEW j \in Issues, NEW a \in Approvals,
                        watch'.last[j] # "none", approvals[a].plan = issues[j].plan
                 PROVE  approvals'[a].status = watch'.last[j]
    BY <1>2, <1>5 DEF Remembers
  <2>2. CASE j = i
    BY <1>3, <1>4, <1>5, <2>1, <2>2
  <2>3. CASE j # i
    <3>1. watch.last[j] # "none" /\ watch'.last[j] = watch.last[j]
      BY <1>4, <2>1, <2>3
    <3>2. issues[j].plan # p
      BY <1>3, <2>3 DEF LastIsStored, AskedOnce
    <3>3. approvals'[a].status = approvals[a].status
      BY <1>5, <2>1, <3>2
    <3>4. QED
      BY <2>1, <3>1, <3>3 DEF LastIsStored, Remembers
  <2>4. QED
    BY <2>2, <2>3
<1>9. QED
  BY <1>6, <1>7, <1>8 DEF LastIsStored

\* A new plan, its approval and its issue: nothing is remembered of them yet.
LEMMA RequestKeeps ==
  ASSUME LastIsStored, NEW p \in Plans, NEW a \in Approvals, NEW i \in Issues,
         RequestApproval(p, a, i), UNCHANGED watch
  PROVE  LastIsStored'
<1>1. /\ plans[p].row = "absent" /\ approvals[a].plan = None /\ issues[i].plan = None
      /\ plans' = CreatePlan(p, "api", "medium", "none", "require_approval")
      /\ approvals' = CreateApproval(a, p)
      /\ issues' = [issues EXCEPT ![i] = [plan |-> p, labels |-> {"pending"},
                                          overdue |-> FALSE]]
      /\ UNCHANGED <<executions, workflows, granted>>
  BY DEF RequestApproval
<1>2. p # None
  BY NoneAssumption
<1>3. /\ plans' \in [Plans -> PlanRow] /\ plans'[p].row # "absent"
      /\ \A q \in Plans : q # p => plans'[q] = plans[q]
  BY <1>1 DEF LastIsStored, StoreTypeOK, CreatePlan, PlanRow, Triggers, Risks,
              StepKinds
<1>4. /\ approvals' \in [Approvals -> ApprovalRow] /\ approvals'[a].plan = p
      /\ \A b \in Approvals : b # a => approvals'[b] = approvals[b]
  BY <1>1 DEF LastIsStored, StoreTypeOK, CreateApproval, ApprovalRow, ApprovalStatuses, Hashes
<1>5. /\ issues' \in [Issues -> Issue] /\ issues'[i].plan = p
      /\ \A j \in Issues : j # i => issues'[j] = issues[j]
  <2>1. [plan |-> p, labels |-> {"pending"}, overdue |-> FALSE] \in Issue
    BY DEF Issue, Labels, ApprovalStatuses
  <2>2. QED
    BY <1>1, <2>1 DEF LastIsStored, StoreTypeOK
<1>6. StoreTypeOK' /\ WatcherTypeOK'
  BY <1>1, <1>3, <1>4, <1>5 DEF LastIsStored, StoreTypeOK, WatcherTypeOK
<1>7. /\ \A b \in Approvals : approvals[b].plan \in Plans \cup {None} /\ approvals[b].plan # p
      /\ \A j \in Issues : issues[j].plan \in Plans \cup {None} /\ issues[j].plan # p
  BY <1>1, <1>2 DEF LastIsStored, StoreTypeOK, ApprovalRow, Issue, AskedOnce
<1>8. AskedOnce'
  <2>1. \A b \in Approvals :
          approvals'[b].plan # None => plans'[approvals'[b].plan].row # "absent"
    BY <1>3, <1>4, <1>7 DEF LastIsStored, AskedOnce
  <2>2. \A j \in Issues : issues'[j].plan # None => plans'[issues'[j].plan].row # "absent"
    BY <1>3, <1>5, <1>7 DEF LastIsStored, AskedOnce
  <2>3. \A j, k \in Issues : issues'[j].plan = issues'[k].plan
                               => j = k \/ issues'[j].plan = None
    BY <1>5, <1>7 DEF LastIsStored, AskedOnce
  <2>4. QED
    BY <2>1, <2>2, <2>3 DEF AskedOnce
<1>9. watch.last[i] = "none"
  BY <1>1 DEF LastIsStored, WatchesIssues
<1>10. WatchesIssues'
  <2>1. \A item \in watch.batch : item.issue \in Issues
    BY DEF LastIsStored, WatcherTypeOK, Watch, Item
  <2>2. QED
    BY <1>2, <1>5, <2>1 DEF LastIsStored, WatchesIssues
<1>11. Remembers'
  <2>1. SUFFICES ASSUME NEW j \in Issues, NEW b \in Approvals,
                        watch.last[j] # "none", approvals'[b].plan = issues'[j].plan
                 PROVE  approvals'[b].status = watch.last[j]
    BY DEF Remembers
  <2>2. j # i /\ issues'[j] = issues[j] /\ issues[j].plan # p
    BY <1>5, <1>7, <1>9, <2>1
  <2>3. b # a /\ approvals'[b] = approvals[b]
    BY <1>4, <2>1, <2>2
  <2>4. QED
    BY <2>1, <2>2, <2>3 DEF LastIsStored, Remembers
<1>12. QED
  BY <1>6, <1>8, <1>10, <1>11 DEF LastIsStored

LEMMA WatcherKeeps == LastIsStored /\ [WatcherNext]_watcherVars => LastIsStored'
<1>1. SUFFICES ASSUME LastIsStored, [WatcherNext]_watcherVars PROVE LastIsStored'
  OBVIOUS
<1>2. CASE UNCHANGED watcherVars
  BY <1>1, <1>2 DEF watcherVars, storeVars, LastIsStored, StoreTypeOK, WatcherTypeOK,
     AskedOnce, WatchesIssues, Remembers
<1>3. CASE Poll
  BY <1>1, <1>3, ListIssuesKeeps, ForgettingKeeps DEF Poll, Tick
<1>4. ASSUME NEW item \in watch.batch, Skip(item) \/ Expire(item) \/ Store(item)
      PROVE  LastIsStored'
  BY <1>1, <1>4, ForgettingKeeps, ExpireKeeps, StoreKeeps DEF Skip
<1>5. CASE CallFails
  BY <1>1, <1>5, ForgettingKeeps DEF CallFails
<1>6. CASE RestartWatcher /\ UNCHANGED storeVars
  BY <1>1, <1>6, ForgettingKeeps
<1>7. CASE People /\ UNCHANGED watch
  BY <1>1, <1>7, PeopleKeep
<1>8. CASE \E p \in Plans, a \in Approvals, i \in Issues :
             RequestApproval(p, a, i) /\ UNCHANGED watch
  BY <1>1, <1>8, RequestKeeps
<1>9. QED
  BY <1>1, <1>2, <1>3, <1>4, <1>5, <1>6, <1>7, <1>8 DEF WatcherNext, Process

\* Whatever people do to the labels between a snapshot and its use, and however
\* often calls fail and the gateway restarts, the watcher skips only what the
\* approvals already say.
THEOREM WatcherMemory == WatcherSpec => []LastIsStored
  BY WatcherStartsRight, WatcherKeeps, PTL DEF WatcherSpec
=============================================================================
