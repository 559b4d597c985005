---------------------------- MODULE PlanExecution ----------------------------
(***************************************************************************)
(* One execution of a plan by PlanExecutionWorkflow (internal/workflows):  *)
(* the act steps in order, then the verify steps; a failing act step is    *)
(* rolled back, a failing verify step rolls back all act steps, last one   *)
(* first.  Each step is an activity that Temporal retries; an attempt may  *)
(* stop anywhere (a call fails, the worker crashes, the result is lost)    *)
(* after some of its effects, and the next attempt starts from scratch.    *)
(*                                                                         *)
(* The workflow itself is durable: Temporal replays it, and a crash of the *)
(* worker shows only as a failed attempt.                                  *)
(***************************************************************************)
EXTENDS Integers

CONSTANTS NSteps,        \* length of the plan
          MaxAttempts,   \* MaximumAttempts of the retry policy (5)
          Paths          \* how executions start

ASSUME ExecutionAssumption ==
    /\ NSteps \in Nat
    /\ MaxAttempts \in Nat \ {0}
    /\ Paths \subseteq {"workflow", "execute"}

Steps == 1 .. NSteps
Kinds == {"do", "undo"}

VARIABLES
    plan,      \* the plan: stage of each step, the steps with a rollback, path
    status,    \* executions.status, "absent" before the row exists
    pc,        \* where the workflow is
    todo,      \* steps the forward loops have not finished
    undo,      \* steps the rollback loop has not finished
    attempt,   \* failed attempts of the current activity
    call,      \* progress of the current attempt at a step
    rows,      \* status of the newest tool call of a step, by kind
    effects,   \* how often the tool of a step really ran, by kind
    evidence,  \* steps whose recordEvidence is done (some tools have nothing to record)
    failed,    \* history: the step whose failure ended the forward loops, or 0
    tried      \* history: the steps whose RollbackStep activity has ended

vars == <<plan, status, pc, todo, undo, attempt, call, rows, effects, evidence,
          failed, tried>>
wfVars == <<pc, todo, undo, attempt, failed, tried>>

\* Types of the workflow, its execution row and the effects of its steps.
TypeOK ==
    /\ plan \in [stage: [Steps -> {"act", "verify"}], rollback: SUBSET Steps, path: Paths]
    /\ status \in {"absent", "pending", "running", "succeeded", "failed", "cancelled"}
    /\ pc \in {"none", "new", "run", "undo", "complete", "ended"}
    /\ todo \subseteq Steps /\ undo \subseteq Steps
    /\ attempt \in 0 .. MaxAttempts - 1
    /\ call \in {"none", "inserted", "ran", "stored"}
    /\ rows \in [Kinds -> [Steps -> {"none", "running", "succeeded", "failed"}]]
    /\ effects \in [Kinds -> [Steps -> 0 .. MaxAttempts]]
    /\ evidence \subseteq Steps
    /\ failed \in Steps \cup {0} /\ tried \subseteq Steps

Init ==
    /\ plan \in [stage: [Steps -> {"act", "verify"}], rollback: SUBSET Steps, path: Paths]
    /\ status = "absent" /\ pc = "none"
    /\ todo = Steps /\ undo = {} /\ attempt = 0 /\ call = "none"
    /\ rows = [k \in Kinds |-> [s \in Steps |-> "none"]]
    /\ effects = [k \in Kinds |-> [s \in Steps |-> 0]]
    /\ evidence = {} /\ failed = 0 /\ tried = {}

(***************************************************************************)
(* The loops                                                               *)
(***************************************************************************)
\* plan_steps has no column for the stage, so that :execute reads steps
\* without one, which are act steps; a workflow start passes them on whole.
StageGiven(s) == IF plan.path = "workflow" THEN plan.stage[s] ELSE "act"

ActSteps == {s \in Steps : StageGiven(s) = "act"}

\* splitStepsByStage: the act steps in their order, then the verify steps.
Before(s, t) == IF StageGiven(s) = StageGiven(t) THEN s <= t ELSE StageGiven(s) = "act"

\* The step at hand.
Current(s) ==
    \/ pc = "run"  /\ s \in todo /\ \A t \in todo : Before(s, t)
    \/ pc = "undo" /\ s \in undo /\ \A t \in undo : t <= s

Kind == IF pc = "undo" THEN "undo" ELSE "do"

MutantFailureUndoes(s) == {s}
FailureUndoes(s) == IF StageGiven(s) = "act" THEN {s} ELSE ActSteps

\* The activity has succeeded (a rollback's errors are ignored): the loop
\* goes on, and after its last step the execution is completed.
MutantStepDone(s) ==
    \/ /\ pc = "run" /\ todo' = todo \ {s}
       /\ pc' = IF todo' = {} THEN "complete" ELSE "run"
       /\ attempt' = 0 /\ UNCHANGED <<undo, failed, tried>>
    \/ /\ pc = "undo" /\ undo' = undo \ {s} /\ tried' = tried \cup {s}
       /\ pc' = IF undo' = {} THEN "run" ELSE "undo"
       /\ attempt' = 0 /\ UNCHANGED <<todo, failed>>
StepDone(s) ==
    \/ /\ pc = "run" /\ todo' = todo \ {s}
       /\ pc' = IF todo' = {} THEN "complete" ELSE "run"
       /\ attempt' = 0 /\ UNCHANGED <<undo, failed, tried>>
    \/ /\ pc = "undo" /\ undo' = undo \ {s} /\ tried' = tried \cup {s}
       /\ pc' = IF undo' = {} THEN "complete" ELSE "undo"
       /\ attempt' = 0 /\ UNCHANGED <<todo, failed>>

\* All attempts have failed.
MutantStepFailed(s) ==
    \/ pc = "undo" /\ StepDone(s)
    \/ /\ pc = "run" /\ undo' = FailureUndoes(s) /\ failed' = s
       /\ pc' = "undo"
       /\ attempt' = 0 /\ UNCHANGED <<todo, tried>>
StepFailed(s) ==
    \/ pc = "undo" /\ StepDone(s)
    \/ /\ pc = "run" /\ undo' = FailureUndoes(s) /\ failed' = s
       /\ pc' = IF undo' = {} THEN "complete" ELSE "undo"
       /\ attempt' = 0 /\ UNCHANGED <<todo, tried>>

\* The retry policy.
MutantLastAttempt == attempt = MaxAttempts
LastAttempt == attempt + 1 = MaxAttempts

(***************************************************************************)
(* executeStep and tryRollback                                             *)
(***************************************************************************)
\* INSERT INTO tool_calls; tryRollback makes none without a rollback.
InsertToolCall(s) ==
    /\ Current(s) /\ call = "none"
    /\ pc = "undo" => s \in plan.rollback
    /\ rows' = [rows EXCEPT ![Kind][s] = "running"]
    /\ call' = "inserted"
    /\ UNCHANGED <<plan, status, wfVars, effects, evidence>>

\* storeInput and runTool
RunTool(s) ==
    /\ Current(s) /\ call = "inserted"
    /\ effects' = [effects EXCEPT ![Kind][s] = @ + 1]
    /\ call' = "ran"
    /\ UNCHANGED <<plan, status, wfVars, rows, evidence>>

\* storeOutput and UpdateToolCall "succeeded"
StoreOutput(s) ==
    /\ Current(s) /\ call = "ran"
    /\ rows' = [rows EXCEPT ![Kind][s] = "succeeded"]
    /\ call' = "stored"
    /\ UNCHANGED <<plan, status, wfVars, effects, evidence>>

\* recordEvidence, which a rollback does not make, and the activity returns.
MutantStepReturns(s) ==
    /\ Current(s) /\ call \in {"ran", "stored"}
    /\ evidence' = IF pc = "run" THEN evidence \cup {s} ELSE evidence
    /\ call' = "none" /\ StepDone(s)
    /\ UNCHANGED <<plan, status, rows, effects>>
StepReturns(s) ==
    /\ Current(s) /\ call = "stored"
    /\ evidence' = IF pc = "run" THEN evidence \cup {s} ELSE evidence
    /\ call' = "none" /\ StepDone(s)
    /\ UNCHANGED <<plan, status, rows, effects>>

\* The attempt ends with an error, at any point.  The row may be marked
\* failed, or stay as it is; the evidence may be there or not.
AttemptFails(s) ==
    /\ Current(s)
    /\ rows' \in {rows} \cup (IF call \in {"inserted", "ran"}
                             THEN {[rows EXCEPT ![Kind][s] = "failed"]} ELSE {})
    /\ evidence' \in {evidence} \cup (IF call = "stored" /\ pc = "run"
                                     THEN {evidence \cup {s}} ELSE {})
    /\ call' = "none"
    /\ IF LastAttempt THEN StepFailed(s)
       ELSE attempt' = attempt + 1 /\ UNCHANGED <<pc, todo, undo, failed, tried>>
    /\ UNCHANGED <<plan, status, effects>>

(***************************************************************************)
(* The activities that write the status                                    *)
(***************************************************************************)
Outcome == IF failed = 0 THEN "succeeded" ELSE "failed"

\* An attempt writes the status or not; it is answered, or it counts as
\* failed, and after the last failed one the workflow returns the error.
WriteStatus(new, next) ==
    \/ /\ status' = new /\ pc' = next /\ attempt' = 0
    \/ /\ status' \in {new, status}
       /\ IF LastAttempt THEN pc' = "ended" /\ attempt' = 0
          ELSE attempt' = attempt + 1 /\ UNCHANGED pc

\* UpdateExecutionStatus "running"
MarkRunning ==
    /\ pc = "new"
    /\ WriteStatus("running", IF todo = {} THEN "complete" ELSE "run")
    /\ UNCHANGED <<plan, todo, undo, call, rows, effects, evidence, failed, tried>>

\* CompleteExecution with the outcome
CompleteExecution ==
    /\ pc = "complete"
    /\ WriteStatus(Outcome, "ended")
    /\ UNCHANGED <<plan, todo, undo, call, rows, effects, evidence, failed, tried>>

(***************************************************************************)
(* The gateway's part                                                      *)
(***************************************************************************)
CreateExecution ==
    /\ status = "absent" /\ status' = "pending"
    /\ UNCHANGED <<plan, wfVars, call, rows, effects, evidence>>

StartExecution ==
    /\ status # "absent" /\ pc = "none" /\ pc' = "new"
    /\ UNCHANGED <<plan, status, todo, undo, attempt, call, rows, effects, evidence,
                   failed, tried>>

MutantCancelExecution ==
    /\ status # "absent" /\ status' = "cancelled"
    /\ UNCHANGED <<plan, wfVars, call, rows, effects, evidence>>
CancelExecution ==
    /\ status \in {"pending", "running"} /\ status' = "cancelled"
    /\ UNCHANGED <<plan, wfVars, call, rows, effects, evidence>>

(***************************************************************************)
(* The specification                                                       *)
(***************************************************************************)
StepNext == \E s \in Steps : \/ InsertToolCall(s) \/ RunTool(s) \/ StoreOutput(s)
                             \/ StepReturns(s) \/ AttemptFails(s)

WorkflowNext == MarkRunning \/ StepNext \/ CompleteExecution

Next == CreateExecution \/ StartExecution \/ CancelExecution \/ WorkflowNext

\* Temporal hands every activity to a worker and times out the ones that do
\* not return; nobody is obliged to start the workflow or to cancel it.
Spec == Init /\ [][Next]_vars /\ WF_vars(WorkflowNext)

(***************************************************************************)
(* Properties                                                              *)
(***************************************************************************)
\* An execution that is shown as succeeded has run the tool of every step,
\* has the tool call marked and the evidence recorded, and undid nothing.
SucceededMeansDone ==
    status = "succeeded" =>
       \A s \in Steps : /\ effects["do"][s] > 0 /\ rows["do"][s] = "succeeded"
                        /\ s \in evidence /\ effects["undo"][s] = 0

(***************************************************************************)
(* The inductive invariant behind these.                                   *)
(***************************************************************************)
\* The current attempt has run its tool.
Ran == IF call \in {"ran", "stored"} THEN 1 ELSE 0

\* What a finished step leaves behind.
Recorded(s) ==
    effects["do"][s] > 0 /\ rows["do"][s] = "succeeded" /\ s \in evidence

\* The loops: where the workflow is decides what they have left.
LoopsGood ==
    /\ status = "absent" => pc = "none"
    /\ pc \in {"none", "new"} => todo = Steps
    /\ pc \in {"none", "new", "run"} => failed = 0
    /\ pc = "run" => todo # {}
    /\ pc = "complete" /\ failed = 0 => todo = {}
    /\ pc = "undo" <=> undo # {}
    /\ undo # {} => failed # 0
    /\ call # "none" => pc \in {"run", "undo"}

\* A tool runs at most once per attempt, and only for the step at hand.
EffectsGood ==
    /\ pc \in {"none", "new", "run"} => \A s \in todo :
         effects["do"][s] <= IF Current(s) THEN attempt + Ran ELSE 0
    /\ \A s \in undo :
         effects["undo"][s] <= IF Current(s) THEN attempt + Ran ELSE 0
    /\ failed = 0 => \A s \in Steps : effects["undo"][s] = 0

\* The forward loops leave a step only when all of it is recorded.
StepsGood ==
    /\ failed = 0 => \A s \in Steps \ todo : Recorded(s)
    /\ \A s \in Steps : Current(s) =>
         /\ call \in {"ran", "stored"} => effects[Kind][s] > 0
         /\ call = "stored" => rows[Kind][s] = "succeeded"

\* A final status is the outcome of the loops, and they are over.
StatusGood ==
    /\ status = "succeeded" => failed = 0 /\ todo = {}
    /\ status = "failed" => failed # 0
    /\ status \in {"succeeded", "failed"} => pc \in {"complete", "ended"}

\* After a failure no step that it undoes drops out of the rollback.
RollbackGood == failed # 0 => FailureUndoes(failed) \subseteq undo \cup tried

IInv == TypeOK /\ LoopsGood /\ EffectsGood /\ StepsGood /\ StatusGood /\ RollbackGood

\* The types, with the bounds on attempts; that a status is never better than
\* what was done; and the invariants of the loops that this rests on.
ExecutionInv == IInv /\ SucceededMeansDone

\* Once a rollback has touched anything, no step is carried out any more.
NoStepAfterRollback ==
    [][(\E s \in Steps : effects["undo"][s] > 0) => effects'["do"] = effects["do"]]_vars

\* A workflow that has failed ends only after it has tried to roll back the step
\* that failed, or, where the stages have reached it and the step is a verify
\* step, every act step that has run.
StagedFailureRollsBack ==
    pc = "ended" /\ failed # 0 =>
       IF plan.path = "workflow" /\ plan.stage[failed] = "verify"
       THEN \A s \in Steps : plan.stage[s] = "act" /\ effects["do"][s] > 0 => s \in tried
       ELSE failed \in tried

\* "rollback on failure": when a verify step of the plan fails, however the
\* execution was started, the workflow ends only after it has tried to roll back
\* every act step that has run.  TLC refutes it with PlanExecutionStage.cfg, as
\* plan_steps does not keep the stages.
VerifyFailureRollsBack ==
    pc = "ended" /\ failed # 0 =>
       (plan.stage[failed] = "verify" =>
          \A s \in Steps : plan.stage[s] = "act" /\ effects["do"][s] > 0 => s \in tried)

\* A workflow that has started comes to an end, whatever fails.
Termination == pc = "new" ~> pc = "ended"

\* The execution lives the life of ExecutionLifecycle.
Lifecycle == INSTANCE ExecutionLifecycle WITH
    workflow <- CASE pc \in {"none", "new", "ended"} -> pc [] OTHER -> "running"
LifecycleSpec == Lifecycle!Spec
=============================================================================
