----------------------------- MODULE PlanRules ------------------------------
(***************************************************************************)
(* What the gateway works out from a plan: the risk of its steps           *)
(* (plan_helpers.go), the steps read from a planner's text (plan_parse.go, *)
(* event_loop_helpers.go), and the constraints it must meet before it runs *)
(* (constraints.go).                                                       *)
(***************************************************************************)
EXTENDS ToolRouter, Sequences, FiniteSetsExt, SequencesExt

Ranks == [read |-> 0, low |-> 1, medium |-> 2, high |-> 3]
RiskOrd(level) == Ranks[level]
Higher(a, b) == IF RiskOrd(b) > RiskOrd(a) THEN b ELSE a

(***************************************************************************)
(* riskFromSteps and riskFromStepDrafts.  The words are looked for inside  *)
(* the name of an action; for the calls the tools know, InName says which  *)
(* are found there.                                                        *)
(***************************************************************************)
InName(action, word) ==
    HasWord(action, word) \/ <<action, word>> = <<"rollout-status", "rollout">>

HighRiskActions(tool) ==
    CASE tool = "kubectl" -> {"delete", "exec", "apply", "patch", "replace", "drain",
                              "cordon", "taint"}
      [] tool = "helm"    -> {"uninstall", "delete"}
      [] tool = "aws"     -> {"delete", "terminate", "remove", "destroy",
                              "put-role-policy", "create-role", "attach-role-policy"}
      [] tool = "vault"   -> {"delete", "revoke", "destroy"}
      [] tool = "argocd"  -> {"delete"}
      [] OTHER            -> {}

MediumRiskActions(tool) ==
    CASE tool = "kubectl" -> {"scale", "rollout"}
      [] tool = "helm"    -> {"upgrade", "install", "rollback"}
      [] tool = "argocd"  -> {"sync"}
      [] tool = "aws"     -> {"update", "modify", "put", "create", "run"}
      [] OTHER            -> {}

PlainReads == {"get", "list", "describe", "status", "query", "search", "show"}

MutantStepRisk(c) ==
    IF \E w \in HighRiskActions(c.tool) \cup MediumRiskActions(c.tool) : InName(c.action, w)
    THEN "high" ELSE "read"
StepRisk(c) ==
    CASE \E w \in HighRiskActions(c.tool) : InName(c.action, w)   -> "high"
      [] \E w \in MediumRiskActions(c.tool) : InName(c.action, w) -> "medium"
      [] c.action \in PlainReads                                  -> "read"
      [] OTHER                                                    -> "low"

RiskFromSteps(calls) ==
    IF calls = {} THEN "read"
    ELSE CHOOSE l \in DOMAIN Ranks :
           RiskOrd(l) = Max({RiskOrd(StepRisk(c)) : c \in calls})

EffectiveRisk(risk, calls) == Higher(risk, RiskFromSteps(calls))

-----------------------------------------------------------------------------
(***************************************************************************)
(* parsePlanSteps keeps the drafts that name an action and a registered    *)
(* tool; a draft without a stage is an act step.  Nothing is kept of a     *)
(* text that does not decode.                                              *)
(***************************************************************************)
NoName == ""
Kept(d) == d.action # NoName /\ d.tool \in Registry
WithStage(d) == [d EXCEPT !.stage = IF d.stage = NoName THEN "act" ELSE d.stage]

ParsePlanSteps(drafts) ==
    LET out[n \in 0 .. Len(drafts)] ==
          IF n = 0 THEN <<>>
          ELSE IF Kept(drafts[n]) THEN Append(out[n - 1], WithStage(drafts[n]))
          ELSE out[n - 1]
    IN  out[Len(drafts)]

VerifyStep(tool, action) == [stage |-> "verify", tool |-> tool, action |-> action]

MutantHasVerifyStage(steps) ==
    \E i \in DOMAIN steps : steps[i].stage = "verify" \/ steps[i].action \in PlainReads
HasVerifyStage(steps) == \E i \in DOMAIN steps : steps[i].stage = "verify"

\* defaultVerifySteps: the first usable diagnostic, else a query made from the
\* intent, which is never empty.  A diagnostic is a pair of its type and
\* whether it has a query.
Usable(d) == d[1] = "promql" \/ (d[1] = "traceql" /\ d[2])
DefaultVerifyStep(diagnostics) ==
    IF \E i \in DOMAIN diagnostics :
          /\ Usable(diagnostics[i]) /\ diagnostics[i][1] = "traceql"
          /\ \A j \in 1 .. i - 1 : ~Usable(diagnostics[j])
    THEN VerifyStep("tempo", "traceql") ELSE VerifyStep("prometheus", "query")

EnsureVerifySteps(steps, diagnostics) ==
    IF steps = <<>> \/ HasVerifyStage(steps) THEN steps
    ELSE Append(steps, DefaultVerifyStep(diagnostics))

CallsOf(steps) == {CallOf(steps[i].tool, steps[i].action) : i \in DOMAIN steps}

(***************************************************************************)
(* The part of RunAlertEventLoop that makes the plan's steps and its risk  *)
(* from the intent's risk, the planner's drafts and the diagnostics, and   *)
(* says whether an approval is asked for.                                  *)
(***************************************************************************)
AlertPlan(risk, drafts, diagnostics) ==
    LET parsed == ParsePlanSteps(drafts)
        steps  == IF risk = "read" THEN parsed
                  ELSE IF parsed = <<>> THEN <<DefaultVerifyStep(diagnostics)>>
                  ELSE EnsureVerifySteps(parsed, diagnostics)
        final  == EffectiveRisk(risk, CallsOf(steps))
    IN  [steps |-> steps, risk |-> final, approval |-> final # "read"]

-----------------------------------------------------------------------------
(***************************************************************************)
(* Constraints: a limit on targets, a maintenance window with its start    *)
(* and end, and two keys that list the environments allowed.               *)
(* None is a limit or a clock that is not there and Unreadable a clock     *)
(* that does not parse; Absent is a key that is not there, which is not    *)
(* the same as one with an empty list.  Times are hours of the day in the  *)
(* window's zone; time.Date lets hour 24 be the start of the next day.     *)
(* Constraints with no key at all bound a write as the defaults do.        *)
(***************************************************************************)
None == -1000
Unreadable == -2000
Absent == <<>>

MutantMergeConstraints(request, policy) ==
    [policy EXCEPT !.window = IF request.window = Absent THEN policy.window ELSE request.window,
                   !.allowed_envs = IF request.allowed_envs = Absent THEN policy.allowed_envs
                                    ELSE request.allowed_envs]
\* mergeConstraints: each key the policy has replaces the request's.
MergeConstraints(request, policy) ==
    [max |-> IF policy.max = None THEN request.max ELSE policy.max,
     window |-> IF policy.window = Absent THEN request.window ELSE policy.window,
     allowed_envs |-> IF policy.allowed_envs = Absent THEN request.allowed_envs
                      ELSE policy.allowed_envs,
     environments |-> IF policy.environments = Absent THEN request.environments
                      ELSE policy.environments]

\* envAllowed: environments is read only where allowed_envs lists nothing.
Listed(key) == IF key = Absent THEN {} ELSE key[1]
EnvAllowedBy(env, c) ==
    LET allowed == IF Listed(c.allowed_envs) # {} THEN Listed(c.allowed_envs)
                   ELSE Listed(c.environments)
    IN  allowed # {} => env \in allowed

Clocked(window) == window # Absent /\ {window[1], window[2]} \cap {None, Unreadable} = {}
MutantWithinMaintenanceWindow(window, now) ==
    Clocked(window) => window[1] <= now /\ now <= window[2]
WithinMaintenanceWindow(window, now) ==
    Clocked(window) =>
       LET start == window[1]
           end   == window[2]
       IN  \/ end < start /\ (start <= now \/ now <= end)
           \/ end >= start /\ start <= now /\ now <= end

\* targetsFromInput: the first list that is not empty counts, else a name.
ListKeys == <<"targets", "resources", "namespaces", "items">>
TargetsFromInput(in) ==
    LET lists == SelectSeq(ListKeys, LAMBDA k : in.lists[k] > 0)
    IN  IF lists # <<>> THEN in.lists[lists[1]] ELSE IF in.named THEN 1 ELSE 0

EstimateTargets(inputs) ==
    Max({1, FoldSeq(LAMBDA in, n : n + TargetsFromInput(in), 0, inputs)})

\* A limit of 0 is the default of 50; a negative one limits nothing.
DefaultMaxTargets == 50
MaxTargetsConstraint(c) ==
    IF c.max \in {None, 0} THEN DefaultMaxTargets ELSE c.max

EnforceConstraints(c, env, inputs, now, actionType) ==
    /\ EnvAllowedBy(env, c)
    /\ actionType = "write" =>
          /\ WithinMaintenanceWindow(c.window, now)
          /\ MaxTargetsConstraint(c) > 0 =>
                EstimateTargets(inputs) <= MaxTargetsConstraint(c)
=============================================================================
