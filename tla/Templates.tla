----------------------------- MODULE Templates ------------------------------
(***************************************************************************)
(* The workflow templates (web/workflow_catalog.go; the orchestrator has   *)
(* the same builders in workflows/workflow_templates.go).                  *)
(*                                                                         *)
(* An input is the set of its text fields that are not blank, and its      *)
(* numbers; NoNumber is one that is not there, and reads as 0.  A          *)
(* remediation is a call of the operator's own.  A step names the fields   *)
(* it gives its call, which of them are blank, and its rollback, a set of  *)
(* at most one step.                                                       *)
(***************************************************************************)
EXTENDS PlanRules

NoNumber == -1000
MutantDeclared == [gitops_deploy |-> "medium", helm_release |-> "low",
                   scale_service |-> "low", incident_remediation |-> "medium",
                   secret_rotation |-> "high"]
Declared == [gitops_deploy |-> "medium", helm_release |-> "medium", scale_service |-> "low",
             incident_remediation |-> "medium", secret_rotation |-> "high"]
Templates == DOMAIN Declared

Step(stage, tool, action, given) ==
    [stage |-> stage, call |-> CallOf(tool, action), given |-> given, blank |-> {},
     rollback |-> {}]
Act(tool, action, given)    == Step("act", tool, action, given)
Verify(tool, action, given) == Step("verify", tool, action, given)

RollbackStep(step, enabled) == IF enabled THEN {step} ELSE {}
Rolled(step, rollback) == [step EXCEPT !.rollback = rollback]

If(c, step) == IF c THEN <<step>> ELSE <<>>
PromCheck(in) == If("promql" \in in.text, Verify("prometheus", "query", {"query"}))
Annotate == <<Act("grafana", "annotate", {"text", "tags"})>>

App(in) == in.text \cap {"argocd_app", "app"} # {}

BuildGitOpsDeploy(in) ==
    IF ~App(in) THEN <<>>
    ELSE <<Act("argocd", "sync-dry-run", {"app"}), Act("argocd", "sync-preview", {"app"}),
           Rolled(Act("argocd", "sync", {"app"}),
                  RollbackStep(Act("argocd", "rollback", {"app", "revision"}),
                               "revision" \in in.text)),
           Verify("argocd", "wait", {"app"})>>
           \o PromCheck(in) \o Annotate

\* Every Helm step names the namespace, which may be blank.
Helm(in, stage, action, more) ==
    [Step(stage, "helm", action, {"release", "namespace"} \cup more)
       EXCEPT !.blank = {"namespace"} \ in.text]

MutantBuildHelmRelease(in) ==
    IF "release" \notin in.text THEN <<>>
    ELSE <<Helm(in, "act", "status", {})>>
         \o (IF in.rollback THEN <<Helm(in, "act", "rollback", {})>>
             ELSE <<Rolled(Helm(in, "act", "upgrade", {"chart", "values_ref"} \cap in.text),
                           RollbackStep(Act("helm", "rollback", {"namespace"}), TRUE))>>)
BuildHelmRelease(in) ==
    IF "release" \notin in.text THEN <<>>
    ELSE <<Helm(in, "act", "status", {})>>
         \o (IF in.rollback THEN <<Helm(in, "act", "rollback", {})>>
             ELSE <<Rolled(Helm(in, "act", "upgrade", {"chart", "values_ref"} \cap in.text),
                           RollbackStep(Helm(in, "act", "rollback", {}), TRUE))>>)
         \o <<Helm(in, "verify", "status", {})>>
         \o If("rollout_resource" \in in.text, Verify("kubectl", "rollout-status", {"resource"}))
         \o PromCheck(in) \o Annotate

\* replicas may be negative, which makes it a blank field of the call.
Scale(replicas, more) ==
    [Act("kubectl", "scale", {"resource", "replicas"} \cup more)
       EXCEPT !.blank = IF replicas < 0 THEN {"replicas"} ELSE {}]

BuildScaleService(in) ==
    IF in.text \cap {"resource", "service"} = {} \/ in.replicas = NoNumber THEN <<>>
    ELSE <<Rolled(Scale(in.replicas, IF in.current > 0 THEN {"current_replicas"} ELSE {}),
                  RollbackStep(Scale(in.previous, {}), in.previous > 0)),
           Verify("kubectl", "rollout-status", {"resource"})>>
         \o PromCheck(in) \o Annotate

BuildIncidentRemediation(in) ==
    <<Verify("prometheus", "rules", {})>> \o PromCheck(in)
      \o If("traceql" \in in.text, Verify("tempo", "traceql", {"query"}))
      \o If("trace_id" \in in.text, Verify("tempo", "trace_by_id", {"trace_id"}))
      \o in.remediation \o Annotate

BuildSecretRotation(in) ==
    IF "secret_path" \notin in.text THEN <<>>
    ELSE <<Act("vault", "renew", {"lease_id"}), Act("vault", "revoke", {"lease_id"})>>
         \o If(App(in), Act("argocd", "sync", {"app"})) \o PromCheck(in) \o Annotate

BuildWorkflowPlan(name, in) ==
    CASE name = "gitops_deploy"        -> BuildGitOpsDeploy(in)
      [] name = "helm_release"         -> BuildHelmRelease(in)
      [] name = "scale_service"        -> BuildScaleService(in)
      [] name = "incident_remediation" -> BuildIncidentRemediation(in)
      [] name = "secret_rotation"      -> BuildSecretRotation(in)

(***************************************************************************)
(* BuildWorkflowSteps, the orchestrator's copy of the builders, and what   *)
(* its catalog workflows hand it of their typed input.                     *)
(***************************************************************************)
WorkerFields ==
    [gitops_deploy        |-> {"service", "argocd_app", "revision"},
     helm_release         |-> {"release", "chart", "values_ref", "namespace"},
     scale_service        |-> {"service"},
     incident_remediation |-> {"service"},
     secret_rotation      |-> {"secret_path"}]

WorkerInput(name, in) ==
    [in EXCEPT !.text = in.text \cap WorkerFields[name],
               !.current = NoNumber, !.previous = NoNumber, !.remediation = <<>>]

BuildWorkflowSteps(name, in) == BuildWorkflowPlan(name, WorkerInput(name, in))

\* The request a step becomes.
RequestOf(step) == [call |-> step.call, given |-> step.given, blank |-> step.blank,
                    odd |-> {}, form |-> "map", padded |-> FALSE]
=============================================================================
