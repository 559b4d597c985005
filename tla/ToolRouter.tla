----------------------------- MODULE ToolRouter -----------------------------
(***************************************************************************)
(* The tool router (internal/tools): who may ask for a call, which calls   *)
(* are valid, and what command or request a valid call becomes.            *)
(*                                                                         *)
(* A call names a tool, an action and fields.  Of a field's value only     *)
(* what the code tells apart is kept: good, blank (empty, out of the range *)
(* of a number, or a flag at its default), or odd (with a shell            *)
(* metacharacter).  The input comes as a map, as JSON text, or not at all; *)
(* the action's name may have spaces around it.                            *)
(***************************************************************************)
EXTENDS Integers, FiniteSets, Policy

(***************************************************************************)
(* The calls the schemas know, with the fields a schema requires and the   *)
(* others it names.  A field reaches the command line as an argument of    *)
(* its own (bare), inside an argument (inside), or only if it is not blank *)
(* (optional).                                                             *)
(***************************************************************************)
Call(tool, action, req, opt, bare, inside, optional) ==
    [tool |-> tool, action |-> action, req |-> req, opt |-> opt,
     bare |-> bare, inside |-> inside, optional |-> optional]

Plain(tool, action, req, opt) == Call(tool, action, req, opt, req, {}, opt)

\* The builder knows only the name of the action and drops the fields.
ByName(tool, action, opt) == Call(tool, action, {}, opt, {}, {}, {})

\* Tools without a command line.
ApiOnly(tool, action, req, opt) == Call(tool, action, req, opt, {}, {}, {})

KubectlCalls ==
    {Call("kubectl", "scale", {"resource", "replicas"},
          {"current_replicas", "resource_version"},
          {"resource"}, {"replicas"}, {"current_replicas", "resource_version"}),
     Plain("kubectl", "rollout-status", {"resource"}, {}),
     Plain("kubectl", "get", {"resource"}, {"namespace", "selector"}),
     Plain("kubectl", "watch", {"resource"},
           {"namespace", "selector", "resource_version", "timeout_seconds",
            "allow_bookmarks", "send_initial_events"})}

HelmCalls ==
    {Plain("helm", a, {"release"}, {"namespace"}) : a \in {"status", "rollback", "get"}}
      \cup {Plain("helm", "upgrade", {"release"}, {"namespace", "chart", "values_ref"}),
            Plain("helm", "list", {}, {"namespace"})}

ArgoCalls ==
    {Plain("argocd", a, {"app"}, {}) :
        a \in {"sync", "sync-dry-run", "sync-preview", "wait", "status"}}
      \cup {Plain("argocd", "rollback", {"app"}, {"revision"}),
            Plain("argocd", "list", {}, {}),
            Plain("argocd", "project_token_create", {"project", "role"}, {}),
            Plain("argocd", "project_token_delete", {"project", "role", "token_id"}, {})}

AwsCalls ==
    {Plain("aws", "assume-role", {"role_arn"}, {"session_name", "duration_seconds", "region"}),
     Plain("aws", "tagging-get-resources", {}, {"tag_filters", "region"}),
     Plain("aws", "cloudtrail-lookup-events", {}, {"lookup_attributes", "region"}),
     Plain("aws", "cloudwatch-get-metric-data", {}, {"metric_data_queries", "region"})}

VaultCalls ==
    {ByName("vault", "login_k8s", {"role", "jwt"}),
     ByName("vault", "login_approle", {"role_id", "secret_id"}),
     ByName("vault", "renew", {"lease_id"}), ByName("vault", "revoke", {"lease_id"}),
     Plain("vault", "health", {}, {}), Plain("vault", "token_renew", {}, {}),
     Plain("vault", "audit_enable", {}, {"path", "type"})}

BoundaryCalls ==
    {ByName("boundary", "authenticate", {"auth_method_id", "login_name", "password"}),
     ByName("boundary", "session_open", {"target_id", "duration"}),
     ByName("boundary", "session_close", {"session_id"})}

GithubCalls ==
    {Plain("github", "pr", {}, {"title", "body", "base", "head", "draft", "labels", "reviewers"}),
     Plain("github", "pr_status", {}, {}), Plain("github", "pr_view", {"pr"}, {}),
     Plain("github", "pr_merge", {"pr"}, {"method"}),
     Call("github", "branch_create", {"repo", "branch", "sha"}, {},
          {}, {"repo", "branch", "sha"}, {}),
     Call("github", "commit_status", {"repo", "sha", "state"},
          {"context", "target_url", "description"},
          {}, {"repo", "sha", "state"}, {"context", "target_url", "description"})}

GitlabCalls ==
    {Plain("gitlab", "mr", {}, {"title", "body", "source", "target", "draft", "labels"}),
     Plain("gitlab", "mr_status", {}, {"mr"}), Plain("gitlab", "mr_view", {"mr"}, {}),
     Plain("gitlab", "mr_merge", {"mr"}, {"squash"}),
     Call("gitlab", "branch_create", {"project", "branch", "ref"}, {},
          {}, {"project", "branch", "ref"}, {}),
     Call("gitlab", "commit_status", {"project", "sha", "state"},
          {"context", "target_url", "description"},
          {}, {"project", "sha", "state"}, {"context", "target_url", "description"})}

GitCalls ==
    {Plain("git", "branch", {"name"}, {"base"}),
     Call("git", "add", {"paths"}, {}, {}, {}, {"paths"}),
     Call("git", "commit", {"message"}, {"all", "paths"}, {}, {}, {"message", "all", "paths"}),
     Plain("git", "push", {}, {"remote", "branch", "set_upstream"}),
     Plain("git", "status", {}, {}), Plain("git", "checkout", {"ref"}, {}),
     Plain("git", "merge", {"ref"}, {}), Plain("git", "fetch", {}, {"remote", "ref"})}

ApiCalls ==
    {ApiOnly("prometheus", "query", {"query"}, {}),
     ApiOnly("prometheus", "query_range", {"query", "start", "end", "step"}, {}),
     ApiOnly("prometheus", "rules", {}, {}),
     ApiOnly("prometheus", "query_exemplars", {"query", "start", "end"}, {}),
     ApiOnly("alertmanager", "alerts_list", {}, {}),
     ApiOnly("thanos", "query", {"query"}, {}),
     ApiOnly("thanos", "query_range", {"query", "start", "end", "step"},
             {"dedup", "max_source_resolution"}),
     ApiOnly("grafana", "annotate", {}, {"text", "tags"}),
     ApiOnly("grafana", "dashboard_get", {"uid"}, {}),
     ApiOnly("grafana", "dashboard_upsert", {}, {"dashboard", "folderId", "overwrite"}),
     ApiOnly("grafana", "dashboard_list", {}, {"query", "folder_ids"}),
     ApiOnly("grafana", "dashboard_delete", {"uid"}, {}),
     ApiOnly("tempo", "query", {"query"}, {}), ApiOnly("tempo", "traceql", {"query"}, {}),
     ApiOnly("tempo", "trace_by_id", {"trace_id"}, {}),
     ApiOnly("linear", "create", {}, {"title", "description"}),
     ApiOnly("pagerduty", "create", {}, {"summary", "severity"})}

KnownCalls == KubectlCalls \cup HelmCalls \cup ArgoCalls \cup AwsCalls \cup VaultCalls
                \cup BoundaryCalls \cup GithubCalls \cup GitlabCalls \cup GitCalls
                \cup ApiCalls

\* The tools, and for each of them a call with an action it has no schema for;
\* four of them have a schema for any action ("*").
Registry == {c.tool : c \in KnownCalls}
OtherCall(t) ==
    ByName(t, "other", IF t \in {"aws", "vault", "boundary", "gitlab"} THEN {"args"} ELSE {})
Calls == KnownCalls \cup {OtherCall(t) : t \in Registry}
Known(c) == c.action # "other"

CallOf(tool, action) == CHOOSE c \in Calls : c.tool = tool /\ c.action = action
Fields(c) == c.req \cup c.opt
Carriable(c) == c.bare \cup c.inside \cup c.optional

-----------------------------------------------------------------------------
(* actionTypeForTool and riskForToolAction.  Words are looked for inside   *)
(* the action's name.                                                      *)

HasWord(action, word) ==
    \/ action = word
    \/ <<action, word>> \in
         {<<"project_token_delete", "delete">>, <<"dashboard_delete", "delete">>,
          <<"sync-dry-run", "sync">>, <<"sync-preview", "sync">>,
          <<"tagging-get-resources", "get">>, <<"cloudwatch-get-metric-data", "get">>,
          <<"cloudtrail-lookup-events", "lookup">>, <<"alerts_list", "list">>,
          <<"dashboard_get", "get">>, <<"dashboard_list", "list">>}

HasAnyWord(action, words) == \E w \in words : HasWord(action, w)

ReadActions(tool) ==
    CASE tool = "grafana" -> {"dashboard_get"}
      [] tool = "argocd"  -> {"wait", "status", "list"}
      [] tool = "kubectl" -> {"rollout-status", "get"}
      [] tool = "helm"    -> {"status", "list", "get"}
      [] OTHER            -> {}

ReadWords(tool) ==
    CASE tool = "aws"      -> {"lookup", "get", "list"}
      [] tool = "vault"    -> {"read"}
      [] tool = "boundary" -> {"list", "get"}
      [] OTHER             -> {}

ActionTypeForTool(tool, action) ==
    IF \/ tool \in {"prometheus", "thanos", "tempo"}
       \/ action \in ReadActions(tool)
       \/ HasAnyWord(action, ReadWords(tool))
    THEN "read" ELSE "write"

RiskForToolAction(tool, action) ==
    IF HasAnyWord(action, {"delete", "terminate", "rollback", "iam", "policy", "network"})
    THEN "high"
    ELSE IF HasAnyWord(action, {"sync", "restart", "upgrade", "scale"}) THEN "medium"
    ELSE IF ActionTypeForTool(tool, action) = "read" THEN "read" ELSE "low"

(***************************************************************************)
(* authorize: answer is what the policy checker says of the call ("error"  *)
(* when it cannot be reached); strict says that the context is complete.   *)
(***************************************************************************)
MutantAuthorized(c, answer, strict, breakGlass) ==
    /\ strict
    /\ answer # "error"
    /\ RiskForToolAction(c.tool, c.action) = "high" => breakGlass
    /\ answer \in {NoDecision, "allow"}

Authorized(c, answer, strict, breakGlass) ==
    /\ strict
    /\ \/ answer = "error" /\ ActionTypeForTool(c.tool, c.action) = "read"
       \/ /\ answer # "error"
          /\ RiskForToolAction(c.tool, c.action) = "high" => breakGlass
          /\ answer \in {NoDecision, "allow"}

-----------------------------------------------------------------------------
(***************************************************************************)
(* A request: the call, the fields given, which of them are blank or odd,  *)
(* the form of the input and whether the action's name is padded.          *)
(***************************************************************************)
CheckedTools == {"kubectl", "helm", "argocd", "git"}
Numbers == {"replicas", "current_replicas", "timeout_seconds"}

\* A schema looks at presence, at the range of numbers and at the shape of a
\* reference to values; a missing input counts as an empty one.
Given(r) == IF r.form = "none" THEN {} ELSE r.given

MutantSchemaOK(r) == Fields(r.call) \subseteq Given(r)
SchemaOK(r) ==
    /\ r.call.req \subseteq Given(r)
    /\ (r.blank \cap (Numbers \cup {"values_ref"})) \cap Given(r) = {}

FieldsOK(r) ==
    r.call.tool \in CheckedTools =>
       Known(r.call) /\ r.form # "none" /\ r.call.req \cap r.blank = {}

Validated(r) == SchemaOK(r) /\ FieldsOK(r)

\* The builders see fields only in a map, which prepareHelmCLIInput makes of
\* the text for an upgrade, and only under the exact action's name.
HelmUpgrade(r) == r.call.tool = "helm" /\ r.call.action = "upgrade" /\ ~r.padded
MutantSeen(r) == IF r.form = "map" /\ ~r.padded THEN r.given \ {"namespace"} ELSE {}
Seen(r) == IF ~r.padded /\ (r.form = "map" \/ (HelmUpgrade(r) /\ r.form = "text"))
           THEN r.given ELSE {}
NonBlank(r) == Seen(r) \ r.blank

\* An audit device other than "file", for which a blank type stands, has no path.
Shadowed(r) ==
    IF r.call.action = "audit_enable" /\ "type" \in NonBlank(r) THEN {"path"} ELSE {}

Carried(r) ==
    IF r.padded THEN {}
    ELSE (NonBlank(r) \cap Carriable(r.call)) \ Shadowed(r)

\* An empty argument, or one with a metacharacter, stops the command.  The
\* JSON of metric queries always has some.
MutantArgsOK(r) == Carried(r) \cap (r.odd \cup {"metric_data_queries"}) = {}
ArgsOK(r) ==
    /\ ~r.padded => r.call.bare \subseteq NonBlank(r)
    /\ Carried(r) \cap (r.odd \cup {"metric_data_queries"}) = {}

(***************************************************************************)
(* The sandbox a command runs in, as config.Validate lets it be set up:    *)
(* required and egressRequired stand for RequireOnWrite and                *)
(* RequireEgressAllowlist, egress for a list that is not empty, limited    *)
(* for a seccomp profile, no new privileges, a user and dropped            *)
(* capabilities.                                                           *)
(***************************************************************************)
MutantConfigOK(s) == TRUE
ConfigOK(s) == s.enforce => s.image

Sandboxes ==
    [enabled: BOOLEAN, enforce: BOOLEAN, image: BOOLEAN, limited: BOOLEAN,
     required: BOOLEAN, egressRequired: BOOLEAN, egress: BOOLEAN]

SandboxRefuses(s, c) ==
    \/ s.required /\ ActionTypeForTool(c.tool, c.action) = "write" /\ ~s.enabled
    \/ s.egressRequired /\ (~s.egress \/ ~s.enabled)

SandboxRuns(s) == s.enforce => s.enabled /\ s.limited

\* Where Sandbox.Run runs a command.
Place(s) == IF s.enabled /\ s.image THEN "container" ELSE "host"

HasCLI(tool) ==
    tool \notin {"prometheus", "alertmanager", "thanos", "grafana", "tempo", "linear", "pagerduty"}
SupportsAPI(tool) == tool # "git"

\* The requests ExecuteAPI knows; those in PathCalls carry a field in the path.
PathCalls ==
    {<<"grafana", "dashboard_get", "uid">>, <<"grafana", "dashboard_delete", "uid">>,
     <<"tempo", "trace_by_id", "trace_id">>, <<"boundary", "session_close", "session_id">>,
     <<"argocd", "status", "app">>}

ApiKnows(r) ==
    /\ r.call.tool \in {"prometheus", "alertmanager", "thanos", "grafana", "tempo", "vault",
                        "boundary", "linear", "pagerduty"}
         \/ <<r.call.tool, r.call.action>> \in
              {<<"argocd", "status">>, <<"aws", "cloudtrail-lookup-events">>,
               <<"aws", "cloudwatch-get-metric-data">>}
    /\ r.padded \/ ~Known(r.call) => r.call.tool \in {"linear", "pagerduty"}
    /\ \A p \in PathCalls :
         p[1] = r.call.tool /\ p[2] = r.call.action =>
            p[3] \in Given(r) \ r.blank

\* The body of a request is the input as it came: text arrives as one string,
\* so that only the fields put in the path or the query string are read from it.
ApiCarried(r) ==
    IF r.form = "map" THEN r.given
    ELSE IF \/ <<r.call.tool, r.call.action>> = <<"grafana", "dashboard_list">>
            \/ \E p \in PathCalls : p[1] = r.call.tool /\ p[2] = r.call.action
      THEN Given(r) ELSE {}

Outcome(how, fields) == [how |-> how, fields |-> fields]

(***************************************************************************)
(* Router.Execute: the command line where it is installed, else the API;   *)
(* the outcome says what ran, and where, and which fields it carried.      *)
(***************************************************************************)
Execute(r, s, cli) ==
    IF ~Validated(r) \/ SandboxRefuses(s, r.call) THEN Outcome("refused", {})
    ELSE IF HasCLI(r.call.tool) /\ cli
      THEN IF ArgsOK(r) /\ SandboxRuns(s) THEN Outcome(Place(s), Carried(r))
           ELSE Outcome("refused", {})
    ELSE IF SupportsAPI(r.call.tool) /\ ApiKnows(r) THEN Outcome("api", ApiCarried(r))
    ELSE Outcome("no cli", {})
=============================================================================
