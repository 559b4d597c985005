------------------------------ MODULE Decisions -----------------------------
(***************************************************************************)
(* One question put to one of the system's pure decision procedures, for   *)
(* every question of the bounded sets below: may a plan go on (Policy with *)
(* the Rego rules of OpaPolicy), may a tool be called and what does the    *)
(* call become (ToolRouter), is a token good (Tokens), what does a plan of *)
(* an alert contain, does a plan meet its constraints (PlanRules), what    *)
(* does a template build (Templates).                                      *)
(***************************************************************************)
EXTENDS Policy, OpaPolicy, Tokens, Templates

CONSTANTS
    MaxTargets,   \* bound on the number of targets asked about
    DayLength     \* hours of the day

ASSUME DecisionsAssumption == MaxTargets \in Nat /\ DayLength \in Nat \ {0}

VARIABLES asked,   \* the question; its kind says to whom
          answer   \* <<>>, then the answer as a sequence of one

vars == <<asked, answer>>

-----------------------------------------------------------------------------
(* The questions                                                           *)

PolicyQuestions ==
    {q \in [kind: {"policy"}, answer: Answers, actionType: ActionTypes, prod: BOOLEAN,
            risk: Risks, namespaced: BOOLEAN, targets: 0 .. MaxTargets,
            breakGlass: BOOLEAN] :
        q.actionType = ActionType(q.risk)}

\* The rules' input for one call of a tool, asked of router and gateway alike;
\* the context is complete, so that its blast radius is the namespace.
Environments == {"dev", "prod", "elsewhere"}
RulesQuestions ==
    [kind: {"rules"}, call: Calls, role: {"admin", "operator", "viewer", "service"},
     env: Environments, up: BOOLEAN, breakGlass: BOOLEAN]

Nominal(c) == [call |-> c, given |-> Fields(c), blank |-> {}, odd |-> {},
               form |-> "map", padded |-> FALSE]

\* All fields, the required ones, or all but one; at most one field is flawed.
Unquoted == {"replicas", "current_replicas", "timeout_seconds", "duration_seconds",
             "squash", "all", "set_upstream", "method", "dedup", "values_ref", "draft",
             "allow_bookmarks", "send_initial_events", "overwrite", "folderId"}
Flaws(c) == {<<{}, {}>>} \cup {<<{f}, {}>> : f \in Fields(c)}
                         \cup {<<{}, {f}>> : f \in Fields(c) \ Unquoted}
GivenSets(c) == {Fields(c), c.req} \cup {Fields(c) \ {f} : f \in Fields(c)}
Requests(c) ==
    {[call |-> c, given |-> g, blank |-> w[1], odd |-> w[2], form |-> f, padded |-> p] :
        g \in GivenSets(c), w \in Flaws(c), f \in {"map", "text", "none"}, p \in BOOLEAN}

OpenSandbox == [enabled |-> FALSE, enforce |-> FALSE, image |-> FALSE, limited |-> FALSE,
                required |-> FALSE, egressRequired |-> FALSE, egress |-> FALSE]

ToolQuestion(r, s, cli) == [kind |-> "tool", request |-> r, sandbox |-> s, cli |-> cli]

\* Tokens with every claim and a good signature, or with every header and
\* signature and good claims; now is time 2.
Now == 2
GoodToken == [parts |-> 3, alg |-> "RS256", kid |-> "k1", iss |-> "us", aud |-> {"us"},
              exp |-> 3, nbf |-> 1, signer |-> "A", secret |-> FALSE]
ClaimTokens ==
    [parts: {3}, alg: {"RS256"}, kid: {"k1"}, iss: {"us", "them"}, aud: SUBSET {"us", "them"},
     exp: 0 .. 3, nbf: 0 .. 3, signer: {"A"}, secret: {FALSE}]
SignedTokens ==
    [parts: 0 .. 3, alg: {"RS256", "other", NoText}, kid: {NoText, "k1", "k2"}, iss: {"us"},
     aud: {{"us"}}, exp: {3}, nbf: {1}, signer: {"A", "B", "none"}, secret: BOOLEAN]
KeySets ==
    {Unreachable, <<>>, <<Key("k1", "RSA", "A")>>, <<Key("k1", NoText, "B")>>,
     <<Key(NoText, "RSA", "A")>>, <<Key("k1", "EC", "A")>>, <<Key("k1", "RSA", "none")>>,
     <<Key("k1", "RSA", "A"), Key("k2", "RSA", "B")>>,
     <<Key("k1", "RSA", "B"), Key("k1", "RSA", "A")>>}
AuthConfigs ==
    [issuer: {NoText, "us"}, audience: {NoText, "us"}, url: BOOLEAN, dev: BOOLEAN, shared: BOOLEAN]
FullConfig == [issuer |-> "us", audience |-> "us", url |-> TRUE, dev |-> FALSE, shared |-> TRUE]

TokenQuestion(server, scheme, t, cfg, keys) ==
    [kind |-> "token", server |-> server, request |-> [scheme |-> scheme, token |-> t],
     cfg |-> cfg, keys |-> keys]

Draft(stage, tool, action) == [stage |-> stage, tool |-> tool, action |-> action]
Stages == {NoName, "act", "verify"}
OneDraft == {<<Draft(s, c.tool, c.action)>> : s \in Stages, c \in Calls}
SomeCalls == {<<"kubectl", "get">>, <<"kubectl", "scale">>, <<"vault", "revoke">>,
              <<"git", "status">>, <<"git", NoName>>, <<"unregistered", "get">>}
TwoDrafts ==
    {<<Draft(s, c[1], c[2]), Draft(t, d[1], d[2])>> :
        s \in Stages, t \in Stages, c \in SomeCalls, d \in SomeCalls}
Diagnostics == {<<>>, <<<<"promql", FALSE>>>>, <<<<"traceql", FALSE>>, <<"traceql", TRUE>>>>,
                <<<<"traceql", FALSE>>>>}
AlertQuestions ==
    [kind: {"alert"}, risk: Risks, drafts: {<<>>} \cup OneDraft \cup TwoDrafts,
     diagnostics: Diagnostics]

Clocks == 0 .. DayLength
Windows == {Absent} \cup ((Clocks \cup {None, Unreadable}) \X (Clocks \cup {None, Unreadable}))
Constraint(max, window, allowed, environments) ==
    [max |-> max, window |-> window, allowed_envs |-> allowed, environments |-> environments]
Free == Constraint(None, Absent, Absent, Absent)
EnvLists == {Absent, <<{}>>, <<{"dev"}>>, <<{"prod"}>>}
SomeConstraints ==
    {Constraint(m, w, e, Absent) :
        m \in {None, -1, 0, 1, MaxTargets}, w \in {Absent, <<None, None>>, <<1, 2>>},
        e \in {Absent, <<{"dev"}>>, <<{"prod"}>>}}
      \cup {Constraint(None, Absent, a, e) : a \in EnvLists, e \in EnvLists}
StepInput(targets, resources, named) ==
    [lists |-> [targets |-> targets, resources |-> resources, namespaces |-> 0, items |-> 0],
     named |-> named]
StepInputs ==
    {<<>>, <<StepInput(0, 0, FALSE)>>, <<StepInput(0, 0, TRUE)>>,
     <<StepInput(1, MaxTargets, TRUE)>>, <<StepInput(0, 50, FALSE)>>,
     <<StepInput(0, 50, FALSE), StepInput(0, 0, TRUE)>>}

ConstraintQuestion(request, policy, env, inputs, now, type) ==
    [kind |-> "constraints", request |-> request, policy |-> policy, env |-> env,
     inputs |-> inputs, now |-> now, actionType |-> type]

TemplateFields ==
    [gitops_deploy        |-> {"argocd_app", "app", "revision", "promql"},
     helm_release         |-> {"release", "chart", "values_ref", "namespace",
                               "rollout_resource", "promql"},
     scale_service        |-> {"resource", "service", "promql"},
     incident_remediation |-> {"promql", "traceql", "trace_id"},
     secret_rotation      |-> {"secret_path", "app", "promql"}]
Numbered == {NoNumber, -1, 0, 1}
Remediations == {<<>>, <<Act("kubectl", "scale", {"resource", "replicas"})>>}
TemplateQuestion(by, name, text, rollback, replicas, current, previous, remediation) ==
    [kind |-> "template", by |-> by, name |-> name,
     input |-> [text |-> text, rollback |-> rollback, replicas |-> replicas,
                current |-> current, previous |-> previous, remediation |-> remediation]]

-----------------------------------------------------------------------------
Init ==
    /\ answer = <<>>
    /\ \/ asked \in PolicyQuestions
       \/ asked \in RulesQuestions
       \/ \E c \in Calls, cli \in BOOLEAN : \E r \in Requests(c) :
             asked = ToolQuestion(r, OpenSandbox, cli)
       \/ \E c \in Calls, cli \in BOOLEAN, s \in Sandboxes :
             ConfigOK(s) /\ asked = ToolQuestion(Nominal(c), s, cli)
       \/ \E server \in {"gateway", "router"}, cfg \in AuthConfigs, t \in ClaimTokens :
             asked = TokenQuestion(server, "bearer", t, cfg, <<Key("k1", "RSA", "A")>>)
       \/ \E server \in {"gateway", "router"}, t \in SignedTokens, keys \in KeySets :
             asked = TokenQuestion(server, "bearer", t, FullConfig, keys)
       \/ \E server \in {"gateway", "router"}, scheme \in {"none", "other"} :
             asked = TokenQuestion(server, scheme, GoodToken, FullConfig,
                                   <<Key("k1", "RSA", "A")>>)
       \/ asked \in AlertQuestions
       \/ \E w \in Windows, now \in 0 .. DayLength - 1, type \in ActionTypes :
             asked = ConstraintQuestion(Free, [Free EXCEPT !.window = w], "dev", <<>>,
                                        now, type)
       \/ \E request \in SomeConstraints, policy \in SomeConstraints, inputs \in StepInputs,
             now \in 2 .. 3, type \in ActionTypes :
             asked = ConstraintQuestion(request, policy, "dev", inputs, now, type)
       \/ \E by \in {"gateway", "worker"}, name \in Templates, rollback \in BOOLEAN,
             remediation \in Remediations : \E text \in SUBSET TemplateFields[name] :
                asked = TemplateQuestion(by, name, text, rollback, 1, 1, 1, remediation)
       \/ \E text \in SUBSET TemplateFields["scale_service"], replicas \in Numbered,
             current \in Numbered, previous \in Numbered :
             asked = TemplateQuestion("gateway", "scale_service", text, FALSE, replicas,
                                      current, previous, <<>>)

Asked(kind) == asked.kind = kind /\ answer = <<>>
Answer(value) == answer' = <<value>> /\ UNCHANGED asked

\* policyDecision
DecidePolicy ==
    /\ Asked("policy")
    /\ Answer(PolicyDecision(asked.answer, asked.actionType, asked.prod, asked.risk,
                             BlastRadius(asked.namespaced, asked.targets),
                             asked.breakGlass))

(***************************************************************************)
(* authorize of the tool router under the Rego rules, next to what the     *)
(* gateway decides of a plan of the same risk with one target.             *)
(***************************************************************************)
RulesInput(type, risk, targets) ==
    [type |-> type, risk |-> risk, tier |-> TierForRisk(risk), blast |-> "namespace",
     targets |-> targets, env |-> asked.env, actor |-> TRUE, roles |-> {asked.role}]
AskRules(in) == IF asked.up THEN OpaDecision(in) ELSE "error"

Authorize ==
    /\ Asked("rules")
    /\ LET type == ActionTypeForTool(asked.call.tool, asked.call.action)
           risk == RiskForToolAction(asked.call.tool, asked.call.action)
       IN  Answer([router  |-> Authorized(asked.call, AskRules(RulesInput(type, risk, 0)),
                                          TRUE, asked.breakGlass),
                   gateway |-> PolicyDecision(AskRules(RulesInput(ActionType(risk), risk, 1)),
                                              ActionType(risk), asked.env = "prod", risk,
                                              "namespace", asked.breakGlass)])

\* Router.Execute
ExecuteTool == Asked("tool") /\ Answer(Execute(asked.request, asked.sandbox, asked.cli))

\* AuthMiddleware and authenticate
Authenticate ==
    /\ Asked("token")
    /\ \/ asked.server = "gateway"
          /\ Answer(GatewayAccepts(asked.request, asked.cfg, asked.keys, Now))
       \/ asked.server = "router"
          /\ Answer(RouterAccepts(asked.request, asked.cfg, asked.keys, Now))

PlanAlert == Asked("alert")
             /\ Answer(AlertPlan(asked.risk, asked.drafts, asked.diagnostics))

CheckConstraints ==
    /\ Asked("constraints")
    /\ Answer(EnforceConstraints(MergeConstraints(asked.request, asked.policy), asked.env,
                                 asked.inputs, asked.now, asked.actionType))

BuildTemplate ==
    /\ Asked("template")
    /\ \/ asked.by = "gateway" /\ Answer(BuildWorkflowPlan(asked.name, asked.input))
       \/ asked.by = "worker" /\ Answer(BuildWorkflowSteps(asked.name, asked.input))

Next == \/ DecidePolicy \/ Authorize \/ ExecuteTool \/ Authenticate
        \/ PlanAlert \/ CheckConstraints \/ BuildTemplate

Spec == Init /\ [][Next]_vars

-----------------------------------------------------------------------------
(***************************************************************************)
(* Properties                                                              *)
(***************************************************************************)
Answered(kind) == asked.kind = kind /\ answer # <<>>
Given1 == answer[1]

Configured == asked.answer # "unconfigured"
Write      == asked.actionType = "write"
GoesOn     == Proceeds(Given1, asked.actionType)

\* A write goes on without an approval only where the checker itself said so
\* (or said nothing) and the plan is low risk, outside prod and within 50
\* targets.
AllowedWritesAreHarmless ==
    Answered("policy") /\ Configured /\ Write /\ Given1 = "allow"
       => /\ asked.answer \in {"allow", NoDecision}
          /\ asked.risk = "low" /\ ~asked.prod /\ asked.targets <= 50

\* With a checker, a high-risk write never goes on without the break-glass
\* header, and no write goes on while the checker cannot be reached.
NoUnbrokenGlass ==
    Answered("policy") /\ Configured /\ Write /\ GoesOn
       => /\ asked.risk = "high" => asked.breakGlass
          /\ asked.answer # "error"

\* The gateway's own rules never make the checker's answer weaker, as long as
\* the plan stays within 50 targets.
NeverWeakerWithinCluster ==
    Answered("policy") /\ asked.targets <= 50 /\ GoesOn
       => /\ asked.answer # "deny"
          /\ asked.answer = "require_approval" => Given1 = "require_approval"

\* What the gateway's own rules make of the checker's answer: no write slips
\* through, and none of the rules undoes another.
PolicySound == AllowedWritesAreHarmless /\ NoUnbrokenGlass /\ NeverWeakerWithinCluster

\* Under the Rego rules the tool router runs, of all calls that are not reads,
\* only low-risk ones outside prod for an admin or an operator, and none
\* while the policy checker is down.
AuthorisedCallsAreHarmless ==
    Answered("rules") /\ Given1.router
       => \/ ActionTypeForTool(asked.call.tool, asked.call.action) = "read"
          \/ /\ asked.up /\ asked.env # "prod" /\ asked.role \in {"admin", "operator"}
             /\ RiskForToolAction(asked.call.tool, asked.call.action) = "low"

\* The two servers judge alike: the router runs a call exactly when the
\* gateway would let a plan of that risk go on without an approval, though
\* each has its own order of checks around the same rules.
GatewayAndRouterAgree ==
    Answered("rules") => (Given1.router <=> Given1.gateway = "allow")

\* Gateway and router under the Rego rules: harmless, and alike.
RulesAgree == AuthorisedCallsAreHarmless /\ GatewayAndRouterAgree

Ran(how) == Answered("tool") /\ Given1.how \in how
Commands == {"host", "container"}

\* The logins, leases and sessions of Vault and Boundary and the actions a
\* builder has no case for: their commands are the bare name of the action.
NameOnly(c) == Carriable(c) = {} /\ (c.tool \in {"vault", "boundary"} \/ ~Known(c))

\* A command line carries every field of its request that is not blank, but
\* for the commands that are only a name and for the path of an audit device
\* whose type is not "file", which BuildVaultCmd leaves out.
CommandCarriesInput ==
    LET filled == asked.request.given \ asked.request.blank
    IN  Ran(Commands) /\ asked.request.form = "map" /\ ~asked.request.padded
          /\ ~NameOnly(asked.request.call)
           => Given1.fields = IF asked.request.call.action = "audit_enable" /\ "type" \in filled
                              THEN filled \ {"path"} ELSE filled

\* No kubectl, Helm or Argo CD command runs without the fields its action
\* requires, whatever is missing or empty and in whatever form the input
\* comes: what validation reads and what the builder reads may differ.
NothingRunsIncomplete ==
    Ran(Commands \cup {"api"}) /\ asked.request.call.tool \in {"kubectl", "helm", "argocd"}
      /\ ~asked.request.padded
       => asked.request.call.req \subseteq Given1.fields \ asked.request.blank

\* A request with the fields its action requires and without a flaw is not
\* refused, wherever it runs, except the metric queries of CloudWatch, whose
\* JSON the argument check never lets through.
GoodRequestsRun ==
    Answered("tool") /\ Known(asked.request.call) /\ asked.sandbox = OpenSandbox
      /\ asked.request.form = "map" /\ ~asked.request.padded
      /\ asked.request.call.req \subseteq asked.request.given
      /\ asked.request.blank \cup asked.request.odd = {}
      /\ "metric_data_queries" \notin asked.request.given
       => Given1.how # "refused"

\* Where the configuration enforces the sandbox, every command of every tool
\* runs in a container with all the limits, though the configuration and the
\* router each check only a part of that.
CommandsAreConfined ==
    Ran(Commands) /\ asked.sandbox.enforce
       => Given1.how = "container" /\ asked.sandbox.limited

\* A tool call becomes a command that is complete, carries its input and is
\* confined, and no good call is refused.
CallsSound == /\ CommandCarriesInput /\ NothingRunsIncomplete
              /\ GoodRequestsRun /\ CommandsAreConfined

Token == asked.request.token
Range1(s) == {s[i] : i \in DOMAIN s}
UsableKeys == {k \in Range1(asked.keys) : k.kty \in {NoText, "RSA"} /\ k.owner # "none"}
SharedToken == asked.server = "router" /\ asked.cfg.shared /\ Token.secret

\* A server with a key set lets a request in only with a token that one of the
\* usable keys signed, under the token's own key id, that is meant for this
\* server and valid now.  A token without a time limit never runs out.
AcceptedIsGenuine ==
    Answered("token") /\ Given1 /\ asked.cfg.url /\ ~SharedToken
       => /\ \E k \in UsableKeys : k.owner = Token.signer /\ Token.kid \in {k.kid, NoText}
          /\ asked.cfg.issuer \in {NoText, Token.iss}
          /\ asked.cfg.audience \in Token.aud \cup {NoText}
          /\ Token.exp \in {0} \cup (Now + 1 .. 3) /\ Token.nbf <= Now

\* A current RS256 token of this server, signed by the only key that has its
\* id, is let in by gateway and router, whatever else the key set holds.
GoodTokensPass ==
    /\ Answered("token") /\ asked.request.scheme = "bearer" /\ asked.cfg.url
    /\ Token.parts = 3 /\ Token.alg = "RS256" /\ Token.kid # NoText /\ asked.keys # Unreachable
    /\ Token.iss = "us" /\ "us" \in Token.aud
    /\ Token.exp > Now /\ Token.nbf <= Now
    /\ \E k \in UsableKeys : k.owner = Token.signer /\ k.kid = Token.kid
    /\ \A i, j \in DOMAIN asked.keys : asked.keys[i].kid = asked.keys[j].kid => i = j
    => Given1

\* The token checks let in what is genuine and nothing else.
TokensExact == AcceptedIsGenuine /\ GoodTokensPass

\* A plan made from an alert whose intent is a write ends up with a verify
\* step, whatever the planner wrote, and keeps all the steps it could use.
AlertPlansGetVerified ==
    Answered("alert") /\ asked.risk # "read"
       => /\ \E i \in DOMAIN Given1.steps : Given1.steps[i].stage = "verify"
          /\ IsPrefix(ParsePlanSteps(asked.drafts), Given1.steps)

\* What the event loop leaves without an approval only reads: each of its steps
\* is a read to the tool router too, which sorts actions by other rules.  The
\* one exception is git status, which the router counts as a write.
UnapprovedPlansOnlyRead ==
    Answered("alert") /\ ~Given1.approval
       => \A c \in CallsOf(Given1.steps) :
             \/ ActionTypeForTool(c.tool, c.action) = "read"
             \/ c = CallOf("git", "status")

\* The hours from a window's start to its end, over midnight if need be.
HoursOf(window) ==
    {(window[1] + n) % DayLength : n \in 0 .. ((window[2] - window[1]) % DayLength)}

\* A write passes the maintenance window exactly during the hours from its
\* start to its end, both included, also when the window crosses midnight.
WindowIsCyclic ==
    Answered("constraints") /\ Write /\ asked.request = Free /\ asked.inputs = <<>>
      /\ asked.policy.window \in (0 .. DayLength - 1) \X (0 .. DayLength - 1)
      /\ asked.policy = [Free EXCEPT !.window = asked.policy.window]
       => (Given1 <=> asked.now \in HoursOf(asked.policy.window))

\* Whatever constraints a request brings along, a plan that passes is in an
\* environment the policy lists: the policy overrides (mergeConstraints,
\* envAllowed).  TLC refutes it with DecisionsEnv.cfg: a request's allowed_envs
\* comes before a policy's environments.
PolicyEnvironmentsWin ==
    Answered("constraints") /\ Given1 => EnvAllowedBy(asked.env, asked.policy)

\* A write that passes meets the policy's window and number of targets, whatever
\* the request brings along, and never reaches more than 50 targets unless some
\* limit says otherwise.  It is in an environment of the policy too, unless the
\* policy leaves allowed_envs to the request, which then decides alone.
PolicyConstraintsWin ==
    Answered("constraints") /\ Write /\ Given1
       => /\ \/ EnvAllowedBy(asked.env, asked.policy)
             \/ /\ asked.policy.allowed_envs = Absent
                /\ asked.env \in Listed(asked.request.allowed_envs)
          /\ WithinMaintenanceWindow(asked.policy.window, asked.now)
          /\ asked.policy.max > 0 => EstimateTargets(asked.inputs) <= asked.policy.max
          /\ {asked.policy.max, asked.request.max} \subseteq {None, 0}
                => EstimateTargets(asked.inputs) <= 50

\* The rules about plans: what an alert's plan contains and may do unapproved, and
\* the constraints a plan must meet.
PlanRulesSound == /\ AlertPlansGetVerified /\ UnapprovedPlansOnlyRead
                  /\ WindowIsCyclic /\ PolicyConstraintsWin

\* The steps of a template and their rollbacks, an operator's own remediation
\* left aside.
BuiltSteps == LET own == Range1(Given1) \ Range1(asked.input.remediation)
              IN  own \cup UNION {s.rollback : s \in own}

\* Every step a template builds, and every rollback, is a call the router
\* accepts and whose fields reach the command: names agree in two packages
\* that share no types.  A negative number of replicas is refused, and Vault's
\* leases reach only its API.
TemplateStepsAccepted ==
    Answered("template") /\ (asked.name = "scale_service" => asked.input.replicas >= 0)
       => \A s \in BuiltSteps :
             LET r == RequestOf(s)
             IN  /\ Validated(r) /\ s.given \subseteq Fields(s.call)
                 /\ HasCLI(s.call.tool) /\ s.call.tool # "vault"
                      => ArgsOK(r) /\ Carried(r) = s.given \ s.blank

\* The risk the catalog declares, on which approvals are decided, is at least
\* the risk the gateway gives to each of the template's steps; scaling is the
\* exception, low by declaration and medium as a step.
DeclaredRiskCovers ==
    Answered("template") /\ asked.name # "scale_service"
       => \A s \in BuiltSteps : RiskOrd(StepRisk(s.call)) <= RiskOrd(Declared[asked.name])

\* Templates fit the router that runs their steps and the rules that judge them.
TemplatesFit == TemplateStepsAccepted /\ DeclaredRiskCovers
=============================================================================
