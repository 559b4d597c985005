-------------------------- MODULE Decisions_proofs --------------------------
(***************************************************************************)
(* Proofs about the decision procedures: the gateway's policy decision for *)
(* any number of targets, the router's calls, the two servers under the    *)
(* Rego rules, the constraints of a plan for a day of any length, tokens,  *)
(* the plan of an alert for any number of drafts, and the templates for    *)
(* any input.                                                              *)
(***************************************************************************)
EXTENDS Decisions, NaturalsInduction, WellFoundedInduction, SequenceTheorems, TLAPS

LEMMA NoDecisionApart ==
    NoDecision \notin Decisions \cup {"error", "unconfigured"}
BY Zenon DEF NoDecision, Decisions

\* The question, and the decision that answers it.
Policied == asked.kind = "policy" => asked \in PolicyQuestions
PolicyAnswered ==
    asked.kind = "policy" /\ answer # <<>> =>
       answer = <<PolicyDecision(asked.answer, asked.actionType, asked.prod, asked.risk,
                                 BlastRadius(asked.namespaced, asked.targets),
                                 asked.breakGlass)>>
PolicyInv == Policied /\ PolicyAnswered

LEMMA InitPolicy == Init => PolicyInv
<1> SUFFICES ASSUME Init PROVE PolicyInv
  OBVIOUS
<1>1. Policied
  BY DEF Init, Policied, RulesQuestions, ToolQuestion, TokenQuestion, AlertQuestions,
         ConstraintQuestion, TemplateQuestion
<1>2. PolicyAnswered
  BY DEF Init, PolicyAnswered
<1>3. QED
  BY <1>1, <1>2 DEF PolicyInv

LEMMA NextPolicy == PolicyInv /\ [Next]_vars => PolicyInv'
<1> SUFFICES ASSUME PolicyInv, [Next]_vars PROVE PolicyInv'
  OBVIOUS
<1>1. UNCHANGED asked
  BY DEF Next, vars, DecidePolicy, Authorize, ExecuteTool, Authenticate, PlanAlert,
         CheckConstraints, BuildTemplate, Answer
<1>2. CASE DecidePolicy
  BY <1>1, <1>2 DEF DecidePolicy, Answer, PolicyInv, Policied, PolicyAnswered
<1>3. CASE ~DecidePolicy
  <2>1. asked.kind # "policy" \/ UNCHANGED answer
    BY <1>3 DEF Next, vars, Authorize, ExecuteTool, Authenticate, PlanAlert,
         CheckConstraints, BuildTemplate, Asked
  <2>2. QED
    BY <1>1, <2>1 DEF PolicyInv, Policied, PolicyAnswered
<1>4. QED
  BY <1>2, <1>3

-----------------------------------------------------------------------------
(***************************************************************************)
(* The rules of policyDecision, one after the other                        *)
(***************************************************************************)
\* A checker that answers is overruled only towards more care, but for the rule
\* on accounts, which makes an approval of whatever it said.
LEMMA AnswerOverruled ==
    ASSUME NEW d \in Decisions \cup {NoDecision}, NEW risk \in Risks, NEW prod \in BOOLEAN,
           NEW blast, NEW glass \in BOOLEAN, NEW type, NEW said, NEW result,
           type = ActionType(risk),
           said = IF d = NoDecision THEN "allow" ELSE d,
           result = PolicyDecision(d, type, prod, risk, blast, glass)
    PROVE  /\ type = "read" => risk = "read" /\ result = said
           /\ type = "write" => risk # "read" /\
                 result = IF risk = "high" /\ ~glass THEN "deny"
                          ELSE IF blast = "account" THEN "require_approval"
                          ELSE IF said = "allow" /\ (prod \/ risk # "low")
                            THEN "require_approval" ELSE said
<1>1. d # "unconfigured" /\ d # "error"
  BY NoDecisionApart, Zenon DEF Decisions
<1>2. said \in Decisions
  BY DEF Decisions
<1>3. result = BreakGlassRule(
                 BlastRule(RiskRule(ProdRule(said, type = "write", prod), type = "write", risk),
                           type = "write", blast),
                 type = "write", risk, glass)
  BY <1>1 DEF PolicyDecision
<1>4. (type = "read" <=> risk = "read") /\ (type = "write" <=> risk # "read")
  BY DEF ActionType
<1>5. CASE type = "read"
  BY <1>3, <1>4, <1>5 DEF BreakGlassRule, BlastRule, RiskRule, ProdRule
<1>6. CASE type = "write"
  <2>1. TierForRisk(risk) = "break_glass" <=> risk = "high"
    BY <1>4, <1>6 DEF TierForRisk, Risks
  <2>2. risk \notin {"read", "low"} <=> risk # "low"
    BY <1>4, <1>6
  <2>3. RiskRule(ProdRule(said, TRUE, prod), TRUE, risk)
          = IF said = "allow" /\ (prod \/ risk # "low") THEN "require_approval" ELSE said
    BY <2>2 DEF RiskRule, ProdRule
  <2>4. QED
    BY <1>3, <1>4, <1>6, <2>1, <2>3 DEF BreakGlassRule, BlastRule
<1>7. QED
  BY <1>4, <1>5, <1>6

\* The same of a call that stays within a namespace.
LEMMA NamespaceOverruled ==
    ASSUME NEW d \in Decisions, NEW risk \in Risks, NEW prod \in BOOLEAN,
           NEW glass \in BOOLEAN, NEW type, NEW result, type = ActionType(risk),
           result = PolicyDecision(d, type, prod, risk, "namespace", glass)
    PROVE  /\ type = "read" => risk = "read" /\ result = d
           /\ type = "write" => risk # "read" /\
                 result = IF risk = "high" /\ ~glass THEN "deny"
                          ELSE IF d = "allow" /\ (prod \/ risk # "low")
                            THEN "require_approval" ELSE d
<1>1. PICK said : said = IF d = NoDecision THEN "allow" ELSE d
  OBVIOUS
<1>2. said = d
  BY <1>1, NoDecisionApart
<1>3. PICK blast : blast = "namespace"
  OBVIOUS
<1>4. result = PolicyDecision(d, type, prod, risk, blast, glass)
  BY <1>3
<1>5. QED
  BY <1>1, <1>2, <1>3, <1>4, AnswerOverruled

\* Without an answer: no checker lets everything through, an unreachable one reads.
LEMMA AnswerMissing ==
    ASSUME NEW risk \in Risks, NEW prod, NEW blast, NEW glass
    PROVE  /\ PolicyDecision("error", "write", prod, risk, blast, glass) = "error"
           /\ PolicyDecision("error", "read", prod, risk, blast, glass) = "allow"
           /\ PolicyDecision("unconfigured", ActionType(risk), prod, risk, blast, glass) = "allow"
<1>1. NoDecision \notin {"error", "unconfigured"} /\ "error" \notin Decisions
      /\ "unconfigured" \notin Decisions
  BY NoDecisionApart, Zenon DEF Decisions
<1>2. QED
  BY <1>1 DEF PolicyDecision

LEMMA Accounts ==
    ASSUME NEW targets \in Nat, NEW namespaced \in BOOLEAN
    PROVE  BlastRadius(namespaced, targets) = "account" <=> targets > 50
BY DEF BlastRadius

-----------------------------------------------------------------------------
(***************************************************************************)
(* The theorem                                                             *)
(***************************************************************************)
LEMMA PolicyStateGood == PolicyInv => PolicySound
<1> SUFFICES ASSUME PolicyInv, asked.kind = "policy", answer # <<>> PROVE PolicySound
  BY DEF PolicySound, AllowedWritesAreHarmless, NoUnbrokenGlass, NeverWeakerWithinCluster,
         Answered
<1> DEFINE risk == asked.risk
           said == IF asked.answer = NoDecision THEN "allow" ELSE asked.answer
           blast == BlastRadius(asked.namespaced, asked.targets)
           d == PolicyDecision(asked.answer, asked.actionType, asked.prod, risk, blast,
                               asked.breakGlass)
<1>1. /\ asked.answer \in Answers /\ asked.prod \in BOOLEAN /\ risk \in Risks
      /\ asked.namespaced \in BOOLEAN /\ asked.targets \in 0 .. MaxTargets
      /\ asked.breakGlass \in BOOLEAN /\ asked.actionType = ActionType(risk)
  BY DEF PolicyInv, Policied, PolicyQuestions
<1>2. Given1 = d
  BY DEF PolicyInv, PolicyAnswered, Given1
<1>3. blast = "account" <=> asked.targets > 50
  <2>1. asked.targets \in Nat
    BY <1>1, DecisionsAssumption
  <2>2. QED
    BY <1>1, <2>1, Accounts
<1>4. asked.actionType \in {"read", "write"} /\ (Write <=> asked.actionType = "write")
  BY <1>1 DEF ActionType, Write
<1> HIDE DEF risk, blast, d
<1>5. CASE asked.answer \in Decisions \cup {NoDecision}
  <2>1. /\ asked.actionType = "read" => risk = "read" /\ d = said
        /\ asked.actionType = "write" => risk # "read" /\
              d = IF risk = "high" /\ ~asked.breakGlass THEN "deny"
                  ELSE IF blast = "account" THEN "require_approval"
                  ELSE IF said = "allow" /\ (asked.prod \/ risk # "low")
                    THEN "require_approval" ELSE said
    BY <1>1, <1>5, AnswerOverruled DEF d
  <2>2. asked.answer # "error" /\ asked.answer # "unconfigured"
    BY <1>5, NoDecisionApart, Zenon DEF Decisions
  <2>3. /\ said = "allow" => asked.answer \in {"allow", NoDecision}
        /\ asked.answer = "deny" => said = "deny"
        /\ asked.answer = "require_approval" => said = "require_approval"
    BY NoDecisionApart DEF Decisions
  <2> HIDE DEF said
  <2>4. AllowedWritesAreHarmless
    <3> SUFFICES ASSUME Write, d = "allow"
                 PROVE  /\ asked.answer \in {"allow", NoDecision}
                        /\ asked.risk = "low" /\ ~asked.prod /\ ~(asked.targets > 50)
      <4>1. asked.targets \in Int
        BY <1>1, DecisionsAssumption
      <4>2. QED
        BY <1>2, <4>1 DEF AllowedWritesAreHarmless
    <3>1. said = "allow" /\ ~asked.prod /\ risk = "low" /\ blast # "account"
      BY <1>4, <2>1
    <3>2. QED
      BY <1>3, <2>3, <3>1 DEF risk
  <2>5. NoUnbrokenGlass
    BY <1>2, <1>4, <2>1, <2>2 DEF NoUnbrokenGlass, GoesOn, Proceeds, risk
  <2>6. NeverWeakerWithinCluster
    <3> SUFFICES ASSUME ~(asked.targets > 50), Proceeds(d, asked.actionType)
                 PROVE  /\ asked.answer # "deny"
                        /\ asked.answer = "require_approval" => d = "require_approval"
      <4>1. asked.targets \in Int
        BY <1>1, DecisionsAssumption
      <4>2. QED
        BY <1>2, <4>1 DEF NeverWeakerWithinCluster, GoesOn
    <3>1. blast # "account" /\ (d = "allow" \/ (d = "require_approval" /\ asked.actionType = "write"))
      BY <1>3 DEF Proceeds
    <3>2. QED
      BY <1>4, <2>1, <2>3, <3>1
  <2>7. QED
    BY <2>4, <2>5, <2>6 DEF PolicySound
<1>6. CASE asked.answer = "error"
  <2>1. (asked.actionType = "write" => d = "error") /\ (asked.actionType = "read" => d = "allow")
    BY <1>1, <1>6, AnswerMissing DEF d
  <2>2. QED
    BY <1>2, <1>4, <1>6, <2>1 DEF PolicySound, AllowedWritesAreHarmless, NoUnbrokenGlass,
       NeverWeakerWithinCluster, GoesOn, Proceeds
<1>7. CASE asked.answer = "unconfigured"
  <2>1. d = "allow"
    BY <1>1, <1>7, AnswerMissing DEF d
  <2>2. QED
    BY <1>2, <1>7, <2>1 DEF PolicySound, AllowedWritesAreHarmless, NoUnbrokenGlass,
       NeverWeakerWithinCluster, Configured
<1>8. QED
  BY <1>1, <1>5, <1>6, <1>7 DEF Answers

\* Whatever the policy checker answers and however many targets a plan has, the
\* gateway's own rules let no write slip through, and within 50 targets none of
\* them undoes another (policyDecision, blastRadius).
THEOREM PolicyKept == Spec => []PolicySound
BY InitPolicy, NextPolicy, PolicyStateGood, PTL DEF Spec

-----------------------------------------------------------------------------
(***************************************************************************)
(* Tool calls                                                              *)
(***************************************************************************)
\* What holds of a call in the tables of schemas and builders: a builder asks for no
\* field that the schema does not require, and drops none that the schema knows.
CallGood(c) ==
    /\ c.bare \subseteq c.req
    /\ HasCLI(c.tool) /\ ~NameOnly(c) => Fields(c) \subseteq Carriable(c)
    /\ c.tool \in {"kubectl", "helm", "argocd"} =>
          Fields(c) \subseteq Carriable(c) /\ (c.req = {} \/ c.bare # {})
    /\ c.action = "audit_enable" => c.tool = "vault"

LEMMA PlainGood ==
    ASSUME NEW t, NEW a, NEW req, NEW opt, a # "audit_enable"
    PROVE  CallGood(Plain(t, a, req, opt))
BY DEF CallGood, Plain, Call, Fields, Carriable

LEMMA KubectlGood == \A c \in KubectlCalls : CallGood(c)
BY DEF KubectlCalls, CallGood, Plain, Call, Fields, Carriable
LEMMA HelmGood == \A c \in HelmCalls : CallGood(c)
BY PlainGood DEF HelmCalls
LEMMA ArgoGood == \A c \in ArgoCalls : CallGood(c)
BY PlainGood DEF ArgoCalls
LEMMA AwsGood == \A c \in AwsCalls : CallGood(c)
BY PlainGood DEF AwsCalls
LEMMA VaultGood == \A c \in VaultCalls : CallGood(c)
BY DEF VaultCalls, CallGood, Plain, Call, Fields, Carriable, NameOnly, ByName
LEMMA BoundaryGood == \A c \in BoundaryCalls : CallGood(c)
BY DEF BoundaryCalls, CallGood, Call, Fields, Carriable, NameOnly, ByName
LEMMA GithubGood == \A c \in GithubCalls : CallGood(c)
BY PlainGood DEF GithubCalls, CallGood, Call, Fields, Carriable
LEMMA GitlabGood == \A c \in GitlabCalls : CallGood(c)
BY PlainGood DEF GitlabCalls, CallGood, Call, Fields, Carriable
LEMMA GitGood == \A c \in GitCalls : CallGood(c)
BY PlainGood DEF GitCalls, CallGood, Call, Fields, Carriable
LEMMA ApiGood == \A c \in ApiCalls : CallGood(c)
BY DEF ApiCalls, ApiOnly, CallGood, Call, HasCLI

LEMMA OtherGood == \A t : CallGood(OtherCall(t))
BY DEF CallGood, OtherCall, ByName, Call, Fields, Carriable, NameOnly, Known

LEMMA CallsGood == \A c \in Calls : CallGood(c)
BY KubectlGood, HelmGood, ArgoGood, AwsGood, VaultGood, BoundaryGood, GithubGood, GitlabGood,
   GitGood, ApiGood, OtherGood DEF Calls, KnownCalls

\* A request with any fields of its call, of which any may be blank or odd.
AnyRequest(r) == r.call \in Calls /\ r.given \subseteq Fields(r.call)

\* How Router.Execute comes to run a command, or to ask an API.
LEMMA Executed ==
    ASSUME NEW r, NEW s, NEW cli, Execute(r, s, cli).how \in Commands \cup {"api"}
    PROVE  /\ Validated(r)
           /\ Execute(r, s, cli).how \in Commands =>
                 /\ HasCLI(r.call.tool) /\ ArgsOK(r) /\ SandboxRuns(s)
                 /\ Execute(r, s, cli).how = Place(s)
                 /\ Execute(r, s, cli).fields = Carried(r)
           /\ Execute(r, s, cli).how = "api" =>
                 ApiKnows(r) /\ Execute(r, s, cli).fields = ApiCarried(r)
<1>1. CASE ~Validated(r) \/ SandboxRefuses(s, r.call)
  BY <1>1 DEF Execute, Outcome, Commands
<1>2. CASE Validated(r) /\ ~SandboxRefuses(s, r.call)
  <2>1. CASE HasCLI(r.call.tool) /\ cli
    <3>1. CASE ArgsOK(r) /\ SandboxRuns(s)
      <4>1. Execute(r, s, cli) = Outcome(Place(s), Carried(r)) /\ Place(s) \in Commands
        BY <1>2, <2>1, <3>1 DEF Execute, Place, Commands
      <4>2. Execute(r, s, cli).how = Place(s) /\ Execute(r, s, cli).fields = Carried(r)
        BY <4>1 DEF Outcome
      <4>3. Place(s) # "api"
        BY DEF Place
      <4>4. QED
        BY <1>2, <2>1, <3>1, <4>2, <4>3
    <3>2. CASE ~(ArgsOK(r) /\ SandboxRuns(s))
      BY <1>2, <2>1, <3>2 DEF Execute, Outcome, Commands
    <3>3. QED
      BY <3>1, <3>2
  <2>2. CASE ~(HasCLI(r.call.tool) /\ cli)
    <3>1. CASE SupportsAPI(r.call.tool) /\ ApiKnows(r)
      BY <1>2, <2>2, <3>1 DEF Execute, Outcome, Commands
    <3>2. CASE ~(SupportsAPI(r.call.tool) /\ ApiKnows(r))
      BY <1>2, <2>2, <3>2 DEF Execute, Outcome, Commands
    <3>3. QED
      BY <3>1, <3>2
  <2>3. QED
    BY <2>1, <2>2
<1>3. QED
  BY <1>1, <1>2

\* A command carries the input it was given.
LEMMA Carries ==
    ASSUME NEW r, AnyRequest(r), NEW s, NEW cli, Execute(r, s, cli).how \in Commands,
           r.form = "map", ~r.padded, ~NameOnly(r.call)
    PROVE  Execute(r, s, cli).fields = (r.given \ r.blank) \ Shadowed(r)
<1>1. Execute(r, s, cli).fields = Carried(r) /\ HasCLI(r.call.tool)
  BY Executed
<1>2. CallGood(r.call)
  BY CallsGood DEF AnyRequest
<1>3. r.given \subseteq Carriable(r.call)
  BY <1>1, <1>2 DEF CallGood, AnyRequest
<1>4. Carried(r) = ((r.given \ r.blank) \cap Carriable(r.call)) \ Shadowed(r)
  BY DEF Carried, NonBlank, Seen
<1>5. QED
  BY <1>1, <1>3, <1>4

\* Nothing runs without the fields it requires.
LEMMA Complete ==
    ASSUME NEW r, AnyRequest(r), NEW s, NEW cli,
           Execute(r, s, cli).how \in Commands \cup {"api"},
           r.call.tool \in {"kubectl", "helm", "argocd"}, ~r.padded
    PROVE  r.call.req \subseteq Execute(r, s, cli).fields \ r.blank
<1>1. Validated(r)
  BY Executed
<1>2. /\ r.call.req \subseteq Given(r) /\ r.form # "none" /\ r.call.req \cap r.blank = {}
      /\ Given(r) = r.given
  BY <1>1 DEF Validated, SchemaOK, FieldsOK, CheckedTools, Given
<1>3. CallGood(r.call)
  BY CallsGood DEF AnyRequest
<1>4. CASE Execute(r, s, cli).how \in Commands
  <2>1. HasCLI(r.call.tool) /\ ArgsOK(r) /\ Execute(r, s, cli).fields = Carried(r)
    BY <1>4, Executed
  <2>2. /\ r.call.bare \subseteq NonBlank(r) /\ Carried(r) = NonBlank(r) \cap Carriable(r.call)
        /\ r.call.req \subseteq Carriable(r.call) /\ (r.call.req = {} \/ r.call.bare # {})
    BY <1>3, <2>1 DEF ArgsOK, Carried, Shadowed, CallGood, Fields
  <2>3. r.call.bare # {} => Seen(r) = r.given
    BY <2>2 DEF NonBlank, Seen
  <2>4. QED
    BY <1>2, <2>1, <2>2, <2>3 DEF NonBlank
<1>5. CASE Execute(r, s, cli).how = "api"
  <2>1. ApiKnows(r) /\ Execute(r, s, cli).fields = ApiCarried(r)
    BY <1>5, Executed
  <2>2. r.call.tool = "argocd" /\ r.call.action = "status"
    BY <2>1 DEF ApiKnows
  <2>3. <<"argocd", "status", "app">> \in PathCalls
    BY DEF PathCalls
  <2>4. \E p \in PathCalls : p[1] = r.call.tool /\ p[2] = r.call.action
    BY <2>2, <2>3
  <2>5. ApiCarried(r) = r.given
    BY <1>2, <2>4 DEF ApiCarried
  <2>6. QED
    BY <1>2, <2>1, <2>5
<1>6. QED
  BY <1>4, <1>5

\* A good request is not refused.
LEMMA GoodRuns ==
    ASSUME NEW r, AnyRequest(r), NEW cli, Known(r.call), r.form = "map", ~r.padded,
           r.call.req \subseteq r.given, r.blank \cup r.odd = {},
           "metric_data_queries" \notin r.given
    PROVE  Execute(r, OpenSandbox, cli).how # "refused"
<1>1. CallGood(r.call)
  BY CallsGood DEF AnyRequest
<1>2. NonBlank(r) = r.given /\ Given(r) = r.given /\ r.blank = {} /\ r.odd = {}
  BY DEF NonBlank, Seen, Given
<1>3. Validated(r)
  BY <1>2 DEF Validated, SchemaOK, FieldsOK
<1>4. ArgsOK(r)
  BY <1>1, <1>2 DEF ArgsOK, Carried, CallGood
<1>5. ~SandboxRefuses(OpenSandbox, r.call) /\ SandboxRuns(OpenSandbox)
      /\ Place(OpenSandbox) # "refused"
  BY DEF SandboxRefuses, SandboxRuns, Place, OpenSandbox
<1>6. QED
  BY <1>3, <1>4, <1>5 DEF Execute, Outcome

\* Where the sandbox is enforced, a command runs in it.
LEMMA Confined ==
    ASSUME NEW r, NEW s, NEW cli, ConfigOK(s), s.enforce, Execute(r, s, cli).how \in Commands
    PROVE  Execute(r, s, cli).how = "container" /\ s.limited
BY Executed DEF SandboxRuns, ConfigOK, Place

ToolInv ==
    asked.kind = "tool" =>
       /\ AnyRequest(asked.request) /\ ConfigOK(asked.sandbox)
       /\ answer # <<>> => answer = <<Execute(asked.request, asked.sandbox, asked.cli)>>

LEMMA RequestsAny ==
    ASSUME NEW c \in Calls
    PROVE  AnyRequest(Nominal(c)) /\ \A r \in Requests(c) : AnyRequest(r)
BY DEF AnyRequest, Nominal, Requests, GivenSets, Fields

LEMMA InitTool == Init => ToolInv
<1> SUFFICES ASSUME Init, asked.kind = "tool"
             PROVE  answer = <<>> /\ AnyRequest(asked.request) /\ ConfigOK(asked.sandbox)
  BY DEF ToolInv
<1>1. \/ \E c \in Calls, cli \in BOOLEAN : \E r \in Requests(c) :
             asked = ToolQuestion(r, OpenSandbox, cli)
      \/ \E c \in Calls, cli \in BOOLEAN, s \in Sandboxes :
             ConfigOK(s) /\ asked = ToolQuestion(Nominal(c), s, cli)
  BY DEF Init, PolicyQuestions, RulesQuestions, TokenQuestion, AlertQuestions,
         ConstraintQuestion, TemplateQuestion
<1>2. ConfigOK(OpenSandbox)
  BY DEF ConfigOK, OpenSandbox
<1>3. QED
  BY <1>1, <1>2, RequestsAny DEF ToolQuestion, Init

LEMMA NextTool == ToolInv /\ [Next]_vars => ToolInv'
<1> SUFFICES ASSUME ToolInv, [Next]_vars PROVE ToolInv'
  OBVIOUS
<1>1. UNCHANGED asked
  BY DEF Next, vars, DecidePolicy, Authorize, ExecuteTool, Authenticate, PlanAlert,
         CheckConstraints, BuildTemplate, Answer
<1>2. CASE ExecuteTool
  BY <1>1, <1>2 DEF ExecuteTool, Answer, ToolInv
<1>3. CASE ~ExecuteTool
  <2>1. asked.kind # "tool" \/ UNCHANGED answer
    BY <1>3 DEF Next, vars, DecidePolicy, Authorize, Authenticate, PlanAlert,
         CheckConstraints, BuildTemplate, Asked
  <2>2. QED
    BY <1>1, <2>1 DEF ToolInv
<1>4. QED
  BY <1>2, <1>3

\* A tool call becomes a command that carries its input, is complete and is
\* confined, and no good call is refused (Router.Execute).  The lemmas say it of
\* requests with any fields and any flaws at once.
THEOREM CallsKept == Spec => []CallsSound
<1>1. ToolInv => CallsSound
  <2> SUFFICES ASSUME ToolInv, asked.kind = "tool", answer # <<>> PROVE CallsSound
    BY DEF CallsSound, CommandCarriesInput, NothingRunsIncomplete, GoodRequestsRun,
           CommandsAreConfined, Ran, Answered
  <2>1. /\ AnyRequest(asked.request) /\ ConfigOK(asked.sandbox)
        /\ Given1 = Execute(asked.request, asked.sandbox, asked.cli)
    BY DEF ToolInv, Given1
  <2>2. CommandCarriesInput
    <3> SUFFICES ASSUME Given1.how \in Commands, asked.request.form = "map",
                        ~asked.request.padded, ~NameOnly(asked.request.call),
                        NEW filled, filled = asked.request.given \ asked.request.blank
                 PROVE  Given1.fields =
                           IF asked.request.call.action = "audit_enable" /\ "type" \in filled
                           THEN filled \ {"path"} ELSE filled
      BY DEF CommandCarriesInput, Ran
    <3>1. PICK r, sb, cli : r = asked.request /\ sb = asked.sandbox /\ cli = asked.cli
      OBVIOUS
    <3>2. AnyRequest(r) /\ Execute(r, sb, cli).how \in Commands /\ Given1 = Execute(r, sb, cli)
      BY <2>1, <3>1
    <3>3. r.form = "map" /\ ~r.padded /\ ~NameOnly(r.call) /\ filled = r.given \ r.blank
      BY <3>1
    <3>4. Execute(r, sb, cli).fields = (r.given \ r.blank) \ Shadowed(r)
      BY <3>2, <3>3, Carries
    <3>5. Shadowed(r) = IF r.call.action = "audit_enable" /\ "type" \in filled
                        THEN {"path"} ELSE {}
      BY <3>3 DEF Shadowed, NonBlank, Seen
    <3>6. QED
      BY <3>1, <3>2, <3>3, <3>4, <3>5
  <2>3. NothingRunsIncomplete
    BY <2>1, Complete DEF NothingRunsIncomplete, Ran
  <2>4. GoodRequestsRun
    BY <2>1, GoodRuns DEF GoodRequestsRun
  <2>5. CommandsAreConfined
    BY <2>1, Confined DEF CommandsAreConfined, Ran
  <2>6. QED
    BY <2>2, <2>3, <2>4, <2>5 DEF CallsSound
<1>2. QED
  BY <1>1, InitTool, NextTool, PTL DEF Spec

-----------------------------------------------------------------------------
(***************************************************************************)
(* Gateway and router under the Rego rules                                 *)
(***************************************************************************)
RiskyNames == {"delete", "terminate", "rollback", "iam", "policy", "network", "sync", "restart",
               "upgrade", "scale", "project_token_delete", "dashboard_delete", "sync-dry-run",
               "sync-preview"}

LEMMA NotRisky ==
    ASSUME NEW action, action \notin RiskyNames
    PROVE  /\ ~HasAnyWord(action, {"delete", "terminate", "rollback", "iam", "policy", "network"})
           /\ ~HasAnyWord(action, {"sync", "restart", "upgrade", "scale"})
BY DEF RiskyNames, HasAnyWord, HasWord

\* The calls of the tools of which every action is a read.
LEMMA QueriesNotRisky ==
    ASSUME NEW c \in Calls, c.tool \in {"prometheus", "thanos", "tempo"}
    PROVE  c.action \notin RiskyNames
<1>1. CASE c \in ApiCalls
  BY <1>1 DEF ApiCalls, ApiOnly, Call, RiskyNames
<1>2. CASE c.action = "other"
  BY <1>2 DEF RiskyNames
<1>3. c \notin KubectlCalls /\ c \notin HelmCalls /\ c \notin ArgoCalls
  BY DEF KubectlCalls, HelmCalls, ArgoCalls, Plain, Call
<1>4. c \notin AwsCalls /\ c \notin VaultCalls /\ c \notin BoundaryCalls
  BY DEF AwsCalls, VaultCalls, BoundaryCalls, Plain, ByName, Call
<1>5. c \notin GithubCalls /\ c \notin GitlabCalls /\ c \notin GitCalls
  BY DEF GithubCalls, GitlabCalls, GitCalls, Plain, Call
<1>6. QED
  BY <1>1, <1>2, <1>3, <1>4, <1>5 DEF Calls, KnownCalls, OtherCall, ByName, Call

\* The router's two judgements of a call agree: a read has the risk of a read.
LEMMA ReadsHaveReadRisk ==
    ASSUME NEW c \in Calls
    PROVE  /\ RiskForToolAction(c.tool, c.action) \in Risks
           /\ ActionTypeForTool(c.tool, c.action)
                = ActionType(RiskForToolAction(c.tool, c.action))
<1>1. CASE ActionTypeForTool(c.tool, c.action) = "read"
  <2>1. c.action \notin RiskyNames
    <3>1. CASE c.tool \in {"prometheus", "thanos", "tempo"}
      BY <3>1, QueriesNotRisky
    <3>2. CASE c.action \in ReadActions(c.tool)
      BY <3>2 DEF ReadActions, RiskyNames
    <3>3. CASE HasAnyWord(c.action, ReadWords(c.tool))
      <4>1. ReadWords(c.tool) \subseteq {"lookup", "get", "list", "read"}
        BY DEF ReadWords
      <4>2. PICK w \in {"lookup", "get", "list", "read"} : HasWord(c.action, w)
        BY <3>3, <4>1 DEF HasAnyWord
      <4>3. QED
        BY <4>2 DEF HasWord, RiskyNames
    <3>4. QED
      BY <1>1, <3>1, <3>2, <3>3 DEF ActionTypeForTool
  <2>2. RiskForToolAction(c.tool, c.action) = "read"
    BY <1>1, <2>1, NotRisky DEF RiskForToolAction
  <2>3. QED
    BY <1>1, <2>2 DEF ActionType, Risks
<1>2. CASE ActionTypeForTool(c.tool, c.action) = "write"
  <2>1. RiskForToolAction(c.tool, c.action) \in {"low", "medium", "high"}
    BY <1>2 DEF RiskForToolAction
  <2>2. QED
    BY <1>2, <2>1 DEF ActionType, Risks
<1>3. QED
  BY <1>1, <1>2 DEF ActionTypeForTool

\* What the rules say of a call with at most one target.
LEMMA RulesSay ==
    ASSUME NEW risk \in Risks, NEW targets \in {0, 1}, NEW type, type = ActionType(risk),
           NEW d, d = OpaDecision(RulesInput(type, risk, targets))
    PROVE  /\ d \in Decisions
           /\ type = "read" => d = "allow"
           /\ type = "write" => (d = "allow" <=> /\ risk = "low" /\ asked.env # "prod"
                                                 /\ asked.role \in {"admin", "operator"})
<1> DEFINE in == RulesInput(type, risk, targets)
<1>1. /\ in.type = type /\ in.risk = risk /\ in.blast = "namespace" /\ in.targets = targets
      /\ in.env = asked.env /\ in.actor = TRUE /\ in.roles = {asked.role}
      /\ in.tier = TierForRisk(risk)
  BY DEF RulesInput
<1> HIDE DEF in
<1>2. d = OpaDecision(in)
  BY DEF in
<1>3. type = "read" \/ type = "write"
  BY DEF ActionType
<1>4. WriteRoleOK(in) <=> asked.role \in {"admin", "operator"}
  BY <1>1 DEF WriteRoleOK
<1>5. DenyWrite(in) <=> type = "write" /\ ~WriteRoleOK(in)
  <2>1. ~(in.targets > 10)
    BY <1>1
  <2>2. QED
    BY <1>1, <2>1 DEF DenyWrite, WriteAction, EnvAllowed
<1>6. AllowLowWrite(in) <=> type = "write" /\ risk = "low" /\ asked.env # "prod" /\ WriteRoleOK(in)
  BY <1>1, <1>5 DEF AllowLowWrite, WriteAction, ProdEnv
<1>7. AllowRead(in) <=> type = "read"
  BY <1>1 DEF AllowRead
<1>8. QED
  BY <1>2, <1>3, <1>4, <1>6, <1>7 DEF OpaDecision, Decisions

\* The question of the rules, and the two servers' answers.
AskedType == ActionTypeForTool(asked.call.tool, asked.call.action)
AskedRisk == RiskForToolAction(asked.call.tool, asked.call.action)
RouterSays == Authorized(asked.call, AskRules(RulesInput(AskedType, AskedRisk, 0)), TRUE,
                         asked.breakGlass)
GatewaySays == PolicyDecision(AskRules(RulesInput(ActionType(AskedRisk), AskedRisk, 1)),
                              ActionType(AskedRisk), asked.env = "prod", AskedRisk,
                              "namespace", asked.breakGlass)
RulesInv ==
    asked.kind = "rules" =>
       /\ asked \in RulesQuestions
       /\ answer # <<>> => answer = <<[router |-> RouterSays, gateway |-> GatewaySays]>>

LEMMA InitRules == Init => RulesInv
BY DEF Init, RulesInv, PolicyQuestions, ToolQuestion, TokenQuestion, AlertQuestions,
       ConstraintQuestion, TemplateQuestion

LEMMA NextRules == RulesInv /\ [Next]_vars => RulesInv'
<1> SUFFICES ASSUME RulesInv, [Next]_vars PROVE RulesInv'
  OBVIOUS
<1>1. UNCHANGED asked
  BY DEF Next, vars, DecidePolicy, Authorize, ExecuteTool, Authenticate, PlanAlert,
         CheckConstraints, BuildTemplate, Answer
<1>2. RouterSays' = RouterSays /\ GatewaySays' = GatewaySays
  BY <1>1 DEF RouterSays, GatewaySays, AskedType, AskedRisk, AskRules, RulesInput
<1>3. CASE Authorize
  <2>1. answer' = <<[router |-> RouterSays, gateway |-> GatewaySays]>>
    BY <1>3 DEF Authorize, Answer, RouterSays, GatewaySays, AskedType, AskedRisk
  <2>2. QED
    BY <1>1, <1>2, <2>1 DEF RulesInv
<1>4. CASE ~Authorize
  <2>1. asked.kind # "rules" \/ UNCHANGED answer
    BY <1>4 DEF Next, vars, DecidePolicy, ExecuteTool, Authenticate, PlanAlert,
         CheckConstraints, BuildTemplate, Asked
  <2>2. QED
    BY <1>1, <1>2, <2>1 DEF RulesInv
<1>5. QED
  BY <1>3, <1>4

LEMMA RulesStateGood == RulesInv => RulesAgree
<1> SUFFICES ASSUME RulesInv, asked.kind = "rules", answer # <<>> PROVE RulesAgree
  BY DEF RulesAgree, AuthorisedCallsAreHarmless, GatewayAndRouterAgree, Answered
<1>1. /\ asked.call \in Calls /\ asked.role \in {"admin", "operator", "viewer", "service"}
      /\ asked.up \in BOOLEAN /\ asked.breakGlass \in BOOLEAN
  BY DEF RulesInv, RulesQuestions
<1>2. Given1.router = RouterSays /\ Given1.gateway = GatewaySays
  BY DEF RulesInv, Given1
<1>3. AskedRisk \in Risks /\ AskedType = ActionType(AskedRisk) /\ AskedType \in {"read", "write"}
  BY <1>1, ReadsHaveReadRisk DEF AskedRisk, AskedType, ActionTypeForTool
<1> DEFINE zero == OpaDecision(RulesInput(AskedType, AskedRisk, 0))
           one == OpaDecision(RulesInput(AskedType, AskedRisk, 1))
           fine == AskedRisk = "low" /\ asked.env # "prod" /\ asked.role \in {"admin", "operator"}
<1>4. CASE ~asked.up
  <2>1. RouterSays <=> AskedType = "read"
    BY <1>4, NoDecisionApart DEF RouterSays, Authorized, AskRules, AskedType
  <2>2. GatewaySays = IF AskedType = "read" THEN "allow" ELSE "error"
    BY <1>3, <1>4, AnswerMissing DEF GatewaySays, AskRules
  <2>3. QED
    BY <1>2, <2>1, <2>2 DEF RulesAgree, AuthorisedCallsAreHarmless, GatewayAndRouterAgree, AskedType
<1>5. CASE asked.up
  <2>1. /\ zero \in Decisions /\ one \in Decisions
        /\ AskedType = "read" => zero = "allow" /\ one = "allow"
        /\ AskedType = "write" => (zero = "allow" <=> fine) /\ (one = "allow" <=> fine)
    <3>1. /\ zero \in Decisions /\ (AskedType = "read" => zero = "allow")
          /\ AskedType = "write" => (zero = "allow" <=> fine)
      BY <1>3, RulesSay
    <3>2. /\ one \in Decisions /\ (AskedType = "read" => one = "allow")
          /\ AskedType = "write" => (one = "allow" <=> fine)
      BY <1>3, RulesSay
    <3>3. QED
      BY <3>1, <3>2
  <2>2. RouterSays <=> (AskedRisk = "high" => asked.breakGlass) /\ zero = "allow"
    <3>1. AskRules(RulesInput(AskedType, AskedRisk, 0)) = zero
      BY <1>5 DEF AskRules
    <3>2. zero # "error" /\ zero # NoDecision
      BY <2>1, NoDecisionApart DEF Decisions
    <3> HIDE DEF zero
    <3>3. QED
      BY <3>1, <3>2 DEF RouterSays, Authorized, AskedRisk
  <2>3. /\ AskedType = "read" => AskedRisk = "read" /\ GatewaySays = one
        /\ AskedType = "write" => AskedRisk # "read" /\
              GatewaySays = IF AskedRisk = "high" /\ ~asked.breakGlass THEN "deny"
                            ELSE IF one = "allow" /\ (asked.env = "prod" \/ AskedRisk # "low")
                              THEN "require_approval" ELSE one
    <3>1. PICK prod \in BOOLEAN : prod = (asked.env = "prod")
      OBVIOUS
    <3>2. GatewaySays = PolicyDecision(one, AskedType, prod, AskedRisk, "namespace",
                                       asked.breakGlass)
      BY <1>3, <1>5, <3>1 DEF GatewaySays, AskRules
    <3> HIDE DEF one
    <3>3. /\ AskedType = "read" => AskedRisk = "read" /\ GatewaySays = one
          /\ AskedType = "write" => AskedRisk # "read" /\
              GatewaySays = IF AskedRisk = "high" /\ ~asked.breakGlass THEN "deny"
                            ELSE IF one = "allow" /\ (prod \/ AskedRisk # "low")
                              THEN "require_approval" ELSE one
      <4>1. one \in Decisions /\ asked.breakGlass \in BOOLEAN
        BY <1>1, <2>1
      <4>2. QED
        BY <1>3, <3>2, <4>1, NamespaceOverruled
    <3>4. QED
      BY <3>1, <3>3
  <2> HIDE DEF zero, one
  <2>4. RouterSays => AskedType = "read" \/ fine
    BY <1>3, <2>1, <2>2
  <2>5. RouterSays <=> GatewaySays = "allow"
    <3>1. CASE AskedType = "read"
      BY <2>1, <2>2, <2>3, <3>1
    <3>2. CASE AskedType = "write"
      BY <2>1, <2>2, <2>3, <3>2
    <3>3. QED
      BY <1>3, <3>1, <3>2
  <2>6. QED
    BY <1>2, <1>5, <2>4, <2>5 DEF RulesAgree, AuthorisedCallsAreHarmless, GatewayAndRouterAgree,
       AskedType, AskedRisk
<1>6. QED
  BY <1>1, <1>4, <1>5

\* For every call of every tool, role and environment, with the checker up or
\* down: the router runs, of all writes, only low-risk ones outside prod for an
\* admin or an operator, and runs a call exactly when the gateway would let a
\* plan of its risk go on without an approval (authorize, policyDecision, Rego).
THEOREM RulesKept == Spec => []RulesAgree
BY InitRules, NextRules, RulesStateGood, PTL DEF Spec

-----------------------------------------------------------------------------
(***************************************************************************)
(* The constraints of a plan, for a day of any length                      *)
(***************************************************************************)
LEMMA Modulus ==
    ASSUME NEW d \in Nat \ {0}, NEW x \in 0 .. d - 1
    PROVE  x % d = x /\ (x + d) % d = x /\ (x - d) % d = x
BY Z3

\* The hours of a window, counted from its start, are the ones between its two
\* ends, or the ones outside the gap between them if it crosses midnight.
LEMMA HoursBetween ==
    ASSUME NEW a \in 0 .. DayLength - 1, NEW b \in 0 .. DayLength - 1,
           NEW now \in 0 .. DayLength - 1
    PROVE  now \in HoursOf(<<a, b>>) <=>
              \/ b < a /\ (a <= now \/ now <= b)
              \/ b >= a /\ a <= now /\ now <= b
<1> USE DecisionsAssumption
<1> DEFINE last == (b - a) % DayLength
           back == IF now >= a THEN now - a ELSE now - a + DayLength
<1>1. last = IF b >= a THEN b - a ELSE b - a + DayLength
  <2>1. CASE b >= a
    <3>1. b - a \in 0 .. DayLength - 1
      BY <2>1
    <3>2. QED
      BY <2>1, <3>1, Modulus
  <2>2. CASE b < a
    <3>1. b - a + DayLength \in 0 .. DayLength - 1
      BY <2>2
    <3>2. (b - a + DayLength) - DayLength = b - a
      OBVIOUS
    <3>3. QED
      BY <2>2, <3>1, <3>2, Modulus
  <2>3. QED
    BY <2>1, <2>2
<1> HIDE DEF last
<1>2. last \in 0 .. DayLength - 1 /\ back \in 0 .. DayLength - 1
  BY <1>1
<1>3. \A n \in 0 .. DayLength - 1 : (a + n) % DayLength = now <=> n = back
  <2> SUFFICES ASSUME NEW n \in 0 .. DayLength - 1
               PROVE  (a + n) % DayLength = now <=> n = back
    OBVIOUS
  <2>1. CASE a + n < DayLength
    <3>1. a + n \in 0 .. DayLength - 1
      BY <2>1
    <3>2. (a + n) % DayLength = a + n
      BY <3>1, Modulus
    <3>3. QED
      BY <2>1, <3>2
  <2>2. CASE a + n >= DayLength
    <3>1. a + n - DayLength \in 0 .. DayLength - 1
      BY <2>2
    <3>2. (a + n - DayLength) + DayLength = a + n
      OBVIOUS
    <3>3. (a + n) % DayLength = a + n - DayLength
      BY <3>1, <3>2, Modulus
    <3>4. QED
      BY <2>2, <3>3
  <2>3. QED
    BY <2>1, <2>2
<1>4. HoursOf(<<a, b>>) = {(a + n) % DayLength : n \in 0 .. last}
  BY DEF HoursOf, last
<1>5. now \in HoursOf(<<a, b>>) <=> back <= last
  <2>1. 0 .. last \subseteq 0 .. DayLength - 1
    BY <1>2
  <2>2. now \in HoursOf(<<a, b>>) <=> \E n \in 0 .. last : n = back
    BY <1>3, <1>4, <2>1
  <2>3. QED
    BY <1>2, <2>2
<1>6. QED
  BY <1>1, <1>5

\* A plan without inputs counts as one target.
LEMMA NoTargets == EstimateTargets(<<>>) = 1
<1> DEFINE G(f) == [s \in SUBSET (DOMAIN <<>>) |->
                      IF s = {} THEN 0
                      ELSE LET x == CHOOSE y \in s : TRUE
                           IN  f[s \ {x}] + TargetsFromInput(<<>>[x])]
           iter == CHOOSE f : f = G(f)
<1>1. DOMAIN <<>> = {}
  OBVIOUS
<1>2. \A f : G(f) = [s \in {{}} |-> 0]
  BY <1>1
<1> HIDE DEF G
<1>3. iter = [s \in {{}} |-> 0]
  BY <1>2
<1>4. EstimateTargets(<<>>) = Max({1, iter[DOMAIN <<>>]})
  BY DEF EstimateTargets, FoldSeq, FoldFunction, FoldFunctionOnSet, MapThenFoldSet, G
<1>5. iter[DOMAIN <<>>] = 0
  BY <1>1, <1>3
<1>6. EstimateTargets(<<>>) = Max({1, 0})
  BY <1>4, <1>5
<1>7. Max({1, 0}) = 1
  BY DEF Max
<1>8. QED
  BY <1>6, <1>7

\* The question: at an hour of the day, or within a fixed window.
Questioned ==
    /\ \/ asked.now \in 0 .. DayLength - 1
       \/ asked.now \in 2 .. 3 /\ asked.policy.window \in {Absent, <<None, None>>, <<1, 2>>}
    /\ asked.policy.max \in Int /\ asked.request.max \in Int
ConstraintInv ==
    asked.kind = "constraints" =>
       /\ Questioned
       /\ answer # <<>> =>
             answer = <<EnforceConstraints(MergeConstraints(asked.request, asked.policy),
                                           asked.env, asked.inputs, asked.now,
                                           asked.actionType)>>

LEMMA InitConstraint == Init => ConstraintInv
<1> SUFFICES ASSUME Init, asked.kind = "constraints" PROVE Questioned /\ answer = <<>>
  BY DEF ConstraintInv
<1>1. \/ \E w \in Windows, now \in 0 .. DayLength - 1, type \in ActionTypes :
             asked = ConstraintQuestion(Free, [Free EXCEPT !.window = w], "dev", <<>>,
                                        now, type)
      \/ \E request \in SomeConstraints, policy \in SomeConstraints, inputs \in StepInputs,
             now \in 2 .. 3, type \in ActionTypes :
             asked = ConstraintQuestion(request, policy, "dev", inputs, now, type)
  BY DEF Init, PolicyQuestions, RulesQuestions, ToolQuestion, TokenQuestion, AlertQuestions,
         TemplateQuestion
<1>2. /\ Free.max = None /\ None \in Int
      /\ \A w : [Free EXCEPT !.window = w].max = None /\ [Free EXCEPT !.window = w].window = w
  BY DEF Free, Constraint, None
<1>3. \A c \in SomeConstraints : c.max \in Int /\ c.window \in {Absent, <<None, None>>, <<1, 2>>}
  BY <1>2, DecisionsAssumption DEF SomeConstraints, Constraint
<1>4. CASE \E w \in Windows, now \in 0 .. DayLength - 1, type \in ActionTypes :
             asked = ConstraintQuestion(Free, [Free EXCEPT !.window = w], "dev", <<>>,
                                        now, type)
  <2>1. PICK w \in Windows, now \in 0 .. DayLength - 1 :
           /\ asked.now = now /\ asked.request = Free
           /\ asked.policy = [Free EXCEPT !.window = w]
    BY <1>4 DEF ConstraintQuestion
  <2>2. QED
    BY <1>2, <2>1 DEF Questioned, Init
<1>5. CASE \E request \in SomeConstraints, policy \in SomeConstraints, inputs \in StepInputs,
             now \in 2 .. 3, type \in ActionTypes :
             asked = ConstraintQuestion(request, policy, "dev", inputs, now, type)
  <2>1. PICK request \in SomeConstraints, policy \in SomeConstraints, now \in 2 .. 3 :
           asked.now = now /\ asked.request = request /\ asked.policy = policy
    BY <1>5 DEF ConstraintQuestion
  <2>2. QED
    BY <1>3, <2>1 DEF Questioned, Init
<1>6. QED
  BY <1>1, <1>4, <1>5

LEMMA NextConstraint == ConstraintInv /\ [Next]_vars => ConstraintInv'
<1> SUFFICES ASSUME ConstraintInv, [Next]_vars PROVE ConstraintInv'
  OBVIOUS
<1>1. UNCHANGED asked
  BY DEF Next, vars, DecidePolicy, Authorize, ExecuteTool, Authenticate, PlanAlert,
         CheckConstraints, BuildTemplate, Answer
<1>2. CASE CheckConstraints
  BY <1>1, <1>2 DEF CheckConstraints, Answer, ConstraintInv, Questioned
<1>3. CASE ~CheckConstraints
  <2>1. asked.kind # "constraints" \/ UNCHANGED answer
    BY <1>3 DEF Next, vars, DecidePolicy, Authorize, ExecuteTool, Authenticate, PlanAlert,
         BuildTemplate, Asked
  <2>2. QED
    BY <1>1, <2>1 DEF ConstraintInv, Questioned
<1>4. QED
  BY <1>2, <1>3

\* A write passes a maintenance window exactly during its hours, also over
\* midnight and on a day of any length.  Whatever constraints a request brings
\* along, a write that passes meets the policy's window and limit, and its
\* environments unless the policy leaves allowed_envs to the request
\* (enforceConstraints, mergeConstraints, withinMaintenanceWindow).
THEOREM ConstraintsKept == Spec => [](WindowIsCyclic /\ PolicyConstraintsWin)
<1>1. ConstraintInv => WindowIsCyclic /\ PolicyConstraintsWin
  <2> SUFFICES ASSUME ConstraintInv, asked.kind = "constraints", answer # <<>>, Write
               PROVE  WindowIsCyclic /\ PolicyConstraintsWin
    BY DEF WindowIsCyclic, PolicyConstraintsWin, Answered
  <2> DEFINE merged == MergeConstraints(asked.request, asked.policy)
             count == EstimateTargets(asked.inputs)
  <2>1. /\ Questioned
        /\ Given1 <=> /\ EnvAllowedBy(asked.env, merged)
                      /\ WithinMaintenanceWindow(merged.window, asked.now)
                      /\ MaxTargetsConstraint(merged) > 0 => count <= MaxTargetsConstraint(merged)
    <3>1. /\ Questioned
          /\ Given1 = EnforceConstraints(merged, asked.env, asked.inputs, asked.now,
                                         asked.actionType)
      BY DEF ConstraintInv, Given1
    <3> HIDE DEF merged
    <3>2. QED
      BY <3>1 DEF EnforceConstraints, Write
  <2>2. /\ merged.max = IF asked.policy.max = None THEN asked.request.max ELSE asked.policy.max
        /\ merged.window = IF asked.policy.window = Absent THEN asked.request.window
                           ELSE asked.policy.window
        /\ merged.allowed_envs = IF asked.policy.allowed_envs = Absent
                                 THEN asked.request.allowed_envs ELSE asked.policy.allowed_envs
        /\ merged.environments = IF asked.policy.environments = Absent
                                 THEN asked.request.environments ELSE asked.policy.environments
    BY DEF MergeConstraints
  <2>3. \A now : WithinMaintenanceWindow(Absent, now)
    BY DEF WithinMaintenanceWindow, Clocked
  <2> HIDE DEF merged, count
  <2>4. PolicyConstraintsWin
    <3> SUFFICES ASSUME Given1
                 PROVE  /\ \/ EnvAllowedBy(asked.env, asked.policy)
                           \/ /\ asked.policy.allowed_envs = Absent
                              /\ asked.env \in Listed(asked.request.allowed_envs)
                        /\ WithinMaintenanceWindow(asked.policy.window, asked.now)
                        /\ asked.policy.max > 0 => count <= asked.policy.max
                        /\ {asked.policy.max, asked.request.max} \subseteq {None, 0} => count <= 50
      BY DEF PolicyConstraintsWin, count
    <3>1. \/ EnvAllowedBy(asked.env, asked.policy)
          \/ /\ asked.policy.allowed_envs = Absent
             /\ asked.env \in Listed(asked.request.allowed_envs)
      <4>1. EnvAllowedBy(asked.env, merged) /\ Listed(Absent) = {}
        BY <2>1 DEF Listed
      <4>2. QED
        BY <2>2, <4>1 DEF EnvAllowedBy
    <3>2. WithinMaintenanceWindow(asked.policy.window, asked.now)
      BY <2>1, <2>2, <2>3
    <3>3. asked.policy.max > 0 => count <= asked.policy.max
      BY <2>1, <2>2 DEF Questioned, MaxTargetsConstraint, None
    <3>4. {asked.policy.max, asked.request.max} \subseteq {None, 0} => count <= 50
      BY <2>1, <2>2 DEF Questioned, MaxTargetsConstraint, DefaultMaxTargets
    <3>5. QED
      BY <3>1, <3>2, <3>3, <3>4
  <2>5. WindowIsCyclic
    <3> SUFFICES ASSUME asked.request = Free, asked.inputs = <<>>,
                        asked.policy.window \in (0 .. DayLength - 1) \X (0 .. DayLength - 1),
                        asked.policy = [Free EXCEPT !.window = asked.policy.window]
                 PROVE  Given1 <=> asked.now \in HoursOf(asked.policy.window)
      BY DEF WindowIsCyclic
    <3>1. PICK a \in 0 .. DayLength - 1, b \in 0 .. DayLength - 1 : asked.policy.window = <<a, b>>
      OBVIOUS
    <3>2. /\ asked.policy.window # Absent
          /\ None \notin 0 .. DayLength - 1 /\ Unreadable \notin 0 .. DayLength - 1
      BY <3>1 DEF Absent, None, Unreadable
    <3>3. \A c \in {asked.policy, asked.request} :
             c.max = None /\ c.allowed_envs = Absent /\ c.environments = Absent
      <4>1. \A w : LET c == [Free EXCEPT !.window = w]
                   IN  c.max = None /\ c.allowed_envs = Absent /\ c.environments = Absent
        BY DEF Free, Constraint
      <4>2. QED
        BY <4>1 DEF Free, Constraint
    <3>4. /\ merged.max = None /\ merged.window = asked.policy.window
          /\ merged.allowed_envs = Absent /\ merged.environments = Absent
      BY <2>2, <3>2, <3>3
    <3>5. EnvAllowedBy(asked.env, merged)
      BY <3>4 DEF EnvAllowedBy, Listed
    <3>6. count <= MaxTargetsConstraint(merged)
      BY <3>4, NoTargets DEF count, MaxTargetsConstraint, DefaultMaxTargets
    <3>7. Given1 <=> \/ b < a /\ (a <= asked.now \/ asked.now <= b)
                     \/ b >= a /\ a <= asked.now /\ asked.now <= b
      <4>1. Given1 <=> WithinMaintenanceWindow(<<a, b>>, asked.now)
        BY <2>1, <3>1, <3>4, <3>5, <3>6
      <4>2. QED
        BY <3>1, <3>2, <4>1 DEF WithinMaintenanceWindow, Clocked
    <3>8. CASE asked.now \in 0 .. DayLength - 1
      BY <3>1, <3>7, <3>8, HoursBetween
    <3>9. CASE asked.now \in 2 .. 3 /\ asked.now \notin 0 .. DayLength - 1
      <4>1. a = 1 /\ b = 2 /\ asked.now = 3 /\ DayLength = 3
        BY <2>1, <3>1, <3>2, <3>9, DecisionsAssumption DEF Questioned
      <4>2. asked.now \notin HoursOf(<<1, 2>>)
        BY <4>1 DEF HoursOf
      <4>3. QED
        BY <3>1, <3>7, <4>1, <4>2
    <3>10. QED
      BY <2>1, <3>8, <3>9 DEF Questioned
  <2>6. QED
    BY <2>4, <2>5
<1>2. QED
  BY <1>1, InitConstraint, NextConstraint, PTL DEF Spec

-----------------------------------------------------------------------------
(***************************************************************************)
(* Tokens, for every token and every key set                               *)
(***************************************************************************)
LEMMA NoTextApart == NoText \notin {"us", "k1", "k2"}
BY Zenon DEF NoText

LEMMA SelectedKey ==
    ASSUME NEW keys, DOMAIN keys = 1 .. Len(keys), NEW kid, NEW k \in SelectJWK(keys, kid)
    PROVE  k \in Range1(keys) /\ kid \in {k.kid, NoText}
BY DEF SelectJWK, FirstNamed, Range1

\* The only key with a token's id is the first one.
LEMMA OnlyNamed ==
    ASSUME NEW keys, NEW n \in Nat, DOMAIN keys = 1 .. n, NEW kid, kid # NoText,
           NEW k \in Range1(keys), k.kid = kid,
           \A i, j \in DOMAIN keys : keys[i].kid = keys[j].kid => i = j
    PROVE  k \in SelectJWK(keys, kid)
<1>1. PICK i \in DOMAIN keys : k = keys[i]
  BY DEF Range1
<1>2. \A j \in 1 .. i - 1 : j \in DOMAIN keys /\ j # i
  BY <1>1
<1>3. i \in FirstNamed(keys, kid)
  BY <1>1, <1>2 DEF FirstNamed
<1>4. QED
  BY <1>1, <1>3 DEF SelectJWK

\* A server that has a key set accepts exactly these tokens, but for the shared
\* one of the router.
Genuine(req, cfg, keys, now) ==
    /\ req.scheme = "bearer" /\ req.token.parts = 3 /\ req.token.alg = "RS256"
    /\ ValidateClaims(req.token, cfg, now)
    /\ keys # Unreachable
    /\ \E k \in SelectJWK(keys, req.token.kid) : RSAKeyFromJWK(k) /\ VerifyRS256(req.token, k)

LEMMA GatewayExact ==
    ASSUME NEW req, NEW cfg, NEW keys, NEW now, cfg.url
    PROVE  GatewayAccepts(req, cfg, keys, now) <=> Genuine(req, cfg, keys, now)
BY DEF GatewayAccepts, Genuine, ParseBearer, ParseJWTClaims, VerifyJWTSignature

LEMMA RouterExact ==
    ASSUME NEW req, NEW cfg \in AuthConfigs, NEW keys, NEW now, cfg.url
    PROVE  /\ Genuine(req, cfg, keys, now) => RouterAccepts(req, cfg, keys, now)
           /\ RouterAccepts(req, cfg, keys, now) =>
                 Genuine(req, cfg, keys, now) \/ (cfg.shared /\ req.token.secret)
<1> DEFINE strict == [cfg EXCEPT !.dev = FALSE]
<1>1. strict.url = cfg.url /\ strict.issuer = cfg.issuer /\ strict.audience = cfg.audience
  BY DEF AuthConfigs
<1> HIDE DEF strict
<1>2. Genuine(req, strict, keys, now) <=> Genuine(req, cfg, keys, now)
  BY <1>1 DEF Genuine, ValidateClaims
<1>3. GatewayAccepts(req, strict, keys, now) <=> Genuine(req, strict, keys, now)
  BY <1>1, GatewayExact
<1>4. QED
  BY <1>2, <1>3 DEF RouterAccepts, strict

Accepts(server) ==
    IF server = "gateway" THEN GatewayAccepts(asked.request, asked.cfg, asked.keys, Now)
    ELSE RouterAccepts(asked.request, asked.cfg, asked.keys, Now)
KeysTyped == Len(asked.keys) \in Nat /\ DOMAIN asked.keys = 1 .. Len(asked.keys)
TokenInv ==
    asked.kind = "token" =>
       /\ asked.server \in {"gateway", "router"} /\ asked.cfg \in AuthConfigs
       /\ Token.exp \in 0 .. 3 /\ Token.nbf \in 0 .. 3 /\ KeysTyped
       /\ answer # <<>> => (Given1 <=> Accepts(asked.server))

LEMMA InitToken == Init => TokenInv
<1> SUFFICES ASSUME Init, asked.kind = "token"
             PROVE  /\ asked.server \in {"gateway", "router"} /\ asked.cfg \in AuthConfigs
                    /\ Token.exp \in 0 .. 3 /\ Token.nbf \in 0 .. 3 /\ KeysTyped
  BY DEF TokenInv, Init
<1> DEFINE one == <<Key("k1", "RSA", "A")>>
<1> HIDE DEF one
<1>1. PICK server \in {"gateway", "router"}, scheme \in {"bearer", "none", "other"},
           t \in ClaimTokens \cup SignedTokens \cup {GoodToken},
           cfg \in AuthConfigs \cup {FullConfig}, keys \in KeySets \cup {one} :
         asked = TokenQuestion(server, scheme, t, cfg, keys)
  <2>1. \/ \E server \in {"gateway", "router"}, cfg \in AuthConfigs, t \in ClaimTokens :
             asked = TokenQuestion(server, "bearer", t, cfg, one)
        \/ \E server \in {"gateway", "router"}, t \in SignedTokens, keys \in KeySets :
             asked = TokenQuestion(server, "bearer", t, FullConfig, keys)
        \/ \E server \in {"gateway", "router"}, scheme \in {"none", "other"} :
             asked = TokenQuestion(server, scheme, GoodToken, FullConfig, one)
    BY DEF Init, PolicyQuestions, RulesQuestions, ToolQuestion, AlertQuestions,
           ConstraintQuestion, TemplateQuestion, one
  <2>2. QED
    BY <2>1, Zenon
<1>2. FullConfig \in AuthConfigs
  BY DEF FullConfig, AuthConfigs
<1>3. t.exp \in 0 .. 3 /\ t.nbf \in 0 .. 3
  <2>1. CASE t \in ClaimTokens
    BY <2>1 DEF ClaimTokens
  <2>2. CASE t \in SignedTokens
    <3>1. t.exp \in {3} /\ t.nbf \in {1}
      BY <2>2 DEF SignedTokens
    <3>2. QED
      BY <3>1
  <2>3. CASE t = GoodToken
    BY <2>3 DEF GoodToken
  <2>4. QED
    BY <1>1, <2>1, <2>2, <2>3
<1>4. Len(keys) \in Nat /\ DOMAIN keys = 1 .. Len(keys)
  <2>1. \A x : LET s == <<x>> IN Len(s) \in Nat /\ DOMAIN s = 1 .. Len(s)
    OBVIOUS
  <2>2. \A x, y : LET s == <<x, y>> IN Len(s) \in Nat /\ DOMAIN s = 1 .. Len(s)
    OBVIOUS
  <2>3. Len(<<>>) \in Nat /\ DOMAIN <<>> = 1 .. Len(<<>>)
    OBVIOUS
  <2>4. keys = <<>> \/ (\E x : keys = <<x>>) \/ (\E x, y : keys = <<x, y>>)
    BY <1>1 DEF KeySets, Unreachable, one
  <2>5. QED
    BY <2>1, <2>2, <2>3, <2>4
<1>5. QED
  BY <1>1, <1>2, <1>3, <1>4 DEF TokenQuestion, Token, KeysTyped

LEMMA NextToken == TokenInv /\ [Next]_vars => TokenInv'
<1> SUFFICES ASSUME TokenInv, [Next]_vars PROVE TokenInv'
  OBVIOUS
<1>1. UNCHANGED asked
  BY DEF Next, vars, DecidePolicy, Authorize, ExecuteTool, Authenticate, PlanAlert,
         CheckConstraints, BuildTemplate, Answer
<1>2. CASE Authenticate
  <2>1. answer' = <<Accepts(asked.server)>>
    BY <1>2 DEF Authenticate, Answer, Accepts
  <2>2. Given1' = Accepts(asked.server)
    BY <2>1 DEF Given1
  <2>3. QED
    BY <1>1, <2>2 DEF TokenInv, Token, KeysTyped, Accepts
<1>3. CASE ~Authenticate
  <2>1. asked.kind # "token" \/ UNCHANGED answer
    BY <1>3 DEF Next, vars, DecidePolicy, Authorize, ExecuteTool, PlanAlert,
         CheckConstraints, BuildTemplate, Asked
  <2>2. QED
    BY <1>1, <2>1 DEF TokenInv, Token, KeysTyped, Accepts, Given1
<1>4. QED
  BY <1>2, <1>3

\* A server with a key set lets in only tokens that a usable key signed under
\* the token's own id, meant for this server and valid now, and every good token
\* whose id only one key has (AuthMiddleware, authenticate, SelectJWK).
THEOREM TokensKept == Spec => []TokensExact
<1>1. TokenInv => TokensExact
  <2> SUFFICES ASSUME TokenInv, asked.kind = "token", answer # <<>>, asked.cfg.url
               PROVE  TokensExact
    BY DEF TokensExact, AcceptedIsGenuine, GoodTokensPass, Answered
  <2> DEFINE good == Genuine(asked.request, asked.cfg, asked.keys, Now)
  <2>1. /\ asked.server \in {"gateway", "router"} /\ asked.cfg \in AuthConfigs
        /\ Token.exp \in 0 .. 3 /\ Token.nbf \in 0 .. 3 /\ KeysTyped
        /\ Given1 <=> Accepts(asked.server)
    BY DEF TokenInv
  <2>2. good => Given1
    BY <2>1, GatewayExact, RouterExact DEF Accepts
  <2>3. Given1 => good \/ SharedToken
    BY <2>1, GatewayExact, RouterExact DEF Accepts, SharedToken, Token
  <2> HIDE DEF good
  <2>4. AcceptedIsGenuine
    <3> SUFFICES ASSUME good
                 PROVE  /\ \E k \in UsableKeys : k.owner = Token.signer /\ Token.kid \in {k.kid, NoText}
                        /\ asked.cfg.issuer \in {NoText, Token.iss}
                        /\ asked.cfg.audience \in Token.aud \cup {NoText}
                        /\ Token.exp \in {0} \cup (Now + 1 .. 3) /\ Token.nbf <= Now
      BY <2>3 DEF AcceptedIsGenuine
    <3>1. PICK k \in SelectJWK(asked.keys, Token.kid) : RSAKeyFromJWK(k) /\ VerifyRS256(Token, k)
      BY DEF good, Genuine, Token
    <3>2. k \in UsableKeys /\ k.owner = Token.signer /\ Token.kid \in {k.kid, NoText}
      BY <2>1, <3>1, SelectedKey DEF UsableKeys, RSAKeyFromJWK, VerifyRS256, KeysTyped
    <3>3. ValidateClaims(Token, asked.cfg, Now)
      BY DEF good, Genuine, Token
    <3>4. /\ asked.cfg.issuer \in {NoText, Token.iss}
          /\ asked.cfg.audience \in Token.aud \cup {NoText}
      BY <3>3 DEF ValidateClaims, AudienceMatches
    <3>5. Token.exp \in {0} \cup (Now + 1 .. 3) /\ Token.nbf <= Now
      BY <2>1, <3>3 DEF ValidateClaims, Current, Now
    <3>6. QED
      BY <3>2, <3>4, <3>5
  <2>5. GoodTokensPass
    <3> SUFFICES ASSUME asked.request.scheme = "bearer", Token.parts = 3, Token.alg = "RS256",
                        Token.kid # NoText, asked.keys # Unreachable, Token.iss = "us",
                        "us" \in Token.aud, Token.exp > Now, Token.nbf <= Now,
                        \E k \in UsableKeys : k.owner = Token.signer /\ k.kid = Token.kid,
                        \A i, j \in DOMAIN asked.keys :
                           asked.keys[i].kid = asked.keys[j].kid => i = j
                 PROVE  good
      BY <2>2 DEF GoodTokensPass
    <3>1. PICK k \in UsableKeys : k.owner = Token.signer /\ k.kid = Token.kid
      OBVIOUS
    <3>2. k \in SelectJWK(asked.keys, Token.kid) /\ RSAKeyFromJWK(k) /\ VerifyRS256(Token, k)
      BY <2>1, <3>1, OnlyNamed DEF UsableKeys, RSAKeyFromJWK, VerifyRS256, KeysTyped
    <3>3. ValidateClaims(Token, asked.cfg, Now)
      BY <2>1, NoTextApart DEF ValidateClaims, AudienceMatches, Current, AuthConfigs, Now
    <3>4. QED
      BY <3>2, <3>3 DEF good, Genuine, Token
  <2>6. QED
    BY <2>4, <2>5 DEF TokensExact
<1>2. QED
  BY <1>1, InitToken, NextToken, PTL DEF Spec

-----------------------------------------------------------------------------
(***************************************************************************)
(* The plan of an alert, for any number of drafts                          *)
(***************************************************************************)
\* parsePlanSteps has taken the first n drafts when it has appended to out what it
\* keeps of them.
Takes(out, drafts, k) ==
    out = [n \in 0 .. k |->
             IF n = 0 THEN <<>>
             ELSE IF Kept(drafts[n]) THEN Append(out[n - 1], WithStage(drafts[n]))
             ELSE out[n - 1]]

\* The loop goes through all the drafts.
LEMMA LoopRuns ==
    ASSUME NEW drafts, NEW m \in Nat
    PROVE  \E out : Takes(out, drafts, m)
<1> DEFINE Stuck == {k \in Nat : ~\E out : Takes(out, drafts, k)}
<1> SUFFICES ASSUME m \in Stuck PROVE FALSE
  OBVIOUS
<1>1. Stuck \subseteq Nat /\ Stuck # {}
  OBVIOUS
<1> HIDE DEF Stuck
<1>2. PICK k \in Stuck : \A j \in Stuck : ~(<<j, k>> \in OpToRel(<, Nat))
  BY <1>1, NatLessThanWellFounded, WFMin
<1>3. k \in Nat /\ \A j \in Nat : j < k => j \notin Stuck
  BY <1>1, <1>2 DEF OpToRel
<1>4. CASE k = 0
  <2>1. Takes([n \in 0 .. 0 |-> <<>>], drafts, 0)
    BY DEF Takes
  <2>2. QED
    BY <1>4, <2>1 DEF Stuck
<1>5. CASE k # 0
  <2>1. k - 1 \in Nat /\ k - 1 \notin Stuck
    BY <1>3, <1>5
  <2>2. PICK f : Takes(f, drafts, k - 1)
    BY <2>1 DEF Stuck
  <2> DEFINE last == IF Kept(drafts[k]) THEN Append(f[k - 1], WithStage(drafts[k]))
                     ELSE f[k - 1]
             g == [n \in 0 .. k |-> IF n = k THEN last ELSE f[n]]
  <2>3. \A n \in 0 .. k : n # k => g[n] = f[n] /\ n \in 0 .. k - 1
    BY <1>3
  <2>4. \A n \in 0 .. k : g[n] = IF n = 0 THEN <<>>
             ELSE IF Kept(drafts[n]) THEN Append(g[n - 1], WithStage(drafts[n]))
             ELSE g[n - 1]
    <3> SUFFICES ASSUME NEW n \in 0 .. k
                 PROVE  g[n] = IF n = 0 THEN <<>>
                               ELSE IF Kept(drafts[n]) THEN Append(g[n - 1], WithStage(drafts[n]))
                               ELSE g[n - 1]
      OBVIOUS
    <3>1. n # 0 => n - 1 \in 0 .. k /\ n - 1 # k
      BY <1>3
    <3>2. CASE n = k
      BY <1>3, <1>5, <2>3, <3>1, <3>2
    <3>3. CASE n # k
      <4>1. f[n] = IF n = 0 THEN <<>>
                   ELSE IF Kept(drafts[n]) THEN Append(f[n - 1], WithStage(drafts[n]))
                   ELSE f[n - 1]
        BY <2>2, <2>3, <3>3 DEF Takes
      <4>2. n # 0 => g[n - 1] = f[n - 1]
        BY <2>3, <3>1
      <4>3. g[n] = f[n]
        BY <2>3, <3>3
      <4> HIDE DEF g
      <4>4. QED
        BY <4>1, <4>2, <4>3
    <3>4. QED
      BY <3>2, <3>3
  <2>5. Takes(g, drafts, k)
    BY <2>4 DEF Takes
  <2>6. QED
    BY <2>5, <1>3 DEF Stuck
<1>6. QED
  BY <1>4, <1>5

\* What it returns are the drafts it keeps, each with its stage.
LEMMA ParsedKept ==
    ASSUME NEW D, NEW drafts \in Seq(D)
    PROVE  ParsePlanSteps(drafts) \in Seq({WithStage(d) : d \in {d \in D : Kept(d)}})
<1> DEFINE K == {WithStage(d) : d \in {d \in D : Kept(d)}}
           m == Len(drafts)
<1>1. m \in Nat /\ \A n \in 1 .. m : drafts[n] \in D
  OBVIOUS
<1>2. PICK out : Takes(out, drafts, m) /\ ParsePlanSteps(drafts) = out[m]
  <2>1. \E out : Takes(out, drafts, m)
    BY <1>1, LoopRuns
  <2>2. QED
    BY <2>1 DEF ParsePlanSteps, Takes
<1> DEFINE Bad == {n \in 0 .. m : out[n] \notin Seq(K)}
<1>3. Bad = {}
  <2> SUFFICES ASSUME Bad # {} PROVE FALSE
    OBVIOUS
  <2>1. Bad \subseteq Nat
    BY <1>1
  <2> HIDE DEF Bad, K
  <2>2. PICK n \in Bad : \A j \in Bad : ~(<<j, n>> \in OpToRel(<, Nat))
    BY <2>1, NatLessThanWellFounded, WFMin
  <2>3. n \in 0 .. m /\ out[n] \notin Seq(K) /\ \A j \in 0 .. m : j < n => out[j] \in Seq(K)
    BY <1>1, <2>1, <2>2 DEF OpToRel, Bad
  <2>4. out[n] = IF n = 0 THEN <<>>
                 ELSE IF Kept(drafts[n]) THEN Append(out[n - 1], WithStage(drafts[n]))
                 ELSE out[n - 1]
    BY <1>2, <2>3 DEF Takes
  <2>5. CASE n = 0
    BY <2>3, <2>4, <2>5
  <2>6. CASE n # 0
    <3>1. out[n - 1] \in Seq(K) /\ drafts[n] \in D
      BY <1>1, <2>3, <2>6
    <3>2. Kept(drafts[n]) => WithStage(drafts[n]) \in K
      BY <3>1 DEF K
    <3>3. QED
      BY <2>3, <2>4, <2>6, <3>1, <3>2, AppendProperties
  <2>7. QED
    BY <2>5, <2>6
<1>4. QED
  BY <1>1, <1>2, <1>3

\* A call that reads by its plain name reads for the router too, but git status.
ReadsPlainly(c) ==
    c.action \in PlainReads =>
       ActionTypeForTool(c.tool, c.action) = "read" \/ (c.tool = "git" /\ c.action = "status")

LEMMA KubectlPlain == \A c \in KubectlCalls : c.tool = "kubectl" /\ ReadsPlainly(c)
BY DEF KubectlCalls, Plain, Call, ReadsPlainly, PlainReads, ActionTypeForTool, ReadActions
LEMMA HelmPlain == \A c \in HelmCalls : c.tool = "helm" /\ ReadsPlainly(c)
BY DEF HelmCalls, Plain, Call, ReadsPlainly, PlainReads, ActionTypeForTool, ReadActions
LEMMA ArgoPlain == \A c \in ArgoCalls : c.tool = "argocd" /\ ReadsPlainly(c)
BY DEF ArgoCalls, Plain, Call, ReadsPlainly, PlainReads, ActionTypeForTool, ReadActions
LEMMA AwsPlain == \A c \in AwsCalls : c.tool = "aws" /\ ReadsPlainly(c)
BY DEF AwsCalls, Plain, Call, ReadsPlainly, PlainReads
LEMMA VaultPlain == \A c \in VaultCalls : c.tool = "vault" /\ ReadsPlainly(c)
BY DEF VaultCalls, Plain, ByName, Call, ReadsPlainly, PlainReads
LEMMA BoundaryPlain == \A c \in BoundaryCalls : c.tool = "boundary" /\ ReadsPlainly(c)
BY DEF BoundaryCalls, ByName, Call, ReadsPlainly, PlainReads
LEMMA GithubPlain == \A c \in GithubCalls : c.tool = "github" /\ ReadsPlainly(c)
BY DEF GithubCalls, Plain, Call, ReadsPlainly, PlainReads
LEMMA GitlabPlain == \A c \in GitlabCalls : c.tool = "gitlab" /\ ReadsPlainly(c)
BY DEF GitlabCalls, Plain, Call, ReadsPlainly, PlainReads
LEMMA GitPlain == \A c \in GitCalls : c.tool = "git" /\ ReadsPlainly(c)
BY DEF GitCalls, Plain, Call, ReadsPlainly, PlainReads
LEMMA ApiPlain ==
    \A c \in ApiCalls : ~HasCLI(c.tool) /\ ReadsPlainly(c)
BY DEF ApiCalls, ApiOnly, Call, HasCLI, ReadsPlainly, PlainReads, ActionTypeForTool
LEMMA OtherPlain == \A t : OtherCall(t).tool = t /\ ReadsPlainly(OtherCall(t))
BY DEF OtherCall, ByName, Call, ReadsPlainly, PlainReads

LEMMA CallsPlain == \A c \in Calls : ReadsPlainly(c)
BY KubectlPlain, HelmPlain, ArgoPlain, AwsPlain, VaultPlain, BoundaryPlain, GithubPlain,
   GitlabPlain, GitPlain, ApiPlain, OtherPlain DEF Calls, KnownCalls

LEMMA Unregistered == "unregistered" \notin Registry
BY KubectlPlain, HelmPlain, ArgoPlain, AwsPlain, VaultPlain, BoundaryPlain, GithubPlain,
   GitlabPlain, GitPlain, ApiPlain DEF Registry, KnownCalls, HasCLI

LEMMA SomeAreCalls ==
    ASSUME NEW d \in SomeCalls, d[2] # NoName, d[1] \in Registry
    PROVE  \E c \in Calls : c.tool = d[1] /\ c.action = d[2]
<1>1. d \in {<<"kubectl", "get">>, <<"kubectl", "scale">>, <<"vault", "revoke">>,
              <<"git", "status">>}
  BY Unregistered DEF SomeCalls
<1>2. \E c \in KubectlCalls : c.tool = "kubectl" /\ c.action = "get"
  BY DEF KubectlCalls, Plain, Call
<1>3. \E c \in KubectlCalls : c.tool = "kubectl" /\ c.action = "scale"
  BY DEF KubectlCalls, Plain, Call
<1>4. \E c \in VaultCalls : c.tool = "vault" /\ c.action = "revoke"
  BY DEF VaultCalls, ByName, Call
<1>5. \E c \in GitCalls : c.tool = "git" /\ c.action = "status"
  BY DEF GitCalls, Plain, Call
<1>6. QED
  BY <1>1, <1>2, <1>3, <1>4, <1>5 DEF Calls, KnownCalls

\* A plan of no risk has only steps that read by their plain names.
LEMMA RiskRead ==
    ASSUME NEW risk \in Risks, NEW calls, EffectiveRisk(risk, calls) = "read", NEW c \in calls
    PROVE  c.action \in PlainReads
<1> DEFINE S == {RiskOrd(StepRisk(x)) : x \in calls}
<1>1. \A x : /\ StepRisk(x) \in {"read", "low", "medium", "high"}
             /\ StepRisk(x) = "read" => x.action \in PlainReads
  BY DEF StepRisk
<1>2. /\ DOMAIN Ranks = {"read", "low", "medium", "high"}
      /\ RiskOrd("read") = 0 /\ RiskOrd("low") = 1 /\ RiskOrd("medium") = 2
      /\ RiskOrd("high") = 3
  BY DEF Ranks, RiskOrd
<1>3. S \subseteq 0 .. 3 /\ S # {} /\ RiskOrd(StepRisk(c)) \in S
  BY <1>1, <1>2
<1> HIDE DEF S
<1>4. Max(S) \in S /\ \A v \in S : v <= Max(S)
  <2>1. \E v \in S : \A w \in S : w <= v
    <3>1. \A w \in S : w = 0 \/ w = 1 \/ w = 2 \/ w = 3
      BY <1>3
    <3>2. CASE 3 \in S
      BY <3>1, <3>2
    <3>3. CASE 3 \notin S /\ 2 \in S
      BY <3>1, <3>3
    <3>4. CASE 3 \notin S /\ 2 \notin S /\ 1 \in S
      BY <3>1, <3>4
    <3>5. CASE 3 \notin S /\ 2 \notin S /\ 1 \notin S
      <4>1. 0 \in S /\ \A w \in S : w = 0
        BY <1>3, <3>1, <3>5
      <4>2. QED
        BY <4>1
    <3>6. QED
      BY <3>2, <3>3, <3>4, <3>5
  <2>2. Max(S) = CHOOSE v \in S : \A w \in S : v >= w
    BY DEF Max
  <2>3. \E v \in S : \A w \in S : v >= w
    BY <1>3, <2>1
  <2>4. Max(S) \in S /\ \A w \in S : Max(S) >= w
    BY <2>2, <2>3
  <2>5. QED
    BY <1>3, <2>4
<1>5. PICK l \in DOMAIN Ranks : RiskFromSteps(calls) = l /\ RiskOrd(l) = Max(S)
  <2>1. calls # {}
    OBVIOUS
  <2>2. \E l \in DOMAIN Ranks : RiskOrd(l) = Max(S)
    <3>1. Max(S) = 0 \/ Max(S) = 1 \/ Max(S) = 2 \/ Max(S) = 3
      <4>1. Max(S) \in 0 .. 3
        BY <1>3, <1>4
      <4>2. QED
        BY <4>1
    <3>2. QED
      BY <1>2, <3>1
  <2>3. RiskFromSteps(calls) = CHOOSE l \in DOMAIN Ranks : RiskOrd(l) = Max(S)
    BY <2>1 DEF RiskFromSteps, S
  <2>4. QED
    BY <2>2, <2>3
<1>6. l = "read"
  <2>1. Higher(risk, l) = "read"
    BY <1>5 DEF EffectiveRisk
  <2>2. risk \in {"read", "low", "medium", "high"}
    BY DEF Risks
  <2>3. QED
    BY <1>2, <1>5, <2>1, <2>2 DEF Higher
<1>7. RiskOrd(StepRisk(c)) <= 0
  BY <1>2, <1>3, <1>4, <1>5, <1>6
<1>8. QED
  BY <1>1, <1>2, <1>7

\* A plan without an approval comes from an intent that reads.
LEMMA IntentRead ==
    ASSUME NEW risk \in Risks, NEW calls, EffectiveRisk(risk, calls) = "read"
    PROVE  risk = "read"
BY DEF EffectiveRisk, Higher, RiskOrd, Ranks, Risks

\* A draft that parsePlanSteps keeps names a call of the tables.
NamesCall(d) == \E c \in Calls : c.tool = d.tool /\ c.action = d.action
GoodDraft(d) == (\E s, t, a : d = Draft(s, t, a)) /\ (Kept(d) => NamesCall(d))
GoodDrafts(drafts) == \E D : drafts \in Seq(D) /\ \A d \in D : GoodDraft(d)
AlertInv ==
    asked.kind = "alert" =>
       /\ asked.risk \in Risks /\ GoodDrafts(asked.drafts)
       /\ answer # <<>> => answer = <<AlertPlan(asked.risk, asked.drafts, asked.diagnostics)>>

LEMMA InitAlert == Init => AlertInv
<1> SUFFICES ASSUME Init, asked.kind = "alert"
             PROVE  asked.risk \in Risks /\ GoodDrafts(asked.drafts)
  BY DEF AlertInv, Init
<1>1. asked \in AlertQuestions
  BY DEF Init, PolicyQuestions, RulesQuestions, ToolQuestion, TokenQuestion,
         ConstraintQuestion, TemplateQuestion
<1>2. asked.risk \in Risks /\ asked.drafts \in {<<>>} \cup OneDraft \cup TwoDrafts
  BY <1>1 DEF AlertQuestions
<1> DEFINE D == {Draft(s, c[1], c[2]) : s \in Stages, c \in SomeCalls}
                  \cup {Draft(s, c.tool, c.action) : s \in Stages, c \in Calls}
<1>3. asked.drafts \in Seq(D)
  <2>1. CASE asked.drafts = <<>>
    BY <2>1
  <2>2. CASE asked.drafts \in OneDraft
    <3>1. PICK s \in Stages, c \in Calls : asked.drafts = <<Draft(s, c.tool, c.action)>>
      BY <2>2 DEF OneDraft
    <3>2. Draft(s, c.tool, c.action) \in D
      OBVIOUS
    <3> HIDE DEF D
    <3>3. QED
      BY <3>1, <3>2
  <2>3. CASE asked.drafts \in TwoDrafts
    <3>1. PICK s \in Stages, t \in Stages, c \in SomeCalls, d \in SomeCalls :
             asked.drafts = <<Draft(s, c[1], c[2]), Draft(t, d[1], d[2])>>
      BY <2>3 DEF TwoDrafts
    <3>2. Draft(s, c[1], c[2]) \in D /\ Draft(t, d[1], d[2]) \in D
      OBVIOUS
    <3> HIDE DEF D
    <3>3. QED
      BY <3>1, <3>2
  <2>4. QED
    BY <1>2, <2>1, <2>2, <2>3
<1>4. ASSUME NEW d \in D
      PROVE  GoodDraft(d)
  <2>1. CASE d \in {Draft(s, c[1], c[2]) : s \in Stages, c \in SomeCalls}
    <3>1. PICK s \in Stages, c \in SomeCalls : d = Draft(s, c[1], c[2])
      BY <2>1
    <3>2. d.tool = c[1] /\ d.action = c[2]
      BY <3>1 DEF Draft
    <3>3. QED
      BY <3>1, <3>2, SomeAreCalls DEF GoodDraft, NamesCall, Kept
  <2>2. CASE d \in {Draft(s, c.tool, c.action) : s \in Stages, c \in Calls}
    <3>1. PICK s \in Stages, c \in Calls : d = Draft(s, c.tool, c.action)
      BY <2>2
    <3>2. d.tool = c.tool /\ d.action = c.action
      BY <3>1 DEF Draft
    <3>3. QED
      BY <3>1, <3>2 DEF GoodDraft, NamesCall
  <2>3. QED
    BY <2>1, <2>2
<1> HIDE DEF D
<1>5. QED
  BY <1>2, <1>3, <1>4 DEF GoodDrafts

LEMMA NextAlert == AlertInv /\ [Next]_vars => AlertInv'
<1> SUFFICES ASSUME AlertInv, [Next]_vars PROVE AlertInv'
  OBVIOUS
<1>1. UNCHANGED asked
  BY DEF Next, vars, DecidePolicy, Authorize, ExecuteTool, Authenticate, PlanAlert,
         CheckConstraints, BuildTemplate, Answer
<1>2. CASE PlanAlert
  BY <1>1, <1>2 DEF PlanAlert, Answer, AlertInv
<1>3. CASE ~PlanAlert
  <2>1. asked.kind # "alert" \/ UNCHANGED answer
    BY <1>3 DEF Next, vars, DecidePolicy, Authorize, ExecuteTool, Authenticate,
         CheckConstraints, BuildTemplate, Asked
  <2>2. QED
    BY <1>1, <2>1 DEF AlertInv
<1>4. QED
  BY <1>2, <1>3

\* A write always gets a verify step at the end, after all the steps parsed.
LEMMA Verified ==
    ASSUME NEW risk, risk # "read", NEW D, NEW drafts \in Seq(D), NEW diagnostics
    PROVE  LET steps == AlertPlan(risk, drafts, diagnostics).steps
           IN  /\ \E i \in DOMAIN steps : steps[i].stage = "verify"
               /\ IsPrefix(ParsePlanSteps(drafts), steps)
<1> DEFINE parsed == ParsePlanSteps(drafts)
           step == DefaultVerifyStep(diagnostics)
           steps == AlertPlan(risk, drafts, diagnostics).steps
           K == {WithStage(d) : d \in {d \in D : Kept(d)}}
<1>1. parsed \in Seq(K)
  BY ParsedKept
<1>2. step.stage = "verify"
  BY DEF DefaultVerifyStep, VerifyStep
<1>3. steps = IF parsed = <<>> THEN <<step>> ELSE EnsureVerifySteps(parsed, diagnostics)
  BY DEF AlertPlan
<1> HIDE DEF parsed, step, steps, K
<1>4. parsed \in Seq(K \cup {step})
  BY <1>1
<1>5. CASE parsed = <<>>
  <2>1. steps = <<step>>
    BY <1>3, <1>5
  <2>2. IsPrefix(<<>>, <<step>>)
    BY DEF IsPrefix
  <2>3. 1 \in DOMAIN <<step>> /\ <<step>>[1] = step
    OBVIOUS
  <2>4. QED
    BY <1>2, <1>5, <2>1, <2>2, <2>3 DEF steps, parsed
<1>6. CASE parsed # <<>> /\ HasVerifyStage(parsed)
  <2>1. steps = parsed
    BY <1>3, <1>6 DEF EnsureVerifySteps
  <2>2. IsPrefix(parsed, parsed)
    BY <1>1 DEF IsPrefix
  <2>3. QED
    BY <1>6, <2>1, <2>2 DEF HasVerifyStage, steps, parsed
<1>7. CASE parsed # <<>> /\ ~HasVerifyStage(parsed)
  <2>1. steps = Append(parsed, step)
    BY <1>3, <1>7 DEF EnsureVerifySteps, step
  <2>2. /\ Append(parsed, step) \in Seq(K \cup {step})
        /\ Len(Append(parsed, step)) = Len(parsed) + 1
        /\ \A i \in 1 .. Len(parsed) : Append(parsed, step)[i] = parsed[i]
        /\ Append(parsed, step)[Len(parsed) + 1] = step
    BY <1>4, AppendProperties
  <2>3. Len(parsed) \in Nat /\ Len(parsed) + 1 \in DOMAIN steps
    BY <1>1, <2>1, <2>2
  <2>4. IsPrefix(parsed, steps)
    BY <1>1, <2>1, <2>2 DEF IsPrefix
  <2>5. QED
    BY <1>2, <2>1, <2>2, <2>3, <2>4 DEF steps, parsed
<1>8. QED
  BY <1>5, <1>6, <1>7

\* What needs no approval only reads.
LEMMA OnlyReads ==
    ASSUME NEW risk \in Risks, NEW D, NEW drafts \in Seq(D), NEW diagnostics,
           \A d \in D : GoodDraft(d),
           ~AlertPlan(risk, drafts, diagnostics).approval,
           NEW c \in CallsOf(AlertPlan(risk, drafts, diagnostics).steps)
    PROVE  \/ ActionTypeForTool(c.tool, c.action) = "read"
           \/ c = CallOf("git", "status")
<1> DEFINE plan == AlertPlan(risk, drafts, diagnostics)
           parsed == ParsePlanSteps(drafts)
           K == {WithStage(d) : d \in {d \in D : Kept(d)}}
<1>1. EffectiveRisk(risk, CallsOf(plan.steps)) = "read"
  BY DEF AlertPlan
<1>2. risk = "read"
  BY <1>1, IntentRead
<1>3. plan.steps = parsed
  BY <1>2 DEF AlertPlan
<1>4. parsed \in Seq(K)
  BY ParsedKept
<1>5. PICK i \in DOMAIN parsed : c = CallOf(parsed[i].tool, parsed[i].action)
  BY <1>3 DEF CallsOf
<1>6. PICK d \in D : Kept(d) /\ parsed[i] = WithStage(d)
  <2>1. parsed[i] \in K
    <3> HIDE DEF K, parsed
    <3>1. QED
      BY <1>4, <1>5
  <2>2. QED
    BY <2>1
<1>7. NamesCall(d) /\ WithStage(d).tool = d.tool /\ WithStage(d).action = d.action
  BY <1>6 DEF GoodDraft, WithStage, Draft
<1>8. c = CallOf(d.tool, d.action)
  BY <1>5, <1>6, <1>7
<1>9. c \in Calls /\ c.tool = d.tool /\ c.action = d.action
  BY <1>7, <1>8 DEF CallOf, NamesCall
<1>10. c.action \in PlainReads
  BY <1>1, RiskRead
<1>11. \/ ActionTypeForTool(c.tool, c.action) = "read"
       \/ c.tool = "git" /\ c.action = "status"
  BY <1>9, <1>10, CallsPlain DEF ReadsPlainly
<1>12. QED
  BY <1>8, <1>9, <1>11

\* A plan made from an alert gets its verify step after all the steps parsed, and
\* what needs no approval only reads (RunAlertEventLoop, parsePlanSteps,
\* ensureVerifySteps, riskFromStepDrafts).
THEOREM AlertPlansKept == Spec => [](AlertPlansGetVerified /\ UnapprovedPlansOnlyRead)
<1>1. AlertInv => AlertPlansGetVerified /\ UnapprovedPlansOnlyRead
  <2> SUFFICES ASSUME AlertInv, asked.kind = "alert", answer # <<>>
               PROVE  AlertPlansGetVerified /\ UnapprovedPlansOnlyRead
    BY DEF AlertPlansGetVerified, UnapprovedPlansOnlyRead, Answered
  <2>1. /\ asked.risk \in Risks
        /\ Given1 = AlertPlan(asked.risk, asked.drafts, asked.diagnostics)
    BY DEF AlertInv, Given1
  <2>2. PICK D : asked.drafts \in Seq(D) /\ \A d \in D : GoodDraft(d)
    BY DEF AlertInv, GoodDrafts
  <2>3. AlertPlansGetVerified
    BY <2>1, <2>2, Verified DEF AlertPlansGetVerified
  <2>4. UnapprovedPlansOnlyRead
    BY <2>1, <2>2, OnlyReads DEF UnapprovedPlansOnlyRead
  <2>5. QED
    BY <2>3, <2>4
<1>2. QED
  BY <1>1, InitAlert, NextAlert, PTL DEF Spec

\* Every rule about plans: what an alert's plan contains and may do unapproved,
\* and the constraints a plan must meet.
THEOREM PlanRulesKept == Spec => []PlanRulesSound
BY AlertPlansKept, ConstraintsKept, PTL DEF PlanRulesSound

-----------------------------------------------------------------------------
(***************************************************************************)
(* Templates                                                               *)
(***************************************************************************)
\* What the tables say of a tool's action: the fields required and all of them.
Tabled(tool, action, req, fields) ==
    LET c == CallOf(tool, action)
    IN  /\ c \in Calls /\ c.tool = tool /\ c.action = action
        /\ c.req = req /\ Fields(c) = fields

\* A call is in the table of its tool.
LEMMA InTable ==
    ASSUME NEW c \in Calls, c.action # "other"
    PROVE  /\ c.tool = "kubectl" => c \in KubectlCalls
           /\ c.tool = "helm" => c \in HelmCalls
           /\ c.tool = "argocd" => c \in ArgoCalls
           /\ c.tool = "vault" => c \in VaultCalls
           /\ ~HasCLI(c.tool) => c \in ApiCalls
<1>1. c \in KnownCalls
  BY DEF Calls, OtherCall, ByName, Call
<1>2. QED
  BY <1>1, KubectlPlain, HelmPlain, ArgoPlain, AwsPlain, VaultPlain, BoundaryPlain, GithubPlain,
     GitlabPlain, GitPlain, ApiPlain DEF KnownCalls, HasCLI

\* The entry of a table that the action's name picks.
LEMMA FromTable ==
    ASSUME NEW T \in SUBSET Calls, NEW tool, NEW action, NEW req, NEW fields,
           \A c \in Calls : c.tool = tool /\ c.action = action => c \in T,
           \E c \in T : c.tool = tool /\ c.action = action,
           \A c \in T : c.tool = tool /\ c.action = action => c.req = req /\ Fields(c) = fields
    PROVE  Tabled(tool, action, req, fields)
<1>1. \E c \in Calls : c.tool = tool /\ c.action = action
  OBVIOUS
<1>2. CallOf(tool, action) \in Calls /\ CallOf(tool, action).tool = tool
        /\ CallOf(tool, action).action = action
  BY <1>1 DEF CallOf
<1>3. QED
  BY <1>2 DEF Tabled

LEMMA KubectlTabled ==
    /\ Tabled("kubectl", "scale", {"resource", "replicas"},
              {"resource", "replicas", "current_replicas", "resource_version"})
    /\ Tabled("kubectl", "rollout-status", {"resource"}, {"resource"})
<1>1. KubectlCalls \in SUBSET Calls
  BY DEF Calls, KnownCalls
<1>2. /\ \E c \in KubectlCalls : c.tool = "kubectl" /\ c.action = "scale"
      /\ \E c \in KubectlCalls : c.tool = "kubectl" /\ c.action = "rollout-status"
  BY DEF KubectlCalls, Plain, Call
<1>3. \A c \in KubectlCalls : c.action = "scale" =>
         /\ c.req = {"resource", "replicas"}
         /\ Fields(c) = {"resource", "replicas", "current_replicas", "resource_version"}
  BY DEF KubectlCalls, Plain, Call, Fields
<1>4. \A c \in KubectlCalls : c.action = "rollout-status" =>
         c.req = {"resource"} /\ Fields(c) = {"resource"}
  BY DEF KubectlCalls, Plain, Call, Fields
<1>5. Tabled("kubectl", "scale", {"resource", "replicas"},
              {"resource", "replicas", "current_replicas", "resource_version"})
  BY <1>1, <1>2, <1>3, InTable, FromTable
<1>6. Tabled("kubectl", "rollout-status", {"resource"}, {"resource"})
  BY <1>1, <1>2, <1>4, InTable, FromTable
<1>7. QED
  BY <1>5, <1>6
LEMMA HelmTabled ==
    /\ \A a \in {"status", "rollback"} : Tabled("helm", a, {"release"}, {"release", "namespace"})
    /\ Tabled("helm", "upgrade", {"release"}, {"release", "namespace", "chart", "values_ref"})
<1>1. HelmCalls \in SUBSET Calls
  BY DEF Calls, KnownCalls
<1>2. \A a \in {"status", "rollback", "upgrade"} :
         \E c \in HelmCalls : c.tool = "helm" /\ c.action = a
  <2>1. \A a, req, opt : /\ Plain("helm", a, req, opt).tool = "helm"
                         /\ Plain("helm", a, req, opt).action = a
    BY DEF Plain, Call
  <2>2. \A a \in {"status", "rollback"} : Plain("helm", a, {"release"}, {"namespace"}) \in HelmCalls
    BY DEF HelmCalls
  <2>3. Plain("helm", "upgrade", {"release"}, {"namespace", "chart", "values_ref"}) \in HelmCalls
    BY DEF HelmCalls
  <2>4. QED
    BY <2>1, <2>2, <2>3
<1>3. \A c \in HelmCalls : c.action \in {"status", "rollback"} =>
         c.req = {"release"} /\ Fields(c) = {"release", "namespace"}
  BY DEF HelmCalls, Plain, Call, Fields
<1>4. \A c \in HelmCalls : c.action = "upgrade" =>
         c.req = {"release"} /\ Fields(c) = {"release", "namespace", "chart", "values_ref"}
  BY DEF HelmCalls, Plain, Call, Fields
<1>5. ASSUME NEW a \in {"status", "rollback"}
      PROVE  Tabled("helm", a, {"release"}, {"release", "namespace"})
  <2>1. \A c \in Calls : c.tool = "helm" /\ c.action = a => c \in HelmCalls
    BY InTable
  <2>2. \E c \in HelmCalls : c.tool = "helm" /\ c.action = a
    BY <1>2
  <2>3. QED
    BY <1>1, <1>3, <2>1, <2>2, FromTable
<1>6. Tabled("helm", "upgrade", {"release"}, {"release", "namespace", "chart", "values_ref"})
  BY <1>1, <1>2, <1>4, InTable, FromTable
<1>7. QED
  BY <1>5, <1>6
LEMMA ArgoTabled ==
    /\ \A a \in {"sync", "sync-dry-run", "sync-preview", "wait"} :
          Tabled("argocd", a, {"app"}, {"app"})
    /\ Tabled("argocd", "rollback", {"app"}, {"app", "revision"})
<1>1. ArgoCalls \in SUBSET Calls
  BY DEF Calls, KnownCalls
<1>2. \A a \in {"sync", "sync-dry-run", "sync-preview", "wait", "rollback"} :
         \E c \in ArgoCalls : c.tool = "argocd" /\ c.action = a
  <2>1. \A a, req, opt : /\ Plain("argocd", a, req, opt).tool = "argocd"
                         /\ Plain("argocd", a, req, opt).action = a
    BY DEF Plain, Call
  <2>2. \A a \in {"sync", "sync-dry-run", "sync-preview", "wait"} :
           Plain("argocd", a, {"app"}, {}) \in ArgoCalls
    BY DEF ArgoCalls
  <2>3. Plain("argocd", "rollback", {"app"}, {"revision"}) \in ArgoCalls
    BY DEF ArgoCalls
  <2>4. QED
    BY <2>1, <2>2, <2>3
<1>3. \A c \in ArgoCalls : c.action \in {"sync", "sync-dry-run", "sync-preview", "wait"} =>
         c.req = {"app"} /\ Fields(c) = {"app"}
  BY DEF ArgoCalls, Plain, Call, Fields
<1>4. \A c \in ArgoCalls : c.action = "rollback" =>
         c.req = {"app"} /\ Fields(c) = {"app", "revision"}
  BY DEF ArgoCalls, Plain, Call, Fields
<1>5. ASSUME NEW a \in {"sync", "sync-dry-run", "sync-preview", "wait"}
      PROVE  Tabled("argocd", a, {"app"}, {"app"})
  <2>1. \A c \in Calls : c.tool = "argocd" /\ c.action = a => c \in ArgoCalls
    BY InTable
  <2>2. \E c \in ArgoCalls : c.tool = "argocd" /\ c.action = a
    BY <1>2
  <2>3. QED
    BY <1>1, <1>3, <2>1, <2>2, FromTable
<1>6. Tabled("argocd", "rollback", {"app"}, {"app", "revision"})
  BY <1>1, <1>2, <1>4, InTable, FromTable
<1>7. QED
  BY <1>5, <1>6
LEMMA VaultTabled == \A a \in {"renew", "revoke"} : Tabled("vault", a, {}, {"lease_id"})
<1>1. VaultCalls \in SUBSET Calls
  BY DEF Calls, KnownCalls
<1>2. \A a \in {"renew", "revoke"} : \E c \in VaultCalls : c.tool = "vault" /\ c.action = a
  BY DEF VaultCalls, ByName, Call
<1>3. \A c \in VaultCalls : c.action \in {"renew", "revoke"} =>
         c.req = {} /\ Fields(c) = {"lease_id"}
  BY DEF VaultCalls, ByName, Plain, Call, Fields
<1>4. ASSUME NEW a \in {"renew", "revoke"}
      PROVE  Tabled("vault", a, {}, {"lease_id"})
  <2>1. \A c \in Calls : c.tool = "vault" /\ c.action = a => c \in VaultCalls
    BY InTable
  <2>2. \E c \in VaultCalls : c.tool = "vault" /\ c.action = a
    BY <1>2
  <2>3. \A c \in VaultCalls : c.tool = "vault" /\ c.action = a =>
           c.req = {} /\ Fields(c) = {"lease_id"}
    BY <1>3
  <2>4. QED
    BY <1>1, <2>1, <2>2, <2>3, FromTable
<1>5. QED
  BY <1>4
LEMMA ApiTabled ==
    /\ Tabled("prometheus", "query", {"query"}, {"query"})
    /\ Tabled("prometheus", "rules", {}, {})
    /\ Tabled("tempo", "traceql", {"query"}, {"query"})
    /\ Tabled("tempo", "trace_by_id", {"trace_id"}, {"trace_id"})
    /\ Tabled("grafana", "annotate", {}, {"text", "tags"})
<1> DEFINE Api(tool, action, req, fields) ==
             /\ \E c \in ApiCalls : c.tool = tool /\ c.action = action
             /\ \A c \in ApiCalls : c.tool = tool /\ c.action = action =>
                   c.req = req /\ Fields(c) = fields
<1>1. ApiCalls \in SUBSET Calls
  BY DEF Calls, KnownCalls
<1>2. ASSUME NEW tool \in {"prometheus", "tempo", "grafana"}, NEW action, action # "other",
             NEW req, NEW fields, Api(tool, action, req, fields)
      PROVE  Tabled(tool, action, req, fields)
  BY <1>1, <1>2, InTable, FromTable DEF HasCLI
<1>3. Api("prometheus", "query", {"query"}, {"query"})
  BY DEF ApiCalls, ApiOnly, Call, Fields
<1>4. Api("prometheus", "rules", {}, {})
  BY DEF ApiCalls, ApiOnly, Call, Fields
<1>5. Api("tempo", "traceql", {"query"}, {"query"})
  BY DEF ApiCalls, ApiOnly, Call, Fields
<1>6. Api("tempo", "trace_by_id", {"trace_id"}, {"trace_id"})
  BY DEF ApiCalls, ApiOnly, Call, Fields
<1>7. Api("grafana", "annotate", {}, {"text", "tags"})
  BY DEF ApiCalls, ApiOnly, Call, Fields
<1> HIDE DEF Api
<1>8. QED
  BY <1>2, <1>3, <1>4, <1>5, <1>6, <1>7

\* A step is accepted when the router takes the request it becomes, and its fields
\* reach the command.
Accepted(s) ==
    LET r == RequestOf(s)
    IN  /\ Validated(r) /\ s.given \subseteq Fields(s.call)
        /\ HasCLI(s.call.tool) /\ s.call.tool # "vault"
             => ArgsOK(r) /\ Carried(r) = s.given \ s.blank

LEMMA AcceptedIf ==
    ASSUME NEW tool, tool \notin {"boundary", "aws"}, NEW action, action # "other",
           NEW req, NEW fields, Tabled(tool, action, req, fields), NEW s, s.call = CallOf(tool, action),
           req \subseteq s.given, s.given \subseteq fields, "metric_data_queries" \notin fields,
           s.blank \cap (req \cup Numbers \cup {"values_ref"}) = {}
    PROVE  Accepted(s)
<1> DEFINE c == CallOf(tool, action)
           r == RequestOf(s)
<1>1. c \in Calls /\ c.tool = tool /\ c.action = action /\ c.req = req /\ Fields(c) = fields
  BY DEF Tabled
<1>2. /\ r.call = c /\ r.given = s.given /\ r.blank = s.blank /\ r.odd = {}
      /\ r.form = "map" /\ r.padded = FALSE
  BY DEF RequestOf
<1> HIDE DEF c, r
<1>3. Given(r) = s.given /\ Seen(r) = s.given
  BY <1>2 DEF Given, Seen
<1>4. Validated(r)
  BY <1>1, <1>2, <1>3 DEF Validated, SchemaOK, FieldsOK, Known
<1>5. ASSUME HasCLI(tool), tool # "vault"
      PROVE  ArgsOK(r) /\ Carried(r) = s.given \ s.blank
  <2>1. c.bare \subseteq c.req /\ Fields(c) \subseteq Carriable(c)
    <3>1. ~NameOnly(c)
      BY <1>1, <1>5 DEF NameOnly, Known
    <3>2. QED
      BY <1>1, <1>5, <3>1, CallsGood DEF CallGood
  <2>2. Carried(r) = s.given \ s.blank
    <3>1. Shadowed(r) = {}
      BY <1>1, <1>2, <1>5, CallsGood DEF CallGood, Shadowed
    <3>2. QED
      BY <1>1, <1>2, <1>3, <2>1, <3>1 DEF Carried, NonBlank
  <2>3. ArgsOK(r)
    BY <1>1, <1>2, <1>3, <2>1, <2>2 DEF ArgsOK, NonBlank
  <2>4. QED
    BY <2>2, <2>3
<1>6. QED
  BY <1>1, <1>2, <1>4, <1>5 DEF Accepted, c, r

\* The gateway gives an action a high risk by the words in its name.
NotHigh(c) == ~\E w \in HighRiskActions(c.tool) : InName(c.action, w)
LEMMA RiskCovered ==
    ASSUME NEW c, NotHigh(c)
    PROVE  RiskOrd(StepRisk(c)) <= RiskOrd("medium")
<1>1. StepRisk(c) \in {"read", "low", "medium"}
  BY DEF NotHigh, StepRisk
<1>2. QED
  BY <1>1 DEF RiskOrd, Ranks
LEMMA RiskHighest == \A c : RiskOrd(StepRisk(c)) <= RiskOrd("high")
<1>1. \A c : StepRisk(c) \in {"read", "low", "medium", "high"}
  BY DEF StepRisk
<1>2. QED
  BY <1>1 DEF RiskOrd, Ranks

\* The actions of templates that are not high.
Moderate(tool, action) ==
    \/ tool = "argocd" /\ action \in {"sync", "sync-dry-run", "sync-preview", "wait", "rollback"}
    \/ tool = "helm" /\ action \in {"status", "rollback", "upgrade"}
    \/ tool = "kubectl" /\ action = "rollout-status"
    \/ ~HasCLI(tool)
LEMMA ModerateCovered ==
    ASSUME NEW c, Moderate(c.tool, c.action)
    PROVE  RiskOrd(StepRisk(c)) <= RiskOrd("medium")
<1>1. NotHigh(c)
  BY DEF Moderate, NotHigh, HighRiskActions, InName, HasWord, HasCLI
<1>2. QED
  BY <1>1, RiskCovered

\* A step fits a template: it and its rollbacks are accepted, and within the risk
\* declared.
Fits(limit, s) == Accepted(s) /\ RiskOrd(StepRisk(s.call)) <= limit
FitsAll(limit, s) == Fits(limit, s) /\ \A b \in s.rollback : Fits(limit, b)
\* A step without flaws, with the fields its action requires.
LEMMA PlainFits ==
    ASSUME NEW stage, NEW tool, tool \notin {"boundary", "aws"}, NEW action,
           action # "other", NEW req, NEW fields, Tabled(tool, action, req, fields), NEW given,
           req \subseteq given, given \subseteq fields, "metric_data_queries" \notin fields
    PROVE  LET s == Step(stage, tool, action, given)
           IN  /\ FitsAll(RiskOrd("high"), s)
               /\ Moderate(tool, action) => FitsAll(RiskOrd("medium"), s)
<1> DEFINE s == Step(stage, tool, action, given)
<1>1. /\ s.rollback = {} /\ s.blank = {} /\ s.given = given /\ s.call = CallOf(tool, action)
  BY DEF Step
<1>2. s.call.tool = tool /\ s.call.action = action
  BY <1>1 DEF Tabled
<1> HIDE DEF s
<1>3. Accepted(s)
  BY <1>1, AcceptedIf
<1>4. RiskOrd(StepRisk(s.call)) <= RiskOrd("high")
  BY RiskHighest
<1>5. Moderate(tool, action) => RiskOrd(StepRisk(s.call)) <= RiskOrd("medium")
  BY <1>2, ModerateCovered
<1>6. QED
  BY <1>1, <1>3, <1>4, <1>5 DEF FitsAll, Fits, s

LEMMA FitsMore ==
    ASSUME NEW s, FitsAll(RiskOrd("medium"), s)
    PROVE  FitsAll(RiskOrd("high"), s)
BY RiskHighest DEF FitsAll, Fits

LEMMA ArgoFits ==
    /\ \A stage : \A a \in {"sync", "sync-dry-run", "sync-preview", "wait"} :
          FitsAll(RiskOrd("medium"), Step(stage, "argocd", a, {"app"}))
    /\ FitsAll(RiskOrd("medium"), Act("argocd", "rollback", {"app", "revision"}))
<1>1. ASSUME NEW stage, NEW a \in {"sync", "sync-dry-run", "sync-preview", "wait"}
      PROVE  FitsAll(RiskOrd("medium"), Step(stage, "argocd", a, {"app"}))
  <2>1. Tabled("argocd", a, {"app"}, {"app"}) /\ a # "other" /\ Moderate("argocd", a)
    BY ArgoTabled DEF Moderate
  <2>2. QED
    BY <2>1, PlainFits
<1>2. FitsAll(RiskOrd("medium"), Step("act", "argocd", "rollback", {"app", "revision"}))
  <2>1. Moderate("argocd", "rollback")
    BY DEF Moderate
  <2>2. QED
    BY <2>1, ArgoTabled, PlainFits
<1>3. QED
  BY <1>1, <1>2 DEF Act

LEMMA HelmFits ==
    ASSUME NEW in, NEW stage
    PROVE  /\ \A a \in {"status", "rollback"} : FitsAll(RiskOrd("medium"), Helm(in, stage, a, {}))
           /\ \A more \in SUBSET {"chart", "values_ref"} :
                 FitsAll(RiskOrd("medium"), Helm(in, stage, "upgrade", more))
<1>1. ASSUME NEW a, NEW more
      PROVE  LET s == Helm(in, stage, a, more)
             IN  /\ s.call = CallOf("helm", a) /\ s.given = {"release", "namespace"} \cup more
                 /\ s.blank = {"namespace"} \ in.text /\ s.rollback = {}
  BY DEF Helm, Step
<1>2. ASSUME NEW a \in {"status", "rollback", "upgrade"}, NEW more, NEW fields,
             Tabled("helm", a, {"release"}, fields),
             {"release", "namespace"} \cup more \subseteq fields,
             "metric_data_queries" \notin fields
      PROVE  FitsAll(RiskOrd("medium"), Helm(in, stage, a, more))
  <2> DEFINE s == Helm(in, stage, a, more)
  <2>1. /\ s.call = CallOf("helm", a) /\ s.given = {"release", "namespace"} \cup more
        /\ s.blank = {"namespace"} \ in.text /\ s.rollback = {}
    BY <1>1
  <2> HIDE DEF s
  <2>2. "namespace" \notin {"release"} \cup Numbers \cup {"values_ref"}
    BY DEF Numbers
  <2>3. Accepted(s)
    BY <1>2, <2>1, <2>2, AcceptedIf
  <2>4. s.call.tool = "helm" /\ s.call.action = a
    BY <1>2, <2>1 DEF Tabled
  <2>5. RiskOrd(StepRisk(s.call)) <= RiskOrd("medium")
    BY <2>4, ModerateCovered DEF Moderate
  <2>6. QED
    BY <2>1, <2>3, <2>5 DEF FitsAll, Fits, s
<1>3. ASSUME NEW a \in {"status", "rollback"}
      PROVE  FitsAll(RiskOrd("medium"), Helm(in, stage, a, {}))
  BY <1>2, HelmTabled
<1>4. ASSUME NEW more \in SUBSET {"chart", "values_ref"}
      PROVE  FitsAll(RiskOrd("medium"), Helm(in, stage, "upgrade", more))
  <2>1. {"release", "namespace"} \cup more \subseteq {"release", "namespace", "chart", "values_ref"}
    OBVIOUS
  <2>2. QED
    BY <1>2, <2>1, HelmTabled
<1>5. QED
  BY <1>3, <1>4

LEMMA OthersFit ==
    /\ FitsAll(RiskOrd("medium"), Verify("kubectl", "rollout-status", {"resource"}))
    /\ FitsAll(RiskOrd("medium"), Verify("prometheus", "query", {"query"}))
    /\ FitsAll(RiskOrd("medium"), Verify("prometheus", "rules", {}))
    /\ FitsAll(RiskOrd("medium"), Verify("tempo", "traceql", {"query"}))
    /\ FitsAll(RiskOrd("medium"), Verify("tempo", "trace_by_id", {"trace_id"}))
    /\ FitsAll(RiskOrd("medium"), Act("grafana", "annotate", {"text", "tags"}))
<1>1. ASSUME NEW stage, NEW tool \in {"prometheus", "tempo", "grafana"}, NEW action,
             action # "other", NEW req, NEW fields, Tabled(tool, action, req, fields),
             req \subseteq fields, "metric_data_queries" \notin fields
      PROVE  FitsAll(RiskOrd("medium"), Step(stage, tool, action, fields))
  <2>1. Moderate(tool, action)
    BY <1>1 DEF Moderate, HasCLI
  <2>2. QED
    BY <1>1, <2>1, PlainFits
<1>2. FitsAll(RiskOrd("medium"), Step("verify", "kubectl", "rollout-status", {"resource"}))
  <2>1. Moderate("kubectl", "rollout-status")
    BY DEF Moderate
  <2>2. QED
    BY <2>1, KubectlTabled, PlainFits
<1>3. /\ FitsAll(RiskOrd("medium"), Step("verify", "prometheus", "query", {"query"}))
      /\ FitsAll(RiskOrd("medium"), Step("verify", "prometheus", "rules", {}))
      /\ FitsAll(RiskOrd("medium"), Step("verify", "tempo", "traceql", {"query"}))
  BY <1>1, ApiTabled
<1>4. /\ FitsAll(RiskOrd("medium"), Step("verify", "tempo", "trace_by_id", {"trace_id"}))
      /\ FitsAll(RiskOrd("medium"), Step("act", "grafana", "annotate", {"text", "tags"}))
  BY <1>1, ApiTabled
<1>5. QED
  BY <1>2, <1>3, <1>4 DEF Verify, Act

LEMMA VaultFits ==
    \A a \in {"renew", "revoke"} : FitsAll(RiskOrd("high"), Act("vault", a, {"lease_id"}))
<1>1. ASSUME NEW a \in {"renew", "revoke"}
      PROVE  FitsAll(RiskOrd("high"), Step("act", "vault", a, {"lease_id"}))
  <2>1. Tabled("vault", a, {}, {"lease_id"}) /\ a # "other"
    BY VaultTabled
  <2>2. QED
    BY <2>1, PlainFits
<1>2. QED
  BY <1>1 DEF Act

LEMMA ScaleFits ==
    ASSUME NEW n \in Nat, NEW more \in SUBSET {"current_replicas"}
    PROVE  FitsAll(RiskOrd("high"), Scale(n, more))
<1> DEFINE s == Scale(n, more)
<1>1. /\ s.call = CallOf("kubectl", "scale") /\ s.given = {"resource", "replicas"} \cup more
      /\ s.blank = {} /\ s.rollback = {}
  BY DEF Scale, Act, Step
<1> HIDE DEF s
<1>2. Accepted(s)
  <2>1. /\ {"resource", "replicas"} \subseteq s.given
        /\ s.blank \cap ({"resource", "replicas"} \cup Numbers \cup {"values_ref"}) = {}
        /\ s.given \subseteq {"resource", "replicas", "current_replicas", "resource_version"}
    BY <1>1
  <2>2. QED
    BY <1>1, <2>1, KubectlTabled, AcceptedIf
<1>3. QED
  BY <1>1, <1>2, RiskHighest DEF FitsAll, Fits, s

\* A step with a rollback that fits.
LEMMA RolledFits ==
    ASSUME NEW limit, NEW s, FitsAll(limit, s),
           DOMAIN s = {"stage", "call", "given", "blank", "rollback"},
           s = [x \in DOMAIN s |-> s[x]],
           NEW b, NEW enabled \in BOOLEAN, enabled => FitsAll(limit, b)
    PROVE  FitsAll(limit, Rolled(s, RollbackStep(b, enabled)))
<1> DEFINE q == Rolled(s, RollbackStep(b, enabled))
<1>1. /\ q.call = s.call /\ q.given = s.given /\ q.blank = s.blank
      /\ q.rollback = RollbackStep(b, enabled)
  BY DEF Rolled
<1> HIDE DEF q
<1>2. Accepted(q) /\ StepRisk(q.call) = StepRisk(s.call)
  BY <1>1 DEF Accepted, RequestOf, FitsAll, Fits
<1>3. \A x \in q.rollback : x = b /\ enabled
  BY <1>1 DEF RollbackStep
<1>4. QED
  BY <1>2, <1>3 DEF FitsAll, Fits, q

\* Steps that fit, besides some of the operator's own.
Built(limit, own, steps) == \E G : steps \in Seq(G \cup own) /\ \A s \in G : FitsAll(limit, s)

LEMMA BuiltFrom ==
    ASSUME NEW limit, NEW own, NEW steps, NEW G, steps \in Seq(G \cup own),
           \A s \in G : FitsAll(limit, s)
    PROVE  Built(limit, own, steps)
BY Zenon DEF Built
LEMMA BuiltNone == ASSUME NEW limit, NEW own PROVE Built(limit, own, <<>>)
<1> DEFINE G == {}
<1>1. <<>> \in Seq(G \cup own) /\ \A s \in G : FitsAll(limit, s)
  OBVIOUS
<1> HIDE DEF G
<1>2. QED
  BY <1>1, BuiltFrom
LEMMA BuiltOne == ASSUME NEW limit, NEW own, NEW s, FitsAll(limit, s) PROVE Built(limit, own, <<s>>)
<1> DEFINE G == {s}
<1>1. <<s>> \in Seq(G \cup own) /\ \A x \in G : FitsAll(limit, x)
  OBVIOUS
<1> HIDE DEF G
<1>2. QED
  BY <1>1, BuiltFrom
LEMMA BuiltIf ==
    ASSUME NEW limit, NEW own, NEW s, FitsAll(limit, s), NEW steps, steps \in {<<>>, <<s>>}
    PROVE  Built(limit, own, steps)
BY BuiltNone, BuiltOne
LEMMA BuiltJoin ==
    ASSUME NEW limit, NEW own, NEW s, NEW t, Built(limit, own, s), Built(limit, own, t)
    PROVE  Built(limit, own, s \o t)
<1>1. PICK G : s \in Seq(G \cup own) /\ \A x \in G : FitsAll(limit, x)
  BY DEF Built
<1>2. PICK H : t \in Seq(H \cup own) /\ \A x \in H : FitsAll(limit, x)
  BY DEF Built
<1>3. s \in Seq((G \cup H) \cup own) /\ t \in Seq((G \cup H) \cup own)
  BY <1>1, <1>2
<1>4. s \o t \in Seq((G \cup H) \cup own)
  BY <1>3, ConcatProperties
<1>5. \A x \in G \cup H : FitsAll(limit, x)
  BY <1>1, <1>2
<1>6. QED
  BY <1>4, <1>5, BuiltFrom
LEMMA BuiltMore ==
    ASSUME NEW own, NEW s, Built(RiskOrd("medium"), own, s)
    PROVE  Built(RiskOrd("high"), own, s)
BY FitsMore DEF Built

LEMMA TailBuilt ==
    ASSUME NEW in, NEW own
    PROVE  /\ Built(RiskOrd("medium"), own, PromCheck(in))
           /\ Built(RiskOrd("medium"), own, Annotate)
<1>1. PromCheck(in) \in {<<>>, <<Verify("prometheus", "query", {"query"})>>}
  BY DEF PromCheck, If
<1>2. Built(RiskOrd("medium"), own, PromCheck(in))
  BY <1>1, BuiltIf, OthersFit
<1>3. Built(RiskOrd("medium"), own, Annotate)
  BY BuiltOne, OthersFit DEF Annotate
<1>4. QED
  BY <1>2, <1>3

LEMMA GitOpsBuilt ==
    ASSUME NEW in, NEW own
    PROVE  Built(RiskOrd("medium"), own, BuildGitOpsDeploy(in))
<1> DEFINE m == RiskOrd("medium")
           a == Act("argocd", "sync-dry-run", {"app"})
           b == Act("argocd", "sync-preview", {"app"})
           c == Act("argocd", "sync", {"app"})
           r == Rolled(c, RollbackStep(Act("argocd", "rollback", {"app", "revision"}),
                                       "revision" \in in.text))
           d == Verify("argocd", "wait", {"app"})
<1>1. FitsAll(m, a) /\ FitsAll(m, b) /\ FitsAll(m, c) /\ FitsAll(m, d)
  BY ArgoFits DEF Act, Verify
<1>2. FitsAll(m, r)
  <2>1. DOMAIN c = {"stage", "call", "given", "blank", "rollback"} /\ c = [x \in DOMAIN c |-> c[x]]
    BY DEF Act, Step
  <2>2. ("revision" \in in.text) \in BOOLEAN
    OBVIOUS
  <2> HIDE DEF c
  <2>3. QED
    BY <1>1, <2>1, <2>2, ArgoFits, RolledFits
<1> HIDE DEF a, b, d, r
<1>3. Built(m, own, <<a, b, r, d>>)
  <2> DEFINE G == {a, b, r, d}
  <2>1. <<a, b, r, d>> \in Seq(G \cup own) /\ \A x \in G : FitsAll(m, x)
    BY <1>1, <1>2
  <2> HIDE DEF G
  <2>2. QED
    BY <2>1, BuiltFrom
<1>4. Built(m, own, <<a, b, r, d>> \o PromCheck(in) \o Annotate)
  BY <1>3, TailBuilt, BuiltJoin
<1>5. BuildGitOpsDeploy(in) \in {<<>>, <<a, b, r, d>> \o PromCheck(in) \o Annotate}
  BY DEF BuildGitOpsDeploy, a, b, r, c, d
<1>6. QED
  BY <1>4, <1>5, BuiltNone

LEMMA HelmBuilt ==
    ASSUME NEW in, NEW own
    PROVE  Built(RiskOrd("medium"), own, BuildHelmRelease(in))
<1> DEFINE m == RiskOrd("medium")
           a == Helm(in, "act", "status", {})
           b == Helm(in, "act", "rollback", {})
           c == Helm(in, "act", "upgrade", {"chart", "values_ref"} \cap in.text)
           r == Rolled(c, RollbackStep(b, TRUE))
           d == Helm(in, "verify", "status", {})
           e == Verify("kubectl", "rollout-status", {"resource"})
           mid == IF in.rollback THEN <<b>> ELSE <<r>>
           wait == If("rollout_resource" \in in.text, e)
<1>1. FitsAll(m, a) /\ FitsAll(m, b) /\ FitsAll(m, c) /\ FitsAll(m, d)
  BY HelmFits
<1>2. FitsAll(m, r)
  <2>1. DOMAIN c = {"stage", "call", "given", "blank", "rollback"} /\ c = [x \in DOMAIN c |-> c[x]]
    BY DEF Helm, Step
  <2> HIDE DEF c, b
  <2>2. QED
    BY <1>1, <2>1, RolledFits
<1>3. Built(m, own, wait)
  <2>1. wait \in {<<>>, <<e>>}
    BY DEF If
  <2> HIDE DEF wait
  <2>2. QED
    BY <2>1, OthersFit, BuiltIf
<1> HIDE DEF a, b, d, r, wait
<1>4. Built(m, own, <<a>>) /\ Built(m, own, mid) /\ Built(m, own, <<d>>)
  BY <1>1, <1>2, BuiltOne
<1> HIDE DEF mid
<1>5. Built(m, own, <<a>> \o mid \o <<d>> \o wait \o PromCheck(in) \o Annotate)
  BY <1>3, <1>4, TailBuilt, BuiltJoin
<1>6. BuildHelmRelease(in) \in {<<>>, <<a>> \o mid \o <<d>> \o wait \o PromCheck(in) \o Annotate}
  BY DEF BuildHelmRelease, a, b, r, c, d, mid, wait
<1>7. QED
  BY <1>5, <1>6, BuiltNone

LEMMA ScaleBuilt ==
    ASSUME NEW in, NEW own, in.replicas \in Nat, in.previous \in Int
    PROVE  Built(RiskOrd("high"), own, BuildScaleService(in))
<1> DEFINE h == RiskOrd("high")
           c == Scale(in.replicas, IF in.current > 0 THEN {"current_replicas"} ELSE {})
           b == Scale(in.previous, {})
           r == Rolled(c, RollbackStep(b, in.previous > 0))
           d == Verify("kubectl", "rollout-status", {"resource"})
<1>1. FitsAll(h, c)
  BY ScaleFits
<1>2. in.previous > 0 => FitsAll(h, b)
  BY ScaleFits
<1>3. FitsAll(h, r)
  <2>1. DOMAIN c = {"stage", "call", "given", "blank", "rollback"} /\ c = [x \in DOMAIN c |-> c[x]]
    BY DEF Scale, Act, Step
  <2>2. (in.previous > 0) \in BOOLEAN
    OBVIOUS
  <2> HIDE DEF c, b
  <2>3. QED
    BY <1>1, <1>2, <2>1, <2>2, RolledFits
<1>4. FitsAll(h, d)
  BY OthersFit, FitsMore
<1> HIDE DEF r, d
<1>5. Built(h, own, <<r, d>>)
  <2> DEFINE G == {r, d}
  <2>1. <<r, d>> \in Seq(G \cup own) /\ \A x \in G : FitsAll(h, x)
    BY <1>3, <1>4
  <2> HIDE DEF G
  <2>2. QED
    BY <2>1, BuiltFrom
<1>6. Built(h, own, <<r, d>> \o PromCheck(in) \o Annotate)
  BY <1>5, TailBuilt, BuiltMore, BuiltJoin
<1>7. BuildScaleService(in) \in {<<>>, <<r, d>> \o PromCheck(in) \o Annotate}
  BY DEF BuildScaleService, r, b, c, d
<1>8. QED
  BY <1>6, <1>7, BuiltNone

LEMMA IncidentBuilt ==
    ASSUME NEW in, NEW own, in.remediation \in Seq(own)
    PROVE  Built(RiskOrd("medium"), own, BuildIncidentRemediation(in))
<1> DEFINE m == RiskOrd("medium")
           a == Verify("prometheus", "rules", {})
           q == Verify("tempo", "traceql", {"query"})
           i == Verify("tempo", "trace_by_id", {"trace_id"})
           b == If("traceql" \in in.text, q)
           c == If("trace_id" \in in.text, i)
<1>1. Built(m, own, <<a>>) /\ Built(m, own, b) /\ Built(m, own, c)
  <2>1. b \in {<<>>, <<q>>} /\ c \in {<<>>, <<i>>}
    BY DEF If
  <2> HIDE DEF b, c
  <2>2. QED
    BY <2>1, OthersFit, BuiltOne, BuiltIf
<1>2. Built(m, own, in.remediation)
  <2> DEFINE G == {}
  <2>1. in.remediation \in Seq(G \cup own) /\ \A x \in G : FitsAll(m, x)
    OBVIOUS
  <2> HIDE DEF G
  <2>2. QED
    BY <2>1, BuiltFrom
<1> HIDE DEF a, b, c
<1>3. Built(m, own, <<a>> \o PromCheck(in) \o b \o c \o in.remediation \o Annotate)
  BY <1>1, <1>2, TailBuilt, BuiltJoin
<1>4. QED
  BY <1>3 DEF BuildIncidentRemediation, a, b, c, q, i

LEMMA SecretBuilt ==
    ASSUME NEW in, NEW own
    PROVE  Built(RiskOrd("high"), own, BuildSecretRotation(in))
<1> DEFINE h == RiskOrd("high")
           a == Act("vault", "renew", {"lease_id"})
           b == Act("vault", "revoke", {"lease_id"})
           c == If(App(in), Act("argocd", "sync", {"app"}))
<1>1. FitsAll(h, a) /\ FitsAll(h, b)
  BY VaultFits
<1>2. Built(h, own, c)
  <2>1. FitsAll(h, Act("argocd", "sync", {"app"}))
    BY ArgoFits, FitsMore DEF Act
  <2>2. c \in {<<>>, <<Act("argocd", "sync", {"app"})>>}
    BY DEF If
  <2> HIDE DEF c
  <2>3. QED
    BY <2>1, <2>2, BuiltIf
<1> HIDE DEF a, b, c
<1>3. Built(h, own, <<a, b>>)
  <2> DEFINE G == {a, b}
  <2>1. <<a, b>> \in Seq(G \cup own) /\ \A x \in G : FitsAll(h, x)
    BY <1>1
  <2> HIDE DEF G
  <2>2. QED
    BY <2>1, BuiltFrom
<1>4. Built(h, own, <<a, b>> \o c \o PromCheck(in) \o Annotate)
  BY <1>2, <1>3, TailBuilt, BuiltMore, BuiltJoin
<1>5. BuildSecretRotation(in) \in {<<>>, <<a, b>> \o c \o PromCheck(in) \o Annotate}
  BY DEF BuildSecretRotation, a, b, c
<1>6. QED
  BY <1>4, <1>5, BuiltNone

\* What a template builds fits it, whatever its input.
Limit(name) == IF name \in {"scale_service", "secret_rotation"} THEN RiskOrd("high")
               ELSE RiskOrd("medium")
LEMMA TemplateBuilt ==
    ASSUME NEW name \in Templates, NEW in, NEW own, in.remediation \in Seq(own),
           name = "scale_service" => in.replicas \in Nat, in.previous \in Int
    PROVE  Built(Limit(name), own, BuildWorkflowPlan(name, in))
<1>1. name \in {"gitops_deploy", "helm_release", "scale_service", "incident_remediation",
                "secret_rotation"}
  BY DEF Templates, Declared
<1>2. CASE name = "gitops_deploy"
  BY <1>2, GitOpsBuilt DEF BuildWorkflowPlan, Limit
<1>3. CASE name = "helm_release"
  BY <1>3, HelmBuilt DEF BuildWorkflowPlan, Limit
<1>4. CASE name = "scale_service"
  BY <1>4, ScaleBuilt DEF BuildWorkflowPlan, Limit
<1>5. CASE name = "incident_remediation"
  BY <1>5, IncidentBuilt DEF BuildWorkflowPlan, Limit
<1>6. CASE name = "secret_rotation"
  BY <1>6, SecretBuilt DEF BuildWorkflowPlan, Limit
<1>7. QED
  BY <1>1, <1>2, <1>3, <1>4, <1>5, <1>6

\* The question, and what the worker's builders see of its input.
Templated ==
    \E by, text, rollback, remediation :
       /\ remediation \in Seq(Range1(remediation))
       /\ \E name \in Templates, replicas \in Int, current \in Int, previous \in Int :
             asked = TemplateQuestion(by, name, text, rollback, replicas, current, previous,
                                      remediation)
InputRead == IF asked.by = "gateway" THEN asked.input ELSE WorkerInput(asked.name, asked.input)
TemplateInv ==
    asked.kind = "template" =>
       /\ Templated /\ asked.by \in {"gateway", "worker"}
       /\ answer # <<>> => answer = <<BuildWorkflowPlan(asked.name, InputRead)>>

LEMMA InitTemplate == Init => TemplateInv
<1> SUFFICES ASSUME Init, asked.kind = "template"
             PROVE  Templated /\ asked.by \in {"gateway", "worker"}
  BY DEF TemplateInv, Init
<1>1. \/ \E by \in {"gateway", "worker"}, name \in Templates, rollback \in BOOLEAN,
            remediation \in Remediations : \E text \in SUBSET TemplateFields[name] :
               asked = TemplateQuestion(by, name, text, rollback, 1, 1, 1, remediation)
      \/ \E text \in SUBSET TemplateFields["scale_service"], replicas \in Numbered,
            current \in Numbered, previous \in Numbered :
            asked = TemplateQuestion("gateway", "scale_service", text, FALSE, replicas,
                                     current, previous, <<>>)
  <2>1. asked \notin PolicyQuestions /\ asked \notin RulesQuestions /\ asked \notin AlertQuestions
    BY DEF PolicyQuestions, RulesQuestions, AlertQuestions
  <2>2. /\ \A r, s, cli : asked # ToolQuestion(r, s, cli)
        /\ \A server, scheme, t, cfg, keys : asked # TokenQuestion(server, scheme, t, cfg, keys)
        /\ \A request, policy, env, inputs, now, type :
              asked # ConstraintQuestion(request, policy, env, inputs, now, type)
    BY DEF ToolQuestion, TokenQuestion, ConstraintQuestion
  <2>3. QED
    BY <2>1, <2>2, Zenon DEF Init
<1>2. Numbered \subseteq Int /\ "scale_service" \in Templates
  BY DEF Numbered, NoNumber, Templates, Declared
<1>3. \A x : <<x>> \in Seq(Range1(<<x>>))
  BY DEF Range1
<1>4. <<>> \in Seq(Range1(<<>>))
  OBVIOUS
<1>5. \A r \in Remediations : r \in Seq(Range1(r))
  BY <1>3, <1>4 DEF Remediations
<1>6. CASE \E by \in {"gateway", "worker"}, name \in Templates, rollback \in BOOLEAN,
            remediation \in Remediations : \E text \in SUBSET TemplateFields[name] :
               asked = TemplateQuestion(by, name, text, rollback, 1, 1, 1, remediation)
  <2>1. PICK by \in {"gateway", "worker"}, name \in Templates, rollback \in BOOLEAN,
             remediation \in Remediations : \E text \in SUBSET TemplateFields[name] :
                asked = TemplateQuestion(by, name, text, rollback, 1, 1, 1, remediation)
    BY <1>6
  <2>2. PICK text : asked = TemplateQuestion(by, name, text, rollback, 1, 1, 1, remediation)
    BY <2>1
  <2>3. asked.by = by
    BY <2>2 DEF TemplateQuestion
  <2>4. 1 \in Int
    OBVIOUS
  <2>5. QED
    BY <1>5, <2>2, <2>3, <2>4 DEF Templated
<1>7. CASE \E text \in SUBSET TemplateFields["scale_service"], replicas \in Numbered,
            current \in Numbered, previous \in Numbered :
            asked = TemplateQuestion("gateway", "scale_service", text, FALSE, replicas,
                                     current, previous, <<>>)
  <2>1. PICK text, replicas, current, previous :
           /\ replicas \in Numbered /\ current \in Numbered /\ previous \in Numbered
           /\ asked = TemplateQuestion("gateway", "scale_service", text, FALSE, replicas,
                                       current, previous, <<>>)
    BY <1>7
  <2>2. replicas \in Int /\ current \in Int /\ previous \in Int
    BY <1>2, <2>1
  <2>3. asked.by = "gateway"
    BY <2>1 DEF TemplateQuestion
  <2>4. QED
    BY <1>2, <1>4, <2>1, <2>2, <2>3 DEF Templated
<1>8. QED
  BY <1>1, <1>6, <1>7

LEMMA NextTemplate == TemplateInv /\ [Next]_vars => TemplateInv'
<1> SUFFICES ASSUME TemplateInv, [Next]_vars PROVE TemplateInv'
  OBVIOUS
<1>1. UNCHANGED asked
  BY DEF Next, vars, DecidePolicy, Authorize, ExecuteTool, Authenticate, PlanAlert,
         CheckConstraints, BuildTemplate, Answer
<1>2. CASE BuildTemplate
  <2>1. answer' = <<BuildWorkflowPlan(asked.name, InputRead)>>
    BY <1>2 DEF BuildTemplate, Answer, InputRead, BuildWorkflowSteps
  <2>2. QED
    BY <1>1, <2>1 DEF TemplateInv, Templated, InputRead
<1>3. CASE ~BuildTemplate
  <2>1. asked.kind # "template" \/ UNCHANGED answer
    BY <1>3 DEF Next, vars, DecidePolicy, Authorize, ExecuteTool, Authenticate, PlanAlert,
         CheckConstraints, Asked
  <2>2. QED
    BY <1>1, <2>1 DEF TemplateInv, Templated, InputRead
<1>4. QED
  BY <1>2, <1>3

\* What a builder reads of a question's input.
LEMMA InputSeen ==
    ASSUME Templated
    PROVE  /\ asked.name \in Templates
           /\ asked.input.replicas \in Int /\ InputRead.replicas = asked.input.replicas
           /\ InputRead.previous \in Int
           /\ InputRead.remediation \in Seq(Range1(asked.input.remediation))
<1>1. PICK by, text, rollback, remediation :
         /\ remediation \in Seq(Range1(remediation))
         /\ \E name \in Templates, replicas \in Int, current \in Int, previous \in Int :
               asked = TemplateQuestion(by, name, text, rollback, replicas, current, previous,
                                        remediation)
  BY DEF Templated
<1>2. PICK name \in Templates, replicas \in Int, current \in Int, previous \in Int :
         asked = TemplateQuestion(by, name, text, rollback, replicas, current, previous,
                                  remediation)
  BY <1>1
<1> DEFINE in == [text |-> text, rollback |-> rollback, replicas |-> replicas,
                  current |-> current, previous |-> previous, remediation |-> remediation]
<1>3. asked.name = name /\ asked.by = by /\ asked.input = in
  BY <1>2 DEF TemplateQuestion
<1>4. in.replicas = replicas /\ in.previous = previous /\ in.remediation = remediation
  OBVIOUS
<1>5. /\ WorkerInput(name, in).replicas = replicas
      /\ WorkerInput(name, in).previous = NoNumber
      /\ WorkerInput(name, in).remediation = <<>>
  BY DEF WorkerInput
<1> HIDE DEF in
<1>6. NoNumber \in Int
  BY DEF NoNumber
<1>7. CASE by = "gateway"
  BY <1>1, <1>3, <1>4, <1>7 DEF InputRead
<1>8. CASE by # "gateway"
  <2>1. InputRead = WorkerInput(name, in)
    BY <1>3, <1>8 DEF InputRead
  <2>2. <<>> \in Seq(Range1(remediation))
    OBVIOUS
  <2>3. QED
    BY <1>3, <1>4, <1>5, <1>6, <2>1, <2>2
<1>9. QED
  BY <1>7, <1>8

\* Every step a template builds, and every rollback, is a call the router accepts
\* and whose fields reach the command, within the risk the catalog declares, in
\* the gateway's copy of the builders and in the orchestrator's
\* (BuildWorkflowPlan, BuildWorkflowSteps).  The lemmas say it of inputs with any
\* texts, numbers and remediation.
THEOREM TemplatesKept == Spec => []TemplatesFit
<1>1. TemplateInv => TemplatesFit
  <2> SUFFICES ASSUME TemplateInv, asked.kind = "template", answer # <<>>
               PROVE  TemplateStepsAccepted /\ DeclaredRiskCovers
    BY DEF TemplatesFit, TemplateStepsAccepted, DeclaredRiskCovers, Answered
  <2> DEFINE own == Range1(asked.input.remediation)
  <2>1. Templated /\ Given1 = BuildWorkflowPlan(asked.name, InputRead)
    BY DEF TemplateInv, Given1
  <2>2. ASSUME asked.name = "scale_service" => asked.input.replicas >= 0
        PROVE  \A s \in BuiltSteps : Fits(Limit(asked.name), s)
    <3>1. Built(Limit(asked.name), own, Given1)
      <4>1. asked.name = "scale_service" => InputRead.replicas \in Nat
        BY <2>1, <2>2, InputSeen
      <4>2. QED
        BY <2>1, <4>1, InputSeen, TemplateBuilt
    <3>2. PICK G : Given1 \in Seq(G \cup own) /\ \A s \in G : FitsAll(Limit(asked.name), s)
      BY <3>1 DEF Built
    <3>3. Range1(Given1) \subseteq G \cup own
      <4> HIDE DEF own
      <4>1. QED
        BY <3>2 DEF Range1
    <3>4. \A s \in Range1(Given1) \ own : FitsAll(Limit(asked.name), s)
      BY <3>2, <3>3
    <3>5. QED
      BY <3>4 DEF BuiltSteps, FitsAll
  <2>3. TemplateStepsAccepted
    BY <2>2 DEF TemplateStepsAccepted, Fits, Accepted
  <2>4. DeclaredRiskCovers
    <3> SUFFICES ASSUME asked.name # "scale_service"
                 PROVE  \A s \in BuiltSteps :
                           RiskOrd(StepRisk(s.call)) <= RiskOrd(Declared[asked.name])
      BY DEF DeclaredRiskCovers
    <3>1. Limit(asked.name) = RiskOrd(Declared[asked.name])
      BY <2>1, InputSeen DEF Limit, Declared, Templates
    <3>2. QED
      BY <2>2, <3>1 DEF Fits
  <2>5. QED
    BY <2>3, <2>4
<1>2. QED
  BY <1>1, InitTemplate, NextTemplate, PTL DEF Spec
=============================================================================
