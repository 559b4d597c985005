# Carapulse: a TLA+ model of plans, approvals, executions and what surrounds them

Carapulse lets people, alerts and schedules propose *plans* (sequences of tool
calls against infrastructure), has the writing ones approved, executes them in
workflows and rolls back what fails.  This directory models what must not go
wrong in it: what may be executed, who approved it, what the recorded state of an
execution says about what really happened, what the background goroutines do when
they fail, and whether the decision procedures that several parts of the program
share agree with each other.

## 1. Inventory

| Part | State | Operations | Interacts with |
|---|---|---|---|
| Gateway (`internal/web`) | none of its own between requests | create plan, webhook, alert event, schedule, workflow start, approve, execute, cancel, delete | policy, store, Linear, Temporal |
| Policy decision (`web/policy.go`, `web/risk.go`, `internal/policy`) | none | `policyDecision` over the checker's answer | OPA |
| Rego policies (`policies/`) | none | decision of the bundled rules | asked by the gateway and the tool router |
| Plan rules and constraints (`plan_helpers.go`, `plan_parse.go`, `constraints.go`) | none | risk of steps, steps of a planner's text, constraints | handlers, event loop |
| Workflow templates (`workflow_catalog.go`, `workflow_templates.go`) | table `workflow_catalog` | build steps, seed at start, new version | gateway, tool router |
| Plan store (`internal/db`) | tables `plans`, `plan_steps`, `approvals`, `executions` | single SQL statements; one transaction (`CreatePlan`) | everything |
| Approval watcher (`internal/approvals`) | `last`: the status stored per issue | `syncOnce`: list, expire, store | Linear, store |
| Execution workflow (`internal/workflows`) | Temporal history; `tool_calls`, evidence | `UpdateExecutionStatus`, `ExecuteStep`, `RollbackStep`, `CompleteExecution`, each retried up to 5 times | store, tool router |
| Polling executor (`workflows/executor.go`) | none | take pending executions; no process starts it, Temporal's activities use its step runner | store, tool router |
| Event gate, alert poller, event loop | `event_gates`, `seen` map | count, suppress, hand on an alert | store, gateway |
| Scheduler | `schedules` with `last_run_at` | make a plan of a due schedule | store |
| Context service and collectors | a channel, `Errs`, what each watcher sent last | poll, watch, ingest | sources, graph tables |
| Gateway process and health | tracked goroutines, `alive`, `lastErr` | start, `/readyz`, signal, shutdown, crash | all goroutines |
| Event and log streams (`events.go`, `sse.go`, `ws.go`) | subscribers with 8-place channels, history | subscribe, publish, append | handlers, clients |
| Bearer tokens, JWKS cache (`internal/auth`) | keys, their age, one refresh loop | check a token; get, refresh | every request, identity provider |
| Tool router, validation, commands, sandbox (`internal/tools`) | none | authorise, validate, build and run a call | outside systems |
| Sessions and tenancy | `sessions`, `session_members` | create, delete, add member; check before a read | every list |
| Playbooks, runbooks, operator memory | a table each | create, update, delete, list by pages | handlers |
| LLM, chatops, secrets, storage, audit, metrics, logging, UI, command line tools | none that the above reads | I/O | outside systems |

What is hard here: a handler is a sequence of separate SQL statements, so two
requests, the watcher, the workflows and a crash all interleave between them;
the watcher acts on a snapshot; Temporal repeats activities whose answer was
lost; an execution's status is written by two parties that do not look at what
the other wrote; background goroutines end at their first error and are waited
for at shutdown; a cache of keys is filled by requests and by a loop at once; and
the same question (is this a read? how risky is it? which fields does it need?) is
answered in several packages by different code.  `PROJECT.json` lists each of
these as a hazard at its line.

What makes the parts correct:

* *policy and rules*: no write that needs an approval or a break-glass header goes
  on without; gateway and tool router judge alike; a plan left without approval
  only reads;
* *gateway and store*: no write is executed that was not approved by somebody
  entitled to; one active execution per plan; no row outlives its plan;
* *watcher*: what the tables say was approved was approved, and what people
  decide arrives;
* *workflow*: `succeeded` means every step was done, a failed verification rolls
  back, a final status is final, and an execution ends;
* *alerts*: an alert that goes on firing gets a plan, but not one after the other;
* *scheduler*: a due time is planned, and once;
* *context*: the graph ends up as the sources are;
* *process*: a goroutine that dies shows, and a signal leads to a clean exit;
* *keys and tokens*: only genuine, current tokens are let in, replaced keys are not
  trusted for long, and good tokens are not refused;
* *tools*: a command has the fields its action requires, carries what it was given
  and runs confined; a template's steps are calls the router accepts;
* *records*: pages show a tenant's rows completely and to members only, versions
  grow, the built-in workflows are in the catalog once;
* *streams*: what a stream shows is in order and shown once, a slow reader loses
  only what does not fit, and the hubs do not grow.

## 2. Modules

| Module | Models |
|---|---|
| `PlanStore` | the tables of plans and, per SQL statement, an operator for its effect |
| `Gateway` | the handlers; a request has a `pc`, and each statement it executes is an action |
| `ApprovalWatcher` | the watcher, Linear's issues, people; also a specification on its own (`WatcherSpec`) |
| `PlanSystem` | gateway, watcher and workflows over the shared tables; the system's properties and its inductive invariant |
| `MCPlanSystem`, `MCGatewayProcess`, `MCRecords` | symmetry and sequences of constants for TLC |
| `ExecutionLifecycle` | abstract: the status of one execution against its workflow |
| `PlanExecution` | one execution: workflow, activities, retries, tool effects |
| `AlertIntake` | alert poller, webhook and event gate over their table, with a clock |
| `Streams` | LogHub and EventHub, and the handlers that stream them |
| `Scheduler` | the schedules table, its handlers, and the scheduler's pass |
| `ContextService` | sources, poller, watchers, channel, ingestion, graph |
| `GatewayProcess` | the process: start, goroutine tracker, `/readyz`, signal, shutdown, crash; composes the two above |
| `KeyCache` | requests, refresh loop and identity provider around the key cache |
| `Policy` | `policyDecision` and its rules as operators |
| `OpaPolicy` | the bundled Rego rules as operators |
| `ToolRouter` | schemas, validation, command builders, authorisation, sandbox as operators |
| `PlanRules` | risk of steps, steps of a planner's text, constraints as operators |
| `Templates` | the five workflow templates as operators |
| `Tokens` | bearer tokens, claims, key sets as operators |
| `Decisions` | every question of bounded sets to the operators above, for TLC |
| `Records` | the tables shown by pages, sessions and tenants, the catalog's seeding |
| `PlanSystem_proofs`, `PlanExecution_proofs`, `AlertIntake_proofs`, `Streams_proofs`, `GatewayProcess_proofs`, `KeyCache_proofs`, `Records_proofs`, `Decisions_proofs` | the theorems about each of these modules (section 4) |

`PlanSystem` composes `Gateway` and `ApprovalWatcher` over `PlanStore`, and its
executions as well as `PlanExecution` are shown to be `ExecutionLifecycle`s.
`AlertIntake` ends where `Gateway`'s `AlertEventLoop` begins: a plan of an alert.
`GatewayProcess` extends `Scheduler` and `ContextService`, whose steps need the
process and its database; the other two goroutines, which have modules of their
own, only run and fail there.  `Decisions` composes the operator modules:
`Templates` builds steps for `PlanRules`, which gives them a risk, and both use
`ToolRouter`'s calls; `OpaPolicy` answers what `Policy` and the router ask.

### State and actions

`PlanStore` holds `plans`, `approvals`, `executions` (functions from an id to a
row; a row whose `plan` is `None` does not exist), `issues` (Linear), `workflows`
(Temporal's view of each execution) and one history variable, `granted`: the
pairs *(plan, who)* of every approval that was really given, by `"api"`,
`"linear"` or `"auto"`.  No action reads `granted`; the properties compare the
tables with it.  An id is used once.

A request of `Gateway` is a record with the plan it works on, what it decided
(`auto`), and the statement it executes next:

* `CreatePlanRequest`, `HookRequest`, `AlertEventLoop`, `ScheduledPlan`,
  `StartWorkflowRequest` decide (with the checker's answer as an input) and
  execute `CreatePlan`; then `InsertApproval`, `CreateIssue`, `AutoApprove`,
  `AutoApproveHash` in the handler's order;
* `ApprovalRequest` updates the rows of the plan, `SetHash` stores the hash;
* `ExecuteRequest`, `ReadApproval`, `ReadHash`, `CheckActive`,
  `InsertExecution`, `StartWorkflow`, `SaveWorkflowID` are `:execute`, and the
  last five also the end of a workflow start;
* `CancelExecution` and `DeletePlan` are one statement;
* `EndRequest` ends a request after any statement: an error, a client that goes
  away, a process that dies.

`watch` is the watcher: the batch of a poll still to be processed, `last`, and
whether it runs.  `ListIssues` takes the page as it is; `Skip`, `Expire` and
`Store` process one issue, in any order (the code's order is Linear's); `CallFails`
ends the watcher, as `Run` returns on the first error and
`GoroutineTracker.Go` does not start it again; `RestartWatcher` is a new process.

`WorkflowMarksRunning`, `WorkflowCompletes` and `WorkflowEnds` are what
`PlanExecutionWorkflow` does to the table, including an attempt that reaches
the database and whose answer is lost.  `PlanExecution` opens the workflow up:
its steps, the tool call row, the tool's effect, output and evidence, attempts
that fail at each of these places, rollbacks.

`AlertIntake` counts time in ticks and keeps ages instead of times, up to the
point where a larger age changes nothing, so that the clock runs for ever in a
finite model.  A poll is over before the next one is due; a webhook request may
straddle ticks (`MaxDelay`), between its clock, its SELECT and its UPDATE.  The
poller's payload and a webhook's differ, so an alert has a row for each.

In `Streams` each method of a hub is one action, as it holds the hub's mutex;
a log stream copies the history, writes it line by line and only then
subscribes.  The loop that evicts history runs over a Go map, so which keys go
is a choice.  The gateway has a copy of `LogHub` and of its stream that nothing
appends to; the module stands for the tool router's.

`Scheduler` has the table newest row first, as `ListSchedules` reads it; a pass
(`ListPass`, then one step per row, with `MakePlan` and
`UpdateScheduleLastRun` apart) may end at any statement, by a bad cron expression,
a failing call, the cancelled context or the death of the process.  `plans` counts
the plans of each schedule, `interrupted` those whose run was not stored.

`ContextService` has one object per source, with a version.  `poller` goes through
the sources in order and writes to the graph itself; each watcher reads its source,
compares with what it sent last and sends into a bounded channel, which may block
it for ever; the ingester writes what it receives.  An error goes into `Errs`, which
drops it when full.

`GatewayProcess` moves a tracked goroutine through *running, returned, stopped,
done*: its function has returned, the deferred `setAlive(false)` has run, the
deferred `wg.Done` has run.  A signal cancels the context; `FinishShutdown` is
`Shutdown` of the servers and `wg.Wait`, held up by an open log stream until
`ForceExit`.

`KeyCache` keeps ages instead of times.  A request that misses fetches with the time
it began (`t`) and stores that time; the loop stores the time its fetch ended; both
write the one entry under the lock.  The provider rotates, fails, and may settle.

`Records` is about one table at a time, chosen in `Init`; a list sorts its rows by
time, newest first, with rows of the same time in any order, another one in each
query; a page (`Pages`) is what the first offset plus limit rows have beyond the first
offset ones.  A request that creates a runbook is two
statements; a list is the session check and one statement for page and total, with
the filter by tenant over the page it returns; a reader follows the pages until the
total is reached.  A gateway that starts reads the catalog, or fails to and gives up,
and inserts what it did not see, row by row; `taken` notes the names it passed over
because a tenant's own row has them.

`Decisions` has a question and its answer; the answer is computed in one step.  What
it asks is every member of the question sets, so the run compares the operators
with reference definitions over all bounded inputs.

### Abstractions

A plan is its risk (the column `risk_level`), its trigger, the policy's decision,
and its steps: none, steps that only read, or some that write (by `riskFromSteps`).
Risk and steps are apart because the code keeps them apart: the handlers take the
risk from the intent's keywords, and only the alert event loop raises it by the
steps.  A hash is one of two values (of the steps, of no steps) because nothing
modifies a stored plan.  Audit records,
events, log lines and answers to clients are left out, except
the refusal "modified after approval", which a property is about.
In `PlanSystem` the checker's answer is any that it may give; `Decisions` has the
bundled rules.  Tools are effects that happen or do not.

A field of a tool call is there or not, and its value is good, blank, or has a shell
metacharacter; a command line is the set of the fields that reach it.  A key is an id,
a type and an owner, a signature the owner of the key that made it.  Times of day are
hours.  A snapshot of a source is one row with a version; nothing is deleted from the
graph, and the periodic copy of the graph (`maybeSnapshot`) is left out.  A row of
`Records` has a tenant, a session, a time, a name and a version; anonymous readers see
what a session check lets through without one.

## 3. Runs

| Run | Question | Result |
|---|---|---|
| `plan_api` | two concurrent requests over all handlers, with a restart: approvals, rows, and each execution's lifecycle | holds |
| `plan_linear` | no automatic approval; a request next to the watcher, people, failing calls, a restart | holds |
| `watcher` | decisions arrive, overdue issues expire, while the watcher lives | holds |
| `execution` | status, rollback, order, end of one execution | holds |
| `alerts` | the gate's distance and count, and that a firing alert gets its plan | holds |
| `streams` | order, loss and growth of the streams | holds |
| `gateway_process` | background goroutines that fail, `/readyz`, plans of schedules, the graph, shutdown | holds |
| `key_cache` | how long keys are trusted, one loop, warm cache, rotation after failures | holds |
| `decisions` | policy, Rego rules, tool calls, tokens, alert plans, constraints, templates: all bounded questions | holds |
| `records` | pages under inserts, sessions, versions, seeding | holds |
| `plan_hash` | is an unmodified plan ever refused? | yes (`http.go:949`) |
| `one_execution_concurrent` | can a plan have two active executions? | yes: between the check and the insert (`http.go:700`) |

What each run checks:

* `plan_api`: `ReferentialIntegrity`, `WriteExecutionGranted`, `HumanApproval`,
  `PolicyHeeded` (what is left of `RequireApprovalBlocks`), and `ExecutionsLifecycle`,
  the refinement of `ExecutionLifecycle` by every execution (which makes a succeeded
  or failed status final);
* `plan_linear`: `ApprovedRowGranted` and the inductive invariant `IInv`, which
  includes the types and the good states of all the places where an approval is
  remembered;
* `watcher`: `LastIsStored` (`Remembers`, with the types and what makes it
  inductive), `DecisionApplied`, `OverdueDecided`;
* `execution`: `ExecutionInv` (`SucceededMeansDone` and the inductive invariant),
  `StagedFailureRollsBack` (what is left of `VerifyFailureRollsBack`),
  `NoStepAfterRollback`, `Termination`, and `LifecycleSpec`,
  the refinement of `ExecutionLifecycle`;
* `alerts`: `GateHolds` (the types, `Spaced`, `EnoughSeen`) and `AlertPlanned`;
* `streams`: `StreamsInv` (the types, `HistoryGood`, `StagesGood`, `HistoryBounded`),
  `StreamExact` (`OnceInOrder`, `KeptUpToCap`), `WatchedHistoryKept`;
* `gateway_process`: `ProcessInv` (the types, `Tracked`, `ReportedStopped`),
  `OncePerTime` (`NoTimeTwice` and the account of the rows, `SchedGood`),
  `DeathShows`, `DuePlanned`, `GraphCatchesUp`, `CleanExit`;
* `key_cache`: `CacheInv` (the types, `OneLoop`, `StaysWarm`), `KeysFresh`,
  `RotationArrives`;
* `records`: `RecordsInv` (the types, `CatalogGood`, `CatalogComplete`), `WalkExact`
  (`SeesAll`, `WalkGood`), `SessionAccess` (`OnlyMembers`, `SessionsGood`),
  `VersionsGrow`;
* `decisions`: `PolicySound` (`AllowedWritesAreHarmless`, `NoUnbrokenGlass`,
  `NeverWeakerWithinCluster`), `RulesAgree` (`AuthorisedCallsAreHarmless`,
  `GatewayAndRouterAgree`), `CallsSound` (`CommandCarriesInput`,
  `NothingRunsIncomplete`, `GoodRequestsRun`, `CommandsAreConfined`), `TokensExact`
  (`AcceptedIsGenuine`, `GoodTokensPass`), `PlanRulesSound` (`AlertPlansGetVerified`,
  `UnapprovedPlansOnlyRead`, `WindowIsCyclic`, `PolicyConstraintsWin`), `TemplatesFit`
  (`TemplateStepsAccepted`, `DeclaredRiskCovers`).

A property that is a conjunction of named parts has a mutant for each part that is
about the code.

The `findings` of `PROJECT.json` quote, for each violated property, the line
of the repository that promises it.

Four more promises of the repository hold only in part.  Each is stated as it is
written, with a configuration of its own in which TLC refutes it within seconds, next to
the property of a run above that says what the code keeps of it:

| Promise | Refuted as | Why | What holds |
|---|---|---|---|
| "Webhook-triggered plans always require human approval regardless of risk level" (`internal/web/http.go:1389`; the same in `security_regression_test.go:257`) | `HooksNeedPeople`, `MCPlanSystem` with `PlanSystemHook.cfg` | `handleHook` asks for an approval if the intent's keywords rate as a write (`http.go:1392`) and, unlike `event_loop.go:117`, does not raise the risk by the planner's steps; `:execute` asks for none of a plan of risk read | `HumanApproval` |
| "`require_approval` triggers approval creation and blocks execution until approved" (`docs/specs/ai-devops-assistant/policy-security.md:17`) | `RequireApprovalBlocks`, `MCPlanSystem` with `PlanSystemPolicy.cfg` | a workflow start goes on by risk and `AutoApproveLow`, not by the policy's answer (`workflows.go:271`) | `PolicyHeeded` |
| "rollback on failure" (`docs/specs/ai-devops-assistant.md:40`) | `VerifyFailureRollsBack`, `PlanExecution` with `PlanExecutionStage.cfg` | stages are not stored (`queries.go:174`): in the steps `:execute` reloads, a verify step is an act step, and its failure rolls back only itself | `StagedFailureRollsBack` |
| "Policy can override to deny or tighten constraints" (`docs/specs/ai-devops-assistant/architecture.md:136`) | `PolicyEnvironmentsWin`, `Decisions` with `DecisionsEnv.cfg` | constraints are merged key by key (`constraints.go:14`), and the request's `allowed_envs` is read before the policy's `environments` (`constraints.go:87`) | `PolicyConstraintsWin` |

Some properties hold only within limits that they state, and the models show
what happens beyond them:

* the watcher ends with the first failed call (`watcher.go:64`) and reads one page
  of issues (`linear.go:109`): `DecisionApplied` is about a watcher that lives,
  and about issues that fit on the page;
* the alert poller and the scheduler end in the same way: `AlertPlanned` and
  `DuePlanned` are about ones that run, and `DeathShows` says that `/readyz` tells;
* `PolicyHeeded` excepts the workflow start above and nothing else;
* `HumanApproval` claims of webhooks' plans only that those of a writing risk wait for
  a person, while alerts' and schedules' plans wait already if a step writes;
* `StagedFailureRollsBack` asks for all act steps only where the stages have arrived,
  and for the failed step otherwise;
* `PolicyConstraintsWin` leaves out exactly the case where the policy sets no
  `allowed_envs` and the request's list admits the environment;
* more than 50 targets turn a deny of the checker into `require_approval`
  (`policy.go:54`): `NeverWeakerWithinCluster` stops there;
* a cancelled execution may come back as `running`, because the workflow writes
  its status whatever the row says (`queries.go:273`): `ExecutionLifecycle` has that
  step, and its final statuses are `succeeded` and `failed` only;
* `Spaced` is about deliveries that do not overlap: two webhook requests with one
  payload can both read the row before either writes it (`event_gates.go:31`);
* a line appended between the history and the subscription of a stream is not
  shown (`tool_router_server.go:269`): `OnceInOrder` says nothing is shown twice,
  `KeptUpToCap` counts from the subscription;
* a due time is planned twice if the pass is cut off between its two statements
  (`scheduler.go:134`): `OncePerTime` counts these cuts;
* sources after one that can never be polled are not polled (`service.go:253`):
  `GraphCatchesUp` is about those before it;
* an open log stream keeps a stopping gateway until the forced exit after 30 s
  (`main.go:498`): `CleanExit` includes that exit;
* Vault's and Boundary's login, lease and session commands, and actions a builder has
  no case for, drop their fields; the path of a Vault audit device other than `file` is
  dropped too (`commands.go:254`); CloudWatch's metric queries never pass the argument
  check: `CommandCarriesInput` and `GoodRequestsRun` name these exceptions;
* validation trims the name of an action and the builder does not, so a padded
  name may run without its fields; `git` takes its input as text without looking
  into it: `NothingRunsIncomplete` is about kubectl, Helm and Argo CD without padding;
* the tools linear, pagerduty, aws, vault, boundary, gh and glab accept actions their
  schemas do not know (`Known` leaves those out);
* `environment.rego:3` makes every environment allowed by default, so the rule that
  refuses others never applies; calls of the service role that count as writes are
  denied by the shipped rules;
* `git status` is a read to the gateway and a write to the router, and scaling is
  low by declaration and medium as a step: `UnapprovedPlansOnlyRead` and
  `DeclaredRiskCovers` name these exceptions;
* a read intent whose steps turn out to write gets an approval but no verify step:
  `AlertPlansGetVerified` is about intents that write;
* a negative `max_targets` of a request switches the limit of 50 off:
  `PolicyConstraintsWin` claims the limit only where none is set;
* deletions between two pages shift rows over the edge, and rows of the same
  `created_at` may change places between two queries (no `ORDER BY` has a tie-breaker):
  of such a walk `WalkExact` says only that it shows no other tenant's rows;
* the list of plans shows the tenant's plans of every session, as `GET /v1/plans`
  (`http.go:317`) does not match sessions: `OnlyMembers` asks for the plan's own session
  only of the request for a single plan;
* a tenant's own workflow of a built-in's name keeps the built-in out of the catalog
  for everybody (`main.go:545`, and the unique index): `CatalogComplete` excepts the
  names that a gateway found taken;
* two runbooks created at once may get one version: `VersionsGrow`
  compares with rows that were there before.

### Bounds

* `Plans = {p1}`: no statement of a handler reads another plan's rows, so what two
  requests do to each other they do on one plan.  Two plans appear in `watcher`,
  where they share a page.
* Two requests in `plan_api`: each property relates one statement to what
  another request did since an earlier one; the proofs remove the bound.
* One or two approvals and executions per plan: two are needed for "the" status
  of a plan to be ambiguous and for two executions to be active.
* `plan_linear` has plans of medium risk, which the policy lets go on only with
  `require_approval`; the other risks are in `plan_api`.
* `MaxRestarts = 1`: a restart only forgets, and forgetting twice is forgetting.
* `PageSize` stands for Linear's 100; `MaxAttempts = 2` for Temporal's 5;
  `NSteps = 2` gives every combination of stages and rollbacks of two steps.
* `alerts`: `Window = DedupWindow` is the closest setting in which the poller's
  deliveries still count as two within the window (with a window one tick shorter
  `AlertPlanned` fails), `MinCount = 2` and `Backoff = 2` make every branch of the
  gate happen; one fault and one restart hit every step.
* `streams`: four messages overflow a channel of two places, a history of two
  lines and a table of two keys.
* `gateway_process`: `Configs` has the scheduler alone, the context service alone,
  and the rest with a log reader: the goroutines share nothing but the process.
  `Limit = 1` (200 in the code) puts the second schedule beyond a pass; two sources,
  one of which may break, a channel and an `Errs` of one place fill up; `MaxTime = 3`
  has late passes skip times; two starts and one failing call hit every statement.
* `key_cache`: a tick is the fetch time-out of ten seconds; `Ttl = 30` is the
  shortest for which `StaysWarm` claims anything; `MaxBackoff = 3`
  for five minutes; two requests can both miss, and two loops could both run.
* `decisions`: `MaxTargets = 52` passes both limits (10 and 50); `DayLength = 24`;
  every call of every schema with each one of its flaws.
* `records`: `DefaultLimit = 1`, `MaxLimit = 2` for 50 and 200, `Limits` none and
  beyond the maximum; a row at first and two more give walks of several pages with
  inserts between them; one session and a foreign one; two gateways that start twice
  each and may crash on the way, next to tenants' workflows of the built-ins' names.

The runs of PlanSystem, PlanExecution, GatewayProcess, Decisions and Streams switch
deadlock checking off: with all ids used and every request answered, the execution
ended, the clock and the starts used up, the question answered or all messages
published the model has nothing left to do.

### Fairness

`WatcherSpec` assumes weak fairness of polling and of processing a batch: the
ticker fires and each call is answered or ends the watcher.
Nothing is assumed of people; `DecisionApplied` speaks of an answer that stays.
`PlanExecution!Spec` assumes weak fairness of the workflow's steps, which
Temporal gives to a workflow with a worker: retries are bounded by
`MaximumAttempts`, so an attempt that fails is a step as well.  Nothing is assumed
of the gateway's requests.  `AlertIntake` assumes that the clock goes on and that
the poller's loop and accepted requests do (their calls have timeouts);
`MaxFaults` makes failures finite, without which no alert need ever get a plan.
Nothing is assumed of `Streams`' handlers: no write deadline bounds how long a client
may stall one.
`GatewayProcess` assumes that a goroutine which can run does: each of the process's
own goroutines separately, `main` included.  A call with a cancelled context fails
(fairness of failures once the process is stopping); a source that is broken answers
with an error.  Nothing is assumed of signals, crashes, changes of the sources, or of
a failing call while the gateway is up.  `KeyCache` assumes that the clock goes on and
that a fetch is answered or times out.

## 4. Proofs

TLAPS checks every theorem below for all values of the constants that satisfy the
assumptions of the module; TLC evaluates those assumptions on the runs.  They only say
what the constants are: `NoneAssumption` that `None` is no id, the others that
capacities, limits and time-outs are natural numbers (positive where the code divides
or starts counting there), that subsets are subsets, and that sets of keys, streams and
requests are finite where the code counts them.  Two theorems have a hypothesis of
their own, named with them: `OneActiveBarRaces` and `GateKept`.

Each invariant goes through an inductive `IInv` (Init implies it, each action keeps it,
it implies the property), which TLC checked on the run's instance before it was proved.

**`PlanSystem_proofs`**, for any sets of plans, rows, issues and requests and any
setting of the switches:

* `Invariance`: `Spec => []IInv`;
* `TypeCorrect`, `Integrity`, `WritesGranted`, `PeopleApproved`, `RowsGranted`:
  the type invariant, `ReferentialIntegrity`, `WriteExecutionGranted`,
  `HumanApproval`, `ApprovedRowGranted`;
* `PolicyObeyed`: `PolicyHeeded`, under every setting of automatic approval: the one
  way past the policy's `require_approval` is a low-risk workflow start;
* `LifecyclesImplemented`: every execution is an `ExecutionLifecycle`, by a refinement
  mapping for each id;
* `OneActiveBarRaces`: `OneActiveExecution`, which `one_execution_concurrent` refutes,
  under the absence of two races (`[]ChecksApart`, `[]CancelsLate`);
* `WatcherMemory`: `LastIsStored`, of the watcher with the people and the clock.

None of the safety properties is inductive: an execution row is justified by what its
request saw several statements ago, and an approved row by a label that may be
gone.  `IInv` says it for each place where a claim can rest: a request past the
approval (`RequestsGood`) is one whose plan was granted or a workflow start
under automatic approval; an approved row (`ApprovalsGood`), an approved label
(`IssuesGood`) and an approved item in the watcher's stale batch (`BatchGood`)
each go back to `granted`; an execution row (`ExecutionsGood`) repeats what its
request knew; and automatic grants are only for plans that qualify
(`GrantsGood`).  `PlansGood` says which plans have a writing risk, so that `:execute`
asks for their approval: those the policy wants approved, and those of alerts with
steps that write.  The argument works because `granted` only grows and a plan's
trigger, risk and decision never change.  The refinement needs `WorkflowsGood`: what
a row's status may be given the state of its workflow, so that a late start cannot
follow an end and only one handler ever starts it.

`OneActiveBarRaces` says how much the check of active executions is worth.
`ChecksApart`: no two requests for one plan are between `HasActiveExecution` and the
INSERT together (`http.go:700`); `CancelsLate`: no execution is cancelled whose workflow
has yet to write `running`, since that UPDATE takes a cancelled row back
(`queries.go:273`) while a new execution may have passed the check.  The code
guarantees neither.  TLC finds two active executions when either one is left out, and
under both of them states where a plan has several executions.  `Blocked` is what makes
the property inductive: a request about to INSERT has a plan without an active
execution.

The watcher's memory rests on
`AskedOnce` (rows and issues ask for plans that are there, and no two issues for the
same one), `WatchesIssues` (the batch and the memory are about such issues) and
`Remembers` (the row of a remembered issue has the remembered status).

**`PlanExecution_proofs`**, for plans of any length and any number of attempts:
`SuccessIsReal` (`ExecutionInv`), `RollbackIsLast` (`NoStepAfterRollback`),
`VerifyRollsBack` (`StagedFailureRollsBack`, for executions started by either path) and
`ImplementsLifecycle` (`LifecycleSpec`).  `LoopsGood` ties what each
loop has left to the place of the workflow, `EffectsGood` bounds the tool's runs by the
attempts (an answer that was lost included), `StepsGood` says that the loops leave a
step only when all of it is recorded; `StatusGood` makes a final status the outcome of
loops that are over, and `RollbackGood` keeps every step that a failure undoes among
those undone or still to undo.

**`KeyCache_proofs`**, for any number of requests and any ttl, time-out and backoff:
`CacheSound` (`CacheInv`) and `KeysAreFresh` (`KeysFresh`).  The entry's
age says nothing of keys that were fetched before a rotation and stored after it, so
`KeysGood` bounds how long ago keys in flight were replaced by the time of their fetch
(`FetchGood`) and the entry's by its age and one time-out; `LoopGood` says that entry
and loop exist together and that there is one loop, and `WarmGood` how old the entry may
be at each place of the loop.

**`GatewayProcess_proofs`**, for any number of schedules, sources, starts and faults:
`ProcessSound` (`ProcessInv`) and `PlannedOnce` (`OncePerTime`).  `Tracked` ties the
health registry to the goroutines from their start to their end, `WatchersGood` a
watcher's version to those its source has had.  `SchedGood` is about the table and the
rows a pass has read: these may be older than the table, yet each is `Accounted` for,
that is the stored plans of its schedule are no more than the times up to its last run.

**`Streams_proofs`**, for any number of readers, keys and messages and any capacities:
`StreamsSound` (`StreamsInv`), `StreamsExact` (`StreamExact`) and `WatchedKept`
(`WatchedHistoryKept`).  What a stream shows comes from two sources, the history it
copies and its channel: `HistoryGood` says that a history holds lines of its key in
their order, and `StagesGood` that a request is past its history before it has a
channel, which holds only what came since.

**`Records_proofs`**, for any number of rows, requests, tenants, sessions and starts:
`RecordsSound` (`RecordsInv`), `WalksExact` (`WalkExact`), `MembersOnly`
(`SessionAccess`) and `VersionsRise` (`VersionsGrow`).  `RowsBounded` keeps times in
the past; `WalkGood` says that a walk has seen those of the rows that stayed whose
`Rank` its offset has passed, which an insertion can only make larger, as long as no
two rows have the same time (`NewestByRank`); `SessionsGood` says that a check that
passed has seen a live session with the actor in it, `VersionsGood` that a chosen
version is above those that were there when its request began, and `CatalogGood` that
the names a gateway's seeding has passed are in the table, as a shared row or, where
the gateway found the name taken, as some row.

**`AlertIntake_proofs`**: `GateKept` (`GateHolds`, for the poller and any number of
webhooks whose deliveries of one alert do not overlap, `[]Serial`) and
`OneHookKept` (one webhook, no further hypothesis).  The hypothesis is needed, not
convenient: the gate reads its row and writes it back in two statements, and
overlapping deliveries of one alert may both act on the row they read.
`RowGood` says that a row counts no more than the deliveries since its
`first_seen` and that what is left of a suppression and the time since the last
acceptance make at least a backoff; `ReadGood` and `WriteGood` say what a request may
rely on before it reads its row, and that the verdict it is about to write holds of the
row as it is now.

**`Decisions_proofs`**: `PolicyKept` (`PolicySound`, for any number of targets),
`CallsKept` (`CallsSound`), `RulesKept` (`RulesAgree`), `TokensKept` (`TokensExact`),
`ConstraintsKept` (`WindowIsCyclic` and `PolicyConstraintsWin`, for a day of any
length), `AlertPlansKept` (`AlertPlansGetVerified` and `UnapprovedPlansOnlyRead`),
`PlanRulesKept` (`PlanRulesSound`, the four of them) and `TemplatesKept`
(`TemplatesFit`).  There the states are questions and their answers, and the content is
in the lemmas, which are wider than the run's questions:

* `AnswerOverruled` gives the decision as a closed form of the checker's answer;
* `Carries`, `Complete` and `GoodRuns` are about requests with any fields and any flaws
  at once, `ReadsHaveReadRisk` says that the router's two tables agree on every call;
* `SelectedKey`, `OnlyNamed`, `GatewayExact` and `RouterExact` are about any token and
  any key set;
* `HoursBetween` says that comparing clocks is counting hours modulo the day;
* `LoopRuns` and `ParsedKept` say what the loop of `parsePlanSteps` keeps of any number
  of drafts, `Verified` and `OnlyReads` what follows for the plan.  The induction over
  the drafts is by a least counterexample (`WFMin` over `NatLessThanWellFounded`), since
  the induction theorems themselves take an operator;
* `FromTable` and the `...Tabled` lemmas read a call's required and allowed fields off
  its schema; `AcceptedIf` and the `...Fits` lemmas say that a step with the fields its
  template gives it passes validation within the declared risk, and `TemplateBuilt`
  puts each template together from such steps, for any input whose replicas are not
  negative.

Only model-checked: the liveness properties (`DecisionApplied`, `OverdueDecided`,
`Termination`, `AlertPlanned`, `DeathShows`, `DuePlanned`,
`GraphCatchesUp`, `CleanExit`, `RotationArrives`), since fairness and `ENABLED` are out
of the prover's reach.  Every invariant and action property of the passing runs is a
theorem (`CatalogComplete` as a part of `RecordsSound`).

## 5. Not modelled, and the plan

Not modelled because they keep no state that the control flow reads, or are
clients or pure I/O: the components marked `not_modelled` in `PROJECT.json`.  Of
the ones marked `partly`, the notes there say what is left out; the largest parts
are the translation of each collector's API answers into nodes, the read-only
handlers of single rows, the egress proxy and the wiring of the processes.  Reading
the rows back is among them: `GetSession`, `GetOperatorMemory` and `GetRunbook` scan
columns that may be NULL into strings.

The plan, in order:

1. lists and updates of sessions, and reads of single rows with their optional
   columns;
2. the collectors, as operators from an answer to nodes and edges.
