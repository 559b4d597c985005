--------------------------- MODULE GatewayProcess ---------------------------
(***************************************************************************)
(* The gateway process (cmd/gateway/main.go, internal/web/health.go): it   *)
(* opens the database, starts the background goroutines its configuration  *)
(* asks for through a GoroutineTracker, serves until a signal, an error of *)
(* a server or a crash, and on a signal waits for the tracked goroutines   *)
(* before it closes the database.  The scheduler and the context service   *)
(* are modelled whole; the approval watcher and the alert poller, which    *)
(* have modules of their own, here only run and fail.                      *)
(***************************************************************************)
EXTENDS Scheduler, ContextService

CONSTANTS Configs,    \* what a gateway may be set up with: goroutines, log readers
          MaxStarts,  \* bound on process starts
          MaxFaults   \* bound on failing calls

Goroutines == {"scheduler", "context-service", "approvals", "alert-poller"}
Opaque     == {"approvals", "alert-poller"}

ASSUME ProcessAssumption ==
    /\ Configs \subseteq SUBSET (Goroutines \cup {"log-stream"})
    /\ MaxStarts \in Nat /\ MaxFaults \in Nat

VARIABLES config,     \* the goroutines this gateway runs, and whether its logs are read
          proc,       \* the process
          goroutine,  \* how far each tracked goroutine is
          alive,      \* GoroutineTracker.alive
          lastErr,    \* GoroutineTracker.lastErr is set
          stream,     \* a client follows a log stream
          starts, faults

procVars == <<config, proc, goroutine, alive, lastErr, stream, starts, faults>>
vars     == <<schedVars, ctxVars, procVars>>

\* "up" serves; "stopping" has had the signal, its context is cancelled;
\* "closing" runs the deferred calls: its database is closed, and nothing the
\* goroutines still do has any effect.
ProcStates == {"down", "up", "stopping", "closing"}

\* A tracked goroutine after its function: the deferred setAlive(false), then
\* the deferred wg.Done.
Stages == {"off", "running", "returned", "stopped", "done"}

Cancelled == proc = "stopping"
DBOpen    == proc \in {"up", "stopping"}

\* Types of the process, of its goroutines and of what they share.
TypeOK ==
    /\ SchedTypeOK /\ CtxTypeOK
    /\ config \in Configs
    /\ proc \in ProcStates
    /\ goroutine \in [Goroutines -> Stages]
    /\ lastErr \in [Goroutines -> BOOLEAN]
    /\ alive \in [Goroutines -> {"absent", "yes", "no"}]
    /\ stream \in BOOLEAN
    /\ starts \in 0 .. MaxStarts /\ faults \in 0 .. MaxFaults

None(value) == [g \in Goroutines |-> value]

Init ==
    /\ SchedInit /\ CtxInit
    /\ config \in Configs /\ ("context-service" \notin config => broken = {})
    /\ proc = "down" /\ goroutine = None("off")
    /\ alive = None("absent") /\ lastErr = None(FALSE)
    /\ stream = FALSE /\ starts = 0 /\ faults = 0

-----------------------------------------------------------------------------
\* run: the configured goroutines are started, tracker.Go marking each alive.
Start ==
    /\ proc = "down" /\ starts < MaxStarts
    /\ starts' = starts + 1
    /\ proc' = "up"
    /\ goroutine' = [g \in Goroutines |-> IF g \in config THEN "running" ELSE "off"]
    /\ alive' = [g \in Goroutines |-> IF g \in config THEN "yes" ELSE "absent"]
    /\ lastErr' = None(FALSE)
    /\ pass' = IF "scheduler" \in config THEN Idle ELSE NoPass
    /\ IF "context-service" \in config THEN CtxStart ELSE UNCHANGED ctxVars
    /\ UNCHANGED <<now, schedules, plans, interrupted, born, config, stream, faults>>

Signal ==
    /\ proc = "up"
    /\ proc' = "stopping"
    /\ UNCHANGED <<schedVars, ctxVars, config, goroutine, alive, lastErr,
                   stream, starts, faults>>

\* Shutdown waits for the requests being served, and a log stream is one until
\* its client goes; then wg.Wait waits for the tracked goroutines.
MutantWaited == /\ ~stream /\ \A g \in config \cap Goroutines : goroutine[g] = "done"
                /\ \A s \in Sources : watchers[s].state # "sending"
Waited == ~stream /\ \A g \in config \cap Goroutines : goroutine[g] = "done"

FinishShutdown ==
    /\ proc = "stopping" /\ Waited
    /\ proc' = "closing"
    /\ UNCHANGED <<schedVars, ctxVars, config, goroutine, alive, lastErr,
                   stream, starts, faults>>

\* A server that cannot listen: run returns at once, waiting for nobody.
ServeFails ==
    /\ proc = "up"
    /\ proc' = "closing"
    /\ UNCHANGED <<schedVars, ctxVars, config, goroutine, alive, lastErr,
                   stream, starts, faults>>

\* The process is gone, and its goroutines with it.
Exit ==
    /\ proc' = "down" /\ stream' = FALSE
    /\ goroutine' = None("off")
    /\ alive' = None("absent") /\ lastErr' = None(FALSE)
    /\ StopPass(NoPass)
    /\ CtxStopped /\ UNCHANGED <<world, broken, graph>>
    /\ UNCHANGED <<config, starts, faults>>

Return == proc = "closing" /\ Exit
Crash  == proc \in {"up", "stopping"} /\ Exit

\* The 30 s of forceExit; calls take far less, only a stream outlasts them.
ForceExit == proc = "stopping" /\ stream /\ Exit

OpenStream ==
    /\ proc = "up" /\ ~stream /\ "log-stream" \in config
    /\ stream' = TRUE
    /\ UNCHANGED <<schedVars, ctxVars, config, proc, goroutine, alive,
                   lastErr, starts, faults>>
CloseStream ==
    /\ stream
    /\ stream' = FALSE
    /\ UNCHANGED <<schedVars, ctxVars, config, proc, goroutine, alive,
                   lastErr, starts, faults>>

-----------------------------------------------------------------------------
\* GoroutineTracker.Go: the function of g returns, and setErr notes an error
\* that is not the cancelled context.
MutantReturns(g, err) ==
    /\ goroutine[g] = "running"
    /\ goroutine' = [goroutine EXCEPT ![g] = "returned"]
    /\ lastErr' = [lastErr EXCEPT ![g] = err /\ Cancelled]
Returns(g, err) ==
    /\ goroutine[g] = "running"
    /\ goroutine' = [goroutine EXCEPT ![g] = "returned"]
    /\ lastErr' = [lastErr EXCEPT ![g] = err /\ ~Cancelled]

SetDead(g) ==
    /\ goroutine[g] = "returned"
    /\ alive' = [alive EXCEPT ![g] = "no"]
    /\ goroutine' = [goroutine EXCEPT ![g] = "stopped"]
    /\ UNCHANGED <<schedVars, ctxVars, config, proc, lastErr, stream, starts, faults>>

WaitGroupDone(g) ==
    /\ goroutine[g] = "stopped"
    /\ goroutine' = [goroutine EXCEPT ![g] = "done"]
    /\ UNCHANGED <<schedVars, ctxVars, config, proc, alive, lastErr, stream,
                   starts, faults>>

\* handleReadyz.
MutantReadyzOK == DBOpen
ReadyzOK == DBOpen /\ \A g \in Goroutines : alive[g] # "no"

\* A call of a goroutine fails: by itself (counted), or because its context is
\* cancelled.
CallFails == \/ proc = "up" /\ faults < MaxFaults /\ faults' = faults + 1
             \/ Cancelled /\ UNCHANGED faults

-----------------------------------------------------------------------------
\* The scheduler: a step while its calls succeed, or the end of Run.
SchedulerRuns ==
    /\ DBOpen /\ SchedulerStep
    /\ Cancelled => pass.state # "idle"
    /\ UNCHANGED <<ctxVars, procVars>>

SchedulerFails ==
    /\ InCall /\ CallFails /\ StopPass(Returned)
    /\ UNCHANGED <<ctxVars, config, proc, goroutine, alive, lastErr, stream, starts>>

SchedulerReturns ==
    /\ DBOpen /\ pass.state = "returned" /\ Returns("scheduler", TRUE)
    /\ UNCHANGED <<schedVars, ctxVars, config, proc, alive, stream, starts, faults>>

Users ==
    /\ DBOpen
    /\ "scheduler" \in config
    /\ \/ \E s \in Schedules, c \in Crons, e \in BOOLEAN : CreateSchedule(s, c, e)
       \/ \E s \in Schedules : DeleteSchedule(s)
    /\ UNCHANGED <<ctxVars, procVars>>

Clock == /\ "scheduler" \in config /\ Tick /\ UNCHANGED <<ctxVars, procVars>>

-----------------------------------------------------------------------------
\* The context service: its goroutines go on until the context is cancelled,
\* whether the tracked function still runs or has returned.
CtxActive == DBOpen /\ "context-service" \in config

PollerRuns ==
    /\ CtxActive /\ ~Cancelled /\ PollerStep
    /\ UNCHANGED <<schedVars, procVars>>
IngesterRuns ==
    /\ CtxActive /\ (Cancelled => ~Writing(ingester)) /\ IngesterStep
    /\ UNCHANGED <<schedVars, procVars>>
WatcherRuns(s) ==
    /\ CtxActive /\ (Cancelled => watchers[s].state = "sending") /\ WatcherStep(s)
    /\ UNCHANGED <<schedVars, procVars>>

BrokenFails ==
    /\ CtxActive /\ ~Cancelled /\ AtBroken /\ PollerFails
    /\ UNCHANGED <<schedVars, procVars>>

CollectorFails ==
    /\ CtxActive /\ CallFails /\ (PollerFails \/ IngesterFails)
    /\ UNCHANGED <<schedVars, config, proc, goroutine, alive, lastErr, stream, starts>>

SourceStep ==
    /\ "context-service" \in config /\ \E s \in Sources : SourceChanges(s)
    /\ UNCHANGED <<schedVars, procVars>>

\* The tracked function only listens to Errs: the first error ends it.
MutantErrsRead ==
    /\ proc = "up" /\ errs > 0
    /\ errs' = errs - 1
    /\ UNCHANGED <<world, broken, graph, channel, poller, watchers, ingester>>
    /\ UNCHANGED <<schedVars, procVars>>
ErrsRead ==
    /\ proc = "up" /\ errs > 0
    /\ Returns("context-service", TRUE)
    /\ errs' = errs - 1
    /\ UNCHANGED <<world, broken, graph, channel, poller, watchers, ingester>>
    /\ UNCHANGED <<schedVars, config, proc, alive, stream, starts, faults>>

ContextReturns ==
    /\ Cancelled /\ Returns("context-service", FALSE)
    /\ UNCHANGED <<schedVars, ctxVars, config, proc, alive, stream, starts, faults>>

\* The other goroutines: an error, or the cancelled context, ends them.
OpaqueReturns(g) ==
    /\ g \in Opaque /\ CallFails /\ Returns(g, TRUE)
    /\ UNCHANGED <<schedVars, ctxVars, config, proc, alive, stream, starts>>

-----------------------------------------------------------------------------
Tracking(g) == DBOpen /\ (SetDead(g) \/ WaitGroupDone(g))

Next ==
    \/ Start \/ Signal \/ FinishShutdown \/ ServeFails \/ Return \/ Crash \/ ForceExit
    \/ OpenStream \/ CloseStream
    \/ \E g \in Goroutines : Tracking(g) \/ OpaqueReturns(g)
    \/ SchedulerRuns \/ SchedulerFails \/ SchedulerReturns \/ Users \/ Clock
    \/ PollerRuns \/ IngesterRuns \/ (\E s \in Sources : WatcherRuns(s))
    \/ BrokenFails \/ CollectorFails \/ SourceStep \/ ErrsRead \/ ContextReturns

\* Goroutines and the shutdown sequence are scheduled by the Go runtime; a
\* cancelled call comes back.  ingestLoop, once cancelled, owes nothing.  Nobody owes a signal, a change or a failure.
Fairness ==
    /\ WF_vars(FinishShutdown) /\ WF_vars(Return) /\ WF_vars(ForceExit)
    /\ \A g \in Goroutines : WF_vars(Tracking(g))
    /\ \A g \in Opaque : WF_vars(Cancelled /\ OpaqueReturns(g))
    /\ WF_vars(SchedulerRuns) /\ WF_vars(Cancelled /\ SchedulerFails)
    /\ WF_vars(SchedulerReturns)
    /\ WF_vars(PollerRuns) /\ WF_vars(BrokenFails) /\ WF_vars(~Cancelled /\ IngesterRuns)
    /\ \A s \in Sources : WF_vars(WatcherRuns(s))
    /\ WF_vars(Cancelled /\ CollectorFails)
    /\ WF_vars(ErrsRead) /\ WF_vars(ContextReturns)

Spec == Init /\ [][Next]_vars /\ Fairness

(***************************************************************************)
(* Properties                                                              *)
(***************************************************************************)
\* /readyz and the wait group agree with the goroutines: one that wg.Wait no
\* longer waits for is reported dead, one reported dead has left its function,
\* and if an error ended it while the gateway was up, the report carries it.
ReportedStopped ==
    \A g \in config \cap Goroutines :
       /\ goroutine[g] = "done" => alive[g] = "no"
       /\ alive[g] = "no" => goroutine[g] \in {"stopped", "done"}
       /\ proc = "up" /\ alive[g] = "no" => lastErr[g]

\* The tracking from the start of a goroutine to its end: what makes
\* ReportedStopped inductive.  A process that is down has no goroutine.
Tracked ==
    /\ proc = "down" => pass = NoPass /\ goroutine = None("off")
    /\ \A g \in Goroutines :
         /\ alive[g] = "no" <=> goroutine[g] \in {"stopped", "done"}
         /\ proc = "up" /\ goroutine[g] \in {"returned", "stopped", "done"} => lastErr[g]

\* The types, with the bounded channels of the services, and the tracking.
ProcessInv == TypeOK /\ Tracked /\ WatchersGood /\ ReportedStopped

\* The inductive invariant of the process with its scheduler.
IInv == TypeOK /\ Tracked /\ WatchersGood /\ SchedGood

\* What an error ends, or a collector reports, shows in /readyz: no goroutine dies
\* unnoticed while the gateway stays up, and no collector's error is lost though
\* many arrive at once.
DeathShows ==
    (errs > 0 \/ \E g \in Goroutines : goroutine[g] = "returned")
       ~> (~ReadyzOK \/ proc # "up")

\* The schedule is enabled, readable and due, on the page a pass reads.
DueRow(s) == \E i \in 1 .. Len(Page(schedules)) :
                /\ schedules[i].id = s /\ schedules[i].enabled
                /\ schedules[i].cron # BadCron /\ IsDue(schedules[i], now)

\* A schedule among the rows a pass reads is planned once it is due, as long as
\* it is there and the scheduler has not been ended by an error.
DuePlanned ==
    \A s \in Schedules :
       (proc = "up" /\ DueRow(s))
          ~> (proc # "up" \/ ~DueRow(s) \/ goroutine["scheduler"] # "running")

\* Whatever the order in which pollers and watchers bring their snapshots, and
\* though the service was reported dead after an error, the graph of a gateway
\* that stays up ends up as its sources are, for all the sources that come
\* before one which can never be polled.
GraphCatchesUp == (config = {"context-service"} /\ <>[](proc = "up")) => <>[]Current

\* After a signal the gateway gets past wg.Wait to its deferred calls, also with
\* a watcher that will never get its snapshot sent; only a log stream holds it.
CleanExit == proc = "stopping" ~> (proc \in {"closing", "down"})
=============================================================================
