------------------------------ MODULE Scheduler ------------------------------
(***************************************************************************)
(* The schedules table and the gateway's scheduler goroutine               *)
(* (internal/web/scheduler.go).  A pass reads the newest schedules, and    *)
(* for each one that is due inserts a plan and then stores the time of the *)
(* run, in two statements.  The first error ends the pass and the          *)
(* goroutine.                                                              *)
(***************************************************************************)
EXTENDS Naturals, Sequences, SequencesExt

CONSTANTS Schedules,  \* schedule ids
          Crons,      \* the cron expressions in use: periods, or BadCron
          BadCron,    \* an expression the parser refuses
          Limit,      \* rows a pass reads
          MaxTime     \* bound on the clock

ASSUME SchedulerAssumption ==
    /\ Crons \subseteq (Nat \ {0}) \cup {BadCron}
    /\ BadCron \notin Nat
    /\ Limit \in Nat \ {0}
    /\ MaxTime \in Nat

VARIABLES now,          \* the clock; 0 is Go's zero time
          schedules,    \* the table, newest row first
          pass,         \* the scheduler goroutine
          plans,        \* plans made so far of each schedule
          interrupted,  \* of them, those whose run could not be stored
          born          \* when and with which cron a schedule was created

schedVars == <<now, schedules, pass, plans, interrupted, born>>

Row == [id: Schedules, cron: Crons, enabled: BOOLEAN,
        created: Nat \ {0}, last: Nat]

\* Where the goroutine is: waiting for its ticker, at a row of its list, after
\* CreatePlan, or out of Run.
PassStates == {"off", "idle", "check", "created", "returned"}
NoPass     == [state |-> "off", at |-> 0, todo |-> <<>>]
Idle       == [state |-> "idle", at |-> 0, todo |-> <<>>]
Returned   == [state |-> "returned", at |-> 0, todo |-> <<>>]

NotBorn == [at |-> 0, cron |-> BadCron]

SchedTypeOK ==
    /\ now \in Nat \ {0}
    /\ schedules \in Seq(Row)
    /\ pass \in [state: PassStates, at: Nat, todo: Seq(Row)]
    /\ plans \in [Schedules -> Nat] /\ interrupted \in [Schedules -> Nat]
    /\ born \in [Schedules -> [at: Nat, cron: Crons \cup {BadCron}]]

SchedInit ==
    /\ now = 1 /\ schedules = <<>> /\ pass = NoPass
    /\ plans = [s \in Schedules |-> 0] /\ interrupted = [s \in Schedules |-> 0]
    /\ born = [s \in Schedules |-> NotBorn]

\* The parsed expression's next time after t.
NextRun(cron, t) == (t \div cron + 1) * cron

\* The time the next run is computed from: the last run, or the creation of a
\* schedule that never ran.
MutantBase(row) == row.created
Base(row) == IF row.last = 0 THEN row.created ELSE row.last

IsDue(row, t) == NextRun(row.cron, Base(row)) <= t

\* ListSchedules: the newest rows up to the limit.
Page(rows) == SubSeq(rows, 1, IF Len(rows) < Limit THEN Len(rows) ELSE Limit)

-----------------------------------------------------------------------------
\* POST and DELETE /v1/schedules; the expression is not parsed here.  The id is
\* the table's primary key.
CreateSchedule(s, cron, enabled) ==
    /\ born[s] = NotBorn
    /\ schedules' = <<[id |-> s, cron |-> cron, enabled |-> enabled,
                       created |-> now, last |-> 0]>> \o schedules
    /\ born' = [born EXCEPT ![s] = [at |-> now, cron |-> cron]]
    /\ UNCHANGED <<now, pass, plans, interrupted>>

DeleteSchedule(s) ==
    /\ \E i \in DOMAIN schedules :
         /\ schedules[i].id = s
         /\ schedules' = RemoveAt(schedules, i)
    /\ UNCHANGED <<now, pass, plans, interrupted, born>>

Tick == /\ now < MaxTime
        /\ now' = now + 1
        /\ UNCHANGED <<schedules, pass, plans, interrupted, born>>

-----------------------------------------------------------------------------
\* One RunOnce: the rows and the time they are judged by are read at its start.
ListPass ==
    /\ pass.state = "idle"
    /\ pass' = [state |-> "check", at |-> now, todo |-> Page(schedules)]
    /\ UNCHANGED <<now, schedules, plans, interrupted, born>>

SkipRow ==
    /\ pass.state = "check" /\ pass.todo # <<>>
    /\ LET row == Head(pass.todo) IN
         ~row.enabled \/ (row.cron # BadCron /\ ~IsDue(row, pass.at))
    /\ pass' = [pass EXCEPT !.todo = Tail(@)]
    /\ UNCHANGED <<now, schedules, plans, interrupted, born>>

\* An enabled row whose expression cannot be parsed ends Run.
StopAtBadCron ==
    /\ pass.state = "check" /\ pass.todo # <<>>
    /\ Head(pass.todo).enabled /\ Head(pass.todo).cron = BadCron
    /\ pass' = Returned
    /\ UNCHANGED <<now, schedules, plans, interrupted, born>>

MakePlan ==
    /\ pass.state = "check" /\ pass.todo # <<>>
    /\ LET row == Head(pass.todo) IN
         /\ row.enabled /\ row.cron # BadCron /\ IsDue(row, pass.at)
         /\ plans' = [plans EXCEPT ![row.id] = @ + 1]
    /\ pass' = [pass EXCEPT !.state = "created"]
    /\ UNCHANGED <<now, schedules, interrupted, born>>

\* UpdateScheduleLastRun: nothing to update when the row is gone.
UpdateScheduleLastRun ==
    /\ pass.state = "created"
    /\ schedules' = [i \in DOMAIN schedules |->
                        IF schedules[i].id = Head(pass.todo).id
                        THEN [schedules[i] EXCEPT !.last = pass.at]
                        ELSE schedules[i]]
    /\ pass' = [pass EXCEPT !.state = "check", !.todo = Tail(@)]
    /\ UNCHANGED <<now, plans, interrupted, born>>

MutantEndPass ==
    /\ pass.state = "check" /\ pass.todo = <<>>
    /\ pass' = NoPass
    /\ UNCHANGED <<now, schedules, plans, interrupted, born>>
EndPass ==
    /\ pass.state = "check" /\ pass.todo = <<>>
    /\ pass' = Idle
    /\ UNCHANGED <<now, schedules, plans, interrupted, born>>

SchedulerStep == \/ ListPass \/ SkipRow \/ StopAtBadCron \/ MakePlan
                 \/ UpdateScheduleLastRun \/ EndPass

\* The goroutine stops where it stands, by an error of the call it is in (to
\* is Returned) or with the process (NoPass): a plan just made stays unrecorded.
StopPass(to) ==
    /\ pass' = to
    /\ interrupted' = IF pass.state = "created"
                      THEN [interrupted EXCEPT ![Head(pass.todo).id] = @ + 1]
                      ELSE interrupted
    /\ UNCHANGED <<now, schedules, plans, born>>

\* A statement is under way, which may fail: ListSchedules, CreatePlan or
\* UpdateScheduleLastRun.
InCall ==
    \/ pass.state \in {"idle", "created"}
    \/ /\ pass.state = "check" /\ pass.todo # <<>>
       /\ LET row == Head(pass.todo) IN
            row.enabled /\ row.cron # BadCron /\ IsDue(row, pass.at)

-----------------------------------------------------------------------------
\* The times of a cron expression in the interval (from, to].
Times(cron, from, to) == to \div cron - from \div cron

NoTimeTwice ==
    \A s \in Schedules :
       plans[s] > 0 => plans[s] <= Times(born[s].cron, born[s].at, now)
                                     + interrupted[s]

\* Why that holds: the plans of a schedule whose run is stored are no more
\* than the times up to the one its row says was the last.  That is so of the
\* table, and of the rows a pass has read: they may be older than the table, but
\* a schedule that was planned since is no longer among them.
Stored == [s \in Schedules |->
              plans[s] - interrupted[s]
                 - IF pass.state = "created" /\ Head(pass.todo).id = s THEN 1 ELSE 0]

Accounted(row) ==
    /\ born[row.id] = [at |-> row.created, cron |-> row.cron]
    /\ row.cron # BadCron =>
          Stored[row.id] <= Times(row.cron, row.created, Base(row))

OneRowPerId(rows) == \A i, j \in DOMAIN rows : rows[i].id = rows[j].id => i = j

RowsGood(rows) ==
    /\ OneRowPerId(rows)
    /\ \A i \in DOMAIN rows : Accounted(rows[i])

PassGood ==
    /\ pass.at <= now
    /\ pass.state \in {"check", "created"} => pass.at # 0
    /\ pass.state = "created" =>
          /\ pass.todo # <<>>
          /\ Head(pass.todo).cron # BadCron /\ IsDue(Head(pass.todo), pass.at)

PlansGood ==
    \A s \in Schedules :
       plans[s] > 0 =>
          /\ born[s].cron # BadCron
          /\ plans[s] - interrupted[s] <= Times(born[s].cron, born[s].at, now)

SchedGood == RowsGood(schedules) /\ RowsGood(pass.todo) /\ PassGood /\ PlansGood

\* No time of a schedule is planned twice, however late the passes are, unless
\* a pass was cut off between CreatePlan and UpdateScheduleLastRun: there are
\* never more plans than times since the schedule was created, plus one for
\* each such cut.  (With the account of the rows that makes this inductive.)
OncePerTime == NoTimeTwice /\ SchedGood
=============================================================================
