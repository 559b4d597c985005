--------------------------- MODULE ApprovalWatcher ---------------------------
(***************************************************************************)
(* The approval watcher (internal/approvals/watcher.go): it polls the      *)
(* labels of the Linear issues, expires the ones that nobody answered in   *)
(* time and copies the others' status to the approvals of their plan.      *)
(*                                                                         *)
(* The loop works on a snapshot ("batch") of the issues, one item and one  *)
(* external call at a time; people keep changing labels meanwhile.  The    *)
(* first error ends Run, and nobody calls it again before the process      *)
(* restarts.                                                               *)
(***************************************************************************)
EXTENDS PlanStore, FiniteSets

CONSTANTS PageSize,     \* ListApprovalIssues asks for the first 100
          CallsFail,    \* may a call to Linear or to the database fail?
          LabelSets,    \* the labels people may leave on an issue (a bound)
          MaxRestarts   \* how often the gateway restarts (a bound)

ASSUME WatcherAssumption ==
    /\ PageSize \in Nat /\ MaxRestarts \in Nat
    /\ CallsFail \in BOOLEAN
    /\ LabelSets \subseteq SUBSET Labels

\* watch.last: the status the watcher last stored for an issue ("none").
\* watch.hand: the issue it has just relabelled as expired.
VARIABLE watch

Item  == [issue: Issues, status: ApprovalStatuses, overdue: BOOLEAN]
Watch == [alive: BOOLEAN, polling: BOOLEAN, batch: SUBSET Item,
          hand: Issues \cup {None}, last: [Issues -> ApprovalStatuses \cup {"none"}],
          restarts: 0 .. MaxRestarts]

\* A watcher without memory, alive or not.
NewWatch(alive, restarts) ==
    [alive |-> alive, polling |-> FALSE, batch |-> {}, hand |-> None,
     last |-> [i \in Issues |-> "none"], restarts |-> restarts]

WatcherTypeOK == watch \in Watch
WatcherInit   == watch = NewWatch(TRUE, 0)

\* approvalStatus: the strongest label wins.
MutantApprovalDefault(labels) ==
    CASE "denied" \in labels -> "denied"
      [] "denied" \notin labels /\ "expired" \in labels -> "expired"
      [] OTHER -> "approved"
MutantApprovalStatus(labels) ==
    CASE "pending" \in labels  -> "pending"
      [] "denied" \in labels /\ "pending" \notin labels -> "denied"
      [] labels \cap {"pending", "denied"} = {} /\ "expired" \in labels -> "expired"
      [] labels = {"approved"} -> "approved"
ApprovalStatus(labels) ==
    CASE "approved" \in labels -> "approved"
      [] "approved" \notin labels /\ "denied" \in labels -> "denied"
      [] labels \cap {"approved", "denied"} = {} /\ "expired" \in labels -> "expired"
      [] labels = {"pending"}  -> "pending"

\* The issues that carry one of the four labels.  They keep their last label
\* for ever, so that the list only grows.
Listed == {i \in Issues : issues[i].plan # None /\ issues[i].labels # {}}

\* The nodes of the first page: all of the issues, or as many as fit.
Pages == IF Cardinality(Listed) <= PageSize THEN {Listed}
         ELSE {page \in SUBSET Listed : Cardinality(page) = PageSize}

Snapshot(i) == [issue |-> i, status |-> ApprovalStatus(issues[i].labels),
                overdue |-> issues[i].overdue]

ListIssues ==
    /\ watch.alive /\ ~watch.polling
    /\ \E page \in Pages :
         watch' = [watch EXCEPT !.polling = TRUE, !.batch = {Snapshot(i) : i \in page}]
    /\ UNCHANGED storeVars

\* An item that asks for nothing: pending in time, or stored before.
MutantSettled(item) == item.status = "pending" \/ watch.last[item.issue] = item.status
Settled(item) == IF item.status = "pending" THEN ~item.overdue
                 ELSE watch.last[item.issue] = item.status

InHand(item) == watch.hand \in {None, item.issue}

Skip(item) ==
    /\ item \in watch.batch /\ InHand(item) /\ Settled(item)
    /\ watch' = [watch EXCEPT !.batch = @ \ {item}, !.hand = None]
    /\ UNCHANGED storeVars

\* UpdateApprovalStatus replaces all the labels of the issue, whatever they
\* have become since the snapshot.
MutantExpire(item) ==
    /\ item \in watch.batch /\ watch.hand = None
    /\ item.status = "pending" /\ item.overdue
    /\ issues' = [issues EXCEPT ![item.issue].labels = {"timeout"}]
    /\ watch' = [watch EXCEPT
                   !.batch = (@ \ {item}) \cup {[item EXCEPT !.status = "expired"]},
                   !.hand = item.issue]
    /\ UNCHANGED <<plans, approvals, executions, workflows, granted>>
Expire(item) ==
    /\ item \in watch.batch /\ watch.hand = None
    /\ item.status = "pending" /\ item.overdue
    /\ issues' = [issues EXCEPT ![item.issue].labels = {"expired"}]
    /\ watch' = [watch EXCEPT
                   !.batch = (@ \ {item}) \cup {[item EXCEPT !.status = "expired"]},
                   !.hand = item.issue]
    /\ UNCHANGED <<plans, approvals, executions, workflows, granted>>

\* The status of the snapshot goes to every approval of the plan.
MutantStore(item) ==
    /\ item \in watch.batch /\ InHand(item)
    /\ item.status # "pending" /\ ~Settled(item)
    /\ watch' = [watch EXCEPT !.batch = @ \ {item}, !.hand = None,
                              !.last[item.issue] = item.status]
    /\ UNCHANGED storeVars
Store(item) ==
    /\ item \in watch.batch /\ InHand(item)
    /\ item.status # "pending" /\ ~Settled(item)
    /\ approvals' = UpdateApprovalStatusByPlan(issues[item.issue].plan, item.status)
    /\ watch' = [watch EXCEPT !.batch = @ \ {item}, !.hand = None,
                              !.last[item.issue] = item.status]
    /\ UNCHANGED <<plans, executions, issues, workflows, granted>>

\* syncOnce is through; the next tick of the ticker polls again.
Tick ==
    /\ watch.alive /\ watch.polling /\ watch.batch = {}
    /\ watch' = [watch EXCEPT !.polling = FALSE]
    /\ UNCHANGED storeVars

\* ListApprovalIssues, UpdateApprovalStatus or UpdateApprovalStatusByPlan
\* returns an error: Run returns it and the goroutine is gone.
CallFails ==
    /\ CallsFail /\ watch.alive
    /\ watch' = NewWatch(FALSE, watch.restarts)
    /\ UNCHANGED storeVars

\* The gateway starts again; what the watcher remembered is lost.
RestartWatcher ==
    /\ watch.restarts < MaxRestarts
    /\ watch' = NewWatch(TRUE, watch.restarts + 1)

Poll    == ListIssues \/ Tick
Process == \E item \in watch.batch : Skip(item) \/ Expire(item) \/ Store(item)

(***************************************************************************)
(* Linear and the people (external)                                        *)
(***************************************************************************)
\* Somebody changes the labels of an issue.
Relabel(i, labels) ==
    /\ issues[i].plan # None /\ issues[i].labels # labels
    /\ issues' = [issues EXCEPT ![i].labels = labels]
    /\ granted' = IF "approved" \in labels
                  THEN granted \cup {<<issues[i].plan, "linear">>} ELSE granted
    /\ UNCHANGED <<plans, approvals, executions, workflows>>

\* CreatedAt falls behind now - Timeout.
Age(i) ==
    /\ issues[i].plan # None /\ ~issues[i].overdue
    /\ issues' = [issues EXCEPT ![i].overdue = TRUE]
    /\ UNCHANGED <<plans, approvals, executions, workflows, granted>>

People == \E i \in Issues : Age(i) \/ \E labels \in LabelSets : Relabel(i, labels)

(***************************************************************************)
(* The watcher with the people and with one approval per plan, which the   *)
(* gateway's createApproval leaves behind: a row, and an issue that asks   *)
(* for it.                                                                 *)
(***************************************************************************)
RequestApproval(p, a, i) ==
    /\ plans[p].row = "absent" /\ approvals[a].plan = None /\ issues[i].plan = None
    /\ plans' = CreatePlan(p, "api", "medium", "none", "require_approval")
    /\ approvals' = CreateApproval(a, p)
    /\ issues' = [issues EXCEPT ![i] = [plan |-> p, labels |-> {"pending"},
                                        overdue |-> FALSE]]
    /\ UNCHANGED <<executions, workflows, granted>>

watcherVars == <<storeVars, watch>>

WatcherStart == StoreInit /\ WatcherInit

WatcherNext ==
    \/ Poll \/ Process \/ CallFails
    \/ RestartWatcher /\ UNCHANGED storeVars
    \/ People /\ UNCHANGED watch
    \/ \E p \in Plans, a \in Approvals, i \in Issues :
         RequestApproval(p, a, i) /\ UNCHANGED watch

\* The ticker fires, and calls return: the goroutine keeps going while it
\* lives.  Nobody is obliged to restart the gateway or to answer an issue.
WatcherSpec == /\ WatcherStart
               /\ [][WatcherNext]_watcherVars
               /\ WF_watcherVars(Poll) /\ WF_watcherVars(Process)

(***************************************************************************)
(* Properties                                                              *)
(***************************************************************************)
\* A plan is asked for by one issue, and nothing refers to a plan that was never
\* stored.
AskedOnce ==
    /\ \A a \in Approvals : approvals[a].plan # None => plans[approvals[a].plan].row # "absent"
    /\ \A i \in Issues : issues[i].plan # None => plans[issues[i].plan].row # "absent"
    /\ \A i, j \in Issues : issues[i].plan = issues[j].plan => i = j \/ issues[i].plan = None

\* The watcher knows only issues that ask for a plan.
WatchesIssues ==
    /\ \A item \in watch.batch : issues[item.issue].plan # None
    /\ \A i \in Issues : watch.last[i] # "none" => issues[i].plan # None

Remembers ==
    \A i \in Issues, a \in Approvals :
       watch.last[i] # "none" /\ approvals[a].plan = issues[i].plan
          => approvals[a].status = watch.last[i]

\* What the watcher remembers of an issue (w.last) is what it stored for the
\* plan: this is why syncOnce may skip an issue whose status it remembers.  (With
\* the types of the store and of the watcher, and what makes it inductive.)
LastIsStored == /\ StoreTypeOK /\ WatcherTypeOK
                /\ AskedOnce /\ WatchesIssues /\ Remembers

\* An answer that stays on the issue: approved beats denied.
Answered(i, status) ==
    /\ issues[i].plan # None /\ status \in issues[i].labels
    /\ status = "denied" => "approved" \notin issues[i].labels

Applied(i, status) == \A a \in ApprovalsOf(issues[i].plan) : approvals[a].status = status

\* syncOnce brings an answer that people leave on an issue to the approvals
\* of its plan, for good, if the watcher is still there.
DecisionApplied ==
    \A i \in Issues : \A status \in {"approved", "denied"} :
       <>[](Answered(i, status) /\ watch.alive) => <>[]Applied(i, status)

\* An issue left pending beyond Timeout does not keep its plan pending while
\* the watcher runs.
OverdueDecided ==
    \A i \in Issues :
       issues[i].overdue
          ~> \/ \A a \in ApprovalsOf(issues[i].plan) : approvals[a].status # "pending"
             \/ ~watch.alive
=============================================================================
