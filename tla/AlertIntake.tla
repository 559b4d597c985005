----------------------------- MODULE AlertIntake -----------------------------
(***************************************************************************)
(* How alerts become plans: the AlertPoller and the webhook of the         *)
(* gateway, both through the EventGate and its table.                      *)
(*                                                                         *)
(* Times are ages in ticks: every time the code stores grows with the      *)
(* clock, up to where a larger one makes no difference.  `left' is the     *)
(* time to suppressed_until.                                               *)
(***************************************************************************)
EXTENDS Integers, Sequences

CONSTANTS
    Alerts,
    Relevant,     \* the alerts whose severity is in AllowSeverities
    Hooks,        \* concurrent webhook requests
    Window, Backoff, MinCount,  \* of the EventGate
    DedupWindow,  \* of the AlertPoller
    MaxDelay,     \* a request is answered within so many ticks
    MaxFaults,    \* bound on failing calls
    MaxRestarts   \* bound on restarts

ASSUME IntakeAssumption ==
    /\ Relevant \subseteq Alerts /\ "poller" \notin Hooks
    /\ Window \in Nat \ {0} /\ Backoff \in Nat /\ MinCount \in Nat \ {0}
    /\ DedupWindow \in Nat /\ MaxDelay \in Nat
    /\ MaxFaults \in Nat /\ MaxRestarts \in Nat

VARIABLES
    firing,   \* the alerts Alertmanager has
    poller,   \* the AlertPoller
    seen,     \* AlertPoller.seen: age per alert, DedupWindow if there is none
    req,      \* what the poller and the webhooks are doing
    gate,     \* the table event_gates
    faults, restarts,
    planned,  \* history: alerts with a plan since they fire
    last,     \* history: age of the last acceptance per row of the gate
    recent    \* history: ages of the last MinCount deliveries per row

vars == <<firing, poller, seen, req, gate, faults, restarts, planned, last, recent>>
history == <<planned, last, recent>>

Callers == Hooks \cup {"poller"}

\* hashEvent: the poller's payload is not the webhook's, so that one alert has
\* a row for each.
Rows == {"poll", "hook"} \X Alerts
RowOf(c, a) == <<IF c = "poller" THEN "poll" ELSE "hook", a>>

Never == -MaxDelay      \* suppressed_until NULL
Old   == Window + MaxDelay + 1
NoRow == [op |-> "none", first |-> 0, count |-> 0, left |-> Never, allowed |-> FALSE]
Idle  == [pc |-> "idle", alert |-> "none", at |-> 0, new |-> NoRow]

AtMost(n, bound) == IF n > bound THEN bound ELSE n

(***************************************************************************)
(* EventGate                                                               *)
(***************************************************************************)
Count(row) == AtMost(row.count + 1, MinCount)

\* now.Before(suppressed_until)
MutantSuppressed(row, at) == row.left + at > 1
Suppressed(row, at) == row.left + at > 0

\* now.Sub(first_seen) > window
MutantWindowOver(row, at) == FALSE
WindowOver(row, at) == row.first - at > Window

\* now.Add(backoff), if the event is allowed
MutantUntil(allowed, at) == IF allowed THEN Backoff + 1 - at ELSE Never
Until(allowed, at) == IF allowed THEN Backoff - at ELSE Never

\* What UpsertEventGate makes of the row it has read, for an event received
\* `at' ticks ago: insert one, count only, or start or go on counting.
Decide(row, at) ==
    LET reset == WindowOver(row, at)
        count == IF row = NoRow \/ reset THEN 1 ELSE Count(row)
        ok    == count >= MinCount
    IN  IF row # NoRow /\ Suppressed(row, at)
        THEN [row EXCEPT !.op = "count", !.count = Count(row), !.allowed = FALSE]
        ELSE [op      |-> IF row = NoRow THEN "insert" ELSE "update",
              first   |-> IF row = NoRow \/ reset THEN at ELSE row.first,
              count   |-> count, allowed |-> ok, left |-> Until(ok, at)]

Stored(new) == [new EXCEPT !.op = "row", !.allowed = FALSE]

\* SELECT
GateRead(c) ==
    /\ req[c].pc = "read"
    /\ LET row == gate[RowOf(c, req[c].alert)] IN
       req' = [req EXCEPT ![c].pc = "write", ![c].new = Decide(row, req[c].at)]
    /\ UNCHANGED <<firing, poller, seen, gate, faults, restarts, history>>

\* INSERT, which fails if another request has inserted the row, or UPDATE.
GateWrite(c) ==
    LET row == RowOf(c, req[c].alert)
        new == req[c].new
    IN
    /\ req[c].pc = "write"
    /\ IF new.op = "insert" /\ gate[row] # NoRow
       THEN /\ req' = [req EXCEPT ![c] = Idle]
            /\ UNCHANGED <<gate, last>>
       ELSE /\ gate' = [gate EXCEPT ![row] =
                 IF new.op = "count" THEN [@ EXCEPT !.count = new.count] ELSE Stored(new)]
            /\ req' = [req EXCEPT ![c] = IF new.allowed THEN [@ EXCEPT !.pc = "loop"] ELSE Idle]
            /\ last' = IF new.allowed THEN [last EXCEPT ![row] = req[c].at] ELSE last
    /\ UNCHANGED <<firing, poller, seen, faults, restarts, planned, recent>>

\* runAlertEventLoop makes a plan.
EventLoop(c) ==
    /\ req[c].pc = "loop"
    /\ planned' = planned \cup {req[c].alert}
    /\ req' = [req EXCEPT ![c] = Idle]
    /\ UNCHANGED <<firing, poller, seen, gate, faults, restarts, last, recent>>

\* A statement of the gate or the event loop fails.  The poller drops the
\* error; a webhook answers with it.
HandlerFails(c) ==
    /\ req[c].pc # "idle" /\ faults < MaxFaults /\ faults' = faults + 1
    /\ req' = [req EXCEPT ![c] = Idle]
    /\ UNCHANGED <<firing, poller, seen, gate, restarts, history>>

\* EventGate.Accept is called, with the time.  An alert without the severity
\* goes no further.
Handle(c, a) ==
    IF a \in Relevant
    THEN /\ req' = [req EXCEPT ![c] = [Idle EXCEPT !.pc = "read", !.alert = a]]
         /\ recent' = [recent EXCEPT ![RowOf(c, a)] =
                         SubSeq(<<0>> \o @, 1, AtMost(Len(@) + 1, MinCount))]
    ELSE UNCHANGED <<req, recent>>

(***************************************************************************)
(* The webhook and the poller                                              *)
(***************************************************************************)
HookArrives(h, a) ==
    /\ req[h].pc = "idle" /\ a \in firing
    /\ Handle(h, a)
    /\ UNCHANGED <<firing, poller, seen, gate, faults, restarts, planned, last>>

\* alerts_list
Poll ==
    /\ poller.up /\ ~poller.polled
    /\ poller' = [poller EXCEPT !.polled = TRUE, !.batch = firing]
    /\ UNCHANGED <<firing, seen, req, gate, faults, restarts, history>>

\* The call fails: Run returns, and nobody calls it again.
PollFails ==
    /\ poller.up /\ ~poller.polled /\ faults < MaxFaults
    /\ faults' = faults + 1
    /\ poller' = [poller EXCEPT !.up = FALSE]
    /\ UNCHANGED <<firing, seen, req, gate, restarts, history>>

\* shouldSkip marks the alert as seen before its handler runs.
MutantTake(a) ==
    /\ a \in poller.batch /\ req["poller"].pc = "idle"
    /\ poller' = [poller EXCEPT !.batch = @ \ {a}]
    /\ seen' = [seen EXCEPT ![a] = 0]
    /\ IF seen[a] < DedupWindow THEN UNCHANGED <<req, recent>> ELSE Handle("poller", a)
    /\ UNCHANGED <<firing, gate, faults, restarts, planned, last>>
Take(a) ==
    /\ a \in poller.batch /\ req["poller"].pc = "idle"
    /\ poller' = [poller EXCEPT !.batch = @ \ {a}]
    /\ IF seen[a] < DedupWindow
       THEN UNCHANGED <<seen, req, recent>>
       ELSE seen' = [seen EXCEPT ![a] = 0] /\ Handle("poller", a)
    /\ UNCHANGED <<firing, gate, faults, restarts, planned, last>>

(***************************************************************************)
(* The surroundings                                                        *)
(***************************************************************************)
Resting == ~poller.up \/ (poller.polled /\ poller.batch = {} /\ req["poller"].pc = "idle")

Older(row) == IF row = NoRow THEN row
              ELSE [row EXCEPT !.first = AtMost(@ + 1, Old),
                               !.left = IF @ = Never THEN Never ELSE @ - 1]

\* One tick of the clock: the next poll is due, and the last one is over.
Tick ==
    /\ Resting /\ \A c \in Callers : req[c].pc # "idle" => req[c].at < MaxDelay
    /\ poller' = [poller EXCEPT !.polled = FALSE]
    /\ seen' = [a \in Alerts |-> AtMost(seen[a] + 1, DedupWindow)]
    /\ gate' = [r \in Rows |-> Older(gate[r])]
    /\ req' = [c \in Callers |-> IF req[c].pc = "idle" THEN Idle
                                 ELSE [req[c] EXCEPT !.at = @ + 1, !.new = Older(@)]]
    /\ last' = [r \in Rows |-> AtMost(last[r] + 1, Backoff + MaxDelay)]
    /\ recent' = [r \in Rows |-> [i \in DOMAIN recent[r] |-> AtMost(recent[r][i] + 1, Old)]]
    /\ UNCHANGED <<firing, faults, restarts, planned>>

Fires(a) ==
    /\ a \notin firing
    /\ firing' = firing \cup {a} /\ planned' = planned \ {a}
    /\ UNCHANGED <<poller, seen, req, gate, faults, restarts, last, recent>>

Resolves(a) ==
    /\ a \in firing
    /\ firing' = firing \ {a}
    /\ UNCHANGED <<poller, seen, req, gate, faults, restarts, history>>

\* A new process: the poller's memory is gone, the table is not.
Restart ==
    /\ restarts < MaxRestarts /\ restarts' = restarts + 1
    /\ poller' = [up |-> TRUE, polled |-> FALSE, batch |-> {}]
    /\ seen' = [a \in Alerts |-> DedupWindow]
    /\ req' = [c \in Callers |-> Idle]
    /\ UNCHANGED <<firing, gate, faults, history>>

Init ==
    /\ firing = {} /\ planned = {} /\ faults = 0 /\ restarts = 0
    /\ poller = [up |-> TRUE, polled |-> FALSE, batch |-> {}]
    /\ seen = [a \in Alerts |-> DedupWindow]
    /\ req = [c \in Callers |-> Idle]
    /\ gate = [r \in Rows |-> NoRow]
    /\ last = [r \in Rows |-> Backoff + MaxDelay]
    /\ recent = [r \in Rows |-> <<>>]

Answer(c) == GateRead(c) \/ GateWrite(c) \/ EventLoop(c)

PollerNext == Poll \/ (\E a \in Alerts : Take(a)) \/ Answer("poller")

Next ==
    \/ PollerNext
    \/ \E h \in Hooks : Answer(h)
    \/ \E h \in Hooks, a \in Alerts : HookArrives(h, a)
    \/ \E c \in Callers : HandlerFails(c)
    \/ PollFails \/ Tick \/ Restart
    \/ \E a \in Alerts : Fires(a) \/ Resolves(a)

\* The clock goes on, the poller's loop runs and requests are answered;
\* Alertmanager need not call the webhook.
Fairness == /\ WF_vars(Tick) /\ WF_vars(PollerNext)
            /\ \A h \in Hooks : WF_vars(Answer(h))

Spec == Init /\ [][Next]_vars /\ Fairness

(***************************************************************************)
(* Properties                                                              *)
(***************************************************************************)
Gates == [op : {"none", "row"}, first : 0 .. Old, count : 0 .. MinCount,
          left : Never .. Backoff, allowed : {FALSE}]
Verdicts == [op : {"none", "insert", "count", "update"}, first : 0 .. Old,
             count : 0 .. MinCount, left : Never .. Backoff, allowed : BOOLEAN]
Requests == [pc : {"idle", "read", "write", "loop"}, alert : Alerts \cup {"none"},
             at : 0 .. MaxDelay, new : Verdicts]

\* Types of the gates, the poller, the hooks and the clock.
TypeOK ==
    /\ firing \subseteq Alerts /\ planned \subseteq Alerts
    /\ poller \in [up : BOOLEAN, polled : BOOLEAN, batch : SUBSET Alerts]
    /\ seen \in [Alerts -> 0 .. DedupWindow]
    /\ req \in [Callers -> Requests] /\ gate \in [Rows -> Gates]
    /\ last \in [Rows -> 0 .. Backoff + MaxDelay]
    /\ recent \in [Rows -> Seq(0 .. Old)]
    /\ faults \in 0 .. MaxFaults /\ restarts \in 0 .. MaxRestarts

Accepts(c) == req[c].pc = "write" /\ req'[c].pc = "loop"

\* Deliveries of an alert that follow one another never make plans closer than
\* Backoff, whatever fails or restarts between them.
Spaced ==
    [][\A c \in Callers : Accepts(c)
          => last[RowOf(c, req[c].alert)] - req[c].at >= Backoff]_vars

\* An event is accepted only if MinCount deliveries of it came within Window.
EnoughSeen ==
    [][\A c \in Callers : Accepts(c)
          => LET seenAt == recent[RowOf(c, req[c].alert)] IN
             /\ Len(seenAt) = MinCount
             /\ seenAt[MinCount] - req[c].at <= Window]_vars

\* What the event gate promises to both of its callers, over the types of its
\* table, the poller and the clock.
GateHolds == []TypeOK /\ Spaced /\ EnoughSeen

(***************************************************************************)
(* What makes the gate's promise inductive, where the deliveries of one    *)
(* alert follow one another.                                               *)
(***************************************************************************)
AtGate(c) == req[c].pc \in {"read", "write"}
Serial == \A g, h \in Hooks :
             AtGate(g) /\ AtGate(h) /\ req[g].alert = req[h].alert => g = h

\* The n last deliveries came no earlier than `first'.
Counts(n, first, ages) == n \in 1 .. Len(ages) /\ ages[n] <= first

Sorted(ages) == \A i, j \in DOMAIN ages : i <= j => ages[i] <= ages[j]

\* A row counts deliveries of its window, and its suppression lasts at least
\* Backoff from the last acceptance.
RowGood(r) ==
    /\ Len(recent[r]) <= MinCount /\ Sorted(recent[r])
    /\ gate[r] # NoRow =>
          gate[r].op = "row" /\ Counts(gate[r].count, gate[r].first, recent[r])
    /\ last[r] >= Backoff - (IF gate[r].left = Never THEN 0 ELSE gate[r].left)

\* A request that is about to read its row is not counted there yet.
ReadGood(q, r) ==
    /\ gate[r] # NoRow => Counts(Count(gate[r]), gate[r].first, recent[r])
    /\ gate[r].left = Never => last[r] - q.at >= Backoff

\* What a request is about to write holds of the row as it is now.
WriteGood(q, r) ==
    /\ q.new.op # "none" /\ Counts(q.new.count, q.new.first, recent[r])
    /\ q.new.op = "count" =>
          gate[r] # NoRow /\ q.new.first = gate[r].first /\ ~q.new.allowed
    /\ q.new.op # "count" =>
          /\ last[r] - q.at >= Backoff
          /\ q.new.left = Until(q.new.allowed, q.at)
    /\ q.new.allowed => q.new.count = MinCount /\ q.new.first - q.at <= Window

RequestGood(q, r) ==
    /\ q.pc # "idle" => q.alert \in Alerts
    /\ q.pc \in {"read", "write"} => recent[r] # <<>> /\ recent[r][1] <= q.at
    /\ q.pc = "read" => ReadGood(q, r)
    /\ q.pc = "write" => WriteGood(q, r)

\* The inductive invariant of the event gate: rows count what came within
\* their window and requests carry verdicts that are not stale.
IInv == /\ TypeOK /\ \A r \in Rows : RowGood(r)
        /\ \A c \in Callers : RequestGood(req[c], RowOf(c, req[c].alert))

\* An alert that goes on firing gets its plan while the poller runs: a failed
\* handler, the memory of what was seen and the gate only delay it.
AlertPlanned ==
    \A a \in Relevant : a \in firing ~> a \in planned \/ a \notin firing \/ ~poller.up
=============================================================================
