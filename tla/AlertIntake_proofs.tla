-------------------------- MODULE AlertIntake_proofs --------------------------
(***************************************************************************)
(* Proofs about AlertIntake: what the event gate promises, for any alerts, *)
(* webhooks, window, backoff and count, and with any number of failures    *)
(* and restarts.                                                           *)
(***************************************************************************)
EXTENDS AlertIntake, SequenceTheorems, TLAPS

USE IntakeAssumption

Gated == <<req, gate, last, recent>>

\* The constants the records are made of, and the empty records.
LEMMA Bounds ==
    /\ Never \in Int /\ Never = -MaxDelay /\ Old \in Nat /\ Old = Window + MaxDelay + 1
    /\ NoRow \in Gates /\ NoRow \in Verdicts /\ Idle \in Requests
    /\ NoRow.op = "none" /\ NoRow.left = Never /\ Idle.pc = "idle"
BY DEF Never, Old, NoRow, Idle, Gates, Verdicts, Requests

\* Each caller has rows of its own, but for the webhooks, which share theirs.
LEMMA RowsApart ==
    ASSUME NEW c \in Callers, NEW d \in Callers, NEW a, NEW b, RowOf(c, a) = RowOf(d, b)
    PROVE  a = b /\ (c = d \/ (c \in Hooks /\ d \in Hooks))
BY DEF RowOf, Callers

LEMMA RowIsRow ==
    ASSUME NEW c, NEW a \in Alerts
    PROVE  RowOf(c, a) \in Rows
BY DEF RowOf, Rows

-----------------------------------------------------------------------------
(***************************************************************************)
(* Ages of deliveries                                                      *)
(***************************************************************************)
Ages == 0 .. Old
Shift(ages) == SubSeq(<<0>> \o ages, 1, AtMost(Len(ages) + 1, MinCount))
Aged(ages) == [i \in DOMAIN ages |-> AtMost(ages[i] + 1, Old)]

\* A delivery comes first; the others move back, and the last may drop out.
LEMMA ShiftFacts ==
    ASSUME NEW s \in Seq(Ages), Len(s) <= MinCount
    PROVE  /\ Shift(s) \in Seq(Ages) /\ Len(Shift(s)) \in 1 .. MinCount
           /\ Len(Shift(s)) = AtMost(Len(s) + 1, MinCount)
           /\ Shift(s)[1] = 0
           /\ \A i \in 2 .. Len(Shift(s)) : Shift(s)[i] = s[i - 1]
<1> DEFINE t == <<0>> \o s
           n == AtMost(Len(s) + 1, MinCount)
<1>1. Len(s) \in Nat
  BY LenProperties
<1>2. n \in 1 .. MinCount /\ n <= Len(s) + 1
  BY <1>1 DEF AtMost
<1>3. <<0>> \in Seq(Ages)
  BY Bounds DEF Ages
<1>4. /\ t \in Seq(Ages) /\ Len(t) = Len(s) + 1 /\ t[1] = 0
      /\ \A i \in 2 .. Len(t) : t[i] = s[i - 1]
  BY <1>1, <1>3, ConcatProperties
<1> HIDE DEF t, n
<1>5. /\ SubSeq(t, 1, n) \in Seq(Ages) /\ Len(SubSeq(t, 1, n)) = n
      /\ \A i \in 1 .. n : SubSeq(t, 1, n)[i] = t[i]
  BY <1>1, <1>2, <1>4, SubSeqProperties
<1>6. Shift(s) = SubSeq(t, 1, n)
  BY DEF Shift, t, n
<1>7. QED
  BY <1>1, <1>2, <1>4, <1>5, <1>6 DEF n

\* What is counted stays counted, and the new delivery may be counted too.
LEMMA ShiftCounts ==
    ASSUME NEW s \in Seq(Ages), Len(s) <= MinCount, Sorted(s)
    PROVE  /\ Sorted(Shift(s))
           /\ \A n \in Nat, f \in Nat : Counts(n, f, s) =>
                 Counts(n, f, Shift(s)) /\ Counts(AtMost(n + 1, MinCount), f, Shift(s))
<1> DEFINE t == Shift(s)
<1>1. /\ t \in Seq(Ages) /\ Len(t) \in 1 .. MinCount /\ Len(t) = AtMost(Len(s) + 1, MinCount)
      /\ t[1] = 0 /\ \A i \in 2 .. Len(t) : t[i] = s[i - 1]
  BY ShiftFacts
<1>2. Len(s) \in Nat /\ DOMAIN s = 1 .. Len(s) /\ DOMAIN t = 1 .. Len(t)
  BY <1>1, LenProperties
<1>3. \A i \in 1 .. Len(s) : s[i] \in Nat
  BY <1>2, Bounds, ElementOfSeq DEF Ages
<1> HIDE DEF t
<1>4. Sorted(t)
  <2> SUFFICES ASSUME NEW i \in DOMAIN t, NEW j \in DOMAIN t, i <= j PROVE t[i] <= t[j]
    BY DEF Sorted
  <2>1. CASE i = 1
    <3>1. CASE j = 1
      BY <1>1, <2>1, <3>1
    <3>2. CASE j # 1
      <4>1. j - 1 \in 1 .. Len(s) /\ t[j] = s[j - 1]
        BY <1>1, <1>2, <3>2 DEF AtMost
      <4>2. QED
        BY <1>1, <1>3, <2>1, <4>1
    <3>3. QED
      BY <3>1, <3>2
  <2>2. CASE i # 1
    <3>1. i - 1 \in 1 .. Len(s) /\ j - 1 \in 1 .. Len(s) /\ i - 1 <= j - 1
      BY <1>1, <1>2, <2>2 DEF AtMost
    <3>2. t[i] = s[i - 1] /\ t[j] = s[j - 1]
      BY <1>1, <1>2, <2>2
    <3>3. QED
      BY <1>2, <3>1, <3>2 DEF Sorted
  <2>3. QED
    BY <2>1, <2>2
<1>5. ASSUME NEW n \in Nat, NEW f \in Nat, Counts(n, f, s)
      PROVE  Counts(n, f, t) /\ Counts(AtMost(n + 1, MinCount), f, t)
  <2>1. n \in 1 .. Len(s) /\ s[n] <= f /\ n <= Len(t) /\ s[n] \in Nat
    BY <1>1, <1>2, <1>3, <1>5 DEF Counts, AtMost
  <2>2. t[n] <= f
    <3>1. CASE n = 1
      BY <1>1, <3>1
    <3>2. CASE n # 1
      <4>1. n - 1 \in 1 .. Len(s) /\ t[n] = s[n - 1] /\ n - 1 <= n
        BY <1>1, <2>1, <3>2
      <4>2. s[n - 1] <= s[n] /\ s[n - 1] \in Nat
        BY <1>2, <1>3, <2>1, <4>1 DEF Sorted
      <4>3. QED
        BY <2>1, <4>1, <4>2
    <3>3. QED
      BY <3>1, <3>2
  <2>3. CASE n + 1 <= MinCount
    <3>1. n + 1 \in 2 .. Len(t) /\ AtMost(n + 1, MinCount) = n + 1
      BY <1>1, <1>2, <2>1, <2>3 DEF AtMost
    <3>2. t[n + 1] = s[n]
      BY <1>1, <3>1
    <3>3. QED
      BY <1>1, <2>1, <2>2, <3>1, <3>2 DEF Counts
  <2>4. CASE ~(n + 1 <= MinCount)
    <3>1. AtMost(n + 1, MinCount) = n
      BY <1>2, <2>1, <2>4 DEF AtMost
    <3>2. QED
      BY <1>1, <2>1, <2>2, <3>1 DEF Counts
  <2>5. QED
    BY <2>3, <2>4
<1>6. QED
  BY <1>4, <1>5 DEF t

\* A tick makes all deliveries older at once.
LEMMA AgedFacts ==
    ASSUME NEW s \in Seq(Ages), Sorted(s)
    PROVE  /\ Aged(s) \in Seq(Ages) /\ Len(Aged(s)) = Len(s) /\ Sorted(Aged(s))
           /\ \A n \in Nat, f \in Nat : Counts(n, f, s) => Counts(n, AtMost(f + 1, Old), Aged(s))
           /\ s # <<>> => Aged(s) # <<>> /\ Aged(s)[1] <= s[1] + 1
<1>1. Len(s) \in Nat /\ DOMAIN s = 1 .. Len(s)
  BY LenProperties
<1>2. \A i \in 1 .. Len(s) : s[i] \in Ages /\ s[i] \in Nat
  BY <1>1, Bounds, ElementOfSeq DEF Ages
<1>3. \A i \in 1 .. Len(s) : Aged(s)[i] = AtMost(s[i] + 1, Old) /\ Aged(s)[i] \in Ages
  BY <1>1, <1>2, Bounds DEF Aged, Ages, AtMost
<1>4. DOMAIN Aged(s) = 1 .. Len(s) /\ Aged(s) = [i \in 1 .. Len(s) |-> Aged(s)[i]]
  BY <1>1 DEF Aged
<1>5. Aged(s) \in Seq(Ages)
  BY <1>1, <1>3, <1>4
<1>6. Len(Aged(s)) = Len(s)
  BY <1>1, <1>4, <1>5, LenProperties
<1>7. Sorted(Aged(s))
  BY <1>1, <1>2, <1>3, <1>4, Bounds DEF Sorted, AtMost
<1>8. ASSUME NEW n \in Nat, NEW f \in Nat, Counts(n, f, s)
      PROVE  Counts(n, AtMost(f + 1, Old), Aged(s))
  BY <1>2, <1>3, <1>6, <1>8, Bounds DEF Counts, AtMost
<1>9. ASSUME s # <<>> PROVE Aged(s) # <<>> /\ Aged(s)[1] <= s[1] + 1
  <2>1. Len(s) # 0
    BY <1>9, EmptySeq
  <2>2. 1 \in 1 .. Len(s)
    BY <1>1, <2>1
  <2>3. Aged(s)[1] <= s[1] + 1
    BY <1>2, <1>3, <2>2, Bounds DEF AtMost
  <2>4. Aged(s) # <<>>
    BY <1>6, <2>1, EmptySeq
  <2>5. QED
    BY <2>3, <2>4
<1>10. QED
  BY <1>5, <1>6, <1>7, <1>8, <1>9

-----------------------------------------------------------------------------
(***************************************************************************)
(* Steps of one request                                                    *)
(***************************************************************************)
LEMMA InitIInv == Init => IInv
<1> SUFFICES ASSUME Init PROVE IInv
  OBVIOUS
<1>1. TypeOK
  BY Bounds DEF Init, TypeOK
<1>2. ASSUME NEW r \in Rows PROVE RowGood(r)
  <2>1. recent[r] = <<>> /\ gate[r] = NoRow /\ last[r] = Backoff + MaxDelay
    BY DEF Init
  <2>2. Len(recent[r]) = 0 /\ DOMAIN recent[r] = {}
    BY <2>1
  <2>3. QED
    BY <2>1, <2>2, Bounds DEF RowGood, Sorted
<1>3. ASSUME NEW c \in Callers PROVE RequestGood(req[c], RowOf(c, req[c].alert))
  <2>1. req[c].pc = "idle"
    BY Bounds DEF Init
  <2>2. QED
    BY <2>1 DEF RequestGood
<1>4. QED
  BY <1>1, <1>2, <1>3 DEF IInv

\* Where a request is at the gate, no other one is there for the same row.
LEMMA Alone ==
    ASSUME IInv, Serial, NEW c \in Callers, NEW d \in Callers, c # d, AtGate(c), AtGate(d)
    PROVE  RowOf(c, req[c].alert) # RowOf(d, req[d].alert)
BY RowsApart DEF Serial

\* A step of one request that changes only its own row, and leaves that row and
\* the request good.
LEMMA OneRequest ==
    ASSUME IInv, NEW c \in Callers, NEW r \in Rows, TypeOK',
           \A d \in Callers : d # c => req'[d] = req[d],
           \A d \in Callers : d # c /\ AtGate(d) => RowOf(d, req[d].alert) # r,
           \A s \in Rows : s # r => gate'[s] = gate[s] /\ last'[s] = last[s]
                                     /\ recent'[s] = recent[s],
           RowGood(r)', RequestGood(req[c], RowOf(c, req[c].alert))'
    PROVE  IInv'
<1>1. ASSUME NEW s \in Rows PROVE RowGood(s)'
  BY DEF IInv, RowGood
<1>2. ASSUME NEW d \in Callers PROVE RequestGood(req[d], RowOf(d, req[d].alert))'
  <2>1. CASE d = c
    BY <2>1
  <2>2. CASE d # c
    <3>1. req'[d] = req[d] /\ RequestGood(req[d], RowOf(d, req[d].alert))
      BY <2>2 DEF IInv
    <3>2. CASE ~AtGate(d)
      BY <3>1, <3>2 DEF RequestGood, AtGate
    <3>3. CASE AtGate(d)
      <4>1. PICK s \in Rows : s = RowOf(d, req[d].alert)
        BY <3>1, <3>3, RowIsRow DEF RequestGood, AtGate
      <4>2. s # r
        BY <2>2, <3>3, <4>1
      <4>3. RowOf(d, req'[d].alert) = s
        BY <3>1, <4>1
      <4>4. gate'[s] = gate[s] /\ last'[s] = last[s] /\ recent'[s] = recent[s]
        BY <4>2
      <4>5. RequestGood(req[d], s)
        BY <3>1, <4>1
      <4>6. RequestGood(req[d], s)'
        BY <3>1, <4>4, <4>5 DEF RequestGood, ReadGood, WriteGood
      <4>7. QED
        BY <4>3, <4>6
    <3>4. QED
      BY <3>2, <3>3
  <2>3. QED
    BY <2>1, <2>2
<1>3. QED
  BY <1>1, <1>2 DEF IInv

\* A request that is over, or past the gate, leaves every row alone.
LEMMA OverIInv ==
    ASSUME IInv, NEW c \in Callers, TypeOK', UNCHANGED <<gate, last, recent>>,
           req' = [req EXCEPT ![c] = Idle]
    PROVE  IInv'
<1>1. \A s \in Rows : RowGood(s)'
  BY DEF IInv, RowGood
<1>2. ASSUME NEW d \in Callers PROVE RequestGood(req[d], RowOf(d, req[d].alert))'
  <2>1. CASE d = c
    <3>1. req'[c].pc = "idle"
      BY Bounds DEF IInv, TypeOK
    <3>2. QED
      BY <2>1, <3>1 DEF RequestGood
  <2>2. CASE d # c
    <3>1. req'[d] = req[d] /\ RequestGood(req[d], RowOf(d, req[d].alert))
      BY <2>2 DEF IInv, TypeOK
    <3>2. QED
      BY <3>1 DEF RequestGood, ReadGood, WriteGood
  <2>3. QED
    BY <2>1, <2>2
<1>3. QED
  BY <1>1, <1>2 DEF IInv

\* A step of the surroundings that does not touch requests or rows.
LEMMA RestIInv ==
    ASSUME IInv, TypeOK', UNCHANGED Gated
    PROVE  IInv'
BY DEF IInv, Gated, RowGood, RequestGood, ReadGood, WriteGood

-----------------------------------------------------------------------------
(***************************************************************************)
(* The event gate                                                          *)
(***************************************************************************)
LEMMA GateFields ==
    ASSUME NEW row \in Gates
    PROVE  /\ Count(row) \in 1 .. MinCount /\ row.count \in 0 .. MinCount
           /\ row.first \in 0 .. Old /\ row.first \in Nat
           /\ row.left \in Never .. Backoff /\ row.left \in Int
<1>1. row.count \in 0 .. MinCount /\ row.first \in 0 .. Old /\ row.left \in Never .. Backoff
  BY DEF Gates
<1>2. QED
  BY <1>1, Bounds DEF Count, AtMost

\* What UpsertEventGate decides, field by field.
LEMMA DecideFacts ==
    ASSUME NEW row \in Gates, NEW at \in 0 .. MaxDelay
    PROVE  /\ Decide(row, at) \in Verdicts
           /\ row # NoRow /\ Suppressed(row, at) =>
                 /\ Decide(row, at).op = "count" /\ ~Decide(row, at).allowed
                 /\ Decide(row, at).count = Count(row) /\ Decide(row, at).first = row.first
           /\ row = NoRow \/ ~Suppressed(row, at) =>
                 /\ Decide(row, at).op \in {"insert", "update"}
                 /\ Decide(row, at).left = Until(Decide(row, at).allowed, at)
                 /\ Decide(row, at).allowed => Decide(row, at).count >= MinCount
                 /\ \/ Decide(row, at).count = 1 /\ Decide(row, at).first = at
                    \/ /\ row # NoRow /\ ~WindowOver(row, at)
                       /\ Decide(row, at).count = Count(row)
                       /\ Decide(row, at).first = row.first
<1>1. Count(row) \in 1 .. MinCount /\ row.first \in 0 .. Old /\ row.left \in Never .. Backoff
  BY GateFields
<1>2. Until(TRUE, at) \in Never .. Backoff /\ Until(FALSE, at) \in Never .. Backoff
  BY Bounds DEF Until
<1>3. at \in 0 .. Old
  BY Bounds
<1>4. CASE row # NoRow /\ Suppressed(row, at)
  <2>1. Decide(row, at) = [row EXCEPT !.op = "count", !.count = Count(row), !.allowed = FALSE]
    BY <1>4 DEF Decide
  <2>2. Decide(row, at) = [op |-> "count", first |-> row.first, count |-> Count(row),
                           left |-> row.left, allowed |-> FALSE]
    BY <2>1 DEF Gates
  <2>3. Decide(row, at) \in Verdicts
    BY <1>1, <2>2 DEF Verdicts
  <2>4. QED
    BY <1>4, <2>2, <2>3
<1>5. CASE row = NoRow \/ ~Suppressed(row, at)
  <2> DEFINE count == IF row = NoRow \/ WindowOver(row, at) THEN 1 ELSE Count(row)
             op    == IF row = NoRow THEN "insert" ELSE "update"
             first == IF row = NoRow \/ WindowOver(row, at) THEN at ELSE row.first
             ok    == count >= MinCount
             left  == Until(ok, at)
  <2>1. Decide(row, at) = [op |-> op, first |-> first, count |-> count, allowed |-> ok,
                           left |-> left]
    BY <1>5 DEF Decide
  <2>2. /\ count \in 1 .. MinCount /\ first \in 0 .. Old /\ op \in {"insert", "update"}
        /\ ok \in BOOLEAN /\ left \in Never .. Backoff
    <3>1. count \in 1 .. MinCount /\ first \in 0 .. Old /\ op \in {"insert", "update"}
      BY <1>1, <1>3
    <3>2. ok = TRUE \/ ok = FALSE
      OBVIOUS
    <3> HIDE DEF count, ok
    <3>3. left \in Never .. Backoff
      BY <1>2, <3>2
    <3>4. QED
      BY <3>1, <3>2, <3>3
  <2>3. \/ count = 1 /\ first = at
        \/ row # NoRow /\ ~WindowOver(row, at) /\ count = Count(row) /\ first = row.first
    OBVIOUS
  <2>4. left = Until(ok, at) /\ (ok => count >= MinCount)
    OBVIOUS
  <2> HIDE DEF count, op, first, ok, left
  <2>5. Decide(row, at) \in Verdicts
    BY <2>1, <2>2 DEF Verdicts
  <2>6. QED
    BY <1>5, <2>1, <2>2, <2>3, <2>4, <2>5
<1>6. QED
  BY <1>4, <1>5

\* The verdict of a request at the gate: what it counts came within the window,
\* and an event it does not hold back comes Backoff after the last one.
LEMMA GateReadIInv ==
    ASSUME IInv, Serial, NEW c \in Callers, GateRead(c)
    PROVE  IInv'
<1> DEFINE r == RowOf(c, req[c].alert)
           at == req[c].at
           v == Decide(gate[r], at)
<1>1. /\ req[c].pc = "read" /\ UNCHANGED <<gate, last, recent>>
      /\ req' = [req EXCEPT ![c].pc = "write", ![c].new = v]
  BY DEF GateRead, history
<1>2. req[c] \in Requests /\ RequestGood(req[c], r)
  BY DEF IInv, TypeOK
<1>3. req[c].alert \in Alerts /\ ReadGood(req[c], r) /\ recent[r] # <<>> /\ recent[r][1] <= at
  BY <1>1, <1>2 DEF RequestGood
<1>4. r \in Rows
  BY <1>3, RowIsRow
<1>5. at \in 0 .. MaxDelay
  BY <1>2 DEF Requests
<1>6. gate[r] \in Gates /\ last[r] \in Nat /\ recent[r] \in Seq(Ages) /\ RowGood(r)
  BY <1>4 DEF IInv, TypeOK, Ages
<1> HIDE DEF r, at
<1>7. v \in Verdicts
  BY <1>5, <1>6, DecideFacts
<1>8. Len(recent[r]) \in Nat \ {0} /\ Len(recent[r]) <= MinCount /\ recent[r][1] \in Nat
  <2>1. Len(recent[r]) \in Nat \ {0}
    BY <1>3, <1>6, EmptySeq
  <2>2. recent[r][1] \in Ages
    BY <1>6, <2>1, ElementOfSeq
  <2>3. QED
    BY <1>6, <2>1, <2>2, Bounds DEF Ages, RowGood
<1>9. Count(gate[r]) \in 1 .. MinCount /\ gate[r].first \in Nat /\ gate[r].left \in Int
  BY <1>6, GateFields
<1>10. v.op # "none" /\ v.count \in 1 .. MinCount /\ v.first \in Nat
  BY <1>5, <1>6, <1>9, DecideFacts
<1>11. Counts(v.count, v.first, recent[r])
  <2>1. Counts(1, at, recent[r])
    BY <1>3, <1>8 DEF Counts
  <2>2. gate[r] # NoRow => Counts(Count(gate[r]), gate[r].first, recent[r])
    BY <1>3 DEF ReadGood
  <2>3. QED
    BY <1>5, <1>6, <2>1, <2>2, DecideFacts
<1>12. v.op = "count" => gate[r] # NoRow /\ v.first = gate[r].first /\ ~v.allowed
  BY <1>5, <1>6, DecideFacts
<1>13. ASSUME v.op # "count"
       PROVE  last[r] - at >= Backoff /\ v.left = Until(v.allowed, at)
  <2>1. v.left = Until(v.allowed, at) /\ (gate[r] = NoRow \/ ~Suppressed(gate[r], at))
    BY <1>5, <1>6, <1>13, DecideFacts
  <2>2. CASE gate[r].left = Never
    BY <1>3, <2>1, <2>2 DEF ReadGood, r, at
  <2>3. CASE gate[r].left # Never
    <3>1. gate[r].left + at <= 0
      BY <1>5, <1>9, <2>1, <2>3, Bounds DEF Suppressed
    <3>2. last[r] >= Backoff - gate[r].left
      BY <1>6, <2>3 DEF RowGood
    <3>3. QED
      BY <1>5, <1>6, <1>9, <2>1, <3>1, <3>2
  <2>4. QED
    BY <2>2, <2>3
<1>14. v.allowed => v.count = MinCount /\ v.first - at <= Window
  <2> SUFFICES ASSUME v.allowed PROVE v.count = MinCount /\ v.first - at <= Window
    OBVIOUS
  <2>1. v.op # "count" /\ (gate[r] = NoRow \/ ~Suppressed(gate[r], at))
    BY <1>5, <1>6, DecideFacts
  <2>2. v.count >= MinCount
    BY <1>5, <1>6, <2>1, DecideFacts
  <2>3. v.first = at \/ (v.first = gate[r].first /\ ~WindowOver(gate[r], at))
    BY <1>5, <1>6, <2>1, DecideFacts
  <2>4. QED
    BY <1>5, <1>9, <1>10, <2>2, <2>3 DEF WindowOver
<1> HIDE DEF v
<1>15. /\ req'[c] \in Requests /\ req'[c].pc = "write" /\ req'[c].new = v
       /\ req'[c].at = at /\ req'[c].alert = req[c].alert
       /\ req' \in [Callers -> Requests] /\ \A d \in Callers : d # c => req'[d] = req[d]
  BY <1>1, <1>2, <1>7 DEF IInv, TypeOK, Requests, at
<1>16. WriteGood(req[c], r)'
  <2>1. r' = r
    BY <1>15 DEF r
  <2>2. QED
    BY <1>1, <1>10, <1>11, <1>12, <1>13, <1>14, <1>15, <2>1 DEF WriteGood
<1>17. RequestGood(req[c], RowOf(c, req[c].alert))'
  BY <1>1, <1>3, <1>15, <1>16 DEF RequestGood, r
<1>18. TypeOK' /\ RowGood(r)'
  BY <1>1, <1>6, <1>15 DEF GateRead, IInv, TypeOK, RowGood, history, r
<1>19. QED
  <2>1. PICK s \in Rows : s = r
    BY <1>4
  <2>2. \A d \in Callers : d # c /\ AtGate(d) => RowOf(d, req[d].alert) # s
    BY <1>1, <2>1, Alone DEF AtGate, r
  <2>3. RowGood(s)'
    BY <1>1, <1>6, <2>1 DEF RowGood
  <2>4. QED
    BY <1>1, <1>15, <1>17, <1>18, <2>2, <2>3, OneRequest

\* The row a verdict leaves, and the time of the last acceptance with it.
LEMMA GateWriteIInv ==
    ASSUME IInv, Serial, NEW c \in Callers, GateWrite(c)
    PROVE  IInv'
<1> DEFINE q == req[c]
           new == q.new
<1>1. req[c].pc = "write" /\ q \in Requests /\ RequestGood(q, RowOf(c, q.alert))
  BY DEF GateWrite, IInv, TypeOK
<1>2. q.alert \in Alerts /\ WriteGood(q, RowOf(c, q.alert))
  BY <1>1 DEF RequestGood
<1>3. PICK r \in Rows : r = RowOf(c, q.alert)
  BY <1>2, RowIsRow
<1>4. WriteGood(q, r) /\ RowGood(r)
  BY <1>2, <1>3 DEF IInv
<1>5. /\ new.op \in {"none", "insert", "count", "update"} /\ new.first \in 0 .. Old
      /\ new.count \in 0 .. MinCount /\ new.left \in Never .. Backoff
      /\ new.allowed \in BOOLEAN /\ new \in Verdicts /\ q.at \in 0 .. MaxDelay
  BY <1>1 DEF Requests, Verdicts
<1>6. gate[r] \in Gates /\ last[r] \in Nat
  BY DEF IInv, TypeOK
<1>7. CASE new.op = "insert" /\ gate[r] # NoRow
  <2>1. req' = [req EXCEPT ![c] = Idle] /\ UNCHANGED <<gate, last, recent>>
    BY <1>3, <1>7 DEF GateWrite
  <2>2. TypeOK'
    BY <2>1, Bounds DEF GateWrite, IInv, TypeOK
  <2>3. QED
    BY <2>1, <2>2, OverIInv
<1>8. CASE ~(new.op = "insert" /\ gate[r] # NoRow)
  <2> DEFINE cell == IF new.op = "count" THEN [gate[r] EXCEPT !.count = new.count]
                     ELSE Stored(new)
             next == IF new.allowed THEN [q EXCEPT !.pc = "loop"] ELSE Idle
             at == IF new.allowed THEN q.at ELSE last[r]
  <2>1. /\ gate' = [gate EXCEPT ![r] = cell] /\ req' = [req EXCEPT ![c] = next]
        /\ last' = [last EXCEPT ![r] = at] /\ UNCHANGED recent
    <3>1. /\ gate' = [gate EXCEPT ![r] = cell] /\ req' = [req EXCEPT ![c] = next]
          /\ last' = (IF new.allowed THEN [last EXCEPT ![r] = q.at] ELSE last)
          /\ UNCHANGED recent
      BY <1>3, <1>8 DEF GateWrite
    <3>2. CASE new.allowed
      BY <3>1, <3>2
    <3>3. CASE ~new.allowed
      BY <3>1, <3>3 DEF IInv, TypeOK
    <3>4. QED
      BY <3>1, <3>2, <3>3
  <2>2. cell \in Gates /\ cell.op = "row" /\ Counts(cell.count, cell.first, recent[r])
        /\ (new.op = "count" => cell.left = gate[r].left)
        /\ (new.op # "count" => cell.left = new.left)
    <3>1. CASE new.op = "count"
      <4>1. gate[r] # NoRow /\ new.first = gate[r].first
        BY <1>4, <3>1 DEF WriteGood
      <4>2. gate[r].op = "row"
        BY <1>4, <4>1 DEF RowGood
      <4>3. cell = [op |-> "row", first |-> gate[r].first, count |-> new.count,
                    left |-> gate[r].left, allowed |-> FALSE]
        BY <1>6, <3>1, <4>2 DEF Gates
      <4> HIDE DEF cell
      <4>4. cell \in Gates
        BY <1>5, <1>6, <4>3, GateFields DEF Gates
      <4>5. QED
        BY <1>4, <3>1, <4>1, <4>3, <4>4 DEF WriteGood
    <3>2. CASE new.op # "count"
      <4>1. cell = [op |-> "row", first |-> new.first, count |-> new.count,
                    left |-> new.left, allowed |-> FALSE]
        BY <1>5, <3>2 DEF Stored, Verdicts
      <4> HIDE DEF cell
      <4>2. cell \in Gates
        BY <1>5, <4>1 DEF Gates
      <4>3. QED
        BY <1>4, <3>2, <4>1, <4>2 DEF WriteGood
    <3>3. QED
      BY <3>1, <3>2
  <2>3. next \in Requests /\ (next.pc = "idle" \/ (next.pc = "loop" /\ next.alert = q.alert))
    <3>1. CASE new.allowed
      BY <1>1, <3>1 DEF Requests
    <3>2. CASE ~new.allowed
      BY <3>2, Bounds
    <3>3. QED
      BY <3>1, <3>2
  <2>4. at \in 0 .. Backoff + MaxDelay
    BY <1>5 DEF IInv, TypeOK
  <2>5. at >= Backoff - (IF cell.left = Never THEN 0 ELSE cell.left)
    <3>1. CASE new.op = "count"
      BY <1>4, <2>2, <3>1 DEF WriteGood, RowGood
    <3>2. CASE new.op # "count"
      <4>1. last[r] - q.at >= Backoff /\ cell.left = Until(new.allowed, q.at)
        BY <1>4, <2>2, <3>2 DEF WriteGood
      <4> HIDE DEF cell
      <4>2. CASE new.allowed
        <5>1. at = q.at /\ cell.left = Backoff - q.at
          BY <4>1, <4>2 DEF Until
        <5>2. QED
          BY <1>5, <5>1, Bounds
      <4>3. CASE ~new.allowed
        <5>1. at = last[r] /\ cell.left = Never
          BY <4>1, <4>3 DEF Until
        <5>2. QED
          BY <1>5, <1>6, <4>1, <5>1, Bounds
      <4>4. QED
        BY <4>2, <4>3
    <3>3. QED
      BY <3>1, <3>2
  <2> HIDE DEF cell, next, at
  <2>6. /\ gate'[r] = cell /\ last'[r] = at /\ req'[c] = next
        /\ \A d \in Callers : d # c => req'[d] = req[d]
        /\ \A s \in Rows : s # r => gate'[s] = gate[s] /\ last'[s] = last[s]
    BY <2>1 DEF IInv, TypeOK
  <2>7. TypeOK'
    BY <2>1, <2>2, <2>3, <2>4 DEF GateWrite, IInv, TypeOK
  <2>8. RowGood(r)'
    BY <1>4, <2>1, <2>2, <2>5, <2>6 DEF RowGood
  <2>9. RequestGood(req[c], RowOf(c, req[c].alert))'
    BY <1>2, <2>3, <2>6 DEF RequestGood
  <2>10. \A d \in Callers : d # c /\ AtGate(d) => RowOf(d, req[d].alert) # r
    BY <1>1, <1>3, Alone DEF AtGate
  <2>11. QED
    BY <2>1, <2>6, <2>7, <2>8, <2>9, <2>10, OneRequest
<1>9. QED
  BY <1>7, <1>8

-----------------------------------------------------------------------------
(***************************************************************************)
(* Deliveries                                                              *)
(***************************************************************************)
\* A delivery that reaches the gate is among the recent ones of its row, where
\* it is not counted yet.
LEMMA HandleIInv ==
    ASSUME IInv, Serial', NEW c \in Callers, NEW a \in Alerts, req[c].pc = "idle",
           Handle(c, a), TypeOK', UNCHANGED <<gate, last>>
    PROVE  IInv'
<1>1. CASE a \notin Relevant
  BY <1>1, RestIInv DEF Handle, Gated
<1>2. CASE a \in Relevant
  <2>1. PICK r \in Rows : r = RowOf(c, a)
    BY RowIsRow
  <2>2. recent[r] \in Seq(Ages) /\ RowGood(r) /\ gate[r] \in Gates /\ last[r] \in Nat
    BY DEF IInv, TypeOK, Ages
  <2>3. Len(recent[r]) <= MinCount /\ Sorted(recent[r])
    BY <2>2 DEF RowGood
  <2>4. /\ req' = [req EXCEPT ![c] = [Idle EXCEPT !.pc = "read", !.alert = a]]
        /\ recent' = [recent EXCEPT ![r] = Shift(recent[r])]
    BY <1>2, <2>1 DEF Handle, Shift
  <2>5. /\ req'[c].pc = "read" /\ req'[c].alert = a /\ req'[c].at = 0
        /\ \A d \in Callers : d # c => req'[d] = req[d]
    BY <2>4 DEF IInv, TypeOK, Idle
  <2>6. /\ recent'[r] = Shift(recent[r])
        /\ \A s \in Rows : s # r => recent'[s] = recent[s]
    BY <2>4 DEF IInv, TypeOK
  <2>7. /\ Len(recent'[r]) \in 1 .. MinCount /\ Sorted(recent'[r]) /\ recent'[r][1] = 0
        /\ recent'[r] # <<>>
    BY <2>2, <2>3, <2>6, ShiftFacts, ShiftCounts
  <2>8. gate[r] # NoRow => /\ Counts(gate[r].count, gate[r].first, recent'[r])
                           /\ Counts(Count(gate[r]), gate[r].first, recent'[r])
    <3> SUFFICES ASSUME gate[r] # NoRow
                 PROVE  /\ Counts(gate[r].count, gate[r].first, recent'[r])
                        /\ Counts(Count(gate[r]), gate[r].first, recent'[r])
      OBVIOUS
    <3>1. gate[r].count \in Nat /\ gate[r].first \in Nat
      BY <2>2, GateFields
    <3>2. Counts(gate[r].count, gate[r].first, recent[r])
      BY <2>2 DEF RowGood
    <3>3. Count(gate[r]) = AtMost(gate[r].count + 1, MinCount)
      BY DEF Count
    <3>4. QED
      BY <2>2, <2>3, <2>6, <3>1, <3>2, <3>3, ShiftCounts
  <2>9. RowGood(r)'
    BY <2>2, <2>7, <2>8 DEF RowGood
  <2>10. ReadGood(req[c], r)'
    <3>1. gate[r].left = Never => last[r] - 0 >= Backoff
      BY <2>2 DEF RowGood
    <3>2. QED
      BY <2>5, <2>8, <3>1 DEF ReadGood
  <2>11. RequestGood(req[c], RowOf(c, req[c].alert))'
    BY <2>1, <2>5, <2>7, <2>10 DEF RequestGood
  <2>12. ASSUME NEW d \in Callers, d # c, AtGate(d) PROVE RowOf(d, req[d].alert) # r
    <3>1. AtGate(c)' /\ AtGate(d)' /\ req'[d] = req[d]
      BY <2>5, <2>12 DEF AtGate
    <3>2. SUFFICES ASSUME RowOf(d, req'[d].alert) = RowOf(c, req'[c].alert) PROVE FALSE
      BY <2>1, <2>5, <3>1
    <3>3. req'[d].alert = req'[c].alert /\ c \in Hooks /\ d \in Hooks
      BY <2>12, <3>2, RowsApart
    <3>4. QED
      BY <2>12, <3>1, <3>3 DEF Serial
  <2>13. QED
    BY <2>5, <2>6, <2>9, <2>11, <2>12, OneRequest
<1>3. QED
  BY <1>1, <1>2

LEMMA HandleTypes ==
    ASSUME IInv, NEW c \in Callers, NEW a \in Alerts, Handle(c, a)
    PROVE  (req \in [Callers -> Requests] /\ recent \in [Rows -> Seq(0 .. Old)])'
<1>1. CASE a \notin Relevant
  BY <1>1 DEF Handle, IInv, TypeOK
<1>2. CASE a \in Relevant
  <2>1. PICK r \in Rows : r = RowOf(c, a)
    BY RowIsRow
  <2>2. /\ req' = [req EXCEPT ![c] = [Idle EXCEPT !.pc = "read", !.alert = a]]
        /\ recent' = [recent EXCEPT ![r] = Shift(recent[r])]
    BY <1>2, <2>1 DEF Handle, Shift
  <2>3. [Idle EXCEPT !.pc = "read", !.alert = a] \in Requests
    BY Bounds DEF Idle, Requests
  <2>4. recent[r] \in Seq(Ages) /\ Len(recent[r]) <= MinCount
    BY DEF IInv, TypeOK, Ages, RowGood
  <2>5. Shift(recent[r]) \in Seq(0 .. Old)
    BY <2>4, ShiftFacts DEF Ages
  <2>6. QED
    BY <2>2, <2>3, <2>5 DEF IInv, TypeOK
<1>3. QED
  BY <1>1, <1>2

LEMMA HookArrivesIInv ==
    ASSUME IInv, Serial', NEW h \in Hooks, NEW a \in Alerts, HookArrives(h, a)
    PROVE  IInv'
<1>1. h \in Callers /\ req[h].pc = "idle" /\ Handle(h, a) /\ UNCHANGED <<gate, last>>
  BY DEF HookArrives, Callers
<1>2. TypeOK'
  BY <1>1, HandleTypes DEF HookArrives, IInv, TypeOK
<1>3. QED
  BY <1>1, <1>2, HandleIInv

LEMMA TakeIInv ==
    ASSUME IInv, Serial', NEW a \in Alerts, Take(a)
    PROVE  IInv'
<1>1. /\ "poller" \in Callers /\ req["poller"].pc = "idle"
      /\ UNCHANGED <<firing, gate, faults, restarts, planned, last>>
      /\ poller' = [poller EXCEPT !.batch = @ \ {a}]
  BY DEF Take, Callers
<1>2. poller' \in [up : BOOLEAN, polled : BOOLEAN, batch : SUBSET Alerts]
  BY <1>1 DEF IInv, TypeOK
<1>3. CASE seen[a] < DedupWindow
  <2>1. UNCHANGED <<seen, req, recent>>
    BY <1>3 DEF Take
  <2>2. TypeOK'
    BY <1>1, <1>2, <2>1 DEF IInv, TypeOK
  <2>3. QED
    BY <1>1, <2>1, <2>2, RestIInv DEF Gated
<1>4. CASE ~(seen[a] < DedupWindow)
  <2>1. seen' = [seen EXCEPT ![a] = 0] /\ Handle("poller", a)
    BY <1>4 DEF Take
  <2>2. TypeOK'
    BY <1>1, <1>2, <2>1, HandleTypes DEF IInv, TypeOK
  <2>3. QED
    BY <1>1, <2>1, <2>2, HandleIInv
<1>5. QED
  BY <1>3, <1>4

\* A request ends: with its plan, or with an error.
LEMMA EndIInv ==
    ASSUME IInv, NEW c \in Callers, EventLoop(c) \/ HandlerFails(c)
    PROVE  IInv'
<1>1. req' = [req EXCEPT ![c] = Idle] /\ UNCHANGED <<gate, last, recent>>
  BY DEF EventLoop, HandlerFails, history
<1>2. UNCHANGED <<firing, poller, seen, restarts>>
  BY DEF EventLoop, HandlerFails
<1>3. planned' \subseteq Alerts /\ faults' \in 0 .. MaxFaults
  <2>1. CASE EventLoop(c)
    <3>1. req[c].alert \in Alerts
      BY <2>1 DEF EventLoop, IInv, RequestGood
    <3>2. QED
      BY <2>1, <3>1 DEF EventLoop, IInv, TypeOK
  <2>2. CASE HandlerFails(c)
    BY <2>2 DEF HandlerFails, history, IInv, TypeOK
  <2>3. QED
    BY <2>1, <2>2
<1>4. TypeOK'
  BY <1>1, <1>2, <1>3, Bounds DEF IInv, TypeOK
<1>5. QED
  BY <1>1, <1>4, OverIInv

-----------------------------------------------------------------------------
(***************************************************************************)
(* The surroundings                                                        *)
(***************************************************************************)
LEMMA AroundIInv ==
    ASSUME IInv, Poll \/ PollFails \/ (\E a \in Alerts : Fires(a) \/ Resolves(a))
    PROVE  IInv'
<1>1. UNCHANGED Gated
  BY DEF Gated, Poll, PollFails, Fires, Resolves, history
<1>2. TypeOK'
  <2>1. CASE Poll
    BY <2>1 DEF Poll, history, IInv, TypeOK
  <2>2. CASE PollFails
    <3>1. poller' \in [up : BOOLEAN, polled : BOOLEAN, batch : SUBSET Alerts]
      BY <2>2 DEF PollFails, IInv, TypeOK
    <3>2. faults' \in 0 .. MaxFaults
      BY <2>2 DEF PollFails, IInv, TypeOK
    <3>3. QED
      BY <2>2, <3>1, <3>2 DEF PollFails, history, IInv, TypeOK
  <2>3. ASSUME NEW a \in Alerts, Fires(a) PROVE TypeOK'
    BY <2>3 DEF Fires, IInv, TypeOK
  <2>4. ASSUME NEW a \in Alerts, Resolves(a) PROVE TypeOK'
    BY <2>4 DEF Resolves, history, IInv, TypeOK
  <2>5. QED
    BY <2>1, <2>2, <2>3, <2>4
<1>3. QED
  BY <1>1, <1>2, RestIInv

LEMMA RestartIInv ==
    ASSUME IInv, Restart
    PROVE  IInv'
<1>1. UNCHANGED <<gate, last, recent>> /\ req' = [c \in Callers |-> Idle]
  BY DEF Restart, history
<1>2. TypeOK'
  BY <1>1, Bounds DEF Restart, history, IInv, TypeOK
<1>3. \A r \in Rows : RowGood(r)'
  BY <1>1 DEF IInv, RowGood
<1>4. \A c \in Callers : RequestGood(req[c], RowOf(c, req[c].alert))'
  BY <1>1, Bounds DEF RequestGood
<1>5. QED
  BY <1>2, <1>3, <1>4 DEF IInv

\* A row that is a tick older, in the table or in a request.
LEMMA OlderFacts ==
    ASSUME NEW row, row # NoRow, row \in Gates \/ row \in Verdicts
    PROVE  /\ Older(row).op = row.op /\ Older(row).count = row.count
           /\ Older(row).allowed = row.allowed
           /\ Older(row).first = AtMost(row.first + 1, Old)
           /\ Older(row).left = IF row.left = Never THEN Never ELSE row.left - 1
           /\ row \in Gates => Older(row) \in Gates
           /\ row \in Verdicts => Older(row) \in Verdicts
<1> DEFINE first == AtMost(row.first + 1, Old)
           left == IF row.left = Never THEN Never ELSE row.left - 1
<1>1. row.first \in 0 .. Old /\ row.left \in Never .. Backoff
  BY DEF Gates, Verdicts
<1>2. first \in 0 .. Old /\ left \in Never .. Backoff
  BY <1>1, Bounds DEF AtMost
<1>3. row = [op |-> row.op, first |-> row.first, count |-> row.count, left |-> row.left,
             allowed |-> row.allowed]
  BY DEF Gates, Verdicts
<1>4. Older(row) = [row EXCEPT !.first = first, !.left = left]
  BY DEF Older
<1> HIDE DEF first, left
<1>5. Older(row) = [op |-> row.op, first |-> first, count |-> row.count, left |-> left,
                    allowed |-> row.allowed]
  BY <1>3, <1>4
<1>6. ASSUME row \in Gates PROVE Older(row) \in Gates
  <2>1. row.op \in {"none", "row"} /\ row.count \in 0 .. MinCount /\ row.allowed = FALSE
    BY <1>6 DEF Gates
  <2>2. Older(row) = [op |-> row.op, first |-> first, count |-> row.count, left |-> left,
                      allowed |-> FALSE]
    BY <1>5, <2>1
  <2>3. QED
    BY <1>2, <2>1, <2>2 DEF Gates
<1>7. row \in Verdicts => Older(row) \in Verdicts
  BY <1>2, <1>5 DEF Verdicts
<1>8. QED
  BY <1>5, <1>6, <1>7 DEF first, left

LEMMA OlderTypes ==
    /\ \A row \in Gates : Older(row) \in Gates
    /\ \A row \in Verdicts : Older(row) \in Verdicts
<1>1. Older(NoRow) = NoRow
  BY DEF Older
<1>2. QED
  BY <1>1, OlderFacts, Bounds

\* While a suppression gets shorter the last acceptance gets older; one that is
\* over stays over.
LEMMA Suppression ==
    ASSUME NEW age \in 0 .. Backoff + MaxDelay, NEW left \in Never .. Backoff, NEW rest,
           rest = IF left = Never THEN Never ELSE left - 1,
           age >= Backoff - (IF left = Never THEN 0 ELSE left)
    PROVE  AtMost(age + 1, Backoff + MaxDelay)
             >= Backoff - (IF rest = Never THEN 0 ELSE rest)
<1>1. CASE left = Never
  BY <1>1, Bounds DEF AtMost
<1>2. CASE left # Never
  <2>1. rest = left - 1 /\ rest >= -MaxDelay /\ age >= Backoff - left /\ left \in Int
    BY <1>2, Bounds
  <2>2. CASE rest = Never
    BY <2>1, <2>2, Bounds DEF AtMost
  <2>3. CASE rest # Never
    BY <2>1, <2>3, Bounds DEF AtMost
  <2>4. QED
    BY <2>2, <2>3
<1>3. QED
  BY <1>1, <1>2

\* The clock makes table, requests and history older together.
LEMMA TickIInv ==
    ASSUME IInv, Tick
    PROVE  IInv'
<1>1. /\ gate' = [r \in Rows |-> Older(gate[r])]
      /\ req' = [c \in Callers |-> IF req[c].pc = "idle" THEN Idle
                                   ELSE [req[c] EXCEPT !.at = @ + 1, !.new = Older(@)]]
      /\ last' = [r \in Rows |-> AtMost(last[r] + 1, Backoff + MaxDelay)]
      /\ recent' = [r \in Rows |-> Aged(recent[r])]
      /\ \A c \in Callers : req[c].pc # "idle" => req[c].at < MaxDelay
  BY DEF Tick, Aged
<1>2. ASSUME NEW c \in Callers, req[c].pc # "idle"
      PROVE  /\ req'[c].pc = req[c].pc /\ req'[c].alert = req[c].alert
             /\ req'[c].at = req[c].at + 1 /\ req'[c].new = Older(req[c].new)
             /\ req[c].at \in Nat /\ req'[c].at \in 0 .. MaxDelay
             /\ req[c] \in Requests /\ req'[c] \in Requests
  <2>1. /\ req[c] \in Requests /\ req[c].at < MaxDelay
        /\ req'[c] = [req[c] EXCEPT !.at = @ + 1, !.new = Older(@)]
    BY <1>1, <1>2 DEF IInv, TypeOK
  <2>2. req[c].at \in 0 .. MaxDelay /\ req[c].new \in Verdicts
    BY <2>1 DEF Requests
  <2>3. req[c].at + 1 \in 0 .. MaxDelay /\ Older(req[c].new) \in Verdicts
    BY <2>1, <2>2, OlderTypes
  <2>4. /\ req'[c].pc = req[c].pc /\ req'[c].alert = req[c].alert
        /\ req'[c].at = req[c].at + 1 /\ req'[c].new = Older(req[c].new)
    BY <2>1 DEF Requests
  <2>5. req'[c] \in Requests
    BY <2>1, <2>3 DEF Requests
  <2>6. QED
    BY <2>1, <2>2, <2>3, <2>4, <2>5
<1>3. ASSUME NEW r \in Rows
      PROVE  /\ gate[r] \in Gates /\ RowGood(r) /\ gate'[r] = Older(gate[r])
             /\ recent[r] \in Seq(Ages) /\ Sorted(recent[r]) /\ recent'[r] = Aged(recent[r])
             /\ last[r] \in 0 .. Backoff + MaxDelay
             /\ last'[r] = AtMost(last[r] + 1, Backoff + MaxDelay)
             /\ last'[r] \in 0 .. Backoff + MaxDelay
  <2>1. /\ gate[r] \in Gates /\ RowGood(r) /\ recent[r] \in Seq(Ages)
        /\ last[r] \in 0 .. Backoff + MaxDelay
    BY DEF IInv, TypeOK, Ages
  <2>2. /\ gate'[r] = Older(gate[r]) /\ recent'[r] = Aged(recent[r])
        /\ last'[r] = AtMost(last[r] + 1, Backoff + MaxDelay)
    BY <1>1
  <2>3. AtMost(last[r] + 1, Backoff + MaxDelay) \in 0 .. Backoff + MaxDelay
    BY <2>1 DEF AtMost
  <2>4. QED
    BY <2>1, <2>2, <2>3 DEF RowGood
<1>4. TypeOK'
  <2>1. req' \in [Callers -> Requests]
    <3>1. \A c \in Callers : req'[c] \in Requests
      BY <1>1, <1>2, Bounds
    <3>2. QED
      BY <1>1, <3>1
  <2>2. gate' \in [Rows -> Gates]
    BY <1>1, <1>3, OlderTypes
  <2>3. last' \in [Rows -> 0 .. Backoff + MaxDelay]
    BY <1>1, <1>3
  <2>4. recent' \in [Rows -> Seq(0 .. Old)]
    BY <1>1, <1>3, AgedFacts DEF Ages
  <2>5. poller' \in [up : BOOLEAN, polled : BOOLEAN, batch : SUBSET Alerts]
    BY DEF Tick, IInv, TypeOK
  <2>6. seen' \in [Alerts -> 0 .. DedupWindow]
    <3>1. \A a \in Alerts : AtMost(seen[a] + 1, DedupWindow) \in 0 .. DedupWindow
      BY DEF IInv, TypeOK, AtMost
    <3>2. QED
      BY <3>1 DEF Tick
  <2>7. UNCHANGED <<firing, faults, restarts, planned>>
    BY DEF Tick
  <2>8. QED
    BY <2>1, <2>2, <2>3, <2>4, <2>5, <2>6, <2>7 DEF IInv, TypeOK
<1>5. ASSUME NEW r \in Rows, gate[r] # NoRow
      PROVE  /\ gate'[r] # NoRow /\ gate'[r].op = "row"
             /\ Counts(gate'[r].count, gate'[r].first, recent'[r])
             /\ \A n \in Nat : Counts(n, gate[r].first, recent[r])
                                 => Counts(n, gate'[r].first, recent'[r])
             /\ gate'[r].count = gate[r].count
             /\ gate'[r].first = AtMost(gate[r].first + 1, Old)
             /\ gate'[r].left = IF gate[r].left = Never THEN Never ELSE gate[r].left - 1
  <2>1. gate[r].op = "row" /\ Counts(gate[r].count, gate[r].first, recent[r])
    BY <1>3, <1>5 DEF RowGood
  <2>2. gate'[r].op = "row" /\ gate'[r].count = gate[r].count
        /\ gate'[r].first = AtMost(gate[r].first + 1, Old)
        /\ gate'[r].left = IF gate[r].left = Never THEN Never ELSE gate[r].left - 1
    BY <1>3, <1>5, <2>1, OlderFacts
  <2>3. gate[r].count \in Nat /\ gate[r].first \in Nat
    BY <1>3, GateFields
  <2>4. \A n \in Nat : Counts(n, gate[r].first, recent[r])
                                 => Counts(n, gate'[r].first, recent'[r])
    BY <1>3, <2>2, <2>3, AgedFacts
  <2>5. gate'[r] # NoRow
    BY <2>2, Bounds
  <2>6. QED
    BY <2>1, <2>2, <2>3, <2>4, <2>5
<1>6. ASSUME NEW r \in Rows
      PROVE  /\ gate[r].left \in Never .. Backoff
             /\ gate'[r].left = IF gate[r].left = Never THEN Never ELSE gate[r].left - 1
  <2>1. CASE gate[r] = NoRow
    <3>1. gate'[r] = NoRow
      BY <1>3, <2>1 DEF Older
    <3>2. Never \in Never .. Backoff
      BY Bounds
    <3>3. QED
      BY <2>1, <3>1, <3>2, Bounds
  <2>2. CASE gate[r] # NoRow
    BY <1>3, <1>5, <2>2, GateFields
  <2>3. QED
    BY <2>1, <2>2
<1>7. ASSUME NEW r \in Rows PROVE RowGood(r)'
  <2>1. Len(recent'[r]) <= MinCount /\ Sorted(recent'[r])
    BY <1>3, AgedFacts DEF RowGood
  <2>2. gate'[r] # NoRow => gate[r] # NoRow
    BY <1>3 DEF Older
  <2>3. last[r] >= Backoff - (IF gate[r].left = Never THEN 0 ELSE gate[r].left)
    BY <1>3 DEF RowGood
  <2>4. last'[r] >= Backoff - (IF gate'[r].left = Never THEN 0 ELSE gate'[r].left)
    BY <1>3, <1>6, <2>3, Suppression
  <2>5. QED
    BY <1>5, <2>1, <2>2, <2>4 DEF RowGood
<1>8. ASSUME NEW c \in Callers PROVE RequestGood(req[c], RowOf(c, req[c].alert))'
  <2>1. CASE req[c].pc = "idle"
    <3>1. req'[c].pc = "idle"
      BY <1>1, <2>1, Bounds
    <3>2. QED
      BY <3>1 DEF RequestGood
  <2>2. CASE req[c].pc # "idle"
    <3>1. RequestGood(req[c], RowOf(c, req[c].alert)) /\ req[c].alert \in Alerts
      BY <2>2 DEF IInv, RequestGood
    <3>2. PICK r \in Rows : r = RowOf(c, req[c].alert) /\ r = RowOf(c, req'[c].alert)
      BY <1>2, <2>2, <3>1, RowIsRow
    <3>3. RequestGood(req[c], r)
      BY <3>1, <3>2
    <3>4. ASSUME req[c].pc \in {"read", "write"}
          PROVE  recent'[r] # <<>> /\ recent'[r][1] <= req'[c].at
      <4>1. recent[r] # <<>> /\ recent[r][1] <= req[c].at
        BY <3>3, <3>4 DEF RequestGood
      <4>2. Aged(recent[r]) # <<>> /\ Aged(recent[r])[1] <= recent[r][1] + 1
        BY <1>3, <4>1, AgedFacts
      <4>3. recent[r][1] \in Nat /\ Aged(recent[r])[1] \in Nat
        <5>1. Len(recent[r]) \in Nat \ {0} /\ Len(Aged(recent[r])) = Len(recent[r])
              /\ Aged(recent[r]) \in Seq(Ages)
          BY <1>3, <4>1, EmptySeq, AgedFacts
        <5>2. recent[r][1] \in Ages /\ Aged(recent[r])[1] \in Ages
          BY <1>3, <5>1, ElementOfSeq
        <5>3. QED
          BY <5>2, Bounds DEF Ages
      <4>4. QED
        BY <1>2, <1>3, <2>2, <4>1, <4>2, <4>3
    <3>5. ASSUME req[c].pc = "read" PROVE ReadGood(req[c], r)'
      <4>1. ReadGood(req[c], r)
        BY <3>3, <3>5 DEF RequestGood
      <4>2. ASSUME gate'[r] # NoRow
            PROVE  Counts(Count(gate'[r]), gate'[r].first, recent'[r])
        <5>1. gate[r] # NoRow
          BY <1>3, <4>2 DEF Older
        <5>2. Count(gate[r]) \in Nat /\ Count(gate'[r]) = Count(gate[r])
          BY <1>3, <1>5, <5>1, GateFields DEF Count
        <5>3. QED
          BY <1>5, <4>1, <5>1, <5>2 DEF ReadGood
      <4>3. ASSUME gate'[r].left = Never PROVE last'[r] - req'[c].at >= Backoff
        <5>1. gate[r].left = Never \/ gate[r].left = Never + 1
          BY <1>6, <4>3, Bounds
        <5>2. gate[r].left = Never => last[r] - req[c].at >= Backoff
          BY <4>1 DEF ReadGood
        <5>3. gate[r].left # Never => last[r] >= Backoff - gate[r].left
          BY <1>3 DEF RowGood
        <5>4. /\ last[r] \in Nat /\ req[c].at \in Nat /\ req[c].at + 1 <= MaxDelay
              /\ req'[c].at = req[c].at + 1
              /\ last'[r] = AtMost(last[r] + 1, Backoff + MaxDelay)
          BY <1>2, <1>3, <2>2
        <5>5. CASE gate[r].left = Never
          BY <5>2, <5>4, <5>5 DEF AtMost
        <5>6. CASE gate[r].left # Never
          <6>1. last[r] >= Backoff + MaxDelay - 1
            BY <5>1, <5>3, <5>4, <5>6, Bounds
          <6>2. QED
            BY <5>4, <6>1 DEF AtMost
        <5>7. QED
          BY <5>5, <5>6
      <4>4. QED
        BY <4>2, <4>3 DEF ReadGood
    <3>6. ASSUME req[c].pc = "write" PROVE WriteGood(req[c], r)'
      <4> DEFINE new == req[c].new
                 old == Older(new)
      <4>1. WriteGood(req[c], r) /\ new \in Verdicts
        BY <1>2, <2>2, <3>3, <3>6 DEF RequestGood, Requests
      <4>2. new # NoRow /\ new.op # "none"
        BY <4>1, Bounds DEF WriteGood
      <4>3. /\ old.op = new.op /\ old.count = new.count /\ old.allowed = new.allowed
            /\ old.first = AtMost(new.first + 1, Old)
            /\ old.left = IF new.left = Never THEN Never ELSE new.left - 1
        BY <4>1, <4>2, OlderFacts
      <4>4. new.count \in Nat /\ new.first \in Nat /\ new.allowed \in BOOLEAN
        BY <4>1, Bounds DEF Verdicts
      <4>5. /\ req'[c].new = old /\ req'[c].at = req[c].at + 1 /\ req[c].at \in Nat
            /\ req'[c].at \in 0 .. MaxDelay
        BY <1>2, <2>2
      <4>6. Counts(new.count, new.first, recent[r])
        BY <4>1 DEF WriteGood
      <4>7. new.op = "count" => gate[r] # NoRow /\ new.first = gate[r].first /\ ~new.allowed
        BY <4>1 DEF WriteGood
      <4>8. new.op # "count" => /\ last[r] - req[c].at >= Backoff
                                /\ new.left = Until(new.allowed, req[c].at)
        BY <4>1 DEF WriteGood
      <4>9. new.allowed => new.count = MinCount /\ new.first - req[c].at <= Window
        BY <4>1 DEF WriteGood
      <4> HIDE DEF new, old
      <4>10. Counts(old.count, old.first, recent'[r])
        BY <1>3, <4>3, <4>4, <4>6, AgedFacts
      <4>11. old.op = "count" => gate'[r] # NoRow /\ old.first = gate'[r].first /\ ~old.allowed
        BY <1>5, <4>3, <4>7
      <4>12. new.op # "count" => last'[r] - req'[c].at >= Backoff
        BY <1>3, <4>5, <4>8 DEF AtMost
      <4>13. ASSUME new.op # "count" PROVE old.left = Until(old.allowed, req'[c].at)
        <5>1. CASE new.allowed
          <6>1. new.left = Backoff - req[c].at
            BY <4>8, <4>13, <5>1 DEF Until
          <6>2. new.left # Never
            BY <4>5, <6>1, Bounds
          <6>3. old.left = Backoff - req'[c].at
            BY <4>3, <4>5, <6>1, <6>2
          <6>4. QED
            BY <4>3, <5>1, <6>3 DEF Until
        <5>2. CASE ~new.allowed
          BY <4>3, <4>8, <4>13, <5>2 DEF Until
        <5>3. QED
          BY <5>1, <5>2
      <4>14. old.allowed => old.count = MinCount /\ old.first - req'[c].at <= Window
        BY <4>3, <4>4, <4>5, <4>9, Bounds DEF AtMost
      <4>15. QED
        BY <4>2, <4>3, <4>5, <4>10, <4>11, <4>12, <4>13, <4>14 DEF WriteGood
    <3>7. QED
      <4>1. req'[c].pc = req[c].pc /\ req'[c].alert \in Alerts
        BY <1>2, <2>2, <3>1
      <4>2. QED
        BY <3>2, <3>4, <3>5, <3>6, <4>1 DEF RequestGood
  <2>3. QED
    BY <2>1, <2>2
<1>9. QED
  BY <1>4, <1>7, <1>8 DEF IInv

-----------------------------------------------------------------------------
(***************************************************************************)
(* The theorem                                                             *)
(***************************************************************************)
LEMMA NextIInv == IInv /\ Serial /\ Serial' /\ [Next]_vars => IInv'
<1> SUFFICES ASSUME IInv, Serial, Serial', [Next]_vars PROVE IInv'
  OBVIOUS
<1>1. ASSUME NEW c \in Callers, Answer(c) PROVE IInv'
  BY <1>1, GateReadIInv, GateWriteIInv, EndIInv DEF Answer
<1>2. ASSUME NEW c \in Callers, HandlerFails(c) PROVE IInv'
  BY <1>2, EndIInv
<1>3. ASSUME NEW h \in Hooks, NEW a \in Alerts, HookArrives(h, a) PROVE IInv'
  BY <1>3, HookArrivesIInv
<1>4. ASSUME NEW a \in Alerts, Take(a) PROVE IInv'
  BY <1>4, TakeIInv
<1>5. CASE Poll \/ PollFails \/ \E a \in Alerts : Fires(a) \/ Resolves(a)
  BY <1>5, AroundIInv
<1>6. CASE Tick \/ Restart
  BY <1>6, TickIInv, RestartIInv
<1>7. CASE UNCHANGED vars
  <2>1. UNCHANGED Gated /\ TypeOK'
    BY <1>7 DEF vars, Gated, IInv, TypeOK
  <2>2. QED
    BY <2>1, RestIInv
<1>8. QED
  BY <1>1, <1>2, <1>3, <1>4, <1>5, <1>6, <1>7 DEF Next, PollerNext, Callers

\* Only the write of an allowing verdict accepts an event.
LEMMA AcceptsAllowed ==
    ASSUME IInv, [Next]_vars, NEW c \in Callers, Accepts(c)
    PROVE  req[c].new.allowed
<1> SUFFICES ASSUME ~req[c].new.allowed PROVE FALSE
  OBVIOUS
<1>1. req[c].pc = "write" /\ req'[c].pc = "loop" /\ req \in [Callers -> Requests]
  BY DEF Accepts, IInv, TypeOK
<1>2. \A d \in Callers : req' = [req EXCEPT ![d] = Idle] => FALSE
  BY <1>1, Bounds
<1>3. ASSUME NEW d \in Callers, GateRead(d) PROVE FALSE
  <2>1. PICK v : req' = [req EXCEPT ![d].pc = "write", ![d].new = v]
    BY <1>3 DEF GateRead
  <2>2. req'[c].pc = "write"
    BY <1>1, <2>1 DEF Requests
  <2>3. QED
    BY <1>1, <2>2
<1>4. ASSUME NEW d \in Callers, GateWrite(d) PROVE FALSE
  <2>1. req' = [req EXCEPT ![d] = IF req[d].new.allowed THEN [req[d] EXCEPT !.pc = "loop"]
                                  ELSE Idle]
    BY <1>2, <1>4 DEF GateWrite
  <2>2. CASE d = c
    BY <1>1, <2>1, <2>2, Bounds
  <2>3. CASE d # c
    BY <1>1, <2>1, <2>3
  <2>4. QED
    BY <2>2, <2>3
<1>5. ASSUME NEW d \in Callers, EventLoop(d) \/ HandlerFails(d) PROVE FALSE
  BY <1>2, <1>5 DEF EventLoop, HandlerFails
<1>6. ASSUME NEW d \in Callers, NEW a \in Alerts, Handle(d, a) PROVE FALSE
  <2>1. req' = req \/ req' = [req EXCEPT ![d] = [Idle EXCEPT !.pc = "read", !.alert = a]]
    BY <1>6 DEF Handle
  <2>2. [Idle EXCEPT !.pc = "read", !.alert = a].pc = "read"
    BY DEF Idle
  <2>3. QED
    BY <1>1, <2>1, <2>2
<1>7. ASSUME NEW a \in Alerts, Take(a) PROVE FALSE
  <2>1. "poller" \in Callers
    BY DEF Callers
  <2>2. CASE Handle("poller", a)
    BY <1>6, <2>1, <2>2
  <2>3. CASE UNCHANGED req
    BY <1>1, <2>3
  <2>4. QED
    BY <1>7, <2>2, <2>3 DEF Take
<1>8. ASSUME NEW h \in Hooks, NEW a \in Alerts, HookArrives(h, a) PROVE FALSE
  BY <1>6, <1>8 DEF HookArrives, Callers
<1>9. CASE Poll \/ PollFails \/ (\E a \in Alerts : Fires(a) \/ Resolves(a)) \/ UNCHANGED vars
  <2>1. req' = req
    BY <1>9 DEF Poll, PollFails, Fires, Resolves, vars
  <2>2. QED
    BY <1>1, <2>1
<1>10. CASE Tick
  <2>1. req'[c] = [req[c] EXCEPT !.at = @ + 1, !.new = Older(@)]
    BY <1>1, <1>10 DEF Tick
  <2>2. req'[c].pc = req[c].pc
    BY <1>1, <2>1 DEF Requests
  <2>3. QED
    BY <1>1, <2>2
<1>11. CASE Restart
  <2>1. req'[c] = Idle
    BY <1>11 DEF Restart
  <2>2. QED
    BY <1>1, <2>1, Bounds
<1>12. QED
  BY <1>3, <1>4, <1>5, <1>7, <1>8, <1>9, <1>10, <1>11
     DEF Next, PollerNext, Answer, Callers

\* An accepted event comes Backoff after the one before it and has MinCount
\* deliveries within Window.
LEMMA AcceptsGood ==
    ASSUME IInv, [Next]_vars, NEW c \in Callers, Accepts(c)
    PROVE  /\ last[RowOf(c, req[c].alert)] - req[c].at >= Backoff
           /\ Len(recent[RowOf(c, req[c].alert)]) = MinCount
           /\ recent[RowOf(c, req[c].alert)][MinCount] - req[c].at <= Window
<1>1. req[c].new.allowed /\ RequestGood(req[c], RowOf(c, req[c].alert)) /\ req[c] \in Requests
  BY AcceptsAllowed DEF IInv, TypeOK
<1>2. WriteGood(req[c], RowOf(c, req[c].alert)) /\ req[c].alert \in Alerts
  BY <1>1 DEF Accepts, RequestGood
<1>3. PICK r \in Rows : r = RowOf(c, req[c].alert)
  BY <1>2, RowIsRow
<1>4. /\ last[r] - req[c].at >= Backoff /\ req[c].new.count = MinCount
      /\ req[c].new.first - req[c].at <= Window
      /\ Counts(MinCount, req[c].new.first, recent[r])
  BY <1>1, <1>2, <1>3 DEF WriteGood
<1>5. Len(recent[r]) <= MinCount /\ recent[r] \in Seq(Ages)
  BY DEF IInv, TypeOK, RowGood, Ages
<1>6. Len(recent[r]) = MinCount
  BY <1>4, <1>5, LenProperties DEF Counts
<1>7. recent[r][MinCount] \in Ages
  BY <1>5, <1>6, ElementOfSeq
<1>8. recent[r][MinCount] \in Int /\ req[c].at \in Int /\ req[c].new.first \in Int
  BY <1>1, <1>7, Bounds DEF Ages, Requests, Verdicts
<1>9. QED
  BY <1>3, <1>4, <1>6, <1>8 DEF Counts

\* The event gate keeps its promise to the poller and to any number of webhooks, as
\* long as deliveries of one alert do not overlap: no two acceptances of an
\* alert closer than Backoff and none without MinCount deliveries within Window,
\* through failing statements, slow requests and restarts.
THEOREM GateKept == Spec /\ []Serial => GateHolds
<1>1. Spec /\ []Serial => []IInv
  BY InitIInv, NextIInv, PTL DEF Spec
<1>2. IInv => TypeOK
  BY DEF IInv
<1>3. IInv /\ [Next]_vars =>
        [\A c \in Callers : Accepts(c)
            => last[RowOf(c, req[c].alert)] - req[c].at >= Backoff]_vars
  BY AcceptsGood
<1>4. IInv /\ [Next]_vars =>
        [\A c \in Callers : Accepts(c)
            => LET seenAt == recent[RowOf(c, req[c].alert)] IN
               /\ Len(seenAt) = MinCount
               /\ seenAt[MinCount] - req[c].at <= Window]_vars
  BY AcceptsGood
<1>5. QED
  BY <1>1, <1>2, <1>3, <1>4, PTL DEF Spec, GateHolds, Spaced, EnoughSeen

\* One webhook request at a time, as in the run of the poller next to it.
COROLLARY OneHookKept ==
    ASSUME \A g, h \in Hooks : g = h
    PROVE  Spec => GateHolds
<1>1. Serial
  BY DEF Serial
<1>2. QED
  BY <1>1, GateKept, PTL
=============================================================================
