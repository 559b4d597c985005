----------------------- MODULE GatewayProcess_proofs -----------------------
(***************************************************************************)
(* Proofs about the gateway process: the tracking of its goroutines and    *)
(* the types of what they share (ProcessInv), and that the scheduler plans *)
(* no time of a schedule twice (OncePerTime), for every number of          *)
(* schedules, sources, starts and failing calls.                           *)
(***************************************************************************)
EXTENDS GatewayProcess, SequenceTheorems, TLAPS

(***************************************************************************)
(* Sequences                                                               *)
(***************************************************************************)
\* What RemoveAt leaves of the schedules table.
LEMMA RemoveAtProperties ==
  ASSUME NEW S, NEW s \in Seq(S), NEW i \in DOMAIN s
  PROVE  /\ RemoveAt(s, i) \in Seq(S)
         /\ Len(RemoveAt(s, i)) = Len(s) - 1
         /\ \A j \in 1 .. (Len(s) - 1) :
               RemoveAt(s, i)[j] = IF j < i THEN s[j] ELSE s[j + 1]
<1>1. i \in 1 .. Len(s) /\ Len(s) \in Nat
  BY LenProperties
<1> DEFINE a == SubSeq(s, 1, i - 1)
           b == SubSeq(s, i + 1, Len(s))
<1>2. a \in Seq(S) /\ Len(a) = i - 1 /\ \A j \in 1 .. (i - 1) : a[j] = s[j]
  BY <1>1, SubSeqProperties
<1>3. /\ b \in Seq(S) /\ Len(b) = Len(s) - i
      /\ \A j \in 1 .. (Len(s) - i) : b[j] = s[j + i]
  BY <1>1, SubSeqProperties
<1>4. RemoveAt(s, i) = a \o b
  BY DEF RemoveAt
<1> HIDE DEF a, b
<1>5. /\ a \o b \in Seq(S) /\ Len(a \o b) = Len(a) + Len(b)
      /\ \A j \in 1 .. Len(a) + Len(b) :
            (a \o b)[j] = IF j <= Len(a) THEN a[j] ELSE b[j - Len(a)]
  BY <1>2, <1>3, ConcatProperties
<1>6. ASSUME NEW j \in 1 .. (Len(s) - 1)
      PROVE  (a \o b)[j] = IF j < i THEN s[j] ELSE s[j + 1]
  <2>1. j \in 1 .. Len(a) + Len(b) /\ j \in Nat /\ i \in Nat
    BY <1>1, <1>2, <1>3
  <2>2. CASE j < i
    BY <1>1, <1>2, <1>5, <2>1, <2>2
  <2>3. CASE j >= i
    <3>1. j - Len(a) \in 1 .. (Len(s) - i) /\ j - Len(a) + i = j + 1
      BY <1>1, <1>2, <2>3
    <3>2. (a \o b)[j] = b[j - Len(a)]
      BY <1>2, <1>5, <2>1, <2>3
    <3>3. b[j - Len(a)] = s[j + 1]
      BY <1>3, <3>1
    <3>4. QED
      BY <2>1, <2>3, <3>2, <3>3
  <2>4. QED
    BY <2>1, <2>2, <2>3
<1>7. Len(a \o b) = Len(s) - 1
  BY <1>1, <1>2, <1>3, <1>5
<1>8. QED
  BY <1>4, <1>5, <1>6, <1>7

\* The head and the tail of the rows a pass has still to look at.
LEMMA HeadTail ==
  ASSUME NEW S, NEW s \in Seq(S), s # <<>>
  PROVE  /\ 1 \in DOMAIN s /\ Head(s) = s[1] /\ Head(s) \in S
         /\ Tail(s) \in Seq(S)
         /\ \A i \in DOMAIN Tail(s) :
               i \in Nat \ {0} /\ i + 1 \in DOMAIN s /\ Tail(s)[i] = s[i + 1]
  BY HeadTailProperties, LenProperties

\* A page is a prefix of the table.
LEMMA PagePrefix ==
  ASSUME NEW S, NEW s \in Seq(S)
  PROVE  /\ Page(s) \in Seq(S)
         /\ \A i \in DOMAIN Page(s) : i \in DOMAIN s /\ Page(s)[i] = s[i]
<1> DEFINE n == IF Len(s) < Limit THEN Len(s) ELSE Limit
<1>1. n \in Nat /\ n <= Len(s) /\ Len(s) \in Nat /\ DOMAIN s = 1 .. Len(s)
  BY SchedulerAssumption, LenProperties
<1>2. Page(s) = SubSeq(s, 1, n)
  BY DEF Page
<1> HIDE DEF n
<1>3. /\ SubSeq(s, 1, n) \in Seq(S) /\ DOMAIN SubSeq(s, 1, n) = 1 .. n
      /\ \A i \in 1 .. n : SubSeq(s, 1, n)[i] = s[i]
  BY <1>1, SubSeqProperties, LenProperties
<1>4. QED
  BY <1>1, <1>2, <1>3

(***************************************************************************)
(* The times of a cron expression                                          *)
(***************************************************************************)
LEMMA DivFacts ==
  ASSUME NEW c \in Nat \ {0}, NEW a \in Nat
  PROVE  /\ a \div c \in Nat
         /\ (a \div c) * c <= a
         /\ a < (a \div c + 1) * c
  OBVIOUS

LEMMA TimesMonotone ==
  ASSUME NEW c \in Nat, NEW a \in Nat, NEW b \in Nat, a <= b
  PROVE  a * c <= b * c
  OBVIOUS

LEMMA DivMonotone ==
  ASSUME NEW c \in Nat \ {0}, NEW a \in Nat, NEW b \in Nat, a <= b
  PROVE  a \div c <= b \div c
<1> DEFINE x == a \div c
           y == b \div c
<1>1. x \in Nat /\ y \in Nat /\ x * c <= a /\ b < (y + 1) * c
  BY DivFacts
<1> HIDE DEF x, y
<1>2. ASSUME y + 1 <= x PROVE FALSE
  <2>1. (y + 1) * c <= x * c
    BY <1>1, <1>2, TimesMonotone
  <2>2. (y + 1) * c \in Nat /\ x * c \in Nat
    BY <1>1
  <2>3. QED
    BY <1>1, <2>1, <2>2
<1>3. x <= y
  BY <1>1, <1>2
<1>4. QED
  BY <1>3 DEF x, y

\* A due time is one more time of the expression.
LEMMA DueDiv ==
  ASSUME NEW c \in Nat \ {0}, NEW a \in Nat, NEW b \in Nat, NextRun(c, a) <= b
  PROVE  a \div c + 1 <= b \div c
<1> DEFINE x == a \div c
           y == b \div c
<1>1. x \in Nat /\ y \in Nat /\ (x + 1) * c <= b /\ b < (y + 1) * c
  BY DivFacts DEF NextRun
<1> HIDE DEF x, y
<1>2. ASSUME y <= x PROVE FALSE
  <2>1. (y + 1) * c <= (x + 1) * c
    BY <1>1, <1>2, TimesMonotone
  <2>2. (y + 1) * c \in Nat /\ (x + 1) * c \in Nat
    BY <1>1
  <2>3. QED
    BY <1>1, <2>1, <2>2
<1>3. x + 1 <= y
  BY <1>1, <1>2
<1>4. QED
  BY <1>3 DEF x, y

\* Counting times: a later end has no fewer, and a run that is due has one more.
LEMMA TimesFacts ==
  ASSUME NEW c \in Nat \ {0}, NEW a \in Nat, NEW b \in Nat, NEW d \in Nat
  PROVE  /\ Times(c, a, b) \in Int
         /\ Times(c, a, a) = 0
         /\ b <= d => Times(c, a, b) <= Times(c, a, d)
         /\ NextRun(c, b) <= d => Times(c, a, b) + 1 <= Times(c, a, d)
<1>1. a \div c \in Nat /\ b \div c \in Nat /\ d \div c \in Nat
  BY DivFacts
<1>2. b <= d => b \div c <= d \div c
  BY DivMonotone
<1>3. NextRun(c, b) <= d => b \div c + 1 <= d \div c
  BY DueDiv
<1> DEFINE x == a \div c
           y == b \div c
           z == d \div c
<1>4. Times(c, a, b) = y - x /\ Times(c, a, d) = z - x /\ Times(c, a, a) = x - x
  BY DEF Times
<1>5. x \in Nat /\ y \in Nat /\ z \in Nat
  BY <1>1
<1>6. (b <= d => y <= z) /\ (NextRun(c, b) <= d => y + 1 <= z)
  BY <1>2, <1>3
<1> HIDE DEF x, y, z
<1>7. QED
  BY <1>4, <1>5, <1>6

\* A row with a readable expression has times to count.
LEMMA RowFacts ==
  ASSUME NEW row \in Row
  PROVE  /\ row.id \in Schedules /\ row.created \in Nat \ {0}
         /\ Base(row) \in Nat
         /\ row.cron # BadCron => row.cron \in Nat \ {0}
  BY SchedulerAssumption DEF Row, Base

(***************************************************************************)
(* The scheduler                                                           *)
(***************************************************************************)
SchedInv == SchedTypeOK /\ SchedGood

LEMMA SchedInitial == SchedInit => SchedInv
  BY EmptySeq DEF SchedInit, SchedInv, SchedTypeOK, SchedGood, RowsGood, OneRowPerId,
     PassGood, PlansGood, NoPass, NotBorn, PassStates

LEMMA StoredInt ==
  ASSUME SchedTypeOK
  PROVE  Stored \in [Schedules -> Int]
  BY DEF SchedTypeOK, Stored

\* RowsGood as a relation between rows, births and stored plans, so that it can
\* be carried from a state to the next.
RowAccounted(row, b, n) ==
    /\ b[row.id] = [at |-> row.created, cron |-> row.cron]
    /\ row.cron # BadCron => n[row.id] <= Times(row.cron, row.created, Base(row))

RowsAccounted(rows, b, n) ==
    /\ OneRowPerId(rows)
    /\ \A i \in DOMAIN rows : RowAccounted(rows[i], b, n)

LEMMA RowsGoodIs ==
  /\ RowsGood(schedules) <=> RowsAccounted(schedules, born, Stored)
  /\ RowsGood(pass.todo) <=> RowsAccounted(pass.todo, born, Stored)
  /\ RowsGood(schedules)' <=> RowsAccounted(schedules', born', Stored')
  /\ RowsGood(pass.todo)' <=> RowsAccounted(pass'.todo, born', Stored')
  BY DEF RowsGood, RowsAccounted, RowAccounted, Accounted, OneRowPerId

\* What of the rows' account survives the operations on a list of rows.
LEMMA TailAccounted ==
  ASSUME NEW rows \in Seq(Row), rows # <<>>, NEW b, NEW n, RowsAccounted(rows, b, n)
  PROVE  /\ RowsAccounted(Tail(rows), b, n)
         /\ \A i \in DOMAIN Tail(rows) : Tail(rows)[i].id # Head(rows).id
<1>1. /\ 1 \in DOMAIN rows /\ Head(rows) = rows[1]
      /\ \A i \in DOMAIN Tail(rows) :
            i \in Nat \ {0} /\ i + 1 \in DOMAIN rows /\ Tail(rows)[i] = rows[i + 1]
  BY HeadTail
<1>2. \A i \in DOMAIN Tail(rows) : Tail(rows)[i].id # Head(rows).id
  BY <1>1 DEF RowsAccounted, OneRowPerId
<1>3. ASSUME NEW i \in DOMAIN Tail(rows), NEW j \in DOMAIN Tail(rows),
             Tail(rows)[i].id = Tail(rows)[j].id
      PROVE  i = j
  <2>1. i + 1 = j + 1
    BY <1>1, <1>3 DEF RowsAccounted, OneRowPerId
  <2>2. QED
    BY <1>1, <2>1
<1>4. \A i \in DOMAIN Tail(rows) : RowAccounted(Tail(rows)[i], b, n)
  BY <1>1 DEF RowsAccounted
<1>5. QED
  BY <1>2, <1>3, <1>4 DEF RowsAccounted, OneRowPerId

LEMMA PageAccounted ==
  ASSUME NEW rows \in Seq(Row), NEW b, NEW n, RowsAccounted(rows, b, n)
  PROVE  RowsAccounted(Page(rows), b, n)
<1>1. \A i \in DOMAIN Page(rows) : i \in DOMAIN rows /\ Page(rows)[i] = rows[i]
  BY PagePrefix
<1>2. QED
  BY <1>1 DEF RowsAccounted, OneRowPerId

LEMMA RemoveAccounted ==
  ASSUME NEW rows \in Seq(Row), NEW k \in DOMAIN rows, NEW b, NEW n,
         RowsAccounted(rows, b, n)
  PROVE  RowsAccounted(RemoveAt(rows, k), b, n)
<1> DEFINE less == RemoveAt(rows, k)
           From(i) == IF i < k THEN i ELSE i + 1
<1>1. k \in Nat /\ Len(rows) \in Nat /\ DOMAIN rows = 1 .. Len(rows)
  BY LenProperties
<1>2. /\ DOMAIN less = 1 .. (Len(rows) - 1)
      /\ \A i \in 1 .. (Len(rows) - 1) : less[i] = IF i < k THEN rows[i] ELSE rows[i + 1]
  BY RemoveAtProperties, LenProperties
<1> HIDE DEF less
<1>3. \A i \in DOMAIN less : i \in Nat /\ From(i) \in DOMAIN rows /\ less[i] = rows[From(i)]
  BY <1>1, <1>2
<1>4. \A i, j \in DOMAIN less : From(i) = From(j) => i = j
  BY <1>1, <1>3
<1> HIDE DEF From
<1>5. RowsAccounted(less, b, n)
  BY <1>3, <1>4 DEF RowsAccounted, OneRowPerId
<1>6. QED
  BY <1>5 DEF less

\* A new row in front of the others, of an id no other row has.
LEMMA AddAccounted ==
  ASSUME NEW rows \in Seq(Row), NEW b, NEW n, RowsAccounted(rows, b, n),
         NEW row \in Row, RowAccounted(row, b, n),
         \A i \in DOMAIN rows : rows[i].id # row.id
  PROVE  /\ RowsAccounted(<<row>> \o rows, b, n)
         /\ <<row>> \o rows \in Seq(Row)
<1> DEFINE more == <<row>> \o rows
<1>1. <<row>> \in Seq(Row) /\ Len(<<row>>) = 1 /\ <<row>>[1] = row
  OBVIOUS
<1>2. more \in Seq(Row)
  BY <1>1, ConcatProperties
<1>3. /\ DOMAIN more = 1 .. Len(rows) + 1
      /\ DOMAIN rows = 1 .. Len(rows) /\ Len(rows) \in Nat
      /\ more[1] = row
      /\ \A i \in DOMAIN more : i # 1 => i - 1 \in DOMAIN rows /\ more[i] = rows[i - 1]
  BY <1>1, ConcatProperties, LenProperties
<1> HIDE DEF more
<1>4. ASSUME NEW i \in DOMAIN more, NEW j \in DOMAIN more, more[i].id = more[j].id
      PROVE  i = j
  <2>1. i \in Nat /\ j \in Nat
    BY <1>3
  <2>2. CASE i = 1 \/ j = 1
    BY <1>3, <1>4, <2>2
  <2>3. CASE i # 1 /\ j # 1
    <3>1. i - 1 = j - 1
      BY <1>3, <1>4, <2>3 DEF RowsAccounted, OneRowPerId
    <3>2. QED
      BY <2>1, <3>1
  <2>4. QED
    BY <2>2, <2>3
<1>5. \A i \in DOMAIN more : RowAccounted(more[i], b, n)
  BY <1>3 DEF RowsAccounted
<1>6. QED
  BY <1>2, <1>4, <1>5 DEF more, RowsAccounted, OneRowPerId

LEMMA RowsAreRows ==
  ASSUME NEW rows \in Seq(Row), NEW i \in DOMAIN rows
  PROVE  rows[i] \in Row
  BY LenProperties, ElementOfSeq

-----------------------------------------------------------------------------
\* Users create and delete schedules.
LEMMA CreateKeeps ==
  ASSUME SchedInv,
         NEW s \in Schedules, NEW c \in Crons, NEW e \in BOOLEAN, CreateSchedule(s, c, e)
  PROVE  SchedInv'
<1> DEFINE row == [id |-> s, cron |-> c, enabled |-> e, created |-> now, last |-> 0]
<1> USE DEF SchedInv
<1>1. row \in Row
  BY DEF SchedTypeOK, Row
<1>2. Stored' = Stored
  BY DEF Stored, CreateSchedule
<1>3. plans[s] = 0 /\ Stored[s] <= 0 /\ Stored[s] \in Int
  <2>1. plans[s] = 0
    <3>1. born[s].cron = BadCron
      BY DEF CreateSchedule, NotBorn
    <3>2. ~(plans[s] > 0)
      BY <3>1 DEF SchedGood, PlansGood
    <3>3. plans[s] \in Nat
      BY DEF SchedTypeOK
    <3>4. QED
      BY <3>2, <3>3
  <2>2. interrupted[s] \in Nat
    BY DEF SchedTypeOK
  <2>3. QED
    BY <2>1, <2>2 DEF Stored
<1>4. \A rows \in Seq(Row) : RowsAccounted(rows, born, Stored) =>
         /\ RowsAccounted(rows, born', Stored)
         /\ \A i \in DOMAIN rows : rows[i].id # s
  <2>1. SUFFICES ASSUME NEW rows \in Seq(Row), RowsAccounted(rows, born, Stored)
                 PROVE  /\ RowsAccounted(rows, born', Stored)
                        /\ \A i \in DOMAIN rows : rows[i].id # s
    OBVIOUS
  <2>2. ASSUME NEW i \in DOMAIN rows
        PROVE  rows[i].id # s /\ RowAccounted(rows[i], born', Stored)
    <3>1. rows[i] \in Row /\ rows[i].id \in Schedules /\ rows[i].created # 0
      BY RowsAreRows, RowFacts
    <3>2. RowAccounted(rows[i], born, Stored)
      BY <2>1 DEF RowsAccounted
    <3>3. born[rows[i].id].at # 0
      BY <3>1, <3>2 DEF RowAccounted
    <3>4. rows[i].id # s
      BY <3>3 DEF CreateSchedule, NotBorn
    <3>5. born'[rows[i].id] = born[rows[i].id]
      BY <3>1, <3>4 DEF CreateSchedule, SchedTypeOK
    <3>6. QED
      BY <3>2, <3>4, <3>5 DEF RowAccounted
  <2>3. QED
    BY <2>1, <2>2 DEF RowsAccounted
<1>5. RowAccounted(row, born', Stored)
  <2>1. c # BadCron => Times(c, now, now) = 0
    BY SchedulerAssumption, TimesFacts DEF SchedTypeOK
  <2>2. Base(row) = now
    BY DEF Base
  <2>3. born'[s] = [at |-> now, cron |-> c]
    BY DEF CreateSchedule, SchedTypeOK
  <2>4. QED
    BY <1>3, <2>1, <2>2, <2>3 DEF RowAccounted
<1>6. /\ RowsAccounted(schedules, born', Stored) /\ RowsAccounted(pass.todo, born', Stored)
      /\ \A i \in DOMAIN schedules : schedules[i].id # row.id
  BY <1>4, RowsGoodIs DEF SchedTypeOK, SchedGood
<1>7. RowsAccounted(schedules', born', Stored') /\ schedules' \in Seq(Row)
  <2>1. schedules \in Seq(Row) /\ schedules' = <<row>> \o schedules
    BY DEF SchedTypeOK, CreateSchedule
  <2> HIDE DEF row
  <2>2. QED
    BY <1>1, <1>2, <1>5, <1>6, <2>1, AddAccounted
<1>8. RowsAccounted(pass'.todo, born', Stored')
  BY <1>2, <1>6 DEF CreateSchedule
<1>9. SchedTypeOK'
  <2>1. [at |-> now, cron |-> c] \in [at: Nat, cron: Crons \cup {BadCron}]
    BY DEF SchedTypeOK
  <2>2. born' \in [Schedules -> [at: Nat, cron: Crons \cup {BadCron}]]
    BY <2>1 DEF SchedTypeOK, CreateSchedule
  <2>3. QED
    BY <1>7, <2>2 DEF SchedTypeOK, CreateSchedule
<1>10. PassGood'
  BY DEF CreateSchedule, SchedGood, PassGood
<1>11. PlansGood'
  BY <1>3 DEF SchedTypeOK, CreateSchedule, SchedGood, PlansGood
<1>12. QED
  BY <1>7, <1>8, <1>9, <1>10, <1>11, RowsGoodIs DEF SchedGood

LEMMA DeleteKeeps ==
  ASSUME SchedInv, NEW s \in Schedules, DeleteSchedule(s)
  PROVE  SchedInv'
<1> USE DEF SchedInv
<1>1. PICK k \in DOMAIN schedules : schedules' = RemoveAt(schedules, k)
  BY DEF DeleteSchedule
<1>2. Stored' = Stored /\ born' = born /\ pass' = pass
  BY DEF Stored, DeleteSchedule
<1>3. schedules' \in Seq(Row) /\ RowsAccounted(schedules', born', Stored')
  BY <1>1, <1>2, RemoveAtProperties, RemoveAccounted, RowsGoodIs DEF SchedTypeOK, SchedGood
<1>4. RowsAccounted(pass'.todo, born', Stored')
  BY <1>2, RowsGoodIs DEF SchedGood
<1>5. SchedTypeOK' /\ PassGood' /\ PlansGood'
  BY <1>3 DEF SchedTypeOK, SchedGood, PassGood, PlansGood, DeleteSchedule
<1>6. QED
  BY <1>3, <1>4, <1>5, RowsGoodIs DEF SchedGood

\* Time passes: there are only more times to plan.
LEMMA TickKeeps ==
  ASSUME SchedInv, Tick
  PROVE  SchedInv'
<1> USE DEF SchedInv
<1>1. Stored' = Stored /\ born' = born /\ pass' = pass /\ schedules' = schedules
  BY DEF Stored, Tick
<1>2. RowsGood(schedules)' /\ RowsGood(pass.todo)'
  BY <1>1, RowsGoodIs DEF SchedGood
<1>3. SchedTypeOK' /\ PassGood'
  BY DEF SchedTypeOK, SchedGood, PassGood, Tick
<1>4. PlansGood'
  <2>1. SUFFICES ASSUME NEW s \in Schedules, plans[s] > 0
                 PROVE  /\ born[s].cron # BadCron
                        /\ plans[s] - interrupted[s]
                              <= Times(born[s].cron, born[s].at, now + 1)
    BY DEF PlansGood, Tick
  <2>2. /\ born[s].cron # BadCron /\ born[s].cron \in Nat \ {0} /\ born[s].at \in Nat
        /\ plans[s] \in Nat /\ interrupted[s] \in Nat /\ now \in Nat
        /\ plans[s] - interrupted[s] <= Times(born[s].cron, born[s].at, now)
    BY <2>1, SchedulerAssumption DEF SchedTypeOK, SchedGood, PlansGood
  <2>3. now + 1 \in Nat /\ now <= now + 1
    BY <2>2
  <2>4. /\ Times(born[s].cron, born[s].at, now) <= Times(born[s].cron, born[s].at, now + 1)
        /\ Times(born[s].cron, born[s].at, now) \in Int
        /\ Times(born[s].cron, born[s].at, now + 1) \in Int
    BY <2>2, <2>3, TimesFacts
  <2>5. QED
    BY <2>2, <2>4
<1>5. QED
  BY <1>2, <1>3, <1>4 DEF SchedGood

-----------------------------------------------------------------------------
\* Steps of a pass.  The plans stored stay the same until UpdateScheduleLastRun.
LEMMA PassKeeps ==
  ASSUME SchedInv,
         schedules' = schedules, born' = born, plans' = plans, now' = now,
         interrupted' = interrupted,
         pass'.state # "created", pass.state # "created",
         pass' \in [state: PassStates, at: Nat, todo: Seq(Row)],
         pass'.at <= now,
         pass'.state = "check" => pass'.at # 0,
         RowsAccounted(pass'.todo, born, Stored)
  PROVE  SchedInv'
<1> USE DEF SchedInv
<1>1. Stored' = Stored
  BY DEF Stored
<1>2. RowsGood(schedules)' /\ RowsGood(pass.todo)'
  BY <1>1, RowsGoodIs DEF SchedGood
<1>3. SchedTypeOK' /\ PassGood' /\ PlansGood'
  BY DEF SchedTypeOK, SchedGood, PassGood, PlansGood
<1>4. QED
  BY <1>2, <1>3 DEF SchedGood

LEMMA EmptyAccounted ==
  <<>> \in Seq(Row) /\ \A b, n : RowsAccounted(<<>>, b, n)
  BY EmptySeq DEF RowsAccounted, OneRowPerId

LEMMA ListPassKeeps ==
  ASSUME SchedInv, ListPass
  PROVE  SchedInv'
<1>1. Page(schedules) \in Seq(Row) /\ RowsAccounted(Page(schedules), born, Stored)
  BY PagePrefix, PageAccounted, RowsGoodIs DEF SchedInv, SchedTypeOK, SchedGood
<1>2. pass' = [state |-> "check", at |-> now, todo |-> Page(schedules)]
  BY DEF ListPass
<1>3. pass' \in [state: PassStates, at: Nat, todo: Seq(Row)] /\ now \in Nat \ {0}
  BY <1>1, <1>2 DEF SchedInv, SchedTypeOK, PassStates
<1>4. QED
  BY <1>1, <1>2, <1>3, PassKeeps DEF ListPass

LEMMA SkipRowKeeps ==
  ASSUME SchedInv, SkipRow
  PROVE  SchedInv'
<1>1. /\ Tail(pass.todo) \in Seq(Row) /\ RowsAccounted(Tail(pass.todo), born, Stored)
      /\ pass \in [state: PassStates, at: Nat, todo: Seq(Row)]
  BY HeadTail, TailAccounted, RowsGoodIs DEF SchedInv, SchedTypeOK, SchedGood, SkipRow
<1>2. pass' = [pass EXCEPT !.todo = Tail(@)] /\ pass.state = "check"
  BY DEF SkipRow
<1>3. /\ pass' \in [state: PassStates, at: Nat, todo: Seq(Row)]
      /\ pass'.state = "check" /\ pass'.at = pass.at /\ pass'.todo = Tail(pass.todo)
  BY <1>1, <1>2
<1>4. pass.at <= now /\ pass.at # 0
  BY <1>2 DEF SchedInv, SchedGood, PassGood
<1>5. QED
  BY <1>1, <1>2, <1>3, <1>4, PassKeeps DEF SkipRow

\* The end of a pass or of the goroutine leaves no rows.
LEMMA LeavesKeep ==
  ASSUME SchedInv, pass.state # "created", pass' \in {NoPass, Idle, Returned},
         UNCHANGED <<now, schedules, plans, interrupted, born>>
  PROVE  SchedInv'
<1>1. /\ pass' \in [state: PassStates, at: Nat, todo: Seq(Row)]
      /\ pass'.state \notin {"check", "created"} /\ pass'.at = 0 /\ pass'.todo = <<>>
  <2>1. PICK st \in {"off", "idle", "returned"} :
           pass' = [state |-> st, at |-> 0, todo |-> <<>>]
    BY DEF NoPass, Idle, Returned
  <2>2. st \in PassStates /\ <<>> \in Seq(Row)
    BY EmptyAccounted DEF PassStates
  <2>3. QED
    BY <2>1, <2>2
<1>2. now \in Nat
  BY DEF SchedInv, SchedTypeOK
<1>3. QED
  BY <1>1, <1>2, PassKeeps, EmptyAccounted

\* CreatePlan: the plan of a due row is one more than the stored ones, and so is
\* the time it is due for.
LEMMA MakePlanKeeps ==
  ASSUME SchedInv, MakePlan
  PROVE  SchedInv'
<1> USE DEF SchedInv
<1> DEFINE row == Head(pass.todo)
<1>1. row \in Row /\ pass.todo \in Seq(Row) /\ pass.todo # <<>>
  BY HeadTail DEF MakePlan, SchedTypeOK
<1>2. /\ row.id \in Schedules /\ row.created \in Nat /\ Base(row) \in Nat
      /\ row.cron \in Nat \ {0} /\ row.cron # BadCron
  BY <1>1, RowFacts DEF MakePlan
<1>3. /\ pass' = [pass EXCEPT !.state = "created"] /\ pass.state = "check"
      /\ plans' = [plans EXCEPT ![row.id] = @ + 1]
      /\ IsDue(row, pass.at)
      /\ UNCHANGED <<now, schedules, interrupted, born>>
  BY DEF MakePlan
<1>4. RowAccounted(row, born, Stored)
  <2>1. RowsAccounted(pass.todo, born, Stored)
    BY RowsGoodIs DEF SchedGood
  <2>2. QED
    BY <1>1, <2>1, HeadTail DEF RowsAccounted
<1> HIDE DEF row
<1>5. /\ plans \in [Schedules -> Nat] /\ interrupted \in [Schedules -> Nat]
      /\ pass \in [state: PassStates, at: Nat, todo: Seq(Row)]
      /\ now \in Nat /\ pass.at \in Nat
      /\ pass.at <= now /\ pass.at # 0
  BY <1>3 DEF SchedTypeOK, SchedGood, PassGood
<1>6. /\ pass' \in [state: PassStates, at: Nat, todo: Seq(Row)]
      /\ pass'.state = "created" /\ pass'.at = pass.at /\ pass'.todo = pass.todo
  BY <1>3, <1>5 DEF PassStates
<1>7. plans' \in [Schedules -> Nat]
  BY <1>2, <1>3, <1>5
<1>8. Stored' = Stored
  <2>1. ASSUME NEW s \in Schedules
        PROVE  Stored'[s] = Stored[s]
    <3>1. plans[s] \in Nat /\ interrupted[s] \in Nat
      BY <1>5
    <3>2. Stored[s] = plans[s] - interrupted[s] - 0
      BY <1>3 DEF Stored
    <3>3. Stored'[s] = plans'[s] - interrupted[s] - IF row.id = s THEN 1 ELSE 0
      BY <1>3, <1>6 DEF Stored, row
    <3>4. plans'[s] = IF row.id = s THEN plans[s] + 1 ELSE plans[s]
      BY <1>3, <1>5
    <3>5. QED
      BY <3>1, <3>2, <3>3, <3>4
  <2>2. Stored = [s \in Schedules |-> Stored[s]] /\ Stored' = [s \in Schedules |-> Stored'[s]]
    BY DEF Stored
  <2>3. QED
    BY <2>1, <2>2
<1>9. RowsGood(schedules)' /\ RowsGood(pass.todo)'
  BY <1>3, <1>6, <1>8, RowsGoodIs DEF SchedGood
<1>10. SchedTypeOK'
  BY <1>3, <1>6, <1>7 DEF SchedTypeOK
<1>11. PassGood'
  BY <1>1, <1>2, <1>3, <1>5, <1>6 DEF PassGood, row
<1>12. PlansGood'
  <2>1. /\ born[row.id] = [at |-> row.created, cron |-> row.cron]
        /\ plans[row.id] - interrupted[row.id] <= Times(row.cron, row.created, Base(row))
    BY <1>2, <1>3, <1>4, <1>5 DEF RowAccounted, Stored
  <2>2. /\ Times(row.cron, row.created, Base(row)) + 1 <= Times(row.cron, row.created, pass.at)
        /\ Times(row.cron, row.created, pass.at) <= Times(row.cron, row.created, now)
        /\ Times(row.cron, row.created, Base(row)) \in Int
        /\ Times(row.cron, row.created, pass.at) \in Int
        /\ Times(row.cron, row.created, now) \in Int
    BY <1>2, <1>3, <1>5, TimesFacts DEF IsDue
  <2>3. plans[row.id] + 1 - interrupted[row.id] <= Times(row.cron, row.created, now)
    BY <1>2, <1>5, <2>1, <2>2
  <2>4. SUFFICES ASSUME NEW s \in Schedules, plans'[s] > 0
                 PROVE  /\ born[s].cron # BadCron
                        /\ plans'[s] - interrupted[s] <= Times(born[s].cron, born[s].at, now)
    BY <1>3 DEF PlansGood
  <2>5. CASE s = row.id
    <3>1. plans'[s] = plans[row.id] + 1
      BY <1>2, <1>3, <1>5, <2>5
    <3>2. born[s].cron = row.cron /\ born[s].at = row.created
      BY <2>1, <2>5
    <3>3. born[s].cron # BadCron
      BY <1>2, <3>2
    <3>4. plans'[s] - interrupted[s] <= Times(born[s].cron, born[s].at, now)
      BY <1>2, <1>5, <2>2, <2>3, <2>5, <3>1, <3>2
    <3>5. QED
      BY <3>3, <3>4
  <2>6. CASE s # row.id
    BY <1>3, <1>5, <2>4, <2>6 DEF SchedGood, PlansGood
  <2>7. QED
    BY <2>5, <2>6
<1>13. QED
  BY <1>9, <1>10, <1>11, <1>12 DEF SchedGood

\* UpdateScheduleLastRun: the plan is stored, the row in the table says so, and
\* the schedule leaves the list of the pass.
LEMMA UpdateKeeps ==
  ASSUME SchedInv, UpdateScheduleLastRun
  PROVE  SchedInv'
<1> USE DEF SchedInv
<1> DEFINE row == Head(pass.todo)
<1>1. /\ pass.state = "created" /\ pass.todo # <<>> /\ pass.todo \in Seq(Row)
      /\ row.cron # BadCron /\ IsDue(row, pass.at)
      /\ pass.at <= now /\ pass.at # 0 /\ now \in Nat /\ pass.at \in Nat
  BY DEF UpdateScheduleLastRun, SchedTypeOK, SchedGood, PassGood
<1>2. row \in Row /\ Tail(pass.todo) \in Seq(Row)
  BY <1>1, HeadTail
<1>3. /\ row.id \in Schedules /\ row.created \in Nat /\ Base(row) \in Nat
      /\ row.cron \in Nat \ {0}
  BY <1>1, <1>2, RowFacts
<1>4. RowAccounted(row, born, Stored)
  <2>1. RowsAccounted(pass.todo, born, Stored)
    BY RowsGoodIs DEF SchedGood
  <2>2. QED
    BY <1>1, <2>1, HeadTail DEF RowsAccounted
<1>5. /\ RowsAccounted(Tail(pass.todo), born, Stored)
      /\ \A i \in DOMAIN Tail(pass.todo) : Tail(pass.todo)[i].id # row.id
  <2>1. RowsAccounted(pass.todo, born, Stored)
    BY RowsGoodIs DEF SchedGood
  <2>2. QED
    BY <1>1, <2>1, TailAccounted
<1>6. /\ schedules' = [i \in DOMAIN schedules |->
                          IF schedules[i].id = row.id
                          THEN [schedules[i] EXCEPT !.last = pass.at]
                          ELSE schedules[i]]
      /\ pass' = [pass EXCEPT !.state = "check", !.todo = Tail(@)]
      /\ UNCHANGED <<now, plans, interrupted, born>>
  BY DEF UpdateScheduleLastRun
<1>7. /\ pass \in [state: PassStates, at: Nat, todo: Seq(Row)]
      /\ plans \in [Schedules -> Nat] /\ interrupted \in [Schedules -> Nat]
      /\ schedules \in Seq(Row) /\ Stored \in [Schedules -> Int]
  BY StoredInt DEF SchedTypeOK
<1>8. \A s \in Schedules : Stored'[s] = IF s = row.id THEN Stored[s] + 1 ELSE Stored[s]
  <2>1. SUFFICES ASSUME NEW s \in Schedules
                 PROVE  Stored'[s] = IF s = row.id THEN Stored[s] + 1 ELSE Stored[s]
    OBVIOUS
  <2> HIDE DEF row
  <2>2. Stored[s] = plans[s] - interrupted[s] - IF row.id = s THEN 1 ELSE 0
    BY <1>1 DEF Stored, row
  <2>3. pass'.state = "check"
    BY <1>6, <1>7
  <2>4. Stored'[s] = plans[s] - interrupted[s] - 0
    BY <1>6, <2>3 DEF Stored
  <2>5. plans[s] \in Nat /\ interrupted[s] \in Nat
    BY <1>7
  <2>6. QED
    BY <2>2, <2>4, <2>5
<1> HIDE DEF row
<1>9. /\ pass' \in [state: PassStates, at: Nat, todo: Seq(Row)]
      /\ pass'.state = "check" /\ pass'.at = pass.at /\ pass'.todo = Tail(pass.todo)
  BY <1>2, <1>6, <1>7 DEF PassStates
<1>10. RowsAccounted(pass'.todo, born', Stored')
  <2>1. ASSUME NEW i \in DOMAIN Tail(pass.todo)
        PROVE  RowAccounted(Tail(pass.todo)[i], born, Stored')
    <3>1. Tail(pass.todo)[i].id \in Schedules /\ Tail(pass.todo)[i].id # row.id
      BY <1>2, <1>5, RowsAreRows, RowFacts
    <3>2. RowAccounted(Tail(pass.todo)[i], born, Stored)
      BY <1>5 DEF RowsAccounted
    <3>3. QED
      BY <1>8, <3>1, <3>2 DEF RowAccounted
  <2>2. QED
    BY <1>5, <1>6, <1>9, <2>1 DEF RowsAccounted
<1>11. /\ DOMAIN schedules' = DOMAIN schedules
       /\ \A i \in DOMAIN schedules : schedules'[i] \in Row /\ schedules'[i].id = schedules[i].id
  <2>1. ASSUME NEW i \in DOMAIN schedules
        PROVE  schedules'[i] \in Row /\ schedules'[i].id = schedules[i].id
    <3>1. schedules[i] \in Row
      BY <1>7, RowsAreRows
    <3>2. [schedules[i] EXCEPT !.last = pass.at] \in Row
          /\ [schedules[i] EXCEPT !.last = pass.at].id = schedules[i].id
      BY <1>1, <3>1 DEF Row
    <3>3. QED
      BY <1>6, <3>1, <3>2
  <2>2. QED
    BY <1>6, <2>1
<1>12. schedules' \in Seq(Row)
  <2>1. DOMAIN schedules = 1 .. Len(schedules) /\ Len(schedules) \in Nat
    BY <1>7, LenProperties
  <2>2. schedules' = [i \in 1 .. Len(schedules) |-> schedules'[i]]
    BY <1>6, <2>1
  <2>3. schedules' \in [1 .. Len(schedules) -> Row]
    BY <1>11, <2>1, <2>2
  <2>4. QED
    BY <2>1, <2>3, SeqDef
<1>13. RowsAccounted(schedules', born', Stored')
  <2>1. RowsAccounted(schedules, born, Stored)
    BY RowsGoodIs DEF SchedGood
  <2>2. ASSUME NEW i \in DOMAIN schedules
        PROVE  RowAccounted(schedules'[i], born, Stored')
    <3>1. schedules[i] \in Row /\ schedules[i].id \in Schedules
      BY <1>7, RowsAreRows, RowFacts
    <3>2. RowAccounted(schedules[i], born, Stored)
      BY <2>1 DEF RowsAccounted
    <3>3. CASE schedules[i].id # row.id
      <4>1. schedules'[i] = schedules[i]
        BY <1>6, <3>3
      <4>2. QED
        BY <1>8, <3>1, <3>2, <3>3, <4>1 DEF RowAccounted
    <3>4. CASE schedules[i].id = row.id
      <4>1. schedules'[i] = [schedules[i] EXCEPT !.last = pass.at]
        BY <1>6, <3>4
      <4>2. /\ schedules'[i].id = row.id /\ schedules'[i].cron = schedules[i].cron
            /\ schedules'[i].created = schedules[i].created /\ schedules'[i].last = pass.at
        BY <3>1, <3>4, <4>1 DEF Row
      <4>3. /\ born[row.id] = [at |-> row.created, cron |-> row.cron]
            /\ born[row.id] = [at |-> schedules[i].created, cron |-> schedules[i].cron]
            /\ Stored[row.id] <= Times(row.cron, row.created, Base(row))
        BY <1>1, <1>4, <3>2, <3>4 DEF RowAccounted, row
      <4>4. schedules[i].created = row.created /\ schedules[i].cron = row.cron
        BY <4>3
      <4>5. Base(schedules'[i]) = pass.at
        BY <1>1, <4>2 DEF Base
      <4>6. /\ Times(row.cron, row.created, Base(row)) + 1
                  <= Times(row.cron, row.created, pass.at)
            /\ Times(row.cron, row.created, Base(row)) \in Int
            /\ Times(row.cron, row.created, pass.at) \in Int
        BY <1>1, <1>3, TimesFacts DEF IsDue, row
      <4>7. Stored'[row.id] = Stored[row.id] + 1 /\ Stored[row.id] \in Int
        BY <1>3, <1>7, <1>8
      <4>8. Stored'[row.id] <= Times(row.cron, row.created, pass.at)
        BY <4>3, <4>6, <4>7
      <4>9. QED
        BY <4>2, <4>3, <4>4, <4>5, <4>8 DEF RowAccounted
    <3>5. QED
      BY <3>3, <3>4
  <2>3. QED
    BY <1>6, <1>11, <2>1, <2>2 DEF RowsAccounted, OneRowPerId
<1>14. SchedTypeOK'
  BY <1>6, <1>9, <1>12 DEF SchedTypeOK
<1>15. PassGood' /\ PlansGood'
  BY <1>1, <1>6, <1>9 DEF PassGood, PlansGood, SchedGood
<1>16. QED
  BY <1>10, <1>13, <1>14, <1>15, RowsGoodIs DEF SchedGood

\* A pass cut off after CreatePlan: its plan counts as interrupted, not as stored.
LEMMA StopPassKeeps ==
  ASSUME SchedInv, NEW to \in {NoPass, Returned}, StopPass(to)
  PROVE  SchedInv'
<1> USE DEF SchedInv
<1>1. CASE pass.state # "created"
  BY <1>1, LeavesKeep DEF StopPass
<1>2. CASE pass.state = "created"
  <2> DEFINE row == Head(pass.todo)
  <2>1. /\ pass' \in [state: PassStates, at: Nat, todo: Seq(Row)]
        /\ pass'.state \notin {"check", "created"} /\ pass'.at = 0 /\ pass'.todo = <<>>
    <3>1. PICK st \in {"off", "returned"} : pass' = [state |-> st, at |-> 0, todo |-> <<>>]
      BY DEF StopPass, NoPass, Returned
    <3>2. st \in PassStates /\ <<>> \in Seq(Row)
      BY EmptyAccounted DEF PassStates
    <3>3. QED
      BY <3>1, <3>2
  <2>2. row \in Row /\ row.id \in Schedules
    BY <1>2, HeadTail, RowFacts DEF SchedTypeOK, SchedGood, PassGood
  <2>3. /\ interrupted' = [interrupted EXCEPT ![row.id] = @ + 1]
        /\ UNCHANGED <<now, schedules, plans, born>>
    BY <1>2 DEF StopPass
  <2>4. plans \in [Schedules -> Nat] /\ interrupted \in [Schedules -> Nat] /\ now \in Nat
    BY DEF SchedTypeOK
  <2> HIDE DEF row
  <2>5. /\ interrupted' \in [Schedules -> Nat]
        /\ \A s \in Schedules : interrupted'[s] = IF s = row.id THEN interrupted[s] + 1
                                                  ELSE interrupted[s]
    BY <2>2, <2>3, <2>4
  <2>6. Stored' = Stored
    <3>1. ASSUME NEW s \in Schedules
          PROVE  Stored'[s] = Stored[s]
      <4>1. Stored[s] = plans[s] - interrupted[s] - IF row.id = s THEN 1 ELSE 0
        BY <1>2 DEF Stored, row
      <4>2. Stored'[s] = plans[s] - interrupted'[s] - 0
        BY <2>1, <2>3 DEF Stored
      <4>3. plans[s] \in Nat /\ interrupted[s] \in Nat
        BY <2>4
      <4>4. QED
        BY <2>5, <4>1, <4>2, <4>3
    <3>2. Stored = [s \in Schedules |-> Stored[s]] /\ Stored' = [s \in Schedules |-> Stored'[s]]
      BY DEF Stored
    <3>3. QED
      BY <3>1, <3>2
  <2>7. RowsGood(schedules)' /\ RowsGood(pass.todo)'
    BY <2>1, <2>3, <2>6, RowsGoodIs, EmptyAccounted DEF SchedGood
  <2>8. SchedTypeOK' /\ PassGood'
    BY <2>1, <2>3, <2>4, <2>5 DEF SchedTypeOK, PassGood
  <2>9. PlansGood'
    <3>1. SUFFICES ASSUME NEW s \in Schedules, plans[s] > 0
                   PROVE  /\ born[s].cron # BadCron
                          /\ plans[s] - interrupted'[s] <= Times(born[s].cron, born[s].at, now)
      BY <2>3 DEF PlansGood
    <3>2. /\ born[s].cron # BadCron /\ born[s].cron \in Nat \ {0} /\ born[s].at \in Nat
          /\ plans[s] - interrupted[s] <= Times(born[s].cron, born[s].at, now)
      BY <3>1, SchedulerAssumption DEF SchedTypeOK, SchedGood, PlansGood
    <3>3. Times(born[s].cron, born[s].at, now) \in Int
      BY <2>4, <3>2, TimesFacts
    <3>4. plans[s] \in Nat /\ interrupted[s] \in Nat
          /\ interrupted'[s] \in {interrupted[s], interrupted[s] + 1}
      BY <2>4, <2>5
    <3>5. QED
      BY <3>2, <3>3, <3>4
  <2>10. QED
    BY <2>7, <2>8, <2>9 DEF SchedGood
<1>3. QED
  BY <1>1, <1>2

LEMMA SchedulerStepKeeps ==
  ASSUME SchedInv, SchedulerStep
  PROVE  SchedInv'
<1>1. CASE StopAtBadCron
  BY <1>1, LeavesKeep DEF StopAtBadCron
<1>2. CASE EndPass
  BY <1>2, LeavesKeep DEF EndPass
<1>3. QED
  BY <1>1, <1>2, ListPassKeeps, SkipRowKeeps, MakePlanKeeps, UpdateKeeps DEF SchedulerStep

\* The account of the rows gives the property.
LEMMA AccountGivesOnce == SchedInv => OncePerTime
<1>1. SUFFICES ASSUME SchedInv, NEW s \in Schedules, plans[s] > 0
               PROVE  plans[s] <= Times(born[s].cron, born[s].at, now) + interrupted[s]
  BY DEF OncePerTime, NoTimeTwice, SchedInv
<1>2. /\ born[s].cron \in Nat \ {0} /\ born[s].at \in Nat
      /\ plans[s] - interrupted[s] <= Times(born[s].cron, born[s].at, now)
      /\ plans[s] \in Nat /\ interrupted[s] \in Nat /\ now \in Nat
  BY <1>1, SchedulerAssumption DEF SchedInv, SchedTypeOK, SchedGood, PlansGood
<1>3. Times(born[s].cron, born[s].at, now) \in Int
  BY <1>2, TimesFacts
<1>4. QED
  BY <1>2, <1>3

LEMMA SchedUnchanged ==
  ASSUME SchedInv, UNCHANGED schedVars
  PROVE  SchedInv'
<1>1. Stored' = Stored
  BY DEF Stored, schedVars
<1>2. RowsGood(schedules)' /\ RowsGood(pass.todo)'
  BY <1>1, RowsGoodIs DEF SchedInv, SchedGood, schedVars
<1>3. SchedTypeOK' /\ PassGood' /\ PlansGood'
  BY DEF SchedInv, SchedTypeOK, SchedGood, PassGood, PlansGood, schedVars
<1>4. QED
  BY <1>2, <1>3 DEF SchedInv, SchedGood

(***************************************************************************)
(* The context service                                                     *)
(***************************************************************************)
CtxInv == CtxTypeOK /\ WatchersGood

LEMMA WriterShapes ==
  /\ Off \in Writer /\ Ready \in Writer
  /\ [Ready EXCEPT !.next = 1] \in Writer
  /\ [Ready EXCEPT !.next = Len(Pollers) + 1] \in Writer
<1>1. Len(Pollers) \in Nat
  BY ContextAssumption, LenProperties
<1>2. QED
  BY <1>1 DEF Off, Ready, Writer

LEMMA CtxInitial == CtxInit => CtxInv
<1>1. <<>> \in Seq(Snapshot) /\ Len(<<>>) = 0
  BY EmptySeq
<1>2. QED
  BY <1>1, WriterShapes, ContextAssumption
     DEF CtxInit, CtxInv, CtxTypeOK, WatchersGood, NoWatcher, WatcherState

LEMMA CtxStartKeeps ==
  ASSUME CtxInv, CtxStart
  PROVE  CtxInv'
<1>1. \A s \in Sources : watchers'[s] = [state |-> "idle", last |-> 0]
  BY DEF CtxStart
<1>2. watchers' \in [Sources -> WatcherState]
  BY DEF CtxStart, WatcherState
<1>3. QED
  BY <1>1, <1>2, WriterShapes DEF CtxStart, CtxInv, CtxTypeOK, WatchersGood

LEMMA CtxStoppedKeeps ==
  ASSUME CtxInv, CtxStopped, UNCHANGED <<world, broken, graph>>
  PROVE  CtxInv'
<1>1. <<>> \in Seq(Snapshot) /\ Len(<<>>) = 0
  BY EmptySeq
<1>2. QED
  BY <1>1, WriterShapes, ContextAssumption
     DEF CtxStopped, CtxInv, CtxTypeOK, WatchersGood, NoWatcher, WatcherState

LEMMA SourceKeeps ==
  ASSUME CtxInv, NEW s \in Sources, SourceChanges(s)
  PROVE  CtxInv'
<1>1. /\ world \in [Sources -> Nat] /\ watchers \in [Sources -> WatcherState]
      /\ world' = [world EXCEPT ![s] = world[s] + 1]
  BY DEF SourceChanges, CtxInv, CtxTypeOK
<1>2. world' \in [Sources -> Nat]
  BY <1>1
<1>3. \A t \in Sources : world[t] \in Nat /\ watchers[t].last \in Nat /\ world[t] <= world'[t]
  BY <1>1 DEF WatcherState
<1>4. \A t \in Sources : watchers[t].last <= world'[t]
  <2>1. SUFFICES ASSUME NEW t \in Sources PROVE watchers[t].last <= world'[t]
    OBVIOUS
  <2>2. watchers[t].last <= world[t] /\ world'[t] \in Nat
    BY <1>2 DEF CtxInv, WatchersGood
  <2>3. QED
    BY <1>3, <2>2
<1>5. QED
  BY <1>2, <1>4 DEF SourceChanges, CtxInv, CtxTypeOK, WatchersGood

\* The bounded channel of errors.
LEMMA ErrsBounded ==
  ASSUME CtxInv
  PROVE  ErrsAfterSend \in 0 .. ErrsCap
  BY ContextAssumption DEF CtxInv, CtxTypeOK, ErrsAfterSend

LEMMA PollerKeeps ==
  ASSUME CtxInv, PollerStep
  PROVE  CtxInv'
<1> USE DEF CtxInv
<1>1. /\ poller \in Writer /\ world \in [Sources -> Nat] /\ graph \in [Sources -> Nat]
  BY DEF CtxTypeOK
<1>2. /\ Len(Pollers) \in Nat /\ DOMAIN Pollers = 1 .. Len(Pollers)
      /\ \A i \in DOMAIN Pollers : Pollers[i] \in Sources
  BY ContextAssumption, LenProperties DEF Sources
<1>3. CASE PollSource
  <2> DEFINE s == Pollers[poller.next]
             sn == IF world[s] = 0 THEN NoSnap ELSE [source |-> s, version |-> world[s]]
  <2>1. s \in Sources /\ poller.next + 1 \in 0 .. Len(Pollers) + 1
    BY <1>2, <1>3 DEF PollSource
  <2>2. sn \in Snapshot \cup {NoSnap}
    BY <1>1, <2>1 DEF Snapshot
  <2>3. PICK st \in {"idle", "write"} :
           poller' = [state |-> st, snap |-> sn, next |-> poller.next + 1]
    BY <1>3 DEF PollSource
  <2> HIDE DEF sn, s
  <2>4. poller' \in Writer
    BY <2>1, <2>2, <2>3 DEF Writer
  <2>5. QED
    BY <1>3, <2>4 DEF PollSource, CtxTypeOK, WatchersGood
<1>4. CASE PollerUpsert
  <2>1. graph' \in [Sources -> Nat]
    <3>1. poller.snap.version \in Nat
      BY <1>1 DEF Writer, Snapshot, NoSnap
    <3>2. QED
      BY <1>1, <1>4, <3>1 DEF PollerUpsert, Upserted
  <2>2. poller' \in Writer
    BY <1>1, <1>4 DEF PollerUpsert, Writer
  <2>3. QED
    BY <1>4, <2>1, <2>2 DEF PollerUpsert, CtxTypeOK, WatchersGood
<1>5. CASE PollAgain
  <2>1. poller' \in Writer
    BY <1>1, <1>2, <1>5 DEF PollAgain, Writer
  <2>2. QED
    BY <1>5, <2>1 DEF PollAgain, CtxTypeOK, WatchersGood
<1>6. QED
  BY <1>3, <1>4, <1>5 DEF PollerStep

LEMMA FailuresKeep ==
  ASSUME CtxInv, PollerFails \/ IngesterFails
  PROVE  CtxInv'
<1>1. CASE PollerFails
  BY <1>1, ErrsBounded, WriterShapes DEF PollerFails, CtxInv, CtxTypeOK, WatchersGood
<1>2. CASE IngesterFails
  BY <1>2, ErrsBounded, WriterShapes DEF IngesterFails, CtxInv, CtxTypeOK, WatchersGood
<1>3. QED
  BY <1>1, <1>2

\* The bounded channel of snapshots: a watcher sends only into a free place.
LEMMA WatcherKeeps ==
  ASSUME CtxInv, NEW s \in Sources, WatcherStep(s)
  PROVE  CtxInv'
<1> USE DEF CtxInv
<1>1. /\ watchers \in [Sources -> WatcherState] /\ world \in [Sources -> Nat]
      /\ channel \in Seq(Snapshot) /\ Len(channel) \in Nat /\ Len(channel) <= ChanCap
      /\ ChanCap \in Nat
  BY ContextAssumption, LenProperties DEF CtxTypeOK
<1>2. /\ watchers[s] \in WatcherState /\ watchers[s].last \in Nat /\ world[s] \in Nat
      /\ watchers[s].last <= world[s]
      /\ watchers[s].state = "sending" => watchers[s].last # 0
  BY <1>1 DEF WatcherState, WatchersGood
<1>3. Reports(s) => world[s] # 0
  BY <1>2 DEF Reports
<1>4. ASSUME NEW snap \in Snapshot, channel' = Append(channel, snap), Len(channel) < ChanCap
      PROVE  channel' \in Seq(Snapshot) /\ Len(channel') <= ChanCap
  BY <1>1, <1>4, AppendProperties
<1>5. ASSUME NEW w \in WatcherState, watchers' = [watchers EXCEPT ![s] = w],
             w.last <= world[s], w.state = "sending" => w.last # 0, world' = world
      PROVE  watchers' \in [Sources -> WatcherState] /\ WatchersGood'
  BY <1>1, <1>5 DEF WatchersGood
<1>6. CASE Watch(s)
  <2>1. Found(s) \in Snapshot
    BY <1>2, <1>3, <1>6 DEF Watch, Found, Snapshot
  <2>2. channel' \in Seq(Snapshot) /\ Len(channel') <= ChanCap
    BY <1>4, <1>6, <2>1 DEF Watch
  <2>3. watchers' = [watchers EXCEPT ![s] = [watchers[s] EXCEPT !.last = world[s]]]
    BY <1>6 DEF Watch
  <2>4. /\ [watchers[s] EXCEPT !.last = world[s]] \in WatcherState
        /\ [watchers[s] EXCEPT !.last = world[s]].last = world[s]
        /\ [watchers[s] EXCEPT !.last = world[s]].state = "idle"
    BY <1>2, <1>6 DEF Watch, WatcherState
  <2>5. world' = world /\ world[s] <= world[s]
    BY <1>2, <1>6 DEF Watch
  <2>6. watchers' \in [Sources -> WatcherState] /\ WatchersGood'
    BY <1>5, <2>3, <2>4, <2>5
  <2>7. QED
    BY <1>6, <2>2, <2>6 DEF Watch, CtxTypeOK
<1>7. CASE Block(s)
  <2>1. /\ [state |-> "sending", last |-> world[s]] \in WatcherState /\ world[s] # 0
        /\ world' = world /\ world[s] <= world[s]
    BY <1>2, <1>3, <1>7 DEF Block, WatcherState
  <2>2. watchers' \in [Sources -> WatcherState] /\ WatchersGood'
    BY <1>5, <1>7, <2>1 DEF Block
  <2>3. QED
    BY <1>7, <2>2 DEF Block, CtxTypeOK
<1>8. CASE Unblock(s)
  <2>1. [source |-> s, version |-> watchers[s].last] \in Snapshot
    BY <1>2, <1>8 DEF Unblock, Snapshot
  <2>2. channel' \in Seq(Snapshot) /\ Len(channel') <= ChanCap
    BY <1>4, <1>8, <2>1 DEF Unblock
  <2>3. watchers' = [watchers EXCEPT ![s] = [watchers[s] EXCEPT !.state = "idle"]]
    BY <1>8 DEF Unblock
  <2>4. /\ [watchers[s] EXCEPT !.state = "idle"] \in WatcherState
        /\ [watchers[s] EXCEPT !.state = "idle"].last = watchers[s].last
        /\ [watchers[s] EXCEPT !.state = "idle"].state = "idle"
    BY <1>2 DEF WatcherState
  <2>5. world' = world
    BY <1>8 DEF Unblock
  <2>6. watchers' \in [Sources -> WatcherState] /\ WatchersGood'
    BY <1>2, <1>5, <2>3, <2>4, <2>5
  <2>7. QED
    BY <1>8, <2>2, <2>6 DEF Unblock, CtxTypeOK
<1>9. QED
  BY <1>6, <1>7, <1>8 DEF WatcherStep

LEMMA IngesterKeeps ==
  ASSUME CtxInv, IngesterStep
  PROVE  CtxInv'
<1> USE DEF CtxInv
<1>1. /\ ingester \in Writer /\ graph \in [Sources -> Nat]
      /\ channel \in Seq(Snapshot) /\ Len(channel) \in Nat /\ Len(channel) <= ChanCap
      /\ ChanCap \in Nat
  BY ContextAssumption, LenProperties DEF CtxTypeOK
<1>2. CASE Receive
  <2>1. /\ Head(channel) \in Snapshot /\ Tail(channel) \in Seq(Snapshot)
        /\ Len(Tail(channel)) = Len(channel) - 1
    BY <1>1, <1>2, HeadTailProperties DEF Receive
  <2>2. ingester' \in Writer
    BY <1>1, <1>2, <2>1 DEF Receive, Writer
  <2>3. channel' \in Seq(Snapshot) /\ Len(channel') <= ChanCap
    BY <1>1, <1>2, <2>1 DEF Receive
  <2>4. QED
    BY <1>2, <2>2, <2>3 DEF Receive, CtxTypeOK, WatchersGood
<1>3. CASE IngesterUpsert
  <2>1. ingester.snap.version \in Nat
    BY <1>1 DEF Writer, Snapshot, NoSnap
  <2>2. graph' \in [Sources -> Nat]
    BY <1>1, <1>3, <2>1 DEF IngesterUpsert, Upserted
  <2>3. QED
    BY <1>3, <2>2, WriterShapes DEF IngesterUpsert, CtxTypeOK, WatchersGood
<1>4. QED
  BY <1>2, <1>3 DEF IngesterStep

LEMMA CtxUnchanged ==
  ASSUME CtxInv, UNCHANGED ctxVars
  PROVE  CtxInv'
  BY DEF CtxInv, CtxTypeOK, WatchersGood, ctxVars

(***************************************************************************)
(* The process                                                             *)
(***************************************************************************)
ProcTypeOK ==
    /\ config \in Configs
    /\ proc \in ProcStates
    /\ goroutine \in [Goroutines -> Stages]
    /\ lastErr \in [Goroutines -> BOOLEAN]
    /\ alive \in [Goroutines -> {"absent", "yes", "no"}]
    /\ stream \in BOOLEAN
    /\ starts \in 0 .. MaxStarts /\ faults \in 0 .. MaxFaults

LEMMA IInvParts == IInv <=> SchedInv /\ CtxInv /\ ProcTypeOK /\ Tracked
  BY DEF IInv, TypeOK, SchedInv, CtxInv, ProcTypeOK

LEMMA IInvPartsNext == IInv' <=> SchedInv' /\ CtxInv' /\ ProcTypeOK' /\ Tracked'
  BY DEF IInv, TypeOK, SchedInv, CtxInv, ProcTypeOK

LEMMA Initial == Init => IInv
<1>1. SUFFICES ASSUME Init PROVE IInv
  OBVIOUS
<1>2. SchedInv /\ CtxInv
  BY <1>1, SchedInitial, CtxInitial DEF Init
<1>3. ProcTypeOK
  <2>1. config \in Configs /\ stream \in BOOLEAN /\ proc \in ProcStates
    BY <1>1 DEF Init, ProcStates
  <2>2. starts \in 0 .. MaxStarts /\ faults \in 0 .. MaxFaults
    BY <1>1, ProcessAssumption DEF Init
  <2>3. /\ goroutine \in [Goroutines -> Stages]
        /\ lastErr \in [Goroutines -> BOOLEAN]
        /\ alive \in [Goroutines -> {"absent", "yes", "no"}]
    BY <1>1 DEF Init, None, Stages
  <2>4. QED
    BY <2>1, <2>2, <2>3 DEF ProcTypeOK
<1>4. Tracked
  BY <1>1 DEF Init, SchedInit, Tracked, None
<1>5. QED
  BY <1>2, <1>3, <1>4, IInvParts

\* What a step does to the scheduler and its table.
LEMMA SchedStays ==
  ASSUME IInv, [Next]_vars
  PROVE  SchedInv'
<1>1. SchedInv /\ (proc = "down" => pass = NoPass)
  BY IInvParts DEF Tracked
<1>2. CASE UNCHANGED schedVars
  BY <1>1, <1>2, SchedUnchanged
<1>3. CASE Start
  <2>1. pass.state # "created"
    BY <1>1, <1>3 DEF Start, NoPass
  <2>2. QED
    BY <1>1, <1>3, <2>1, LeavesKeep DEF Start
<1>4. CASE Exit
  BY <1>1, <1>4, StopPassKeeps DEF Exit
<1>5. CASE SchedulerRuns
  BY <1>1, <1>5, SchedulerStepKeeps DEF SchedulerRuns
<1>6. CASE SchedulerFails
  BY <1>1, <1>6, StopPassKeeps DEF SchedulerFails
<1>7. CASE Users
  BY <1>1, <1>7, CreateKeeps, DeleteKeeps DEF Users
<1>8. CASE Clock
  BY <1>1, <1>8, TickKeeps DEF Clock
<1>9. QED
  BY <1>2, <1>3, <1>4, <1>5, <1>6, <1>7, <1>8
     DEF Next, Return, Crash, ForceExit, Signal, FinishShutdown, ServeFails, OpenStream,
         CloseStream, Tracking, SetDead, WaitGroupDone, OpaqueReturns, SchedulerReturns,
         PollerRuns, IngesterRuns, WatcherRuns, BrokenFails, CollectorFails, SourceStep,
         ErrsRead, ContextReturns, vars

\* What a step does to the context service.
LEMMA CtxStays ==
  ASSUME IInv, [Next]_vars
  PROVE  CtxInv'
<1>1. CtxInv
  BY IInvParts
<1>2. CASE UNCHANGED ctxVars
  BY <1>1, <1>2, CtxUnchanged
<1>3. CASE Start
  BY <1>1, <1>2, <1>3, CtxStartKeeps DEF Start
<1>4. CASE Exit
  BY <1>1, <1>4, CtxStoppedKeeps DEF Exit
<1>5. CASE PollerRuns \/ IngesterRuns
  BY <1>1, <1>5, PollerKeeps, IngesterKeeps DEF PollerRuns, IngesterRuns
<1>6. CASE \E s \in Sources : WatcherRuns(s)
  BY <1>1, <1>6, WatcherKeeps DEF WatcherRuns
<1>7. CASE BrokenFails \/ CollectorFails
  BY <1>1, <1>7, FailuresKeep DEF BrokenFails, CollectorFails
<1>8. CASE SourceStep
  BY <1>1, <1>8, SourceKeeps DEF SourceStep
<1>9. CASE ErrsRead
  <2>1. errs - 1 \in 0 .. ErrsCap
    BY <1>1, <1>9, ContextAssumption DEF ErrsRead, CtxInv, CtxTypeOK
  <2>2. QED
    BY <1>1, <1>9, <2>1 DEF ErrsRead, CtxInv, CtxTypeOK, WatchersGood
<1>10. QED
  BY <1>2, <1>3, <1>4, <1>5, <1>6, <1>7, <1>8, <1>9
     DEF Next, Return, Crash, ForceExit, Signal, FinishShutdown, ServeFails, OpenStream,
         CloseStream, Tracking, SetDead, WaitGroupDone, OpaqueReturns, SchedulerRuns,
         SchedulerFails, SchedulerReturns, Users, Clock, ContextReturns, vars

\* The goroutines but not the pass, whose only part in the tracking is to be off
\* when the process is down.
Bookkeeping ==
    /\ proc = "down" => goroutine = None("off")
    /\ \A g \in Goroutines :
         /\ alive[g] = "no" <=> goroutine[g] \in {"stopped", "done"}
         /\ proc = "up" /\ goroutine[g] \in {"returned", "stopped", "done"} => lastErr[g]

\* The function of g returns: an error while the gateway is up is noted.
LEMMA ReturnsKeep ==
  ASSUME ProcTypeOK, Bookkeeping, NEW g \in Goroutines, NEW err \in BOOLEAN, Returns(g, err),
         proc = "up" => err, proc # "down", UNCHANGED <<config, proc, alive, stream, starts>>,
         faults' \in 0 .. MaxFaults
  PROVE  ProcTypeOK' /\ Bookkeeping'
<1>1. /\ goroutine' = [goroutine EXCEPT ![g] = "returned"] /\ goroutine[g] = "running"
      /\ lastErr' = [lastErr EXCEPT ![g] = err /\ ~Cancelled]
  BY DEF Returns
<1>2. goroutine' \in [Goroutines -> Stages] /\ lastErr' \in [Goroutines -> BOOLEAN]
  <2>1. "returned" \in Stages
    BY DEF Stages
  <2>2. QED
    BY <1>1, <2>1, Zenon DEF ProcTypeOK
<1>3. ProcTypeOK'
  BY <1>2 DEF ProcTypeOK
<1>4. ASSUME NEW h \in Goroutines
      PROVE  /\ alive'[h] = "no" <=> goroutine'[h] \in {"stopped", "done"}
             /\ proc' = "up" /\ goroutine'[h] \in {"returned", "stopped", "done"} => lastErr'[h]
  <2>1. CASE h # g
    BY <1>1, <2>1 DEF ProcTypeOK, Bookkeeping
  <2>2. CASE h = g
    <3>1. goroutine'[g] = "returned" /\ lastErr'[g] = (err /\ ~Cancelled)
      BY <1>1, Zenon DEF ProcTypeOK
    <3>2. alive'[g] # "no"
      BY <1>1 DEF Bookkeeping
    <3>3. proc' = "up" => lastErr'[g]
      BY <3>1 DEF Cancelled
    <3>4. QED
      BY <2>2, <3>1, <3>2, <3>3
  <2>3. QED
    BY <2>1, <2>2
<1>5. proc' # "down"
  OBVIOUS
<1>6. QED
  BY <1>3, <1>4, <1>5 DEF Bookkeeping

LEMMA FaultsBounded ==
  ASSUME ProcTypeOK, CallFails
  PROVE  faults' \in 0 .. MaxFaults /\ proc # "down"
  BY ProcessAssumption DEF ProcTypeOK, CallFails, Cancelled

LEMMA TrackingKeeps ==
  ASSUME ProcTypeOK, Bookkeeping, NEW g \in Goroutines, Tracking(g)
  PROVE  ProcTypeOK' /\ Bookkeeping'
<1>1. /\ goroutine \in [Goroutines -> Stages]
      /\ alive \in [Goroutines -> {"absent", "yes", "no"}]
      /\ proc' = proc /\ proc # "down" /\ lastErr' = lastErr
      /\ UNCHANGED <<config, stream, starts, faults>>
  BY DEF ProcTypeOK, Tracking, DBOpen, SetDead, WaitGroupDone
<1>2. CASE SetDead(g)
  <2>1. /\ goroutine[g] = "returned"
        /\ goroutine' = [goroutine EXCEPT ![g] = "stopped"]
        /\ alive' = [alive EXCEPT ![g] = "no"]
    BY <1>2 DEF SetDead
  <2>2. goroutine' \in [Goroutines -> Stages] /\ alive' \in [Goroutines -> {"absent", "yes", "no"}]
    BY <1>1, <2>1 DEF Stages
  <2>3. QED
    BY <1>1, <2>1, <2>2 DEF ProcTypeOK, Bookkeeping
<1>3. CASE WaitGroupDone(g)
  <2>1. /\ goroutine[g] = "stopped" /\ alive' = alive
        /\ goroutine' = [goroutine EXCEPT ![g] = "done"]
    BY <1>3 DEF WaitGroupDone
  <2>2. goroutine' \in [Goroutines -> Stages]
    BY <1>1, <2>1 DEF Stages
  <2>3. QED
    BY <1>1, <2>1, <2>2 DEF ProcTypeOK, Bookkeeping
<1>4. QED
  BY <1>2, <1>3 DEF Tracking

LEMMA BookStays ==
  ASSUME IInv, [Next]_vars
  PROVE  ProcTypeOK' /\ Bookkeeping'
<1>1. ProcTypeOK /\ Bookkeeping
  BY IInvParts DEF Tracked, Bookkeeping
<1> DEFINE Goal == ProcTypeOK' /\ Bookkeeping'
<1>2. CASE UNCHANGED procVars
  BY <1>1, <1>2 DEF ProcTypeOK, Bookkeeping, procVars, None
<1>3. CASE Start
  <2>1. ProcTypeOK'
    BY <1>1, <1>3, ProcessAssumption DEF Start, ProcTypeOK, ProcStates, Stages, None
  <2>2. Bookkeeping'
    BY <1>3 DEF Start, Bookkeeping
  <2>3. QED
    BY <2>1, <2>2
<1>4. CASE Exit
  <2>1. ProcTypeOK'
    BY <1>1, <1>4 DEF Exit, ProcTypeOK, ProcStates, Stages, None
  <2>2. Bookkeeping'
    BY <1>4 DEF Exit, Bookkeeping, None
  <2>3. QED
    BY <2>1, <2>2
<1>5. CASE Signal \/ FinishShutdown \/ ServeFails
  BY <1>1, <1>5 DEF Signal, FinishShutdown, ServeFails, ProcTypeOK, ProcStates, Bookkeeping
<1>6. CASE OpenStream \/ CloseStream
  BY <1>1, <1>6 DEF OpenStream, CloseStream, ProcTypeOK, Bookkeeping, None
<1>7. CASE \E g \in Goroutines : Tracking(g)
  BY <1>1, <1>7, TrackingKeeps
<1>8. CASE \E g \in Goroutines : OpaqueReturns(g)
  BY <1>1, <1>8, ReturnsKeep, FaultsBounded DEF OpaqueReturns
<1>9. CASE SchedulerFails \/ CollectorFails
  <2>1. faults' \in 0 .. MaxFaults
    BY <1>1, <1>9, FaultsBounded DEF SchedulerFails, CollectorFails
  <2>2. QED
    BY <1>1, <1>9, <2>1 DEF SchedulerFails, CollectorFails, ProcTypeOK, Bookkeeping, None
<1>10. CASE SchedulerReturns
  <2>1. "scheduler" \in Goroutines /\ proc # "down" /\ faults' \in 0 .. MaxFaults
    BY <1>1, <1>10 DEF SchedulerReturns, Goroutines, DBOpen, ProcTypeOK
  <2>2. QED
    BY <1>1, <1>10, <2>1, ReturnsKeep DEF SchedulerReturns
<1>11. CASE ErrsRead
  <2>1. "context-service" \in Goroutines /\ proc # "down" /\ faults' \in 0 .. MaxFaults
    BY <1>1, <1>11 DEF ErrsRead, Goroutines, ProcTypeOK
  <2>2. QED
    BY <1>1, <1>11, <2>1, ReturnsKeep DEF ErrsRead
<1>12. CASE ContextReturns
  <2>1. "context-service" \in Goroutines /\ proc = "stopping" /\ faults' \in 0 .. MaxFaults
    BY <1>1, <1>12 DEF ContextReturns, Cancelled, Goroutines, ProcTypeOK
  <2>2. QED
    BY <1>1, <1>12, <2>1, ReturnsKeep DEF ContextReturns
<1>13. QED
  BY <1>2, <1>3, <1>4, <1>5, <1>6, <1>7, <1>8, <1>9, <1>10, <1>11, <1>12
     DEF Next, Return, Crash, ForceExit, SchedulerRuns, Users, Clock, PollerRuns,
         IngesterRuns, WatcherRuns, BrokenFails, SourceStep, vars

\* With the process down nothing moves the pass.
LEMMA PassStays ==
  ASSUME IInv, [Next]_vars, proc' = "down"
  PROVE  pass' = NoPass
<1>1. proc = "down" => pass = NoPass
  BY IInvParts DEF Tracked
<1>2. CASE Exit
  BY <1>2 DEF Exit, StopPass
<1>3. CASE Clock \/ SourceStep \/ CloseStream \/ UNCHANGED vars
  BY <1>1, <1>3 DEF Clock, Tick, SourceStep, CloseStream, vars, schedVars, procVars
<1>4. CASE DBOpen /\ proc' = proc
  BY <1>4 DEF DBOpen
<1>5. CASE Start \/ Signal \/ FinishShutdown \/ ServeFails \/ OpenStream
  BY <1>5 DEF Start, Signal, FinishShutdown, ServeFails, OpenStream
<1>6. CASE SchedulerFails \/ CollectorFails \/ \E g \in Goroutines : OpaqueReturns(g)
  BY <1>6 DEF SchedulerFails, CollectorFails, OpaqueReturns, CallFails, Cancelled
<1>7. QED
  BY <1>2, <1>3, <1>4, <1>5, <1>6
     DEF Next, Return, Crash, ForceExit, Tracking, SetDead, WaitGroupDone, SchedulerRuns,
         SchedulerReturns, Users, PollerRuns, IngesterRuns, WatcherRuns, BrokenFails,
         CtxActive, ErrsRead, ContextReturns, Cancelled, DBOpen, procVars

LEMMA Inductive == IInv /\ [Next]_vars => IInv'
<1>1. SUFFICES ASSUME IInv, [Next]_vars PROVE IInv'
  OBVIOUS
<1>2. SchedInv' /\ CtxInv' /\ ProcTypeOK' /\ Bookkeeping' /\ (proc' = "down" => pass' = NoPass)
  BY <1>1, SchedStays, CtxStays, BookStays, PassStays
<1>3. Tracked'
  BY <1>2 DEF Tracked, Bookkeeping
<1>4. QED
  BY <1>2, <1>3, IInvPartsNext

LEMMA TrackedReports == IInv => ReportedStopped
  BY DEF IInv, TypeOK, Tracked, ReportedStopped

\* /readyz and wg.Wait never disagree with the goroutines, the channels stay
\* within their capacities, and every list and row has its type, however starts,
\* failures, signals and crashes interleave.
THEOREM ProcessSound == Spec => []ProcessInv
<1>1. Init => IInv
  BY Initial
<1>2. IInv /\ [Next]_vars => IInv'
  BY Inductive
<1>3. IInv => ProcessInv
  BY TrackedReports DEF ProcessInv, IInv
<1>4. QED
  BY <1>1, <1>2, <1>3, PTL DEF Spec

\* No time of a schedule is planned twice, but for the plans whose run could not
\* be stored: for any crons, table, page size, lateness of the passes, deletions
\* under a running pass, and restarts.
THEOREM PlannedOnce == Spec => []OncePerTime
<1>1. Init => IInv
  BY Initial
<1>2. IInv /\ [Next]_vars => IInv'
  BY Inductive
<1>3. IInv => OncePerTime
  BY IInvParts, AccountGivesOnce
<1>4. QED
  BY <1>1, <1>2, <1>3, PTL DEF Spec
=============================================================================
