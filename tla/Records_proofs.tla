--------------------------- MODULE Records_proofs ---------------------------
(***************************************************************************)
(* Proofs about the tables and the sessions that guard them, for any       *)
(* number of rows, requests, tenants, sessions and gateways: a walk over   *)
(* the pages is exact, only members are shown anything, versions grow, and *)
(* the catalog gets complete.                                              *)
(***************************************************************************)
EXTENDS Records, SequenceTheorems, FiniteSetTheorems, WellFoundedInduction, TLAPS

(***************************************************************************)
(* The largest of a bounded set of numbers                                 *)
(***************************************************************************)
LEMMA BoundedMax ==
  ASSUME NEW S \in SUBSET Nat, S # {}, NEW b \in Nat, \A v \in S : v <= b
  PROVE  \E v \in S : \A w \in S : w <= v
<1> DEFINE R == StrictSubsetOrdering(S)
           Above(v) == {w \in S : w > v}
           T == {Above(v) : v \in S}
<1>1. IsFiniteSet(S)
  BY FS_BoundedSetOfNaturals
<1>2. IsWellFoundedOn(R, SUBSET S)
  BY <1>1, FS_StrictSubsetOrderingWellFounded, FS_FiniteSubsetsOfFinite
<1>3. T \subseteq SUBSET S /\ T # {}
  OBVIOUS
<1> HIDE DEF R, T
<1>4. PICK x \in T : \A y \in T : ~(<<y, x>> \in R)
  BY <1>2, <1>3, WFMin
<1>5. PICK v \in S : x = Above(v)
  BY <1>4 DEF T
<1>6. ASSUME NEW w \in S, ~(w <= v)
      PROVE  FALSE
  <2>1. Above(w) \in T
    BY DEF T
  <2>2. Above(w) \subseteq Above(v) /\ w \in Above(v) /\ w \notin Above(w)
    <3>1. v \in Nat /\ w \in Nat /\ w > v /\ \A u \in S : u \in Nat
      BY <1>6
    <3>2. (\A u \in S : u > w => u > v) /\ ~(w > w)
      BY <3>1
    <3>3. w \in Above(v) /\ w \notin Above(w)
      BY <3>1, <3>2
    <3>4. Above(w) \subseteq Above(v)
      BY <3>2
    <3>5. QED
      BY <3>3, <3>4
  <2>3. <<Above(w), Above(v)>> \in R
    BY <2>2 DEF R, StrictSubsetOrdering
  <2>4. QED
    BY <1>4, <1>5, <2>1, <2>3
<1>7. QED
  BY <1>6

(***************************************************************************)
(* Rows                                                                    *)
(***************************************************************************)
LEMMA RowFacts ==
  ASSUME TypeOK
  PROVE  /\ Len(rows) \in Nat /\ DOMAIN rows = 1 .. Len(rows)
         /\ \A i \in DOMAIN rows : rows[i] \in Rows
         /\ Present \subseteq DOMAIN rows /\ IsFiniteSet(Present)
         /\ clock \in Nat \ {0}
<1>1. rows \in Seq(Rows) /\ clock \in Nat \ {0}
  BY DEF TypeOK
<1>2. Len(rows) \in Nat /\ DOMAIN rows = 1 .. Len(rows) /\ \A i \in DOMAIN rows : rows[i] \in Rows
  BY <1>1, LenProperties, ElementOfSeq
<1>3. Present \subseteq DOMAIN rows
  BY DEF Present
<1>4. IsFiniteSet(1 .. Len(rows))
  BY <1>2, FS_Interval
<1>5. QED
  BY <1>1, <1>2, <1>3, <1>4, FS_Subset

LEMMA NoRowType == NoRow \in Rows
  BY DEF NoRow, Rows, Shared, Item, NoSession

LEMMA Appended ==
  ASSUME TypeOK, NEW row \in Rows, row # NoRow, rows' = Append(rows, row)
  PROVE  LET n == Len(rows) + 1 IN
         /\ rows' \in Seq(Rows) /\ Len(rows') = n /\ n \in Nat /\ DOMAIN rows' = 1 .. n
         /\ DOMAIN rows' = DOMAIN rows \cup {n} /\ n \notin DOMAIN rows
         /\ Present' = Present \cup {n}
         /\ rows'[n] = row /\ \A i \in DOMAIN rows : rows'[i] = rows[i]
<1>1. Len(rows) \in Nat /\ DOMAIN rows = 1 .. Len(rows) /\ rows \in Seq(Rows)
  BY RowFacts DEF TypeOK
<1>2. /\ rows' \in Seq(Rows) /\ Len(rows') = Len(rows) + 1
      /\ rows'[Len(rows) + 1] = row /\ \A i \in 1 .. Len(rows) : rows'[i] = rows[i]
  BY <1>1, AppendProperties
<1>3. DOMAIN rows' = 1 .. Len(rows) + 1
  BY <1>2, LenProperties
<1>4. DOMAIN rows' = DOMAIN rows \cup {Len(rows) + 1} /\ Len(rows) + 1 \notin DOMAIN rows
  BY <1>1, <1>3
<1>5. Present' = Present \cup {Len(rows) + 1}
  BY <1>1, <1>2, <1>4 DEF Present
<1>6. QED
  BY <1>1, <1>2, <1>3, <1>4, <1>5

LEMMA Changed ==
  ASSUME TypeOK, NEW i \in Present, NEW row \in Rows, rows' = [rows EXCEPT ![i] = row]
  PROVE  /\ rows' \in Seq(Rows) /\ Len(rows') = Len(rows) /\ DOMAIN rows' = DOMAIN rows
         /\ Present' = IF row = NoRow THEN Present \ {i} ELSE Present
         /\ rows'[i] = row /\ \A j \in DOMAIN rows : j # i => rows'[j] = rows[j]
<1>1. i \in DOMAIN rows /\ rows \in Seq(Rows) /\ DOMAIN rows = 1 .. Len(rows) /\ Len(rows) \in Nat
  BY RowFacts DEF TypeOK
<1>2. rows' \in Seq(Rows) /\ Len(rows') = Len(rows)
  BY <1>1, ExceptSeq
<1>3. DOMAIN rows' = DOMAIN rows /\ rows'[i] = row /\ \A j \in DOMAIN rows : j # i => rows'[j] = rows[j]
  BY <1>1
<1>4. Present' = IF row = NoRow THEN Present \ {i} ELSE Present
  BY <1>3 DEF Present
<1>5. QED
  BY <1>2, <1>3, <1>4

LEMMA SomeMaxVersion ==
  ASSUME TypeOK, RowsBounded, NEW tenant, NEW name
  PROVE  /\ MaxVersion(tenant, name) \in Nat /\ MaxVersion(tenant, name) <= clock + 1
         /\ \A i \in Same(tenant, name) : rows[i].version <= MaxVersion(tenant, name)
<1> DEFINE S == Versions(tenant, name)
<1>1. Same(tenant, name) \subseteq Present /\ clock \in Nat \ {0} /\ clock + 1 \in Nat
  BY RowFacts DEF Same
<1>2. \A i \in Present : rows[i].version \in Nat /\ rows[i].version <= clock + 1
  BY RowFacts DEF Rows, RowsBounded
<1>3. S \in SUBSET Nat /\ \A v \in S : v <= clock + 1
  BY <1>1, <1>2 DEF Versions
<1>4. \A i \in Same(tenant, name) : rows[i].version \in S
  BY DEF Versions
<1> HIDE DEF S
<1>5. CASE S = {}
  <2>1. MaxVersion(tenant, name) = 0 /\ Same(tenant, name) = {}
    BY <1>4, <1>5 DEF MaxVersion, S
  <2>2. QED
    BY <1>1, <2>1
<1>6. CASE S # {}
  <2>1. \E v \in S : \A w \in S : w <= v
    BY <1>1, <1>3, <1>6, BoundedMax
  <2>2. MaxVersion(tenant, name) \in S /\ \A w \in S : w <= MaxVersion(tenant, name)
    BY <1>6, <2>1 DEF MaxVersion, S
  <2>3. QED
    BY <1>3, <1>4, <2>2
<1>7. QED
  BY <1>5, <1>6

(***************************************************************************)
(* The walk over the pages                                                 *)
(***************************************************************************)
PresentIn(rs) == {i \in DOMAIN rs : rs[i] # NoRow}

RankIn(rs, i) == Cardinality({j \in PresentIn(rs) : rs[j].at >= rs[i].at})

ShowsIn(tb, row) == TenantMatch(row.tenant, Reader, tb = "workflows")

ShownIn(rs, tb) == {i \in PresentIn(rs) : ShowsIn(tb, rs[i])}

Steps == {"check", "query", "next"}

\* What a walk has passed it has seen, and what it shows its tenant could see.
GoodWalk(w, rs, tb) ==
    /\ w.seen \subseteq w.owned
    /\ w.pc \in Steps => /\ w.stayed \subseteq ShownIn(rs, tb) /\ ShownIn(rs, tb) \subseteq w.owned
                         /\ ~w.disturbed => \A i \in w.stayed : RankIn(rs, i) <= w.offset => i \in w.seen
    /\ w.pc = "done" /\ ~w.disturbed => w.stayed \subseteq w.seen

LEMMA WalkParts ==
  WalkGood <=> /\ reader.pc \in {"check", "query", "next", "done"} => NoneStarting
               /\ GoodWalk(reader, rows, table)
<1>1. \A i : Rank(i) = RankIn(rows, i)
  BY DEF Rank, RankIn, Present, PresentIn
<1>2. Shown(Present) = ShownIn(rows, table) /\ (Walking <=> reader.pc \in Steps)
  BY DEF Shown, Shows, Present, PresentIn, ShownIn, ShowsIn, Walking, Steps
<1>3. QED
  BY <1>1, <1>2 DEF WalkGood, GoodWalk

LEMMA WalkPartsNext ==
  WalkGood' <=> /\ reader'.pc \in {"check", "query", "next", "done"} => NoneStarting'
                /\ GoodWalk(reader', rows', table')
<1>1. \A i : Rank(i)' = RankIn(rows', i)
  BY DEF Rank, RankIn, Present, PresentIn
<1>2. Shown(Present)' = ShownIn(rows', table') /\ (Walking' <=> reader'.pc \in Steps)
  BY DEF Shown, Shows, Present, PresentIn, ShownIn, ShowsIn, Walking, Steps
<1>3. QED
  BY <1>1, <1>2 DEF WalkGood, GoodWalk

LEMMA RankType ==
  ASSUME NEW rs \in Seq(Rows), NEW i
  PROVE  RankIn(rs, i) \in Nat /\ RankIn(rs, i) <= Cardinality(PresentIn(rs))
<1> DEFINE later == {j \in PresentIn(rs) : rs[j].at >= rs[i].at}
<1>1. IsFiniteSet(DOMAIN rs)
  BY LenProperties, FS_Interval
<1>2. IsFiniteSet(PresentIn(rs))
  BY <1>1, FS_Subset DEF PresentIn
<1>3. later \in SUBSET PresentIn(rs)
  OBVIOUS
<1> HIDE DEF later
<1>4. IsFiniteSet(later) /\ Cardinality(later) <= Cardinality(PresentIn(rs)) /\ Cardinality(later) \in Nat
  BY <1>2, <1>3, FS_Subset, FS_CardinalityType
<1>5. QED
  BY <1>4 DEF later, RankIn

\* ReaderAfter, of a walk, a row and a table.
AfterIn(w, i, row, tb) ==
    IF w.pc \notin Steps THEN w
    ELSE [w EXCEPT !.stayed = IF ShowsIn(tb, row) THEN w.stayed ELSE w.stayed \ {i},
                   !.owned = IF ShowsIn(tb, row) THEN w.owned \cup {i} ELSE w.owned,
                   !.disturbed = w.disturbed \/ row = NoRow]

Follows(v, w, i, row, tb) ==
    /\ v \in Readers /\ v.pc = w.pc /\ v.offset = w.offset /\ v.seen = w.seen
    /\ v.session = w.session /\ v.plan = w.plan /\ v.named = w.named /\ v.was = w.was
    /\ w.pc \notin Steps => v = w
    /\ w.pc \in Steps =>
         /\ v.stayed = IF ShowsIn(tb, row) THEN w.stayed ELSE w.stayed \ {i}
         /\ v.owned = IF ShowsIn(tb, row) THEN w.owned \cup {i} ELSE w.owned
         /\ v.disturbed <=> w.disturbed \/ row = NoRow

LEMMA AfterFacts ==
  ASSUME NEW w \in Readers, NEW i \in Nat, NEW row, NEW tb, NEW v, v = AfterIn(w, i, row, tb)
  PROVE  Follows(v, w, i, row, tb)
<1>1. CASE w.pc \notin Steps
  BY <1>1 DEF AfterIn, Follows
<1>2. CASE w.pc \in Steps
  <2> DEFINE a == IF ShowsIn(tb, row) THEN w.stayed ELSE w.stayed \ {i}
             b == IF ShowsIn(tb, row) THEN w.owned \cup {i} ELSE w.owned
             c == w.disturbed \/ row = NoRow
  <2>1. a \in SUBSET Nat /\ b \in SUBSET Nat /\ c \in BOOLEAN
    BY DEF Readers
  <2>2. v = [w EXCEPT !.stayed = a, !.owned = b, !.disturbed = c]
    BY <1>2 DEF AfterIn
  <2> HIDE DEF a, b, c
  <2>3. /\ v \in Readers /\ v.pc = w.pc /\ v.offset = w.offset /\ v.seen = w.seen
        /\ v.session = w.session /\ v.plan = w.plan /\ v.named = w.named /\ v.was = w.was
        /\ v.stayed = a /\ v.owned = b /\ v.disturbed = c
    BY <2>1, <2>2 DEF Readers
  <2>4. QED
    BY <1>2, <2>3 DEF a, b, c, Follows
<1>3. QED
  BY <1>1, <1>2
\* A new row, wherever its time puts it, moves no row to an earlier place.
LEMMA WalkAppend ==
  ASSUME NEW rs \in Seq(Rows), NEW row \in Rows, row # NoRow, NEW tb, NEW w \in Readers,
         GoodWalk(w, rs, tb)
  PROVE  GoodWalk(AfterIn(w, Len(rs) + 1, row, tb), Append(rs, row), tb)
<1> DEFINE n == Len(rs) + 1
           rs2 == Append(rs, row)
           v == AfterIn(w, n, row, tb)
<1>1. /\ Len(rs) \in Nat /\ DOMAIN rs = 1 .. Len(rs) /\ rs2 \in Seq(Rows) /\ DOMAIN rs2 = 1 .. n
      /\ rs2[n] = row /\ \A i \in 1 .. Len(rs) : rs2[i] = rs[i]
  BY AppendProperties, LenProperties
<1>2. n \in Nat /\ n \notin DOMAIN rs /\ DOMAIN rs2 = DOMAIN rs \cup {n}
  BY <1>1
<1> HIDE DEF rs2, n
<1>3. PresentIn(rs2) = PresentIn(rs) \cup {n} /\ PresentIn(rs) \subseteq DOMAIN rs
  BY <1>1, <1>2 DEF PresentIn
<1>4. ShownIn(rs2, tb) = IF ShowsIn(tb, row) THEN ShownIn(rs, tb) \cup {n} ELSE ShownIn(rs, tb)
  BY <1>1, <1>2, <1>3 DEF ShownIn
<1>5. ASSUME NEW i \in PresentIn(rs) PROVE RankIn(rs, i) <= RankIn(rs2, i)
  <2> DEFINE A == {j \in PresentIn(rs) : rs[j].at >= rs[i].at}
             B == {j \in PresentIn(rs2) : rs2[j].at >= rs2[i].at}
  <2>1. A \subseteq B
    BY <1>1, <1>3
  <2>2. IsFiniteSet(PresentIn(rs2))
    <3>1. IsFiniteSet(1 .. n)
      BY <1>2, FS_Interval
    <3>2. PresentIn(rs2) \subseteq 1 .. n
      BY <1>1 DEF PresentIn
    <3>3. QED
      BY <3>1, <3>2, FS_Subset
  <2>3. B \subseteq PresentIn(rs2)
    OBVIOUS
  <2> HIDE DEF A, B
  <2>4. IsFiniteSet(B)
    BY <2>2, <2>3, FS_Subset
  <2>5. Cardinality(A) <= Cardinality(B)
    BY <2>1, <2>4, FS_Subset
  <2>6. QED
    BY <2>5 DEF A, B, RankIn
<1>a. Follows(v, w, n, row, tb)
  BY <1>2, AfterFacts
<1> HIDE DEF v
<1>6. /\ v \in Readers /\ v.pc = w.pc /\ v.offset = w.offset /\ v.seen = w.seen
      /\ w.pc \notin Steps => v = w
      /\ w.pc \in Steps =>
           /\ v.stayed = IF ShowsIn(tb, row) THEN w.stayed ELSE w.stayed \ {n}
           /\ v.owned = IF ShowsIn(tb, row) THEN w.owned \cup {n} ELSE w.owned
           /\ v.disturbed <=> w.disturbed \/ row = NoRow
  BY <1>a DEF Follows
<1>7. CASE w.pc \notin Steps
  <2>1. GoodWalk(v, rs2, tb)
    BY <1>6, <1>7 DEF GoodWalk
  <2>2. QED
    BY <2>1 DEF v, n, rs2
<1>8. CASE w.pc \in Steps
  <2>1. v.seen \subseteq v.owned
    BY <1>6, <1>8 DEF GoodWalk
  <2>2. w.stayed \subseteq ShownIn(rs, tb) /\ ShownIn(rs, tb) \subseteq w.owned
    BY <1>8 DEF GoodWalk
  <2>3. ShownIn(rs, tb) \subseteq PresentIn(rs)
    BY DEF ShownIn
  <2>4. v.stayed \subseteq w.stayed
    BY <1>6, <1>8
  <2>5. v.stayed \subseteq ShownIn(rs2, tb) /\ ShownIn(rs2, tb) \subseteq v.owned
    BY <1>4, <1>6, <1>8, <2>2, <2>4
  <2>6. ASSUME ~v.disturbed, NEW i \in v.stayed, RankIn(rs2, i) <= v.offset
        PROVE  i \in v.seen
    <3>1. i \in w.stayed /\ i \in PresentIn(rs) /\ ~w.disturbed
      BY <1>6, <1>8, <2>2, <2>3, <2>4, <2>6
    <3>2. RankIn(rs, i) \in Nat /\ RankIn(rs2, i) \in Nat /\ w.offset \in Nat
      BY <1>1, RankType DEF Readers
    <3>3. RankIn(rs, i) <= w.offset
      BY <1>5, <1>6, <2>6, <3>1, <3>2
    <3>4. QED
      BY <1>6, <1>8, <3>1, <3>3 DEF GoodWalk
  <2>7. GoodWalk(v, rs2, tb)
    BY <1>6, <1>8, <2>1, <2>5, <2>6 DEF GoodWalk, Steps
  <2>8. QED
    BY <2>7 DEF v, n, rs2
<1>9. QED
  BY <1>7, <1>8

\* A row that changes keeps its time and its place; one that goes disturbs the walk.
LEMMA WalkPut ==
  ASSUME NEW rs \in Seq(Rows), NEW i \in PresentIn(rs), NEW row \in Rows, NEW tb,
         row = NoRow \/ row.at = rs[i].at, row = NoRow => ~ShowsIn(tb, row),
         NEW w \in Readers, GoodWalk(w, rs, tb)
  PROVE  GoodWalk(AfterIn(w, i, row, tb), [rs EXCEPT ![i] = row], tb)
<1> DEFINE rs2 == [rs EXCEPT ![i] = row]
           v == AfterIn(w, i, row, tb)
<1>1. /\ DOMAIN rs2 = DOMAIN rs /\ i \in DOMAIN rs /\ i \in Nat
      /\ rs2[i] = row /\ \A j \in DOMAIN rs : j # i => rs2[j] = rs[j]
  BY LenProperties DEF PresentIn
<1> HIDE DEF rs2
<1>2. PresentIn(rs2) = IF row = NoRow THEN PresentIn(rs) \ {i} ELSE PresentIn(rs)
  BY <1>1 DEF PresentIn
<1>3. ShownIn(rs2, tb) = IF ShowsIn(tb, row) THEN ShownIn(rs, tb) \cup {i} ELSE ShownIn(rs, tb) \ {i}
  BY <1>1, <1>2 DEF ShownIn, PresentIn
<1>4. ASSUME row # NoRow, NEW k \in PresentIn(rs) PROVE RankIn(rs2, k) = RankIn(rs, k)
  <2>1. \A j \in PresentIn(rs) : rs2[j].at = rs[j].at
    BY <1>1, <1>4 DEF PresentIn
  <2>2. {j \in PresentIn(rs2) : rs2[j].at >= rs2[k].at} = {j \in PresentIn(rs) : rs[j].at >= rs[k].at}
    BY <1>2, <1>4, <2>1
  <2>3. QED
    BY <2>2 DEF RankIn
<1>a. Follows(v, w, i, row, tb)
  BY <1>1, AfterFacts
<1> HIDE DEF v
<1>5. /\ v \in Readers /\ v.pc = w.pc /\ v.offset = w.offset /\ v.seen = w.seen
      /\ w.pc \notin Steps => v = w
      /\ w.pc \in Steps =>
           /\ v.stayed = IF ShowsIn(tb, row) THEN w.stayed ELSE w.stayed \ {i}
           /\ v.owned = IF ShowsIn(tb, row) THEN w.owned \cup {i} ELSE w.owned
           /\ v.disturbed <=> w.disturbed \/ row = NoRow
  BY <1>a DEF Follows
<1>6. CASE w.pc \notin Steps
  <2>1. GoodWalk(v, rs2, tb)
    BY <1>5, <1>6 DEF GoodWalk
  <2>2. QED
    BY <2>1 DEF v, rs2
<1>7. CASE w.pc \in Steps
  <2>1. v.seen \subseteq v.owned
    BY <1>5, <1>7 DEF GoodWalk
  <2>2. w.stayed \subseteq ShownIn(rs, tb) /\ ShownIn(rs, tb) \subseteq w.owned
    BY <1>7 DEF GoodWalk
  <2>3. ShownIn(rs, tb) \subseteq PresentIn(rs)
    BY DEF ShownIn
  <2>4. v.stayed \subseteq ShownIn(rs2, tb) /\ ShownIn(rs2, tb) \subseteq v.owned
    BY <1>3, <1>5, <1>7, <2>2
  <2>5. ASSUME ~v.disturbed, NEW k \in v.stayed, RankIn(rs2, k) <= v.offset
        PROVE  k \in v.seen
    <3>1. k \in w.stayed /\ k \in PresentIn(rs) /\ ~w.disturbed /\ row # NoRow
      BY <1>5, <1>7, <2>2, <2>3, <2>5
    <3>2. RankIn(rs, k) <= w.offset
      BY <1>4, <1>5, <2>5, <3>1
    <3>3. QED
      BY <1>5, <1>7, <3>1, <3>2 DEF GoodWalk
  <2>6. GoodWalk(v, rs2, tb)
    BY <1>5, <1>7, <2>1, <2>4, <2>5 DEF GoodWalk, Steps
  <2>7. QED
    BY <2>6 DEF v, rs2
<1>8. QED
  BY <1>6, <1>7

(***************************************************************************)
(* Parts of the invariant that a step leaves alone                         *)
(***************************************************************************)
LEMMA WalkKept ==
  ASSUME WalkGood, UNCHANGED <<reader, rows, table, seeds>>
  PROVE  WalkGood'
<1>1. NoneStarting' <=> NoneStarting
  BY DEF NoneStarting
<1>2. QED
  BY <1>1, WalkParts, WalkPartsNext

LEMMA SessionsKept ==
  ASSUME SessionsGood, UNCHANGED <<reader, sessions, members>>
  PROVE  SessionsGood'
BY DEF SessionsGood, InSession

\* The catalog as a formula about a list of rows and the state of a gateway.
CatalogIn(rs, n, taken) ==
  \E i \in PresentIn(rs) : rs[i].name = n /\ (n \notin taken => rs[i].tenant = Shared)
UniqueIn(rs) ==
  \A i, j \in PresentIn(rs) : rs[i].name = rs[j].name /\ rs[i].version = rs[j].version => i = j
SeedIn(rs, sd) ==
  /\ sd.pc # "off" /\ ~sd.failed => \A n \in Names \ sd.todo : CatalogIn(rs, n, sd.taken)
  /\ sd.pc = "done" => sd.todo = {}
CatalogOf(tb, rs, sds) ==
  tb = "workflows" => UniqueIn(rs) /\ \A g \in Gateways : SeedIn(rs, sds[g])

LEMMA CatalogParts == CatalogGood <=> CatalogOf(table, rows, seeds)
<1>1. PresentIn(rows) = Present
  BY DEF PresentIn, Present
<1>2. \A n, taken : CatalogIn(rows, n, taken) <=> InCatalog(n, taken)
  BY <1>1 DEF CatalogIn, InCatalog
<1>3. UniqueIn(rows) <=> UniqueVersions
  BY <1>1 DEF UniqueIn, UniqueVersions
<1>4. QED
  BY <1>2, <1>3 DEF CatalogGood, CatalogOf, SeedIn

LEMMA CatalogPartsNext == CatalogGood' <=> CatalogOf(table', rows', seeds')
<1>1. PresentIn(rows') = Present'
  BY DEF PresentIn, Present
<1>2. ASSUME NEW g \in Gateways, NEW n \in Names
      PROVE  CatalogIn(rows', n, seeds'[g].taken) <=> InCatalog(n, seeds[g].taken)'
  BY <1>1 DEF CatalogIn, InCatalog
<1>3. UniqueIn(rows') <=> UniqueVersions'
  BY <1>1 DEF UniqueIn, UniqueVersions
<1>4. QED
  BY <1>2, <1>3 DEF CatalogGood, CatalogOf, SeedIn

LEMMA CatalogKept ==
  ASSUME CatalogGood, UNCHANGED <<table, rows, seeds>>
  PROVE  CatalogGood'
BY CatalogParts, CatalogPartsNext

LEMMA BoundsKept ==
  ASSUME RowsBounded, UNCHANGED <<rows, clock, creates>>
  PROVE  RowsBounded'
<1>1. Present' = Present
  BY DEF Present
<1>2. QED
  BY <1>1 DEF RowsBounded

LEMMA VersionsKept ==
  ASSUME VersionsGood, UNCHANGED <<rows, creates, table>>
  PROVE  VersionsGood'
<1>1. Present' = Present
  BY DEF Present
<1>2. QED
  BY <1>1 DEF VersionsGood, Same

(***************************************************************************)
(* The initial state                                                       *)
(***************************************************************************)
LEMMA InitGood ==
  ASSUME Init
  PROVE  IInv
<1>1. PICK tenant \in [1 .. FirstRows -> Tenants],
           session \in [1 .. FirstRows -> {NoSession} \cup AnySession] :
         rows = [i \in 1 .. FirstRows |-> Row(tenant[i], Item, i, i, session[i])]
  BY DEF Init
<1>2. /\ clock = FirstRows + 1 /\ creates = [r \in Reqs |-> NoCreate] /\ reader = Resting
      /\ sessions = [s \in Sessions |-> "none"] /\ members = {} /\ table \in Tables
      /\ seeds = [g \in Gateways |-> Off]
  BY DEF Init
<1>3. FirstRows \in Nat
  BY RecordsAssumption
<1>4. DOMAIN rows = 1 .. FirstRows
  BY <1>1
<1>5. ASSUME NEW i \in 1 .. FirstRows
      PROVE  /\ rows[i] \in Rows /\ rows[i].at = i /\ rows[i].version = i /\ rows[i] # NoRow
  <2>1. rows[i] = Row(tenant[i], Item, i, i, session[i])
    BY <1>1
  <2>2. i \in Nat \ {0} /\ tenant[i] \in Tenants /\ session[i] \in {NoSession} \cup AnySession
    BY <1>1, <1>3
  <2>3. rows[i] \in Rows /\ rows[i].at = i /\ rows[i].version = i
    BY <2>1, <2>2 DEF Row, Rows
  <2>4. NoRow.at = 0
    BY DEF NoRow
  <2>5. QED
    BY <2>2, <2>3, <2>4
<1>6. Present = 1 .. FirstRows
  BY <1>4, <1>5 DEF Present
<1>7. TypeOK
  <2>1. rows \in Seq(Rows)
    <3>1. rows \in [1 .. FirstRows -> Rows]
      BY <1>1, <1>4, <1>5
    <3>2. QED
      BY <1>3, <3>1, SeqDef
  <2>2. NoCreate \in Creates
    BY NoRowType DEF NoCreate, Creates
  <2>3. Resting \in Readers /\ Resting.stayed \cup Resting.seen \cup Resting.owned = {}
    BY DEF Resting, Readers
  <2>4. Off \in Seeds
    BY DEF Off, Seeds
  <2>5. QED
    BY <1>2, <1>3, <2>1, <2>2, <2>3, <2>4 DEF TypeOK
<1>8. RowsBounded
  <2>1. \A r \in Reqs : creates[r].pc # "insert"
    BY <1>2 DEF NoCreate
  <2>2. QED
    BY <1>2, <1>3, <1>5, <1>6, <2>1 DEF RowsBounded
<1>9. VersionsGood
  BY <1>2 DEF VersionsGood, NoCreate
<1>10. WalkGood
  BY <1>2 DEF WalkGood, Resting, Walking
<1>11. SessionsGood
  BY <1>2 DEF SessionsGood, Resting
<1>12. CatalogGood
  <2>1. \A g \in Gateways : seeds[g].pc = "off"
    BY <1>2 DEF Off
  <2>2. QED
    BY <1>5, <1>6, <2>1 DEF CatalogGood, UniqueVersions
<1>13. QED
  BY <1>7, <1>8, <1>9, <1>10, <1>11, <1>12 DEF IInv

(***************************************************************************)
(* Requests that create a row                                              *)
(***************************************************************************)
LEMMA StampGood ==
  ASSUME IInv, NEW r \in Reqs, NEW tenant \in Tenants \cup {Shared},
         NEW name \in Names \cup {Item}, NEW version \in Nat, version <= clock + 2,
         NEW before \in SUBSET DOMAIN rows,
         \A i \in before \cap Present : version > rows[i].version,
         Stamp(r, tenant, name, version, before), NotCreating
  PROVE  IInv'
<1>0. PICK at \in Instants :
         creates' = [creates EXCEPT ![r] =
            [pc |-> "insert", row |-> Row(tenant, name, version, at, NoSession), before |-> before]]
  BY DEF Stamp
<1> DEFINE row == Row(tenant, name, version, at, NoSession)
           c == [pc |-> "insert", row |-> row, before |-> before]
<1>1. TypeOK /\ RowsBounded /\ VersionsGood /\ WalkGood /\ SessionsGood /\ CatalogGood
  BY DEF IInv
<1>2. /\ creates' = [creates EXCEPT ![r] = c] /\ clock' = clock + 1
      /\ UNCHANGED <<table, rows, reader, sessions, members, seeds>>
  BY <1>0 DEF Stamp, NotCreating
<1>3. /\ Len(rows) \in Nat /\ DOMAIN rows = 1 .. Len(rows) /\ clock \in Nat \ {0}
      /\ \A i \in Present : rows[i] \in Rows
  BY <1>1, RowFacts
<1>4. row \in Rows /\ row.at \in 1 .. clock /\ row.version = version
  <2>1. at \in 1 .. clock
    BY <1>0, <1>3 DEF Instants
  <2>2. QED
    BY <2>1, <1>3 DEF Row, Rows
<1> HIDE DEF row
<1>5. c \in Creates /\ c.pc = "insert" /\ c.row = row /\ c.before = before
  BY <1>3, <1>4 DEF Creates
<1> HIDE DEF c
<1>6. creates \in [Reqs -> Creates] /\ creates' \in [Reqs -> Creates] /\ creates'[r] = c
      /\ \A q \in Reqs : q # r => creates'[q] = creates[q]
  BY <1>1, <1>2, <1>5 DEF TypeOK
<1>7. Present' = Present
  BY <1>2 DEF Present
<1>8. TypeOK'
  BY <1>1, <1>2, <1>3, <1>6 DEF TypeOK
<1>9. RowsBounded'
  <2>1. ASSUME NEW i \in Present
        PROVE  rows[i].at \in 1 .. clock' - 1 /\ rows[i].version <= clock' + 1
    <3>1. rows[i].at \in 1 .. clock - 1 /\ rows[i].version <= clock + 1 /\ rows[i].version \in Nat
      BY <1>1, <1>3 DEF RowsBounded, Rows
    <3>2. QED
      BY <1>2, <1>3, <3>1
  <2>2. ASSUME NEW q \in Reqs, creates'[q].pc = "insert"
        PROVE  creates'[q].row.at \in 1 .. clock' - 1 /\ creates'[q].row.version <= clock' + 1
    <3>1. CASE q = r
      <4>1. creates'[q].row.at \in 1 .. clock /\ creates'[q].row.version = version
        BY <1>4, <1>5, <1>6, <3>1
      <4>2. QED
        BY <1>2, <1>3, <3>1, <4>1
    <3>2. CASE q # r
      <4>1. creates'[q] = creates[q] /\ creates[q].pc = "insert" /\ creates[q].row.version \in Nat
        BY <1>6, <2>2, <3>2 DEF Creates, Rows
      <4>2. creates[q].row.at \in 1 .. clock - 1 /\ creates[q].row.version <= clock + 1
        BY <1>1, <4>1 DEF RowsBounded
      <4>3. QED
        BY <1>2, <1>3, <4>1, <4>2
    <3>3. QED
      BY <3>1, <3>2
  <2>3. QED
    BY <1>2, <1>7, <2>1, <2>2 DEF RowsBounded
<1>10. VersionsGood'
  <2>1. ASSUME NEW q \in Reqs
        PROVE  LET d == creates'[q]
                   there == d.before \cap Present
               IN  /\ d.before \subseteq DOMAIN rows
                   /\ d.pc = "max" => /\ table = "runbooks"
                                      /\ there \subseteq Same(d.row.tenant, d.row.name)
                   /\ d.pc = "insert" => \A i \in there : d.row.version > rows[i].version
    <3>1. CASE q = r
      BY <1>4, <1>5, <1>6, <3>1
    <3>2. CASE q # r
      BY <1>1, <1>6, <3>2 DEF VersionsGood
    <3>3. QED
      BY <3>1, <3>2
  <2>2. QED
    BY <1>2, <1>7, <2>1 DEF VersionsGood, Same
<1>11. QED
  BY <1>1, <1>2, <1>8, <1>9, <1>10, WalkKept, SessionsKept, CatalogKept DEF IInv

LEMMA CreateGood ==
  ASSUME IInv, NEW r \in Reqs,
         CreatePlaybook(r) \/ CreateOperatorMemory(r) \/ CreateWorkflowVersion(r)
  PROVE  IInv'
<1>1. clock \in Nat \ {0}
  BY DEF IInv, TypeOK
<1>2. PICK t \in Tenants, n \in Names \cup {Item}, v \in 1 .. 2 : Stamp(r, t, n, v, {}) /\ NotCreating
  BY DEF CreatePlaybook, CreateOperatorMemory, CreateWorkflowVersion
<1>3. v \in Nat /\ v <= clock + 2
  BY <1>1
<1>4. QED
  BY <1>2, <1>3, StampGood

LEMMA CreateRunbookGood ==
  ASSUME IInv, NEW r \in Reqs, CreateRunbook(r)
  PROVE  IInv'
<1>1. /\ TypeOK /\ RowsBounded /\ VersionsGood /\ WalkGood /\ SessionsGood /\ CatalogGood
      /\ clock \in Nat \ {0}
  BY DEF IInv, TypeOK
<1>2. PICK t \in Tenants :
         \/ Stamp(r, t, Item, 1, {})
         \/ /\ creates' = [creates EXCEPT ![r] =
                   [pc |-> "max", row |-> Row(t, Item, 0, 0, NoSession), before |-> Same(t, Item)]]
            /\ UNCHANGED clock
  BY DEF CreateRunbook
<1>3. NotCreating /\ table = "runbooks"
  BY DEF CreateRunbook, Asks
<1>4. CASE Stamp(r, t, Item, 1, {})
  <2>1. 1 <= clock + 2
    BY <1>1
  <2>2. QED
    BY <1>3, <1>4, <2>1, StampGood
<1>5. CASE /\ creates' = [creates EXCEPT ![r] =
                 [pc |-> "max", row |-> Row(t, Item, 0, 0, NoSession), before |-> Same(t, Item)]]
           /\ UNCHANGED clock
  <2> DEFINE row == Row(t, Item, 0, 0, NoSession)
             c == [pc |-> "max", row |-> row, before |-> Same(t, Item)]
  <2>1. creates' = [creates EXCEPT ![r] = c] /\ clock' = clock
        /\ UNCHANGED <<table, rows, reader, sessions, members, seeds>>
    BY <1>3, <1>5 DEF NotCreating
  <2>2. /\ Len(rows) \in Nat /\ DOMAIN rows = 1 .. Len(rows) /\ Present \subseteq DOMAIN rows
        /\ Same(t, Item) \subseteq Present
    BY <1>1, RowFacts DEF Same
  <2>3. row \in Rows /\ row.tenant = t /\ row.name = Item
    BY DEF Row, Rows
  <2> HIDE DEF row
  <2>4. c \in Creates /\ c.pc = "max" /\ c.row = row /\ c.before = Same(t, Item)
    BY <2>2, <2>3 DEF Creates
  <2> HIDE DEF c
  <2>5. creates \in [Reqs -> Creates] /\ creates' \in [Reqs -> Creates] /\ creates'[r] = c
        /\ \A q \in Reqs : q # r => creates'[q] = creates[q]
    BY <1>1, <2>1, <2>4 DEF TypeOK
  <2>6. Present' = Present
    BY <2>1 DEF Present
  <2>7. TypeOK'
    BY <1>1, <2>1, <2>5 DEF TypeOK
  <2>8. RowsBounded'
    BY <1>1, <2>1, <2>4, <2>5, <2>6 DEF RowsBounded
  <2>9. VersionsGood'
    <3>1. ASSUME NEW q \in Reqs
          PROVE  LET d == creates'[q]
                     there == d.before \cap Present
                 IN  /\ d.before \subseteq DOMAIN rows
                     /\ d.pc = "max" => /\ table = "runbooks"
                                        /\ there \subseteq Same(d.row.tenant, d.row.name)
                     /\ d.pc = "insert" => \A i \in there : d.row.version > rows[i].version
      <4>1. CASE q = r
        BY <1>3, <2>2, <2>3, <2>4, <2>5, <4>1
      <4>2. CASE q # r
        BY <1>1, <2>5, <4>2 DEF VersionsGood
      <4>3. QED
        BY <4>1, <4>2
    <3>2. QED
      BY <2>1, <2>6, <3>1 DEF VersionsGood, Same
  <2>10. QED
    BY <1>1, <2>1, <2>7, <2>8, <2>9, WalkKept, SessionsKept, CatalogKept DEF IInv
<1>6. QED
  BY <1>2, <1>4, <1>5

LEMMA ReadMaxVersionGood ==
  ASSUME IInv, NEW r \in Reqs, ReadMaxVersion(r)
  PROVE  IInv'
<1> DEFINE row == creates[r].row
           v == MaxVersion(row.tenant, row.name)
<1>1. TypeOK /\ RowsBounded /\ VersionsGood /\ creates[r].pc = "max" /\ NotCreating
      /\ Stamp(r, row.tenant, row.name, v + 1, creates[r].before)
  BY DEF IInv, ReadMaxVersion
<1>2. clock \in Nat \ {0} /\ row.tenant \in Tenants \cup {Shared} /\ row.name \in Names \cup {Item}
  BY <1>1 DEF TypeOK, Creates, Rows
<1>3. /\ v \in Nat /\ v <= clock + 1
      /\ \A i \in Same(row.tenant, row.name) : rows[i].version <= v
  BY <1>1, SomeMaxVersion
<1>4. creates[r].before \subseteq DOMAIN rows
      /\ creates[r].before \cap Present \subseteq Same(row.tenant, row.name)
  BY <1>1 DEF VersionsGood
<1> HIDE DEF v, row
<1>5. ASSUME NEW i \in creates[r].before \cap Present
      PROVE  v + 1 > rows[i].version
  <2>1. rows[i].version \in Nat /\ rows[i].version <= v
    BY <1>1, <1>3, <1>4, RowFacts DEF Rows
  <2>2. QED
    BY <1>3, <2>1
<1>6. v + 1 \in Nat /\ v + 1 <= clock + 2
  BY <1>2, <1>3
<1>7. QED
  BY <1>1, <1>2, <1>4, <1>5, <1>6, StampGood

(***************************************************************************)
(* A row is inserted                                                       *)
(***************************************************************************)
LEMMA VersionsAppend ==
  ASSUME TypeOK, VersionsGood, NEW row \in Rows, row # NoRow, rows' = Append(rows, row),
         table' = table, \A q \in Reqs : creates'[q] \in {creates[q], NoCreate}
  PROVE  VersionsGood'
<1> DEFINE n == Len(rows) + 1
<1>1. /\ DOMAIN rows' = DOMAIN rows \cup {n} /\ n \notin DOMAIN rows /\ Present' = Present \cup {n}
      /\ \A i \in DOMAIN rows : rows'[i] = rows[i]
  BY Appended
<1> HIDE DEF n
<1>2. ASSUME NEW q \in Reqs
      PROVE  LET d == creates'[q]
                 there == d.before \cap Present'
             IN  /\ d.before \subseteq DOMAIN rows'
                 /\ d.pc = "max" => /\ table = "runbooks"
                                    /\ \A i \in there : /\ rows'[i].tenant = d.row.tenant
                                                        /\ rows'[i].name = d.row.name
                 /\ d.pc = "insert" => \A i \in there : d.row.version > rows'[i].version
  <2>1. CASE creates'[q] = NoCreate
    <3>1. creates'[q].before = {} /\ creates'[q].pc = "none"
      BY <2>1 DEF NoCreate
    <3>2. QED
      BY <3>1
  <2>2. CASE creates'[q] = creates[q]
    <3> DEFINE d == creates[q]
    <3>1. /\ d.before \subseteq DOMAIN rows
          /\ d.pc = "max" => table = "runbooks" /\ d.before \cap Present \subseteq Same(d.row.tenant, d.row.name)
          /\ d.pc = "insert" => \A i \in d.before \cap Present : d.row.version > rows[i].version
      BY DEF VersionsGood
    <3>2. d.before \cap Present' = d.before \cap Present
      BY <1>1, <3>1
    <3> HIDE DEF d
    <3>3. QED
      BY <1>1, <2>2, <3>1, <3>2 DEF Same, d
  <2>3. QED
    BY <2>1, <2>2
<1>3. QED
  BY <1>1, <1>2 DEF VersionsGood, Same

LEMMA CatalogAppend ==
  ASSUME TypeOK, CatalogGood, NEW row \in Rows, row # NoRow, rows' = Append(rows, row),
         Unique(row), table = "workflows"
  PROVE  /\ UniqueIn(rows')
         /\ \A m, taken : CatalogIn(rows, m, taken) => CatalogIn(rows', m, taken)
         /\ row.tenant = Shared => \A taken : CatalogIn(rows', row.name, taken)
<1> DEFINE n == Len(rows) + 1
<1>1. /\ n \notin DOMAIN rows /\ Present' = Present \cup {n} /\ rows'[n] = row
      /\ \A i \in DOMAIN rows : rows'[i] = rows[i]
  BY Appended
<1>2. Present \subseteq DOMAIN rows
  BY DEF Present
<1> HIDE DEF n
<1>3. \A i \in Present : ~(rows[i].name = row.name /\ rows[i].version = row.version)
  BY DEF Unique
<1>4. \A i, j \in Present :
         rows[i].name = rows[j].name /\ rows[i].version = rows[j].version => i = j
  BY DEF CatalogGood, UniqueVersions
<1>5. ASSUME NEW i \in Present', NEW j \in Present',
             rows'[i].name = rows'[j].name, rows'[i].version = rows'[j].version
      PROVE  i = j
  BY <1>1, <1>2, <1>3, <1>4, <1>5
<1>6. PresentIn(rows) = Present /\ PresentIn(rows') = Present'
  BY DEF PresentIn, Present
<1>7. ASSUME NEW m, NEW taken, CatalogIn(rows, m, taken) PROVE CatalogIn(rows', m, taken)
  BY <1>1, <1>2, <1>6, <1>7 DEF CatalogIn
<1>8. ASSUME row.tenant = Shared, NEW taken PROVE CatalogIn(rows', row.name, taken)
  BY <1>1, <1>6, <1>8 DEF CatalogIn
<1>9. QED
  BY <1>5, <1>6, <1>7, <1>8 DEF UniqueIn

LEMMA InsertGood ==
  ASSUME IInv, NEW r \in Reqs, Insert(r)
  PROVE  IInv'
<1> DEFINE row == creates[r].row
           n == Len(rows) + 1
<1>1. TypeOK /\ RowsBounded /\ VersionsGood /\ WalkGood /\ SessionsGood /\ CatalogGood
  BY DEF IInv
<1>2. /\ creates[r].pc = "insert" /\ creates' = [creates EXCEPT ![r] = NoCreate]
      /\ UNCHANGED <<table, clock, sessions, members, seeds>>
  BY DEF Insert
<1>3. creates \in [Reqs -> Creates] /\ NoCreate \in Creates /\ NoCreate.pc = "none"
  BY <1>1, NoRowType DEF TypeOK, NoCreate, Creates
<1>4. /\ creates' \in [Reqs -> Creates] /\ creates'[r] = NoCreate
      /\ \A q \in Reqs : q # r => creates'[q] = creates[q]
      /\ \A q \in Reqs : creates'[q] \in {creates[q], NoCreate}
  BY <1>2, <1>3
<1>5. row \in Rows /\ row.at \in 1 .. clock - 1 /\ row.version <= clock + 1 /\ clock \in Nat \ {0}
  BY <1>1, <1>2, <1>3 DEF Creates, RowsBounded, TypeOK
<1>6. row # NoRow
  <2>1. NoRow.at = 0
    BY DEF NoRow
  <2>2. QED
    BY <1>5, <2>1
<1>7. CASE UNCHANGED <<rows, reader>>
  <2>1. Present' = Present /\ rows' = rows /\ reader' = reader
    BY <1>7 DEF Present
  <2>2. TypeOK'
    BY <1>1, <1>2, <1>4, <2>1 DEF TypeOK
  <2>3. RowsBounded'
    BY <1>1, <1>2, <1>3, <1>4, <2>1 DEF RowsBounded
  <2>4. VersionsGood'
    <3>1. NoCreate.before = {}
      BY DEF NoCreate
    <3>2. QED
      BY <1>1, <1>2, <1>3, <1>4, <2>1, <3>1 DEF VersionsGood, Same
  <2>5. QED
    BY <1>1, <1>2, <2>1, <2>2, <2>3, <2>4, WalkKept, SessionsKept, CatalogKept DEF IInv
<1>8. CASE /\ Unique(row) /\ rows' = Append(rows, row) /\ reader' = ReaderAfter(n, row)
  <2>1. /\ rows' \in Seq(Rows) /\ n \in Nat /\ DOMAIN rows' = DOMAIN rows \cup {n}
        /\ n \notin DOMAIN rows /\ Present' = Present \cup {n}
        /\ rows'[n] = row /\ \A i \in DOMAIN rows : rows'[i] = rows[i]
    BY <1>1, <1>5, <1>6, <1>8, Appended
  <2>2. Present \subseteq DOMAIN rows /\ reader \in Readers /\ rows \in Seq(Rows)
    BY <1>1 DEF Present, TypeOK
  <2>3. reader' = AfterIn(reader, n, row, table)
    BY <1>8 DEF ReaderAfter, AfterIn, Walking, Steps, Shows, ShowsIn
  <2>4. GoodWalk(reader', rows', table)
    BY <1>1, <1>5, <1>6, <1>8, <2>2, <2>3, WalkParts, WalkAppend
  <2>5. Follows(reader', reader, n, row, table)
    BY <2>1, <2>2, <2>3, AfterFacts
  <2> HIDE DEF n, row
  <2>6. TypeOK'
    <3>1. reader.stayed \cup reader.seen \cup reader.owned \subseteq DOMAIN rows
      BY <1>1 DEF TypeOK
    <3>2. reader'.stayed \cup reader'.seen \cup reader'.owned \subseteq DOMAIN rows'
      <4>1. CASE reader.pc \in Steps
        BY <2>1, <2>5, <3>1, <4>1 DEF Follows
      <4>2. CASE reader.pc \notin Steps
        BY <2>1, <2>5, <3>1, <4>2 DEF Follows
      <4>3. QED
        BY <4>1, <4>2
    <3>3. reader' \in Readers
      BY <2>5 DEF Follows
    <3>4. QED
      BY <1>1, <1>2, <1>4, <2>1, <3>2, <3>3 DEF TypeOK
  <2>7. RowsBounded'
    <3>1. ASSUME NEW i \in Present'
          PROVE  rows'[i].at \in 1 .. clock - 1 /\ rows'[i].version <= clock + 1
      BY <1>1, <1>5, <2>1, <2>2 DEF RowsBounded
    <3>2. ASSUME NEW q \in Reqs, creates'[q].pc = "insert"
          PROVE  creates'[q] = creates[q] /\ creates[q].pc = "insert"
      BY <1>3, <1>4, <3>2
    <3>3. QED
      BY <1>1, <1>2, <3>1, <3>2 DEF RowsBounded
  <2>8. VersionsGood'
    BY <1>1, <1>2, <1>4, <1>5, <1>6, <1>8, VersionsAppend DEF row
  <2>9. WalkGood'
    <3>1. NoneStarting' <=> NoneStarting
      BY <1>2 DEF NoneStarting
    <3>2. QED
      BY <1>1, <1>2, <2>4, <2>5, <3>1, WalkParts, WalkPartsNext DEF Follows
  <2>10. SessionsGood'
    BY <1>1, <1>2, <2>5 DEF SessionsGood, InSession, Follows
  <2>11. CatalogGood'
    <3>1. CASE table = "workflows"
      <4>1. /\ UniqueIn(rows')
            /\ \A m, taken : CatalogIn(rows, m, taken) => CatalogIn(rows', m, taken)
        BY <1>1, <1>5, <1>6, <1>8, <3>1, CatalogAppend DEF row
      <4>2. \A g \in Gateways : SeedIn(rows, seeds[g]) => SeedIn(rows', seeds[g])
        BY <4>1 DEF SeedIn
      <4>3. QED
        BY <1>1, <1>2, <3>1, <4>1, <4>2, CatalogParts, CatalogPartsNext DEF CatalogOf
    <3>2. CASE table # "workflows"
      BY <1>2, <3>2, CatalogPartsNext DEF CatalogOf
    <3>3. QED
      BY <3>1, <3>2
  <2>12. QED
    BY <2>6, <2>7, <2>8, <2>9, <2>10, <2>11 DEF IInv
<1>9. QED
  BY <1>7, <1>8 DEF Insert

(***************************************************************************)
(* A row is changed or deleted                                             *)
(***************************************************************************)
LEMMA PutGood ==
  ASSUME IInv, NEW i \in Present, NEW row \in Rows, table # "workflows",
         row = NoRow \/ (row.at = rows[i].at /\ row.version = rows[i].version),
         row = NoRow \/ table # "runbooks", Put(i, row)
  PROVE  IInv'
<1>1. TypeOK /\ RowsBounded /\ VersionsGood /\ WalkGood /\ SessionsGood /\ CatalogGood
  BY DEF IInv
<1>2. /\ rows' = [rows EXCEPT ![i] = row] /\ reader' = ReaderAfter(i, row)
      /\ UNCHANGED <<table, clock, creates, sessions, members, seeds>>
  BY DEF Put
<1>3. /\ rows' \in Seq(Rows) /\ DOMAIN rows' = DOMAIN rows
      /\ Present' = IF row = NoRow THEN Present \ {i} ELSE Present
      /\ rows'[i] = row /\ \A j \in DOMAIN rows : j # i => rows'[j] = rows[j]
  BY <1>1, <1>2, Changed
<1>4. Present \subseteq DOMAIN rows /\ reader \in Readers /\ rows \in Seq(Rows) /\ i \in Nat
  BY <1>1, RowFacts DEF TypeOK
<1>5. reader' = AfterIn(reader, i, row, table)
  BY <1>2 DEF ReaderAfter, AfterIn, Walking, Steps, Shows, ShowsIn
<1>6. row = NoRow => ~ShowsIn(table, row)
  BY DEF NoRow, ShowsIn, TenantMatch
<1>7. GoodWalk(reader', rows', table)
  <2>1. i \in PresentIn(rows)
    BY DEF Present, PresentIn
  <2>2. QED
    BY <1>1, <1>2, <1>4, <1>5, <1>6, <2>1, WalkParts, WalkPut
<1>8. Follows(reader', reader, i, row, table)
  BY <1>4, <1>5, AfterFacts
<1>9. /\ Present' \subseteq Present
      /\ \A j \in Present' : rows'[j].at = rows[j].at /\ rows'[j].version = rows[j].version
  BY <1>3, <1>4
<1>10. TypeOK'
  <2>1. reader.stayed \cup reader.seen \cup reader.owned \subseteq DOMAIN rows
    BY <1>1 DEF TypeOK
  <2>2. reader'.stayed \cup reader'.seen \cup reader'.owned \subseteq DOMAIN rows'
    <3>1. CASE reader.pc \in Steps
      BY <1>3, <1>4, <1>8, <2>1, <3>1 DEF Follows
    <3>2. CASE reader.pc \notin Steps
      BY <1>3, <1>8, <2>1, <3>2 DEF Follows
    <3>3. QED
      BY <3>1, <3>2
  <2>3. reader' \in Readers
    BY <1>8 DEF Follows
  <2>4. QED
    BY <1>1, <1>2, <1>3, <2>2, <2>3 DEF TypeOK
<1>11. RowsBounded'
  BY <1>1, <1>2, <1>9 DEF RowsBounded
<1>12. VersionsGood'
  <2>1. ASSUME NEW q \in Reqs
        PROVE  LET d == creates[q]
                   there == d.before \cap Present'
               IN  /\ d.before \subseteq DOMAIN rows'
                   /\ d.pc = "max" => /\ table = "runbooks"
                                      /\ \A j \in there : /\ rows'[j].tenant = d.row.tenant
                                                          /\ rows'[j].name = d.row.name
                   /\ d.pc = "insert" => \A j \in there : d.row.version > rows'[j].version
    <3> DEFINE d == creates[q]
    <3>1. /\ d.before \subseteq DOMAIN rows
          /\ d.pc = "max" => table = "runbooks" /\ d.before \cap Present \subseteq Same(d.row.tenant, d.row.name)
          /\ d.pc = "insert" => \A j \in d.before \cap Present : d.row.version > rows[j].version
      BY <1>1 DEF VersionsGood
    <3> HIDE DEF d
    <3>2. d.pc = "insert" => \A j \in d.before \cap Present' : d.row.version > rows'[j].version
      BY <1>9, <3>1
    <3>3. ASSUME d.pc = "max", NEW j \in d.before \cap Present'
          PROVE  rows'[j].tenant = d.row.tenant /\ rows'[j].name = d.row.name
      <4>1. row = NoRow /\ j # i /\ j \in Present
        BY <1>3, <3>1, <3>3
      <4>2. rows'[j] = rows[j] /\ j \in Same(d.row.tenant, d.row.name)
        BY <1>3, <1>4, <3>1, <3>3, <4>1
      <4>3. QED
        BY <4>2 DEF Same
    <3>4. QED
      BY <1>3, <3>1, <3>2, <3>3 DEF d
  <2>2. QED
    BY <1>2, <1>3, <1>9, <2>1 DEF VersionsGood, Same
<1>13. WalkGood'
  <2>1. NoneStarting' <=> NoneStarting
    BY <1>2 DEF NoneStarting
  <2>2. QED
    BY <1>1, <1>2, <1>7, <1>8, <2>1, WalkParts, WalkPartsNext DEF Follows
<1>14. SessionsGood'
  BY <1>1, <1>2, <1>8 DEF SessionsGood, InSession, Follows
<1>15. CatalogGood'
  BY <1>2, CatalogPartsNext DEF CatalogOf
<1>16. QED
  BY <1>10, <1>11, <1>12, <1>13, <1>14, <1>15 DEF IInv

LEMMA ChangeGood ==
  ASSUME IInv, NEW i \in DOMAIN rows,
         \/ UpdateOperatorMemory(i) \/ DeleteOperatorMemory(i)
         \/ DeletePlaybook(i) \/ DeleteRunbook(i) \/ DeletePlan(i)
  PROVE  IInv'
<1>1. CASE UpdateOperatorMemory(i)
  <2>1. PICK t \in Tenants : Put(i, [rows[i] EXCEPT !.tenant = t])
    BY <1>1 DEF UpdateOperatorMemory
  <2>2. table = "memory" /\ i \in Present /\ rows[i] \in Rows
    BY <1>1, RowFacts DEF UpdateOperatorMemory, IInv
  <2>3. LET row == [rows[i] EXCEPT !.tenant = t]
        IN  row \in Rows /\ row.at = rows[i].at /\ row.version = rows[i].version
    BY <2>2 DEF Rows
  <2>4. QED
    BY <2>1, <2>2, <2>3, PutGood
<1>2. CASE DeleteOperatorMemory(i) \/ DeletePlaybook(i) \/ DeleteRunbook(i) \/ DeletePlan(i)
  <2>1. i \in Present /\ table # "workflows" /\ Put(i, NoRow)
    BY <1>2 DEF DeleteOperatorMemory, DeletePlaybook, DeleteRunbook, DeletePlan
  <2>2. QED
    BY <2>1, NoRowType, PutGood
<1>3. QED
  BY <1>1, <1>2

(***************************************************************************)
(* Sessions                                                                *)
(***************************************************************************)
LEMMA SessionStep ==
  ASSUME IInv, NotSessions, sessions' \in [Sessions -> {"none", "live", "gone"}],
         members' \subseteq Sessions, SessionsGood', reader' = reader
  PROVE  IInv'
<1>1. TypeOK /\ RowsBounded /\ VersionsGood /\ WalkGood /\ CatalogGood
      /\ UNCHANGED <<table, rows, clock, creates, seeds>>
  BY DEF IInv, NotSessions
<1>2. TypeOK'
  BY <1>1 DEF TypeOK
<1>3. QED
  BY <1>1, <1>2, BoundsKept, VersionsKept, WalkKept, CatalogKept DEF IInv

LEMMA SessionGood ==
  ASSUME IInv, NEW s \in Sessions, CreateSession(s) \/ DeleteSession(s)
  PROVE  IInv'
<1>1. /\ SessionsGood /\ sessions \in [Sessions -> {"none", "live", "gone"}]
      /\ members \subseteq Sessions
  BY DEF IInv, TypeOK
<1>2. CASE CreateSession(s)
  <2>1. /\ sessions[s] = "none" /\ sessions' = [sessions EXCEPT ![s] = "live"]
        /\ members' = members /\ reader' = reader /\ NotSessions
    BY <1>2 DEF CreateSession
  <2>2. \A x \in members : sessions'[x] = "live" /\ sessions[x] = "live"
    BY <1>1, <2>1 DEF SessionsGood
  <2>3. SessionsGood'
    BY <1>1, <2>1, <2>2 DEF SessionsGood, InSession
  <2>4. QED
    BY <1>1, <2>1, <2>3, SessionStep
<1>3. CASE DeleteSession(s)
  <2>1. /\ sessions' = [sessions EXCEPT ![s] = "gone"]
        /\ members' = members \ {s} /\ reader' = reader /\ NotSessions
    BY <1>3 DEF DeleteSession, Cascade
  <2>2. \A x \in members' : x \in members /\ sessions'[x] = "live" /\ sessions[x] = "live"
    BY <1>1, <2>1 DEF SessionsGood
  <2>3. SessionsGood'
    BY <1>1, <2>1, <2>2 DEF SessionsGood, InSession
  <2>4. QED
    BY <1>1, <2>1, <2>3, SessionStep
<1>4. QED
  BY <1>2, <1>3

(***************************************************************************)
(* The reader                                                              *)
(***************************************************************************)
LEMMA ReaderStep ==
  ASSUME IInv, UNCHANGED <<table, rows, clock, creates, seeds>>,
         sessions' \in [Sessions -> {"none", "live", "gone"}], members' \subseteq Sessions,
         reader' \in Readers,
         reader'.stayed \cup reader'.seen \cup reader'.owned \subseteq DOMAIN rows,
         GoodWalk(reader', rows, table),
         reader'.pc \in {"check", "query", "next", "done"} => NoneStarting,
         SessionsGood'
  PROVE  IInv'
<1>1. TypeOK /\ RowsBounded /\ VersionsGood /\ CatalogGood
  BY DEF IInv
<1>2. TypeOK'
  BY <1>1 DEF TypeOK
<1>3. WalkGood'
  <2>1. NoneStarting' <=> NoneStarting
    BY DEF NoneStarting
  <2>2. QED
    BY <2>1, WalkPartsNext
<1>4. QED
  BY <1>1, <1>2, <1>3, BoundsKept, VersionsKept, CatalogKept DEF IInv

LEMMA ReaderFacts ==
  ASSUME IInv
  PROVE  /\ reader \in Readers /\ reader.stayed \cup reader.seen \cup reader.owned \subseteq DOMAIN rows
         /\ GoodWalk(reader, rows, table)
         /\ reader.pc \in {"check", "query", "next", "done"} => NoneStarting
         /\ sessions \in [Sessions -> {"none", "live", "gone"}] /\ members \subseteq Sessions
         /\ \A s \in members : sessions[s] = "live"
         /\ rows \in Seq(Rows)
BY WalkParts DEF IInv, TypeOK, SessionsGood

LEMMA RestingFacts ==
  /\ Resting \in Readers /\ Resting.stayed = {} /\ Resting.seen = {} /\ Resting.owned = {}
  /\ Resting.pc = "rest" /\ Resting.offset = 0 /\ Resting.plan = NoSession
BY DEF Resting, Readers

LEMMA RestsGood ==
  ASSUME IInv, ReaderOnly, reader' = Resting
  PROVE  IInv'
<1>1. GoodWalk(Resting, rows, table)
  BY RestingFacts DEF GoodWalk, Steps
<1>2. SessionsGood'
  BY ReaderFacts, RestingFacts DEF ReaderOnly, SessionsGood
<1>3. QED
  BY <1>1, <1>2, ReaderFacts, RestingFacts, ReaderStep DEF ReaderOnly

LEMMA AddSessionMemberGood ==
  ASSUME IInv, NEW s \in Sessions, AddSessionMember(s)
  PROVE  IInv'
<1>1. /\ sessions[s] = "live" /\ members' = members \cup {s} /\ sessions' = sessions
      /\ UNCHANGED <<table, rows, clock, creates, seeds>>
  BY DEF AddSessionMember, NotSessions
<1>2. SessionsGood
  BY DEF IInv
<1>3. \A x \in members' : sessions'[x] = "live"
  BY <1>1, ReaderFacts
<1>4. CASE reader.pc \in {"check", "query", "planCheck"} /\ reader.session = s
  <2>1. reader' = [reader EXCEPT !.was = TRUE]
    BY <1>4 DEF AddSessionMember
  <2>2. /\ reader' \in Readers /\ reader'.pc = reader.pc /\ reader'.named = reader.named
        /\ reader'.session = reader.session /\ reader'.plan = reader.plan
        /\ reader'.offset = reader.offset /\ reader'.stayed = reader.stayed
        /\ reader'.owned = reader.owned /\ reader'.seen = reader.seen
        /\ reader'.disturbed = reader.disturbed /\ reader'.was = TRUE
    BY <2>1, ReaderFacts DEF Readers
  <2>3. GoodWalk(reader', rows, table)
    BY <2>2, ReaderFacts DEF GoodWalk
  <2>4. SessionsGood'
    BY <1>2, <1>3, <2>2 DEF SessionsGood
  <2>5. QED
    BY <1>1, <2>2, <2>3, <2>4, ReaderFacts, ReaderStep
<1>5. CASE ~(reader.pc \in {"check", "query", "planCheck"} /\ reader.session = s)
  <2>1. reader' = reader
    BY <1>5 DEF AddSessionMember
  <2>2. SessionsGood'
    BY <1>1, <1>2, <1>3, <1>5, <2>1 DEF SessionsGood, InSession
  <2>3. QED
    BY <1>1, <2>1, <2>2, ReaderFacts, ReaderStep
<1>6. QED
  BY <1>4, <1>5

LEMMA RankPositive ==
  ASSUME NEW rs \in Seq(Rows), NEW i \in PresentIn(rs)
  PROVE  RankIn(rs, i) >= 1
<1> DEFINE later == {j \in PresentIn(rs) : rs[j].at >= rs[i].at}
<1>1. rs[i] \in Rows /\ IsFiniteSet(PresentIn(rs))
  <2>1. IsFiniteSet(DOMAIN rs)
    BY LenProperties, FS_Interval
  <2>2. QED
    BY <2>1, ElementOfSeq, LenProperties, FS_Subset DEF PresentIn
<1>2. rs[i].at \in Nat
  BY <1>1 DEF Rows
<1>3. i \in later /\ later \in SUBSET PresentIn(rs)
  BY <1>2
<1> HIDE DEF later
<1>4. IsFiniteSet(later)
  BY <1>1, <1>3, FS_Subset
<1>5. Cardinality(later) # 0 /\ Cardinality(later) \in Nat
  BY <1>3, <1>4, FS_EmptySet, FS_CardinalityType
<1>6. QED
  BY <1>5 DEF later, RankIn

LEMMA BeginListGood ==
  ASSUME IInv, BeginList
  PROVE  IInv'
<1> DEFINE own == ShownIn(rows, table)
<1>1. reader = Resting /\ NoneStarting /\ ReaderOnly
  BY DEF BeginList
<1>2. own = Shown(Present)
  BY DEF ShownIn, ShowsIn, Shown, Shows, Present, PresentIn
<1>3. PICK s \in Sessions, limit \in Limits :
         reader' = [Resting EXCEPT !.pc = "check", !.named = TRUE, !.session = s,
                                   !.limit = limit, !.stayed = own, !.owned = own,
                                   !.was = InSession(s)]
  BY <1>2 DEF BeginList
<1>4. own \subseteq PresentIn(rows) /\ PresentIn(rows) \subseteq DOMAIN rows /\ DOMAIN rows \subseteq Nat
  BY ReaderFacts, LenProperties DEF ShownIn, PresentIn
<1> HIDE DEF own
<1>5. limit \in Nat /\ InSession(s) \in BOOLEAN
  BY RecordsAssumption DEF InSession
<1>6. /\ reader' \in Readers /\ reader'.pc = "check" /\ reader'.session = s
      /\ reader'.plan = NoSession /\ reader'.offset = 0 /\ reader'.stayed = own
      /\ reader'.owned = own /\ reader'.seen = {} /\ (reader'.was <=> InSession(s))
  BY <1>3, <1>4, <1>5, RestingFacts DEF Readers, AnySession
<1>7. GoodWalk(reader', rows, table)
  <2>1. ASSUME NEW i \in own, RankIn(rows, i) <= 0 PROVE FALSE
    BY <1>4, <2>1, ReaderFacts, RankType, RankPositive
  <2>2. QED
    BY <1>6, <2>1 DEF GoodWalk, Steps, own
<1>8. SessionsGood'
  <2>1. \A x \in members' : sessions'[x] = "live"
    BY <1>1, ReaderFacts DEF ReaderOnly
  <2>2. InSession(s)' <=> InSession(s)
    BY <1>1 DEF ReaderOnly, InSession
  <2>3. QED
    BY <1>1, <1>6, <2>1 DEF SessionsGood, ReaderOnly, InSession
<1>9. QED
  BY <1>1, <1>4, <1>6, <1>7, <1>8, ReaderFacts, ReaderStep DEF ReaderOnly

LEMMA BeginPlanGood ==
  ASSUME IInv, BeginPlan
  PROVE  IInv'
<1>1. PICK i \in Present, s \in AnySession, named \in BOOLEAN :
         reader' = [Resting EXCEPT !.pc = "planCheck", !.named = named, !.session = s,
                                   !.plan = rows[i].session, !.was = InSession(s)]
  BY DEF BeginPlan
<1>2. rows[i].session \in AnySession \cup {NoSession} /\ InSession(s) \in BOOLEAN /\ ReaderOnly
  BY RowFacts DEF IInv, Rows, InSession, BeginPlan
<1>3. /\ reader' \in Readers /\ reader'.pc = "planCheck" /\ reader'.session = s
      /\ reader'.stayed = {} /\ reader'.owned = {} /\ reader'.seen = {}
      /\ (reader'.was <=> InSession(s))
  BY <1>1, <1>2, RestingFacts DEF Readers
<1>4. GoodWalk(reader', rows, table)
  BY <1>3 DEF GoodWalk, Steps
<1>5. SessionsGood'
  BY <1>2, <1>3, ReaderFacts DEF SessionsGood, ReaderOnly, InSession
<1>6. QED
  BY <1>2, <1>3, <1>4, <1>5, ReaderFacts, ReaderStep DEF ReaderOnly

\* The steps that move the reader on and leave what it has collected.
LEMMA MoveGood ==
  ASSUME IInv, ReaderOnly, NEW p \in {"check", "query", "planShown"}, NEW was \in BOOLEAN,
         reader' = [reader EXCEPT !.pc = p, !.was = was],
         \/ reader.pc = "next" /\ p = "check" /\ (was <=> InSession(reader.session))
         \/ /\ reader.pc = "check" /\ p = "query" /\ was = reader.was
            /\ SessionRequired /\ reader.named => was
         \/ /\ reader.pc = "planCheck" /\ p = "planShown" /\ EnforceSessionMatch
            /\ SessionRequired /\ reader.named => was
  PROVE  IInv'
<1>1. /\ reader' \in Readers /\ reader'.pc = p /\ reader'.named = reader.named
      /\ reader'.session = reader.session /\ reader'.plan = reader.plan
      /\ reader'.offset = reader.offset /\ reader'.stayed = reader.stayed
      /\ reader'.owned = reader.owned /\ reader'.seen = reader.seen
      /\ reader'.disturbed = reader.disturbed /\ reader'.was = was
  BY ReaderFacts DEF Readers
<1>2. GoodWalk(reader', rows, table)
  BY <1>1, ReaderFacts DEF GoodWalk, Steps
<1>3. SessionsGood /\ UNCHANGED <<sessions, members>>
  BY DEF IInv, ReaderOnly
<1>4. SessionsGood'
  BY <1>1, <1>3 DEF SessionsGood, InSession, EnforceSessionMatch
<1>5. QED
  BY <1>1, <1>2, <1>4, ReaderFacts, ReaderStep DEF ReaderOnly

LEMMA CheckGood ==
  ASSUME IInv, NextPage \/ CheckSession \/ CheckPlanSession
  PROVE  IInv'
<1>1. reader \in Readers /\ SessionsGood
  BY ReaderFacts DEF IInv
<1>2. reader.pc \in {"check", "planCheck"} /\ RequireSession
        => (SessionRequired /\ reader.named => reader.was)
  BY <1>1 DEF RequireSession, IsSessionMember, SessionsGood, InSession
<1>3. reader = [reader EXCEPT !.was = reader.was] /\ reader.was \in BOOLEAN
  BY <1>1 DEF Readers
<1>4. CASE NextPage
  <2>1. reader.pc = "next" /\ ReaderOnly /\ InSession(reader.session) \in BOOLEAN
        /\ reader' = [reader EXCEPT !.pc = "check", !.was = InSession(reader.session)]
    BY <1>4 DEF NextPage, InSession
  <2>2. QED
    BY <2>1, MoveGood
<1>5. CASE CheckSession
  <2>1. reader.pc = "check" /\ ReaderOnly
    BY <1>5 DEF CheckSession
  <2>2. CASE ~RequireSession
    BY <1>5, <2>1, <2>2, RestsGood DEF CheckSession
  <2>3. CASE RequireSession
    <3>1. reader' = [reader EXCEPT !.pc = "query", !.was = reader.was]
      BY <1>1, <1>5, <2>3 DEF CheckSession, Readers
    <3>2. QED
      BY <1>2, <1>3, <2>1, <2>3, <3>1, MoveGood
  <2>4. QED
    BY <2>2, <2>3
<1>6. CASE CheckPlanSession
  <2>1. reader.pc = "planCheck" /\ ReaderOnly
    BY <1>6 DEF CheckPlanSession
  <2>2. CASE ~(RequireSession /\ EnforceSessionMatch)
    BY <1>6, <2>1, <2>2, RestsGood DEF CheckPlanSession
  <2>3. CASE RequireSession /\ EnforceSessionMatch
    <3>1. reader' = [reader EXCEPT !.pc = "planShown", !.was = reader.was]
      BY <1>1, <1>6, <2>3 DEF CheckPlanSession, Readers
    <3>2. QED
      BY <1>2, <1>3, <2>1, <2>3, <3>1, MoveGood
  <2>4. QED
    BY <2>2, <2>3
<1>7. QED
  BY <1>4, <1>5, <1>6

LEMMA RestGood ==
  ASSUME IInv, Rest
  PROVE  IInv'
BY RestsGood DEF Rest

\* The limit of a list is at least one, and cutting it again changes nothing.
LEMMA LimitFacts ==
  ASSUME NEW asked \in Nat
  PROVE  /\ ParsePagination(asked) \in Nat
         /\ ClampPagination(ParsePagination(asked)) = ParsePagination(asked)
BY RecordsAssumption DEF ParsePagination, ClampPagination, AtMost

\* Where no two rows have the same time, the newest rows are the ones of the
\* smallest ranks.
LEMMA NewestByRank ==
  ASSUME TypeOK, ~Tied, NEW n \in Nat, NEW first \in Newest(n)
  PROVE  first = {i \in Present : Rank(i) <= n}
<1>1. /\ IsFiniteSet(Present) /\ first \subseteq Present /\ Cardinality(Present) \in Nat
      /\ IsFiniteSet(first) /\ Cardinality(first) \in Nat
  <2>1. IsFiniteSet(Present) /\ first \subseteq Present
    BY RowFacts DEF Newest
  <2>2. QED
    BY <2>1, FS_Subset, FS_CardinalityType
<1>2. /\ Cardinality(first) = IF n < Cardinality(Present) THEN n ELSE Cardinality(Present)
      /\ \A i \in first, j \in Present \ first : rows[j].at <= rows[i].at
  BY DEF Newest, Total
<1>3. \A i \in Present : rows[i].at \in Nat
  BY RowFacts DEF Rows
<1>4. ASSUME NEW i \in Present
      PROVE  i \in first <=> Rank(i) <= n
  <2> DEFINE up == {j \in Present : rows[j].at >= rows[i].at}
  <2>1. /\ up \subseteq Present /\ i \in up /\ IsFiniteSet(up) /\ Cardinality(up) \in Nat
        /\ Rank(i) = Cardinality(up)
    <3>1. up \subseteq Present /\ i \in up
      BY <1>3, <1>4
    <3>2. QED
      BY <1>1, <3>1, FS_Subset, FS_CardinalityType DEF Rank
  <2>2. \A j \in Present : j # i => rows[j].at # rows[i].at
    BY <1>4 DEF Tied
  <2>3. CASE i \in first
    <3>1. up \subseteq first
      BY <1>2, <1>3, <1>4, <2>2, <2>3
    <3>2. Cardinality(up) <= Cardinality(first)
      BY <1>1, <3>1, FS_Subset
    <3>3. QED
      BY <1>1, <1>2, <2>1, <2>3, <3>2
  <2>4. CASE i \notin first
    <3>1. first \cup {i} \subseteq up
      BY <1>1, <1>2, <1>3, <1>4, <2>1, <2>4
    <3>2. Cardinality(first \cup {i}) = Cardinality(first) + 1
      BY <1>1, <2>4, FS_AddElement
    <3>3. Cardinality(first) + 1 <= Cardinality(up) /\ Cardinality(up) <= Cardinality(Present)
      BY <1>1, <2>1, <3>1, <3>2, FS_Subset
    <3>4. QED
      BY <1>1, <1>2, <2>1, <2>4, <3>3
  <2>5. QED
    BY <2>3, <2>4
<1>5. QED
  BY <1>1, <1>4

LEMMA PageFacts ==
  ASSUME TypeOK, NEW limit \in Nat, NEW offset \in Nat, NEW page \in Pages(limit, offset)
  PROVE  /\ page \subseteq Present
         /\ ~Tied => page = {i \in Present : offset < Rank(i) /\ Rank(i) <= offset + limit}
<1>1. PICK upto \in Newest(offset + limit), before \in Newest(offset) : page = upto \ before
  BY DEF Pages
<1>2. page \subseteq Present
  BY <1>1 DEF Newest
<1>3. ASSUME ~Tied
      PROVE  page = {i \in Present : offset < Rank(i) /\ Rank(i) <= offset + limit}
  <2>1. /\ upto = {i \in Present : Rank(i) <= offset + limit}
        /\ before = {i \in Present : Rank(i) <= offset}
    BY <1>1, <1>3, NewestByRank
  <2>2. ASSUME NEW i \in Present PROVE Rank(i) \in Nat
    BY RankType DEF TypeOK, Rank, RankIn, Present, PresentIn
  <2>3. QED
    BY <1>1, <2>1, <2>2
<1>4. QED
  BY <1>2, <1>3

LEMMA QueryPageGood ==
  ASSUME IInv, QueryPage
  PROVE  IInv'
<1> DEFINE limit == ParsePagination(reader.limit)
           after == reader.offset + limit
           p == IF after < Total THEN "next" ELSE "done"
<1>0. PICK chosen \in Pages(ClampPagination(limit), reader.offset) :
         reader' = [reader EXCEPT !.seen = reader.seen \cup Shown(chosen),
                                  !.disturbed = reader.disturbed \/ Tied,
                                  !.offset = after, !.pc = p]
  BY DEF QueryPage
<1> DEFINE page == Shown(chosen)
<1>1. /\ reader.pc = "query" /\ ReaderOnly
      /\ reader' = [reader EXCEPT !.seen = reader.seen \cup page,
                                  !.disturbed = reader.disturbed \/ Tied,
                                  !.offset = after, !.pc = p]
  BY <1>0 DEF QueryPage
<1>2. /\ reader \in Readers /\ reader.limit \in Nat /\ reader.offset \in Nat /\ rows \in Seq(Rows)
      /\ GoodWalk(reader, rows, table) /\ NoneStarting
  BY <1>1, ReaderFacts DEF Readers
<1>3. limit \in Nat /\ after \in Nat /\ ClampPagination(limit) = limit
  <2>1. limit \in Nat /\ ClampPagination(limit) = limit
    <3>1. reader.limit \in Nat
      BY <1>2
    <3>2. QED
      BY <3>1, LimitFacts
  <2> HIDE DEF limit
  <2>2. after \in Nat
    BY <1>2, <2>1
  <2>3. QED
    BY <2>1, <2>2
<1>4. /\ page \subseteq ShownIn(rows, table)
      /\ ~Tied => page = {i \in ShownIn(rows, table) :
                            reader.offset < RankIn(rows, i) /\ RankIn(rows, i) <= after}
  <2>1. TypeOK
    BY DEF IInv
  <2> HIDE DEF limit
  <2>2. /\ chosen \subseteq Present
        /\ ~Tied => chosen = {i \in Present : reader.offset < Rank(i) /\ Rank(i) <= after}
    BY <1>0, <1>2, <1>3, <2>1, PageFacts
  <2> HIDE DEF after
  <2>3. Shown(chosen) \subseteq ShownIn(rows, table)
    BY <2>2 DEF Shown, Shows, ShownIn, ShowsIn, Present, PresentIn
  <2>4. ASSUME ~Tied
        PROVE  Shown(chosen) = {i \in ShownIn(rows, table) :
                                  reader.offset < RankIn(rows, i) /\ RankIn(rows, i) <= after}
    BY <2>2, <2>4 DEF Shown, Shows, ShownIn, ShowsIn, Present, PresentIn, Rank, RankIn
  <2>5. QED
    BY <2>3, <2>4
<1>5. Total = Cardinality(PresentIn(rows))
  BY DEF Total, Present, PresentIn
<1>6. \A i : RankIn(rows, i) \in Nat /\ RankIn(rows, i) <= Total
  BY <1>2, <1>5, RankType
<1>7. page \subseteq ShownIn(rows, table) /\ ShownIn(rows, table) \subseteq DOMAIN rows
      /\ DOMAIN rows \subseteq Nat
  BY <1>2, <1>4, LenProperties DEF ShownIn, PresentIn
<1>8. p \in {"next", "done"} /\ (p = "done" => ~(after < Total))
  OBVIOUS
<1>9. Total \in Nat
  <2>1. IsFiniteSet(Present)
    BY RowFacts DEF IInv
  <2>2. QED
    BY <2>1, FS_CardinalityType DEF Total
<1> HIDE DEF limit, after, page, p
<1>10. /\ reader' \in Readers /\ reader'.pc = p /\ reader'.named = reader.named
       /\ reader'.session = reader.session /\ reader'.plan = reader.plan
       /\ reader'.offset = after /\ reader'.stayed = reader.stayed
       /\ reader'.owned = reader.owned /\ reader'.seen = reader.seen \cup page
       /\ reader'.disturbed = (reader.disturbed \/ Tied) /\ reader'.was = reader.was
  BY <1>1, <1>2, <1>3, <1>7, <1>8 DEF Readers, Tied
<1>11. /\ reader.seen \subseteq reader.owned /\ reader.stayed \subseteq ShownIn(rows, table)
       /\ ShownIn(rows, table) \subseteq reader.owned
       /\ ~reader.disturbed => \A i \in reader.stayed : RankIn(rows, i) <= reader.offset => i \in reader.seen
  BY <1>1, <1>2 DEF GoodWalk, Steps
<1>12. ASSUME ~reader.disturbed, ~Tied, NEW i \in reader.stayed, RankIn(rows, i) <= after
       PROVE  i \in reader'.seen
  <2>1. CASE RankIn(rows, i) <= reader.offset
    BY <1>10, <1>11, <1>12, <2>1
  <2>2. CASE ~(RankIn(rows, i) <= reader.offset)
    <3>1. reader.offset < RankIn(rows, i)
      BY <1>2, <1>6, <2>2
    <3>2. QED
      BY <1>4, <1>10, <1>11, <1>12, <3>1
  <2>3. QED
    BY <2>1, <2>2
<1>13. GoodWalk(reader', rows, table)
  <2>1. reader'.seen \subseteq reader'.owned
    BY <1>7, <1>10, <1>11
  <2>2. ASSUME p = "done", ~reader.disturbed, ~Tied, NEW i \in reader.stayed PROVE i \in reader'.seen
    <3>1. RankIn(rows, i) <= after
      BY <1>3, <1>6, <1>8, <1>9, <2>2
    <3>2. QED
      BY <1>12, <2>2, <3>1
  <2>3. QED
    BY <1>8, <1>10, <1>11, <1>12, <2>1, <2>2 DEF GoodWalk, Steps
<1>14. SessionsGood'
  <2>1. SessionsGood /\ UNCHANGED <<sessions, members>>
    BY <1>1 DEF IInv, ReaderOnly
  <2>2. QED
    BY <1>1, <1>8, <1>10, <2>1 DEF SessionsGood
<1>15. reader'.stayed \cup reader'.seen \cup reader'.owned \subseteq DOMAIN rows
  BY <1>7, <1>10, ReaderFacts
<1>16. QED
  BY <1>1, <1>2, <1>10, <1>13, <1>14, <1>15, ReaderFacts, ReaderStep DEF ReaderOnly

LEMMA QueryMemoryGood ==
  ASSUME IInv, QueryMemory
  PROVE  IInv'
<1> DEFINE mine == {i \in Present : rows[i].tenant = Reader}
<1>1. /\ reader.pc = "query" /\ table = "memory" /\ ReaderOnly
      /\ reader' = [reader EXCEPT !.seen = mine, !.pc = "done"]
  BY DEF QueryMemory
<1>2. /\ reader \in Readers /\ rows \in Seq(Rows) /\ GoodWalk(reader, rows, table) /\ NoneStarting
  BY <1>1, ReaderFacts
<1>3. mine = ShownIn(rows, table)
  <2>1. Reader # Shared
    BY RecordsAssumption DEF Shared
  <2>2. QED
    BY <1>1, <2>1 DEF ShownIn, ShowsIn, TenantMatch, Present, PresentIn
<1>4. mine \subseteq DOMAIN rows /\ DOMAIN rows \subseteq Nat
  BY <1>2, LenProperties DEF Present
<1> HIDE DEF mine
<1>5. /\ reader' \in Readers /\ reader'.pc = "done" /\ reader'.named = reader.named
      /\ reader'.session = reader.session /\ reader'.plan = reader.plan
      /\ reader'.stayed = reader.stayed /\ reader'.owned = reader.owned /\ reader'.seen = mine
      /\ reader'.disturbed = reader.disturbed /\ reader'.was = reader.was
  BY <1>1, <1>2, <1>4 DEF Readers
<1>6. GoodWalk(reader', rows, table)
  BY <1>1, <1>2, <1>3, <1>5 DEF GoodWalk, Steps
<1>7. SessionsGood'
  <2>1. SessionsGood /\ UNCHANGED <<sessions, members>>
    BY <1>1 DEF IInv, ReaderOnly
  <2>2. QED
    BY <1>1, <1>5, <2>1 DEF SessionsGood
<1>8. QED
  BY <1>1, <1>2, <1>4, <1>5, <1>6, <1>7, ReaderFacts, ReaderStep DEF ReaderOnly

(***************************************************************************)
(* seedWorkflowCatalog                                                     *)
(***************************************************************************)
\* A step of a gateway that leaves the rows.
LEMMA SeedStep ==
  ASSUME IInv, NotSeeding, UNCHANGED <<rows, clock>>, NEW g \in Gateways, NEW sd \in Seeds,
         seeds' = [seeds EXCEPT ![g] = sd],
         sd.pc = "seed" => reader.pc \notin {"check", "query", "next", "done"},
         table = "workflows" => SeedIn(rows, sd)
  PROVE  IInv'
<1>1. TypeOK /\ RowsBounded /\ VersionsGood /\ WalkGood /\ SessionsGood /\ CatalogGood
  BY DEF IInv
<1>2. UNCHANGED <<table, creates, reader, sessions, members, rows, clock>>
  BY DEF NotSeeding
<1>3. seeds' \in [Gateways -> Seeds] /\ seeds'[g] = sd /\ \A x \in Gateways : x # g => seeds'[x] = seeds[x]
  BY <1>1 DEF TypeOK
<1>4. TypeOK'
  BY <1>1, <1>2, <1>3 DEF TypeOK
<1>5. WalkGood'
  <2>1. reader.pc \in {"check", "query", "next", "done"} => NoneStarting'
    BY <1>1, <1>3, WalkParts DEF NoneStarting
  <2>2. QED
    BY <1>1, <1>2, <2>1, WalkParts, WalkPartsNext
<1>6. CatalogGood'
  BY <1>1, <1>2, <1>3, CatalogParts, CatalogPartsNext DEF CatalogOf
<1>7. QED
  BY <1>1, <1>2, <1>4, <1>5, <1>6, BoundsKept, VersionsKept, SessionsKept DEF IInv

LEMMA SeedListGood ==
  ASSUME IInv, NEW g \in Gateways, SeedList(g)
  PROVE  IInv'
<1>1. seeds \in [Gateways -> Seeds] /\ NotSeeding /\ UNCHANGED <<rows, clock>> /\ reader = Resting
      /\ TypeOK
  BY DEF IInv, TypeOK, SeedList
<1>2. seeds[g].starts + 1 \in Nat
  BY <1>1 DEF Seeds
<1>3. CASE Started(g, "done", {}, {}, TRUE)
  <2> DEFINE sd == [pc |-> "done", todo |-> {}, taken |-> {}, failed |-> TRUE,
                    starts |-> seeds[g].starts + 1]
  <2>1. seeds' = [seeds EXCEPT ![g] = sd]
    BY <1>1, <1>3 DEF Started
  <2>2. sd \in Seeds /\ sd.pc = "done" /\ sd.todo = {} /\ sd.failed = TRUE
    BY <1>2 DEF Seeds
  <2> HIDE DEF sd
  <2>3. SeedIn(rows, sd)
    BY <2>2 DEF SeedIn
  <2>4. QED
    BY <1>1, <2>1, <2>2, <2>3, RestingFacts, SeedStep
<1>4. CASE \E page \in Pages(MaxLimit, 0) :
              Started(g, "seed", Names \ NamesOf(page),
                      Names \cap (NamesOf(page) \ NamesOf(SharedAmong(page))), FALSE)
  <2>1. PICK page \in Pages(MaxLimit, 0) :
              Started(g, "seed", Names \ NamesOf(page),
                      Names \cap (NamesOf(page) \ NamesOf(SharedAmong(page))), FALSE)
    BY <1>4
  <2> DEFINE todo == Names \ NamesOf(page)
             taken == Names \cap (NamesOf(page) \ NamesOf(SharedAmong(page)))
             sd == [pc |-> "seed", todo |-> todo, taken |-> taken, failed |-> FALSE,
                    starts |-> seeds[g].starts + 1]
  <2>2. seeds' = [seeds EXCEPT ![g] = sd]
    BY <1>1, <2>1 DEF Started
  <2>3. sd \in Seeds /\ sd.pc = "seed" /\ sd.todo = todo /\ sd.taken = taken
    BY <1>2 DEF Seeds
  <2>4. page \subseteq PresentIn(rows)
    BY <1>1, <2>1, RecordsAssumption, PageFacts DEF Present, PresentIn
  <2>5. ASSUME NEW n \in Names \ todo
        PROVE  CatalogIn(rows, n, taken)
    <3>1. n \in NamesOf(page)
      OBVIOUS
    <3>2. CASE n \in taken
      BY <2>4, <3>1, <3>2 DEF CatalogIn, NamesOf
    <3>3. CASE n \notin taken
      <4>1. n \in NamesOf(SharedAmong(page))
        BY <3>1, <3>3
      <4>2. QED
        BY <2>4, <4>1 DEF CatalogIn, NamesOf, SharedAmong
    <3>4. QED
      BY <3>2, <3>3
  <2> HIDE DEF sd, todo, taken
  <2>6. SeedIn(rows, sd)
    BY <2>3, <2>5 DEF SeedIn
  <2>7. QED
    BY <1>1, <2>2, <2>3, <2>6, RestingFacts, SeedStep
<1>5. QED
  BY <1>3, <1>4 DEF SeedList

LEMMA SeedInsertGood ==
  ASSUME IInv, NEW g \in Gateways, SeedInsert(g)
  PROVE  IInv'
<1>1. TypeOK /\ RowsBounded /\ VersionsGood /\ WalkGood /\ SessionsGood /\ CatalogGood
  BY DEF IInv
<1>2. PICK n \in seeds[g].todo, at \in Instants :
         LET row == Row(Shared, n, 1, at, NoSession)
         IN  \/ /\ Unique(row) /\ Room
                /\ rows' = Append(rows, row) /\ clock' = clock + 1
                /\ seeds' = [seeds EXCEPT ![g].todo = TodoAfter(@, n, TRUE)]
             \/ /\ ~Unique(row)
                /\ seeds' = [seeds EXCEPT ![g].todo = TodoAfter(@, n, FALSE),
                                          ![g].taken = TakenAfter(@, row)]
                /\ UNCHANGED <<rows, clock>>
             \/ /\ seeds' = [seeds EXCEPT ![g].todo = TodoAfter(@, n, FALSE), ![g].failed = TRUE]
                /\ UNCHANGED <<rows, clock>>
  BY DEF SeedInsert
<1> DEFINE row == Row(Shared, n, 1, at, NoSession)
           old == seeds[g]
           sd == [old EXCEPT !.todo = old.todo \ {n}]
           away == [old EXCEPT !.todo = old.todo \ {n}, !.taken = TakenAfter(old.taken, row)]
           bad == [old EXCEPT !.todo = old.todo \ {n}, !.failed = TRUE]
<1>3. NotSeeding /\ seeds[g].pc = "seed" /\ seeds \in [Gateways -> Seeds] /\ seeds[g] \in Seeds
      /\ UNCHANGED <<table, creates, reader, sessions, members>>
  BY <1>1 DEF SeedInsert, TypeOK, NotSeeding
<1>4. reader.pc \notin {"check", "query", "next", "done"}
  BY <1>1, <1>3 DEF WalkGood, NoneStarting
<1>6. clock \in Nat \ {0} /\ n \in Names /\ at \in 1 .. clock
  BY <1>1, <1>2, <1>3 DEF TypeOK, Seeds, Instants
<1>7. row \in Rows /\ row.at \in 1 .. clock /\ row.version = 1 /\ row.name = n /\ row.tenant = Shared
  BY <1>6 DEF Row, Rows
<1>8. row # NoRow
  <2>1. NoRow.at = 0
    BY DEF NoRow
  <2>2. QED
    BY <1>6, <1>7, <2>1
<1>5. /\ sd \in Seeds /\ sd.pc = "seed" /\ sd.todo = old.todo \ {n} /\ sd.failed = old.failed
      /\ sd.taken = old.taken
      /\ bad \in Seeds /\ bad.pc = "seed" /\ bad.failed = TRUE
      /\ away \in Seeds /\ away.pc = "seed" /\ away.todo = old.todo \ {n}
      /\ away.failed = old.failed /\ away.taken = TakenAfter(old.taken, row)
  <2>1. TakenAfter(old.taken, row) \subseteq old.taken \cup {n}
    BY <1>7 DEF TakenAfter
  <2>2. QED
    BY <1>3, <1>6, <2>1 DEF Seeds
<1>9. table = "workflows" => SeedIn(rows, old)
  BY <1>1, CatalogParts DEF CatalogOf
<1>10. CASE /\ Unique(row) /\ rows' = Append(rows, row) /\ clock' = clock + 1
            /\ seeds' = [seeds EXCEPT ![g].todo = TodoAfter(@, n, TRUE)]
  <2>1. seeds' = [seeds EXCEPT ![g] = sd]
    BY <1>3, <1>10 DEF TodoAfter, Seeds
  <2> DEFINE k == Len(rows) + 1
  <2>2. /\ rows' \in Seq(Rows) /\ k \in Nat /\ DOMAIN rows' = DOMAIN rows \cup {k}
        /\ k \notin DOMAIN rows /\ Present' = Present \cup {k}
        /\ rows'[k] = row /\ \A i \in DOMAIN rows : rows'[i] = rows[i]
    BY <1>1, <1>7, <1>8, <1>10, Appended
  <2>3. Present \subseteq DOMAIN rows /\ \A i \in Present : rows[i].version \in Nat
    BY <1>1, RowFacts DEF Rows
  <2> HIDE DEF row, sd, away, bad, old, k
  <2>4. /\ seeds' \in [Gateways -> Seeds] /\ seeds'[g] = sd
        /\ \A x \in Gateways : x # g => seeds'[x] = seeds[x]
    BY <1>3, <1>5, <2>1
  <2>5. TypeOK'
    BY <1>1, <1>3, <1>6, <1>10, <2>2, <2>4 DEF TypeOK
  <2>6. RowsBounded'
    <3>1. ASSUME NEW i \in Present
          PROVE  rows[i].at \in 1 .. clock' - 1 /\ rows[i].version <= clock' + 1
      <4>1. rows[i].at \in 1 .. clock - 1 /\ rows[i].version <= clock + 1
        BY <1>1 DEF RowsBounded
      <4>2. QED
        BY <1>6, <1>10, <2>3, <4>1
    <3>2. ASSUME NEW i \in Present'
          PROVE  rows'[i].at \in 1 .. clock' - 1 /\ rows'[i].version <= clock' + 1
      BY <1>6, <1>7, <1>10, <2>2, <2>3, <3>1
    <3>3. ASSUME NEW q \in Reqs, creates[q].pc = "insert"
          PROVE  creates[q].row.at \in 1 .. clock' - 1 /\ creates[q].row.version <= clock' + 1
      <4>1. creates[q].row.at \in 1 .. clock - 1 /\ creates[q].row.version <= clock + 1
        BY <1>1, <3>3 DEF RowsBounded
      <4>2. creates[q].row.version \in Nat
        BY <1>1 DEF TypeOK, Creates, Rows
      <4>3. QED
        BY <1>6, <1>10, <4>1, <4>2
    <3>4. QED
      BY <1>1, <1>3, <3>2, <3>3 DEF RowsBounded
  <2>7. VersionsGood'
    BY <1>1, <1>3, <1>7, <1>8, <1>10, VersionsAppend
  <2>8. WalkGood'
    <3>1. GoodWalk(reader, rows, table)
      BY <1>1, WalkParts
    <3>2. GoodWalk(reader, rows', table)
      BY <1>4, <3>1 DEF GoodWalk, Steps
    <3>3. QED
      BY <1>3, <1>4, <3>2, WalkPartsNext
  <2>9. SessionsGood'
    BY <1>1, <1>3, SessionsKept
  <2>10. CatalogGood'
    <3>1. CASE table = "workflows"
      <4>1. /\ UniqueIn(rows')
            /\ \A m, taken : CatalogIn(rows, m, taken) => CatalogIn(rows', m, taken)
            /\ \A taken : CatalogIn(rows', n, taken)
        BY <1>1, <1>7, <1>8, <1>10, <3>1, CatalogAppend
      <4>2. SeedIn(rows', sd)
        BY <1>3, <1>5, <1>9, <3>1, <4>1 DEF SeedIn, old
      <4>3. \A x \in Gateways : SeedIn(rows, seeds[x]) => SeedIn(rows', seeds[x])
        BY <4>1 DEF SeedIn
      <4>4. QED
        BY <1>1, <1>3, <2>4, <3>1, <4>1, <4>2, <4>3, CatalogParts, CatalogPartsNext DEF CatalogOf
    <3>2. CASE table # "workflows"
      BY <1>3, <3>2, CatalogPartsNext DEF CatalogOf
    <3>3. QED
      BY <3>1, <3>2
  <2>11. QED
    BY <2>5, <2>6, <2>7, <2>8, <2>9, <2>10 DEF IInv
<1>11. CASE /\ ~Unique(row)
            /\ seeds' = [seeds EXCEPT ![g].todo = TodoAfter(@, n, FALSE),
                                      ![g].taken = TakenAfter(@, row)]
            /\ UNCHANGED <<rows, clock>>
  <2>1. seeds' = [seeds EXCEPT ![g] = away]
    BY <1>3, <1>11 DEF TodoAfter, Seeds
  <2>2. PICK i \in Present : rows[i].name = row.name /\ rows[i].version = row.version
    BY <1>11 DEF Unique
  <2>3. CatalogIn(rows, n, TakenAfter(old.taken, row))
    <3> HIDE DEF row, old
    <3>1. i \in PresentIn(rows) /\ rows[i].name = n
      BY <1>7, <2>2 DEF Present, PresentIn
    <3>2. CASE rows[i].tenant = Shared
      BY <3>1, <3>2 DEF CatalogIn
    <3>3. CASE rows[i].tenant # Shared
      <4>1. n \in TakenAfter(old.taken, row)
        BY <1>7, <2>2, <3>3 DEF TakenAfter
      <4>2. QED
        BY <3>1, <4>1 DEF CatalogIn
    <3>4. QED
      BY <3>2, <3>3
  <2>4. ASSUME NEW m, CatalogIn(rows, m, old.taken)
        PROVE  CatalogIn(rows, m, TakenAfter(old.taken, row))
    <3>1. old.taken \subseteq TakenAfter(old.taken, row)
      BY DEF TakenAfter
    <3>2. QED
      BY <2>4, <3>1 DEF CatalogIn
  <2> HIDE DEF row, sd, away, bad, old
  <2>5. table = "workflows" => SeedIn(rows, away)
    BY <1>3, <1>5, <1>9, <2>3, <2>4 DEF SeedIn, old
  <2>6. QED
    BY <1>3, <1>4, <1>5, <1>11, <2>1, <2>5, SeedStep
<1>12. CASE /\ seeds' = [seeds EXCEPT ![g].todo = TodoAfter(@, n, FALSE), ![g].failed = TRUE]
            /\ UNCHANGED <<rows, clock>>
  <2>1. seeds' = [seeds EXCEPT ![g] = bad]
    BY <1>3, <1>12 DEF TodoAfter, Seeds
  <2> HIDE DEF row, sd, away, bad, old
  <2>2. SeedIn(rows, bad)
    BY <1>5 DEF SeedIn
  <2>3. QED
    BY <1>3, <1>4, <1>5, <1>12, <2>1, <2>2, SeedStep
<1>13. QED
  BY <1>2, <1>10, <1>11, <1>12

LEMMA SeedStopsGood ==
  ASSUME IInv, NEW g \in Gateways, SeedEnds(g) \/ Crash(g)
  PROVE  IInv'
<1>1. seeds \in [Gateways -> Seeds] /\ seeds[g] \in Seeds /\ CatalogGood
  BY DEF IInv, TypeOK
<1>2. NotSeeding /\ UNCHANGED <<rows, clock>> /\ seeds[g].pc = "seed"
  BY DEF SeedEnds, Crash
<1>3. CASE SeedEnds(g)
  <2> DEFINE sd == [seeds[g] EXCEPT !.pc = "done"]
  <2>1. seeds' = [seeds EXCEPT ![g] = sd] /\ seeds[g].todo = {}
    BY <1>1, <1>3 DEF SeedEnds, Seeds
  <2>2. /\ sd \in Seeds /\ sd.pc = "done" /\ sd.todo = seeds[g].todo /\ sd.failed = seeds[g].failed
        /\ sd.taken = seeds[g].taken
    BY <1>1 DEF Seeds
  <2> HIDE DEF sd
  <2>3. table = "workflows" => SeedIn(rows, sd)
    BY <1>1, <1>2, <2>1, <2>2, CatalogParts DEF CatalogOf, SeedIn
  <2>4. QED
    BY <1>2, <2>1, <2>2, <2>3, SeedStep
<1>4. CASE Crash(g)
  <2> DEFINE sd == [Off EXCEPT !.starts = seeds[g].starts]
  <2>1. seeds' = [seeds EXCEPT ![g] = sd]
    BY <1>4 DEF Crash
  <2>2. sd \in Seeds /\ sd.pc = "off"
    BY <1>1 DEF Off, Seeds
  <2> HIDE DEF sd
  <2>3. SeedIn(rows, sd)
    BY <2>2 DEF SeedIn
  <2>4. QED
    BY <1>2, <2>1, <2>2, <2>3, SeedStep
<1>5. QED
  BY <1>3, <1>4

(***************************************************************************)
(* The theorems                                                            *)
(***************************************************************************)
LEMMA Inductive ==
  ASSUME IInv, [Next]_vars
  PROVE  IInv'
<1>1. ASSUME NEW r \in Reqs,
             \/ CreatePlaybook(r) \/ CreateOperatorMemory(r) \/ CreateRunbook(r)
             \/ ReadMaxVersion(r) \/ CreateWorkflowVersion(r) \/ Insert(r)
      PROVE  IInv'
  BY <1>1, CreateGood, CreateRunbookGood, ReadMaxVersionGood, InsertGood
<1>2. ASSUME NEW i \in DOMAIN rows,
             \/ UpdateOperatorMemory(i) \/ DeleteOperatorMemory(i)
             \/ DeletePlaybook(i) \/ DeleteRunbook(i) \/ DeletePlan(i)
      PROVE  IInv'
  BY <1>2, ChangeGood
<1>3. ASSUME NEW s \in Sessions, CreateSession(s) \/ DeleteSession(s) \/ AddSessionMember(s)
      PROVE  IInv'
  BY <1>3, SessionGood, AddSessionMemberGood
<1>4. CASE \/ BeginList \/ BeginPlan \/ NextPage \/ CheckSession \/ CheckPlanSession
           \/ QueryPage \/ QueryMemory \/ Rest
  BY <1>4, BeginListGood, BeginPlanGood, CheckGood, QueryPageGood, QueryMemoryGood, RestGood
<1>5. ASSUME NEW g \in Gateways, SeedList(g) \/ SeedInsert(g) \/ SeedEnds(g) \/ Crash(g)
      PROVE  IInv'
  BY <1>5, SeedListGood, SeedInsertGood, SeedStopsGood
<1>6. CASE UNCHANGED vars
  <2>1. UNCHANGED <<table, rows, clock, creates, reader, sessions, members, seeds>>
    BY <1>6 DEF vars
  <2>2. TypeOK'
    BY <2>1 DEF IInv, TypeOK
  <2>3. QED
    BY <2>1, <2>2, BoundsKept, VersionsKept, WalkKept, SessionsKept, CatalogKept DEF IInv
<1>7. QED
  BY <1>1, <1>2, <1>3, <1>4, <1>5, <1>6 DEF Next

LEMMA Invariance == Spec => []IInv
  BY InitGood, Inductive, PTL DEF Spec

\* When a gateway is through with seedWorkflowCatalog and neither its list nor an
\* INSERT failed, the catalog has every built-in workflow as a shared row, but for
\* the names it found taken by a tenant's own row, and no version of a name twice,
\* whatever gateways and tenants insert at the same time.
THEOREM RecordsSound == Spec => []RecordsInv
<1>1. IInv => RecordsInv
  BY DEF IInv, RecordsInv, CatalogGood, CatalogComplete
<1>2. QED
  BY <1>1, Invariance, PTL

\* A reader that follows the pages of a list to the end has seen every row of its
\* tenant that stayed, and none of another's, whatever is inserted meanwhile, as
\* long as no two rows have the same time and none is deleted
\* (parsePagination, the ORDER BY with LIMIT and OFFSET, filterByTenant).
THEOREM WalksExact == Spec => []WalkExact
<1>1. IInv => WalkExact
  BY DEF IInv, WalkExact, SeesAll, WalkGood
<1>2. QED
  BY <1>1, Invariance, PTL

\* A named actor is shown a page or a plan only if it was a member of the live
\* session it named, at some time of the request (requireSession), and a single
\* plan that has a session only if that is the one it named
\* (enforceSessionMatch); for the list of plans the second is not claimed.
THEOREM MembersOnly == Spec => []SessionAccess
<1>1. IInv => SessionAccess
  BY DEF IInv, SessionAccess, OnlyMembers, SessionsGood
<1>2. QED
  BY <1>1, Invariance, PTL

\* A runbook without a version gets one above all that were there when its request
\* began and still are, though SELECT MAX(version) and the INSERT are two statements.
THEOREM VersionsRise == Spec => VersionsGrow
<1>1. IInv /\ [Next]_vars =>
        [\A r \in Reqs : creates[r] # NoCreate /\ creates'[r] = NoCreate
             /\ Len(rows') > Len(rows)
                => \A i \in creates[r].before \cap Present :
                      rows'[Len(rows')].version > rows[i].version]_vars
  <2> SUFFICES ASSUME IInv, Next, NEW r \in Reqs, creates[r] # NoCreate, creates'[r] = NoCreate,
                      Len(rows') > Len(rows), NEW i \in creates[r].before \cap Present
               PROVE  rows'[Len(rows')].version > rows[i].version
    BY DEF vars
  <2>1. TypeOK /\ VersionsGood /\ creates \in [Reqs -> Creates] /\ Len(rows) \in Nat
    BY RowFacts DEF IInv, TypeOK
  <2>2. NoCreate.pc = "none"
    BY DEF NoCreate
  <2>3. Insert(r)
    <3>1. ASSUME NEW q \in Reqs, NEW c, c.pc # "none", creates' = [creates EXCEPT ![q] = c] PROVE FALSE
      BY <2>1, <2>2, <3>1
    <3>2. ~(creates' = creates)
      OBVIOUS
    <3>3. ASSUME NEW q \in Reqs, NEW tenant, NEW name, NEW version, NEW before,
                 Stamp(q, tenant, name, version, before)
          PROVE  FALSE
      <4>0. PICK at \in Instants :
              creates' = [creates EXCEPT ![q] =
                 [pc |-> "insert", row |-> Row(tenant, name, version, at, NoSession),
                  before |-> before]]
        BY <3>3 DEF Stamp
      <4> DEFINE c == [pc |-> "insert", row |-> Row(tenant, name, version, at, NoSession),
                       before |-> before]
      <4>1. creates' = [creates EXCEPT ![q] = c] /\ c.pc # "none"
        BY <4>0
      <4> HIDE DEF c
      <4>2. QED
        BY <3>1, <4>1
    <3>4. ASSUME NEW q \in Reqs, CreateRunbook(q) PROVE FALSE
      <4>1. PICK t \in Tenants :
              \/ Stamp(q, t, Item, 1, {})
              \/ creates' = [creates EXCEPT ![q] =
                     [pc |-> "max", row |-> Row(t, Item, 0, 0, NoSession), before |-> Same(t, Item)]]
        BY <3>4 DEF CreateRunbook
      <4> DEFINE c == [pc |-> "max", row |-> Row(t, Item, 0, 0, NoSession), before |-> Same(t, Item)]
      <4>2. c.pc # "none"
        OBVIOUS
      <4> HIDE DEF c
      <4>3. QED
        BY <3>1, <3>3, <4>1, <4>2 DEF c
    <3>5. \E q \in Reqs : Insert(q)
      BY <3>2, <3>3, <3>4
         DEF Next, CreatePlaybook, CreateOperatorMemory, CreateWorkflowVersion, ReadMaxVersion,
             UpdateOperatorMemory, DeleteOperatorMemory, DeletePlaybook, DeleteRunbook, DeletePlan,
             Put, CreateSession, DeleteSession, AddSessionMember, NotSessions, BeginList, BeginPlan,
             NextPage, CheckSession, CheckPlanSession, QueryPage, QueryMemory, Rest, ReaderOnly,
             SeedList, SeedInsert, SeedEnds, Crash, NotSeeding
    <3>6. PICK q \in Reqs : Insert(q)
      BY <3>5
    <3>7. q = r
      BY <2>1, <3>6 DEF Insert
    <3>8. QED
      BY <3>6, <3>7
  <2>4. creates[r].pc = "insert" /\ rows' = Append(rows, creates[r].row)
    BY <2>1, <2>3 DEF Insert
  <2>5. creates[r].row.version > rows[i].version
    BY <2>1, <2>4 DEF VersionsGood
  <2>6. Len(rows') = Len(rows) + 1 /\ rows'[Len(rows) + 1] = creates[r].row
    <3>1. rows \in Seq(Rows) /\ creates[r].row \in Rows
      BY <2>1 DEF TypeOK, Creates
    <3>2. QED
      BY <2>4, <3>1, AppendProperties
  <2>7. QED
    BY <2>5, <2>6
<1>2. QED
  BY <1>1, Invariance, PTL DEF Spec, VersionsGrow
=============================================================================
