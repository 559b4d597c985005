------------------------------- MODULE Records -------------------------------
(***************************************************************************)
(* The tables that the gateway's handlers only fill and show: playbooks,   *)
(* runbooks, workflow versions, operator memory and the lists of plans,    *)
(* with the sessions that guard reading them.  A reader of one tenant goes *)
(* through a list page by page, or asks for one plan, while other requests *)
(* insert, move and delete rows, sessions come and go, and gateways that   *)
(* start put the built-in workflows into the catalog.  The handlers of     *)
(* different tables share nothing but the sessions, so a behaviour is      *)
(* about one table, chosen in Init.  A SQL statement is one step.          *)
(***************************************************************************)
EXTENDS Integers, Sequences, FiniteSets

CONSTANTS Tenants,          \* tenants of the rows
          Reader,           \* the tenant of the reader
          Sessions,         \* ids of sessions, each used once
          Foreign,          \* a session that the reader is not a member of
          Names,            \* names of the built-in workflows
          Reqs,             \* requests that create rows
          Gateways,         \* gateways that start
          SessionRequired,  \* the gateway's setting session_required
          FirstRows,        \* rows of the table at the beginning
          MaxRows,          \* bound: INSERTs ever tried, the first rows included
          Limits,           \* values of ?limit= a reader tries, 0 for none
          DefaultLimit,     \* 50 in the code
          MaxLimit,         \* 200 in the code
          MaxStarts         \* bound: starts of each gateway

ASSUME RecordsAssumption ==
    /\ Reader \in Tenants /\ "shared" \notin Tenants /\ Foreign \notin Sessions
    /\ IsFiniteSet(Reqs)
    /\ SessionRequired \in BOOLEAN
    /\ Limits \subseteq Nat /\ FirstRows \in Nat /\ MaxRows \in Nat /\ MaxStarts \in Nat
    /\ DefaultLimit \in Nat \ {0} /\ MaxLimit \in Nat /\ DefaultLimit <= MaxLimit

VARIABLES table,     \* the table this behaviour is about
          rows,      \* its rows in the order of insertion; NoRow where one was deleted
          clock,     \* the time
          creates,   \* requests that create a row
          reader,    \* the reader and its request
          sessions,  \* "none", "live" or "gone"
          members,   \* sessions that the reader is a member of
          seeds      \* gateways at seedWorkflowCatalog

vars == <<table, rows, clock, creates, reader, sessions, members, seeds>>

Tables    == {"playbooks", "runbooks", "workflows", "memory", "plans"}
Shared    == "shared"      \* the tenant of a row whose tenant_id is NULL
NoSession == "no session"  \* a plan without session_id
Item      == "item"        \* the name of a row where names do not matter
AnySession == Sessions \cup {Foreign}
NoRow     == [tenant |-> Shared, name |-> Item, version |-> 0, at |-> 0,
              session |-> NoSession]
Row(tenant, name, version, at, session) ==
    [tenant |-> tenant, name |-> name, version |-> version, at |-> at,
     session |-> session]

NoCreate == [pc |-> "none", row |-> NoRow, before |-> {}]
Resting  == [pc |-> "rest", named |-> FALSE, session |-> NoSession, plan |-> NoSession,
             limit |-> 0, offset |-> 0, stayed |-> {}, owned |-> {}, seen |-> {},
             disturbed |-> FALSE, was |-> FALSE]
Off      == [pc |-> "off", todo |-> {}, taken |-> {}, failed |-> FALSE, starts |-> 0]

-----------------------------------------------------------------------------
(***************************************************************************)
(* Lists.                                                                  *)
(***************************************************************************)
Present == {i \in DOMAIN rows : rows[i] # NoRow}
Total   == Cardinality(Present)

\* ORDER BY created_at DESC: the first n rows.  Rows of the same time may come
\* in any order, another one in each query.
Newest(n) ==
    {first \in SUBSET Present :
        /\ Cardinality(first) = IF n < Total THEN n ELSE Total
        /\ \A i \in first, j \in Present \ first : rows[j].at <= rows[i].at}

\* ... LIMIT limit OFFSET offset
Pages(limit, offset) ==
    UNION {{upto \ before : before \in Newest(offset) \cap SUBSET upto} :
              upto \in Newest(offset + limit)}

Tied    == \E i, j \in Present : i # j /\ rows[i].at = rows[j].at
Rank(i) == Cardinality({j \in Present : rows[j].at >= rows[i].at})

AtMost(limit) == IF limit > MaxLimit THEN MaxLimit ELSE limit
MutantParsePagination(asked) == IF asked > 0 THEN asked ELSE DefaultLimit
ParsePagination(asked) == IF asked > 0 THEN AtMost(asked) ELSE DefaultLimit
ClampPagination(limit) == IF limit <= 0 THEN DefaultLimit ELSE AtMost(limit)

TenantMatch(itemTenant, tenant, includeGlobal) ==
    IF itemTenant = Shared THEN includeGlobal ELSE itemTenant = tenant

\* The catalog shows its shared rows too.
Shows(row) == TenantMatch(row.tenant, Reader, table = "workflows")
Shown(ids) == {i \in ids : Shows(rows[i])}

Same(tenant, name) == {i \in Present : rows[i].tenant = tenant /\ rows[i].name = name}
Versions(tenant, name) == {rows[i].version : i \in Same(tenant, name)}
MaxVersion(tenant, name) ==
    IF Versions(tenant, name) = {} THEN 0
    ELSE CHOOSE v \in Versions(tenant, name) : \A w \in Versions(tenant, name) : w <= v

\* The unique index on the catalog's name and version.
Unique(row) ==
    table = "workflows"
       => \A i \in Present : <<rows[i].name, rows[i].version>> # <<row.name, row.version>>

-----------------------------------------------------------------------------
Init ==
    /\ table \in Tables
    /\ \E tenant \in [1 .. FirstRows -> Tenants],
          session \in [1 .. FirstRows -> {NoSession} \cup AnySession] :
          /\ table # "plans" => session = [i \in 1 .. FirstRows |-> NoSession]
          /\ rows = [i \in 1 .. FirstRows |-> Row(tenant[i], Item, i, i, session[i])]
    /\ clock = FirstRows + 1
    /\ creates = [r \in Reqs |-> NoCreate]
    /\ reader = Resting
    /\ sessions = [s \in Sessions |-> "none"]
    /\ members = {}
    /\ seeds = [g \in Gateways |-> Off]

-----------------------------------------------------------------------------
(***************************************************************************)
(* Requests that create a row.  Its created_at is the gateway's time just  *)
(* before the INSERT, so rows may arrive in another order than their times *)
(* and two may have the same one.                                          *)
(***************************************************************************)
Walking == reader.pc \in {"check", "query", "next"}

\* What the rows of the walk come to when row i appears, changes or goes.
ReaderAfter(i, row) ==
    IF ~Walking THEN reader
    ELSE [reader EXCEPT !.stayed = IF Shows(row) THEN @ ELSE @ \ {i},
                        !.owned = IF Shows(row) THEN @ \cup {i} ELSE @,
                        !.disturbed = @ \/ row = NoRow]

Instants == {clock, clock - 1} \ {0}

Stamp(r, tenant, name, version, before) ==
    /\ \E at \in Instants :
          creates' = [creates EXCEPT ![r] =
             [pc |-> "insert", row |-> Row(tenant, name, version, at, NoSession),
              before |-> before]]
    /\ clock' = clock + 1

Room == clock + Cardinality({r \in Reqs : creates[r].pc = "max"}) <= MaxRows
Asks(r, t) == creates[r] = NoCreate /\ table = t /\ Room
NotCreating == UNCHANGED <<table, rows, reader, sessions, members, seeds>>

\* POST /v1/playbooks
CreatePlaybook(r) ==
    /\ Asks(r, "playbooks")
    /\ \E t \in Tenants : Stamp(r, t, Item, 1, {})
    /\ NotCreating

\* POST /v1/memory
CreateOperatorMemory(r) ==
    /\ Asks(r, "memory")
    /\ \E t \in Tenants : Stamp(r, t, Item, 1, {})
    /\ NotCreating

\* POST /v1/runbooks: a version that is not given is chosen by a query first.
CreateRunbook(r) ==
    /\ Asks(r, "runbooks")
    /\ \E t \in Tenants :
          \/ Stamp(r, t, Item, 1, {})
          \/ /\ creates' = [creates EXCEPT ![r] =
                   [pc |-> "max", row |-> Row(t, Item, 0, 0, NoSession),
                    before |-> Same(t, Item)]]
             /\ UNCHANGED clock
    /\ NotCreating

\* SELECT MAX(version), and the time of the row
MutantReadMaxVersion(r) ==
    /\ creates[r].pc = "max"
    /\ LET row == creates[r].row
       IN  Stamp(r, row.tenant, row.name, Cardinality(Versions(row.tenant, row.name)) + 1,
                 creates[r].before)
    /\ NotCreating

ReadMaxVersion(r) ==
    /\ creates[r].pc = "max"
    /\ LET row == creates[r].row
       IN  Stamp(r, row.tenant, row.name, MaxVersion(row.tenant, row.name) + 1,
                 creates[r].before)
    /\ NotCreating

\* POST /v1/workflows/{name}/version
CreateWorkflowVersion(r) ==
    /\ Asks(r, "workflows")
    /\ \E t \in Tenants, n \in Names, v \in 1 .. 2 : Stamp(r, t, n, v, {})
    /\ NotCreating

MutantInsert(r) ==
    /\ creates[r].pc = "insert"
    /\ creates' = [creates EXCEPT ![r] = NoCreate]
    /\ rows' = Append(Append(rows, creates[r].row), creates[r].row)
    /\ reader' = ReaderAfter(Len(rows) + 1, creates[r].row)
    /\ UNCHANGED <<table, clock, sessions, members, seeds>>

\* The INSERT, refused by the unique index or failing altogether.
Insert(r) ==
    /\ creates[r].pc = "insert"
    /\ creates' = [creates EXCEPT ![r] = NoCreate]
    /\ \/ /\ Unique(creates[r].row)
          /\ rows' = Append(rows, creates[r].row)
          /\ reader' = ReaderAfter(Len(rows) + 1, creates[r].row)
       \/ UNCHANGED <<rows, reader>>
    /\ UNCHANGED <<table, clock, sessions, members, seeds>>

-----------------------------------------------------------------------------
(***************************************************************************)
(* Requests that change or delete a row: one statement each.               *)
(***************************************************************************)
Put(i, row) ==
    /\ rows' = [rows EXCEPT ![i] = row]
    /\ reader' = ReaderAfter(i, row)
    /\ UNCHANGED <<table, clock, creates, sessions, members, seeds>>

\* PUT /v1/memory/{id}: the tenant is the request's
UpdateOperatorMemory(i) ==
    /\ table = "memory" /\ i \in Present
    /\ \E t \in Tenants : Put(i, [rows[i] EXCEPT !.tenant = t])

DeleteOperatorMemory(i) == table = "memory" /\ i \in Present /\ Put(i, NoRow)
DeletePlaybook(i)       == table = "playbooks" /\ i \in Present /\ Put(i, NoRow)
DeleteRunbook(i)        == table = "runbooks" /\ i \in Present /\ Put(i, NoRow)
DeletePlan(i)           == table = "plans" /\ i \in Present /\ Put(i, NoRow)

-----------------------------------------------------------------------------
(***************************************************************************)
(* Sessions.                                                               *)
(***************************************************************************)
NotSessions == UNCHANGED <<table, rows, clock, creates, seeds>>

CreateSession(s) ==
    /\ sessions[s] = "none"
    /\ sessions' = [sessions EXCEPT ![s] = "live"]
    /\ UNCHANGED <<members, reader>>
    /\ NotSessions

\* The members' rows go with the session's (ON DELETE CASCADE).
MutantCascade(s) == members
Cascade(s) == members \ {s}

DeleteSession(s) ==
    /\ sessions[s] = "live"
    /\ sessions' = [sessions EXCEPT ![s] = "gone"]
    /\ members' = Cascade(s)
    /\ UNCHANGED reader
    /\ NotSessions

\* The INSERT of a member, refused by the foreign key where there is no session
AddSessionMember(s) ==
    /\ sessions[s] = "live"
    /\ members' = members \cup {s}
    /\ reader' = IF reader.pc \in {"check", "query", "planCheck"} /\ reader.session = s
                 THEN [reader EXCEPT !.was = TRUE] ELSE reader
    /\ UNCHANGED sessions
    /\ NotSessions

IsSessionMember(s) == s \in members

\* requireSession: a request without a named actor needs only to name a session
RequireSession == SessionRequired /\ reader.named => IsSessionMember(reader.session)

\* enforceSessionMatch: the session a plan belongs to is the one named
EnforceSessionMatch == reader.plan \in {NoSession, reader.session}

-----------------------------------------------------------------------------
(***************************************************************************)
(* The reader: pages of a list until it has gone past the total of the     *)
(* last answer, in steps of the limit of that answer; or one plan.         *)
(***************************************************************************)
ReaderOnly == UNCHANGED <<table, rows, clock, creates, sessions, members, seeds>>
InSession(s) == s \in members /\ sessions[s] = "live"

\* Bound: a walk does not overlap with the start of a gateway, which only
\* inserts rows as other requests do.
NoneStarting == \A g \in Gateways : seeds[g].pc # "seed"

\* A list by a named actor; other readers are tried on plans.
BeginList ==
    /\ reader = Resting /\ NoneStarting
    /\ \E s \in Sessions, limit \in Limits :
          /\ table = "memory" => limit = 0
          /\ reader' = [Resting EXCEPT !.pc = "check", !.named = TRUE, !.session = s,
                                       !.limit = limit, !.stayed = Shown(Present),
                                       !.owned = Shown(Present), !.was = InSession(s)]
    /\ ReaderOnly

\* The plan is read before the session is checked.
BeginPlan ==
    /\ reader = Resting /\ table = "plans"
    /\ \E i \in Present, s \in AnySession, named \in BOOLEAN :
          reader' = [Resting EXCEPT !.pc = "planCheck", !.named = named, !.session = s,
                                    !.plan = rows[i].session, !.was = InSession(s)]
    /\ ReaderOnly

NextPage ==
    /\ reader.pc = "next"
    /\ reader' = [reader EXCEPT !.pc = "check", !.was = InSession(reader.session)]
    /\ ReaderOnly

\* policyCheckTenantRead
CheckSession ==
    /\ reader.pc = "check"
    /\ reader' = IF RequireSession THEN [reader EXCEPT !.pc = "query"] ELSE Resting
    /\ ReaderOnly

\* policyCheckReadPlan
CheckPlanSession ==
    /\ reader.pc = "planCheck"
    /\ reader' = IF RequireSession /\ EnforceSessionMatch
                 THEN [reader EXCEPT !.pc = "planShown"] ELSE Resting
    /\ ReaderOnly

\* The list handlers of plans, playbooks, runbooks and workflows
QueryPage ==
    /\ reader.pc = "query" /\ table # "memory"
    /\ LET limit == ParsePagination(reader.limit)
           after == reader.offset + limit
       IN  \E page \in Pages(ClampPagination(limit), reader.offset) :
              reader' = [reader EXCEPT
                 !.seen = @ \cup Shown(page), !.disturbed = @ \/ Tied,
                 !.offset = after, !.pc = IF after < Total THEN "next" ELSE "done"]
    /\ ReaderOnly

\* The list of operator memory has no pages and selects by tenant.
QueryMemory ==
    /\ reader.pc = "query" /\ table = "memory"
    /\ reader' = [reader EXCEPT !.seen = {i \in Present : rows[i].tenant = Reader},
                                !.pc = "done"]
    /\ ReaderOnly

Rest == reader.pc \in {"done", "planShown"} /\ reader' = Resting /\ ReaderOnly

-----------------------------------------------------------------------------
(***************************************************************************)
(* seedWorkflowCatalog, at the start of a gateway.                         *)
(***************************************************************************)
NotSeeding == UNCHANGED <<table, creates, reader, sessions, members>>

NamesOf(ids) == {rows[i].name : i \in ids}
SharedAmong(ids) == {i \in ids : rows[i].tenant = Shared}
Started(g, pc, todo, taken, failed) ==
    seeds' = [seeds EXCEPT ![g] = [pc |-> pc, todo |-> todo, taken |-> taken,
                                   failed |-> failed, starts |-> @.starts + 1]]

\* The names on the list are left alone, whoever's rows they are: taken are
\* the ones that only tenants have.  A list that fails ends the seeding.
SeedList(g) ==
    /\ table = "workflows" /\ seeds[g].pc = "off" /\ seeds[g].starts < MaxStarts
    /\ reader = Resting  \* see NoneStarting
    /\ \/ \E page \in Pages(MaxLimit, 0) :
             Started(g, "seed", Names \ NamesOf(page),
                     Names \cap (NamesOf(page) \ NamesOf(SharedAmong(page))), FALSE)
       \/ Started(g, "done", {}, {}, TRUE)
    /\ UNCHANGED <<rows, clock>>
    /\ NotSeeding

\* The remaining names after an INSERT: a failed one is logged and passed over.
MutantTodoAfter(todo, n, inserted) == IF inserted THEN todo \ {n} ELSE {}
TodoAfter(todo, n, inserted) == todo \ {n}

\* The name is taken where the row in the way is a tenant's.
TakenAfter(taken, row) ==
    IF \E i \in Present : /\ rows[i].tenant # Shared
                          /\ <<rows[i].name, rows[i].version>> = <<row.name, row.version>>
    THEN taken \cup {row.name} ELSE taken

SeedInsert(g) ==
    /\ seeds[g].pc = "seed"
    /\ \E n \in seeds[g].todo, at \in Instants :
          LET row == Row(Shared, n, 1, at, NoSession)
          IN  \/ /\ Unique(row) /\ Room
                 /\ rows' = Append(rows, row) /\ clock' = clock + 1
                 /\ seeds' = [seeds EXCEPT ![g].todo = TodoAfter(@, n, TRUE)]
              \/ /\ ~Unique(row)
                 /\ seeds' = [seeds EXCEPT ![g].todo = TodoAfter(@, n, FALSE),
                                           ![g].taken = TakenAfter(@, row)]
                 /\ UNCHANGED <<rows, clock>>
              \/ /\ seeds' = [seeds EXCEPT ![g].todo = TodoAfter(@, n, FALSE),
                                           ![g].failed = TRUE]
                 /\ UNCHANGED <<rows, clock>>
    /\ NotSeeding

SeedEnds(g) ==
    /\ seeds[g].pc = "seed" /\ seeds[g].todo = {}
    /\ seeds' = [seeds EXCEPT ![g].pc = "done"]
    /\ UNCHANGED <<rows, clock>>
    /\ NotSeeding

Crash(g) ==
    /\ seeds[g].pc = "seed"
    /\ seeds' = [seeds EXCEPT ![g] = [Off EXCEPT !.starts = seeds[g].starts]]
    /\ UNCHANGED <<rows, clock>>
    /\ NotSeeding

-----------------------------------------------------------------------------
Next ==
    \/ \E r \in Reqs : \/ CreatePlaybook(r) \/ CreateOperatorMemory(r) \/ CreateRunbook(r)
                       \/ ReadMaxVersion(r) \/ CreateWorkflowVersion(r) \/ Insert(r)
    \/ \E i \in DOMAIN rows : \/ UpdateOperatorMemory(i) \/ DeleteOperatorMemory(i)
                              \/ DeletePlaybook(i) \/ DeleteRunbook(i) \/ DeletePlan(i)
    \/ \E s \in Sessions : CreateSession(s) \/ DeleteSession(s) \/ AddSessionMember(s)
    \/ BeginList \/ BeginPlan \/ NextPage \/ CheckSession \/ CheckPlanSession
    \/ QueryPage \/ QueryMemory \/ Rest
    \/ \E g \in Gateways : SeedList(g) \/ SeedInsert(g) \/ SeedEnds(g) \/ Crash(g)

Spec == Init /\ [][Next]_vars

-----------------------------------------------------------------------------
(***************************************************************************)
(* Properties                                                              *)
(***************************************************************************)
Rows == [tenant : Tenants \cup {Shared}, name : Names \cup {Item}, version : Nat,
         at : Nat, session : AnySession \cup {NoSession}]
Creates == [pc : {"none", "max", "insert"}, row : Rows, before : SUBSET Nat]
Readers == [pc : {"rest", "check", "query", "next", "done", "planCheck", "planShown"},
            named : BOOLEAN, session : AnySession \cup {NoSession},
            plan : AnySession \cup {NoSession}, limit : Nat, offset : Nat,
            stayed : SUBSET Nat, owned : SUBSET Nat, seen : SUBSET Nat,
            disturbed : BOOLEAN, was : BOOLEAN]
Seeds == [pc : {"off", "seed", "done"}, todo : SUBSET Names, taken : SUBSET Names,
          failed : BOOLEAN, starts : Nat]

\* Types; the page walk names rows only.
TypeOK ==
    /\ table \in Tables /\ rows \in Seq(Rows) /\ clock \in Nat \ {0}
    /\ creates \in [Reqs -> Creates] /\ reader \in Readers
    /\ reader.stayed \cup reader.seen \cup reader.owned \subseteq DOMAIN rows
    /\ sessions \in [Sessions -> {"none", "live", "gone"}] /\ members \subseteq Sessions
    /\ seeds \in [Gateways -> Seeds]

\* Times are past, and versions do not run away.
RowsBounded ==
    /\ \A i \in Present : rows[i].at \in 1 .. clock - 1 /\ rows[i].version <= clock + 1
    /\ \A r \in Reqs : creates[r].pc = "insert"
          => creates[r].row.at \in 1 .. clock - 1 /\ creates[r].row.version <= clock + 1

\* A reader who follows the pages to the end has seen every row of its tenant
\* that was there all the time, and none that never was its tenant's: though
\* rows are inserted between the pages, in another order than their times,
\* the filter makes pages short, the total counts every tenant's rows, and
\* the limit is cut twice.  A deletion between two pages shifts the later
\* rows over the page's edge, and rows of the same time come in any order:
\* of a walk with a deletion, or with a page over such rows, nothing more is
\* claimed than that it shows no other tenant's rows.
SeesAll ==
    reader.pc = "done"
       => /\ reader.seen \subseteq reader.owned
          /\ ~reader.disturbed => reader.stayed \subseteq reader.seen

\* A walk has seen those of the rows that stayed whose place it has passed.
WalkGood ==
    LET w == reader IN
    /\ w.pc \in {"check", "query", "next", "done"} => NoneStarting
    /\ w.seen \subseteq w.owned
    /\ Walking => /\ w.stayed \subseteq Shown(Present) /\ Shown(Present) \subseteq w.owned
                  /\ ~w.disturbed => \A i \in w.stayed : Rank(i) <= w.offset => i \in w.seen
    /\ w.pc = "done" /\ ~w.disturbed => w.stayed \subseteq w.seen

\* A walk is exact, and on its way there.
WalkExact == SeesAll /\ WalkGood

\* A page of a list or a plan is shown to a named actor only if, while the
\* request was under way, the session it named was there and the actor was a
\* member of it.  A single plan with a session is shown only to requests that
\* name that session; the list of plans shows the tenant's plans of every
\* session.  The check is a statement of its own, before or after the ones
\* that read.
OnlyMembers ==
    /\ reader.pc \in {"next", "done", "planShown"} /\ SessionRequired /\ reader.named
          => reader.was
    /\ reader.pc = "planShown" => reader.plan \in {NoSession, reader.session}

\* A member's session is live, and a check that passes has seen one.
SessionsGood ==
    LET w == reader IN
    /\ \A s \in members : sessions[s] = "live"
    /\ w.pc \in {"check", "query", "planCheck"} /\ InSession(w.session) => w.was
    /\ w.pc \in {"query", "next", "done", "planShown"} => (SessionRequired /\ w.named => w.was)
    /\ w.pc # "planCheck" => w.plan \in {NoSession, w.session}

\* Only members are shown anything, by a check of what is really there.
SessionAccess == OnlyMembers /\ SessionsGood

\* The rows that were there when a request for a runbook began are still of its
\* tenant and name, or gone; a version that was chosen is above theirs.
VersionsGood ==
    \A r \in Reqs :
       LET c == creates[r]
           there == c.before \cap Present
       IN  /\ c.before \subseteq DOMAIN rows
           /\ c.pc = "max" => table = "runbooks" /\ there \subseteq Same(c.row.tenant, c.row.name)
           /\ c.pc = "insert" => \A i \in there : c.row.version > rows[i].version

\* A runbook that comes without a version gets one above every version that
\* was there when its request began and still is when its row is inserted, so
\* that no older text passes for the newest; two requests at a time may get
\* the same version.
VersionsGrow ==
    [][\A r \in Reqs : creates[r] # NoCreate /\ creates'[r] = NoCreate
          /\ Len(rows') > Len(rows)
             => \A i \in creates[r].before \cap Present :
                   rows'[Len(rows')].version > rows[i].version]_vars

\* A built-in workflow is in the catalog for every tenant, unless its name is taken:
\* then some row has it.
InCatalog(n, taken) ==
    \E i \in Present : rows[i].name = n /\ (n \notin taken => rows[i].tenant = Shared)

UniqueVersions ==
    \A i, j \in Present :
       rows[i].name = rows[j].name /\ rows[i].version = rows[j].version => i = j

\* When a gateway is through with the catalog, and neither its list nor an INSERT
\* failed but by the unique index, every built-in workflow is in it as a shared
\* row that all tenants see, once per version, whatever other gateways, crashed
\* or starting, have inserted.  The exception are names that the gateway found
\* taken by a tenant's own row, on the list it read or at the index: the
\* built-in is then left out, and other tenants go without.
CatalogComplete ==
    table = "workflows"
       => /\ UniqueVersions
          /\ \A g \in Gateways : seeds[g].pc = "done" /\ ~seeds[g].failed
                => \A n \in Names : InCatalog(n, seeds[g].taken)

\* A gateway has seen or inserted the names it has no more to do for, or its list
\* or an INSERT of its failed.
CatalogGood ==
    table = "workflows"
       => /\ UniqueVersions
          /\ \A g \in Gateways :
                /\ seeds[g].pc # "off" /\ ~seeds[g].failed
                      => \A n \in Names \ seeds[g].todo : InCatalog(n, seeds[g].taken)
                /\ seeds[g].pc = "done" => seeds[g].todo = {}

\* The types and the catalog.
RecordsInv == TypeOK /\ CatalogGood /\ CatalogComplete

IInv == TypeOK /\ RowsBounded /\ VersionsGood /\ WalkGood /\ SessionsGood /\ CatalogGood
=============================================================================
