------------------------------ MODULE KeyCache ------------------------------
(***************************************************************************)
(* The cache of signing keys (internal/auth/jwks_cache.go) behind          *)
(* VerifyJWTSignature: requests that read it and fetch inline when it has  *)
(* expired, the background loop that refreshes it, and the identity        *)
(* provider, which may rotate its keys and fail to answer.                 *)
(*                                                                         *)
(* Times are relative, so that behaviours need no last moment: an entry    *)
(* and a fetch carry their age, a timer what is left of it, and keys how   *)
(* long ago the provider replaced them (0: they are the current ones,      *)
(* k > 0: replaced k - 1 ticks ago).  Ages beyond which nothing changes    *)
(* are not told apart.                                                     *)
(***************************************************************************)
EXTENDS Naturals, FiniteSets

CONSTANTS Requests,    \* the requests being authenticated at one time
          Loops,       \* the refresh loops that could run at one time
          Ttl,         \* c.ttl
          Short,       \* ten seconds: below it a refresh comes at half the ttl
          FetchTime,   \* the time-out of client and of a refresh
          MaxBackoff   \* five minutes

ASSUME KeyCacheAssumption ==
    /\ Ttl \in Nat \ {0} /\ Short \in Nat /\ FetchTime \in Nat
    /\ MaxBackoff \in Nat \ {0}

VARIABLES entry,     \* c.entries[url], or NoEntry
          req,       \* what each request is doing
          loop,      \* what each refresh loop is doing
          provider   \* "reliable": it never failed, "flaky", or "settled" for good

vars == <<entry, req, loop, provider>>

OldKeys == Ttl + FetchTime + 2
Keys == 0 .. OldKeys

\* A request or a loop: where it is, the age of its fetch or what is left of
\* its timer, and the keys it got.
Proc(pc, t, keys) == [pc |-> pc, t |-> t, keys |-> keys]
Idle == Proc("idle", 0, 0)
NoLoop == Proc("none", 0, 0)
AtTop == Proc("top", 0, 0)
NewFetch == Proc("ask", 0, 0)
Fetching(p) == p.pc \in {"ask", "got", "refused"}
Timing(p) == p.pc \in {"sleep", "backoff"}

NoEntry == [exists |-> FALSE, keys |-> 0, age |-> 0, refreshing |-> FALSE, backoff |-> 1]

(***************************************************************************)
(* Type correctness; a fetch is never older than its time-out.             *)
(***************************************************************************)
TypeOK ==
    /\ entry \in [exists : BOOLEAN, keys : Keys, age : 0 .. Ttl,
                  refreshing : BOOLEAN, backoff : 1 .. MaxBackoff]
    /\ req \in [Requests -> [pc : {"idle", "ask", "got", "refused"},
                             t : 0 .. FetchTime, keys : Keys]]
    /\ loop \in [Loops -> [pc : {"none", "top", "sleep", "ask", "got", "refused", "backoff"},
                           t : Nat, keys : Keys]]
    /\ \A l \in Loops : loop[l].t <= (IF Fetching(loop[l]) THEN FetchTime
                                      ELSE IF loop[l].pc = "backoff" THEN MaxBackoff ELSE Ttl)
    /\ provider \in {"reliable", "flaky", "settled"}

Init ==
    /\ entry = NoEntry
    /\ req = [r \in Requests |-> Idle]
    /\ loop = [l \in Loops |-> NoLoop]
    /\ provider = "reliable"

Hit == entry.exists /\ entry.age < Ttl

RefreshAfter ==
    IF (Ttl * 9) \div 10 < Short THEN Ttl \div 2 ELSE (Ttl * 9) \div 10

-----------------------------------------------------------------------------
(* Get: now is read before the keys are asked for, and is what the entry   *)
(* remembers; a request that finds fresh keys changes nothing.             *)

GetMisses(r) ==
    /\ req[r].pc = "idle"
    /\ ~Hit
    /\ req' = [req EXCEPT ![r] = NewFetch]
    /\ UNCHANGED <<entry, loop, provider>>

GetFails(r) ==
    /\ req[r].pc = "refused"
    /\ req' = [req EXCEPT ![r] = Idle]
    /\ UNCHANGED <<entry, loop, provider>>

GetEntry(f) ==
    [exists |-> TRUE, keys |-> f.keys,
     age |-> IF f.t < Ttl THEN f.t ELSE Ttl, refreshing |-> TRUE,
     backoff |-> IF entry.exists THEN entry.backoff ELSE 1]

MutantStartsLoop == TRUE
StartsLoop == ~(entry.exists /\ entry.refreshing)

GetStores(r) ==
    /\ req[r].pc = "got"
    /\ entry' = GetEntry(req[r])
    /\ req' = [req EXCEPT ![r] = Idle]
    /\ IF StartsLoop
         THEN \E l \in Loops :
                /\ loop[l] = NoLoop
                /\ loop' = [loop EXCEPT ![l] = AtTop]
         ELSE loop' = loop
    /\ UNCHANGED provider

-----------------------------------------------------------------------------
(* refreshLoop.                                                            *)

Delay == IF RefreshAfter > entry.age THEN RefreshAfter - entry.age ELSE 0

MutantLoopSleeps(l) ==
    /\ loop[l].pc = "top"
    /\ loop' = [loop EXCEPT ![l] = Proc("sleep", Ttl, 0)]
    /\ UNCHANGED <<entry, req, provider>>

LoopSleeps(l) ==
    /\ loop[l].pc = "top"
    /\ loop' = [loop EXCEPT ![l] = Proc("sleep", Delay, 0)]
    /\ UNCHANGED <<entry, req, provider>>

LoopFetches(l) ==
    /\ loop[l].pc = "sleep" /\ loop[l].t = 0
    /\ loop' = [loop EXCEPT ![l] = NewFetch]
    /\ UNCHANGED <<entry, req, provider>>

\* Unlike Get, the loop reads the clock after the fetch.
LoopStores(l) ==
    /\ loop[l].pc = "got"
    /\ entry' = [entry EXCEPT !.keys = loop[l].keys, !.age = 0, !.backoff = 1]
    /\ loop' = [loop EXCEPT ![l] = AtTop]
    /\ UNCHANGED <<req, provider>>

MutantLoopFails(l) ==
    /\ loop[l].pc = "refused"
    /\ loop' = [loop EXCEPT ![l] = Proc("backoff", entry.backoff, 0)]
    /\ entry' = [entry EXCEPT !.age = 0]
    /\ UNCHANGED <<req, provider>>

LoopFails(l) ==
    /\ loop[l].pc = "refused"
    /\ loop' = [loop EXCEPT ![l] = Proc("backoff", entry.backoff, 0)]
    /\ UNCHANGED <<entry, req, provider>>

MutantDoubled(b) == 2 * b
Doubled(b) == IF 2 * b > MaxBackoff THEN MaxBackoff ELSE 2 * b

MutantLoopBackedOff(l) ==
    /\ loop[l].pc = "backoff" /\ loop[l].t = 0
    /\ loop' = [loop EXCEPT ![l] = NoLoop]
    /\ UNCHANGED <<entry, req, provider>>

LoopBackedOff(l) ==
    /\ loop[l].pc = "backoff" /\ loop[l].t = 0
    /\ loop' = [loop EXCEPT ![l] = AtTop]
    /\ entry' = [entry EXCEPT !.backoff = Doubled(entry.backoff)]
    /\ UNCHANGED <<req, provider>>

-----------------------------------------------------------------------------
(* The provider answers a fetch with the keys of that moment, or not.      *)

Answered(f) ==
    {Proc("got", f.t, 0)}
      \union (IF provider = "flaky" THEN {Proc("refused", f.t, 0)} ELSE {})

AnswerRequest(r) ==
    /\ req[r].pc = "ask"
    /\ \E f \in Answered(req[r]) : req' = [req EXCEPT ![r] = f]
    /\ UNCHANGED <<entry, loop, provider>>

AnswerLoop(l) ==
    /\ loop[l].pc = "ask"
    /\ \E f \in Answered(loop[l]) : loop' = [loop EXCEPT ![l] = f]
    /\ UNCHANGED <<entry, req, provider>>

Replaced(p) == IF p.pc = "got" /\ p.keys = 0 THEN Proc("got", p.t, 1) ELSE p

Rotate ==
    /\ provider # "settled"
    /\ entry' = IF entry.exists /\ entry.keys = 0 THEN [entry EXCEPT !.keys = 1] ELSE entry
    /\ req' = [r \in Requests |-> Replaced(req[r])]
    /\ loop' = [l \in Loops |-> Replaced(loop[l])]
    /\ UNCHANGED provider

ProviderTurnsFlaky ==
    /\ provider = "reliable" /\ provider' = "flaky"
    /\ UNCHANGED <<entry, req, loop>>

ProviderSettles ==
    /\ provider = "flaky" /\ provider' = "settled"
    /\ UNCHANGED <<entry, req, loop>>

-----------------------------------------------------------------------------
(* Time: a fetch ends within FetchTime, and a timer that has run out is    *)
(* served before more time passes.                                         *)

Older(k) == IF k > 0 /\ k < OldKeys THEN k + 1 ELSE k

MayWait(p) ==
    /\ p.pc # "top"
    /\ Fetching(p) => p.t < FetchTime
    /\ Timing(p) => p.t > 0

Aged(p) ==
    CASE Fetching(p) -> Proc(p.pc, p.t + 1, Older(p.keys))
      [] Timing(p) -> Proc(p.pc, p.t - 1, 0)
      [] OTHER -> p

Tick ==
    /\ \A r \in Requests : MayWait(req[r])
    /\ \A l \in Loops : MayWait(loop[l])
    /\ req' = [r \in Requests |-> Aged(req[r])]
    /\ loop' = [l \in Loops |-> Aged(loop[l])]
    /\ entry' = IF entry.exists
                  THEN [entry EXCEPT !.keys = Older(@),
                                     !.age = IF @ < Ttl THEN @ + 1 ELSE Ttl]
                  ELSE entry
    /\ UNCHANGED provider

GetStep(r) == GetMisses(r) \/ GetFails(r) \/ GetStores(r) \/ AnswerRequest(r)

LoopStep(l) ==
    \/ LoopSleeps(l) \/ LoopFetches(l) \/ LoopStores(l) \/ LoopFails(l)
    \/ LoopBackedOff(l) \/ AnswerLoop(l)

Next ==
    \/ \E r \in Requests : GetStep(r)
    \/ \E l \in Loops : LoopStep(l)
    \/ Rotate \/ ProviderTurnsFlaky \/ ProviderSettles \/ Tick

Spec == Init /\ [][Next]_vars

(***************************************************************************)
(* Time passes, fetches end, and the loop's goroutine is scheduled; no     *)
(* request need ever come, and the provider need neither fail nor settle.  *)
(***************************************************************************)
Fairness ==
    /\ WF_vars(Tick)
    /\ \A r \in Requests : WF_vars(GetFails(r) \/ GetStores(r) \/ AnswerRequest(r))
    /\ \A l \in Loops : WF_vars(LoopStep(l))

FairSpec == Spec /\ Fairness

-----------------------------------------------------------------------------
(***************************************************************************)
(* Keys the provider replaced are trusted for at most a ttl and the time   *)
(* of one fetch, although an inline fetch that started earlier may         *)
(* overwrite the keys of a later one (jwks_cache.go:88) and the loop       *)
(* dates its keys by the end of its fetch (jwks_cache.go:151).             *)
(***************************************************************************)
KeysFresh == Hit => entry.keys <= Ttl + FetchTime

(***************************************************************************)
(* However many requests find the cache empty at once, one loop refreshes  *)
(* it: the refreshing flag is tested and set under the lock.               *)
(***************************************************************************)
OneLoop == \A k, l \in Loops : loop[k] # NoLoop /\ loop[l] # NoLoop => k = l

TtlIsLong == RefreshAfter + 2 * FetchTime < Ttl

(***************************************************************************)
(* While the provider has never failed, no request after the first waits   *)
(* for it: the loop replaces the keys before they expire, also when a      *)
(* late inline fetch has made them look older than the loop's timer was    *)
(* set for.  This needs a ttl of more than twenty fetch time-outs (200 s;  *)
(* the default is an hour).                                                *)
(***************************************************************************)
StaysWarm == TtlIsLong /\ provider = "reliable" /\ entry.exists => Hit

(***************************************************************************)
(* The inductive invariant behind these.  Keys that a fetch brings were    *)
(* current after it began; the entry dates them by the beginning of a      *)
(* fetch (Get) or by its end (the loop).                                   *)
(***************************************************************************)
FetchGood(f) == IF f.pc = "got" THEN f.keys <= f.t + 1 ELSE f.keys = 0
KeysGood ==
    /\ \A r \in Requests : FetchGood(req[r])
    /\ \A l \in Loops : FetchGood(loop[l])
    /\ entry.age < Ttl => entry.keys <= entry.age + FetchTime + 1

\* The entry is there as long as its loop, and says so.
LoopGood ==
    /\ \A k, l \in Loops : loop[k].pc # "none" /\ loop[l].pc # "none" => k = l
    /\ \A l \in Loops : loop[l].pc = "none" => loop[l] = NoLoop
    /\ entry.exists => entry.refreshing /\ \E l \in Loops : loop[l].pc # "none"
    /\ ~entry.exists => \A l \in Loops : loop[l] = NoLoop

\* How old the entry may be when the loop gets to the provider: a late inline
\* fetch adds one time-out to what the loop's timer was set for.
WarmGood(p) ==
    /\ p.pc \notin {"refused", "backoff"}
    /\ p.pc = "top" => entry.age <= FetchTime
    /\ p.pc = "sleep" => p.t <= RefreshAfter /\ entry.age + p.t <= RefreshAfter + FetchTime
    /\ Fetching(p) => entry.age <= RefreshAfter + FetchTime + p.t

IInv == /\ TypeOK /\ KeysGood /\ LoopGood
        /\ TtlIsLong /\ provider = "reliable" => \A l \in Loops : WarmGood(loop[l])

(***************************************************************************)
(* The types, one loop, a warm cache, and the timing they rest on: what    *)
(* requests may rely on.                                                   *)
(***************************************************************************)
CacheInv == IInv /\ OneLoop /\ StaysWarm

(***************************************************************************)
(* After failures of whatever length, the cache ends up holding the        *)
(* provider's keys for good: the backoff is bounded and the loop survives. *)
(***************************************************************************)
RotationArrives ==
    <>(provider = "settled") => <>[](entry.exists => Hit /\ entry.keys = 0)
=============================================================================
