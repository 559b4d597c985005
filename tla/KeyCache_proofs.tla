--------------------------- MODULE KeyCache_proofs ---------------------------
(***************************************************************************)
(* Proofs about KeyCache: for any number of requests at one time and any   *)
(* ttl, time-out and backoff.                                              *)
(***************************************************************************)
EXTENDS KeyCache, TLAPS

USE KeyCacheAssumption

Entry == [exists : BOOLEAN, keys : Keys, age : 0 .. Ttl,
          refreshing : BOOLEAN, backoff : 1 .. MaxBackoff]
Request == [pc : {"idle", "ask", "got", "refused"}, t : 0 .. FetchTime, keys : Keys]
Loop == [pc : {"none", "top", "sleep", "ask", "got", "refused", "backoff"},
         t : Nat, keys : Keys]

\* How long a loop stays where it is.
Limit(p) == IF Fetching(p) THEN FetchTime
            ELSE IF p.pc = "backoff" THEN MaxBackoff ELSE Ttl

\* The type invariant, in these terms.
LEMMA Types ==
    TypeOK <=> /\ entry \in Entry /\ req \in [Requests -> Request]
               /\ loop \in [Loops -> Loop]
               /\ \A l \in Loops : loop[l].t <= Limit(loop[l])
               /\ provider \in {"reliable", "flaky", "settled"}
BY DEF TypeOK, Entry, Request, Loop, Limit

\* The refresh comes within the ttl.
LEMMA RefreshWithin == RefreshAfter \in 0 .. Ttl
<1>1. Ttl \div 2 \in 0 .. Ttl
  OBVIOUS
<1>2. (Ttl * 9) \div 10 \in 0 .. Ttl
  OBVIOUS
<1>3. QED
  BY <1>1, <1>2 DEF RefreshAfter

\* The processes that are built by Proc.
LEMMA Procs ==
    /\ \A pc, t, keys : /\ Proc(pc, t, keys).pc = pc /\ Proc(pc, t, keys).t = t
                        /\ Proc(pc, t, keys).keys = keys
    /\ {0, 1} \subseteq Keys /\ OldKeys \in Nat
    /\ Idle \in Request /\ NewFetch \in Request /\ NewFetch \in Loop
    /\ NoLoop \in Loop /\ AtTop \in Loop
    /\ \A pc \in {"idle", "ask", "got", "refused"}, t \in 0 .. FetchTime, keys \in Keys :
         Proc(pc, t, keys) \in Request
    /\ \A pc \in {"none", "top", "sleep", "ask", "got", "refused", "backoff"}, t \in Nat,
          keys \in Keys : Proc(pc, t, keys) \in Loop
BY DEF Proc, Keys, OldKeys, Idle, NewFetch, NoLoop, AtTop, Request, Loop

LEMMA AtTopGood ==
    /\ AtTop.pc = "top" /\ AtTop.t = 0 /\ AtTop.keys = 0 /\ AtTop \in Loop
    /\ AtTop.t <= Limit(AtTop) /\ FetchGood(AtTop)
<1>1. AtTop.pc = "top" /\ AtTop.t = 0 /\ AtTop.keys = 0
  BY DEF AtTop, Proc
<1>2. QED
  BY <1>1, Procs DEF Limit, Fetching, FetchGood

LEMMA InitIInv == Init => IInv
<1> SUFFICES ASSUME Init PROVE IInv
  OBVIOUS
<1>1. TypeOK
  <2>1. NoEntry \in Entry
    BY Procs DEF NoEntry, Entry
  <2>2. NoLoop.t <= Limit(NoLoop)
    BY DEF NoLoop, Proc, Limit, Fetching
  <2>3. QED
    BY <2>1, <2>2, Types, Procs DEF Init
<1>2. KeysGood
  BY DEF Init, KeysGood, FetchGood, Idle, NoLoop, Proc, NoEntry
<1>3. LoopGood
  BY DEF Init, LoopGood, NoLoop, Proc, NoEntry
<1>4. \A l \in Loops : WarmGood(loop[l])
  BY DEF Init, WarmGood, NoLoop, Proc, Fetching
<1>5. QED
  BY <1>1, <1>2, <1>3, <1>4 DEF IInv

(***************************************************************************)
(* Steps of one request that leave the entry and the loop alone            *)
(***************************************************************************)
LEMMA RequestIInv ==
    ASSUME IInv, NEW r \in Requests, NEW f \in Request, FetchGood(f),
           req' = [req EXCEPT ![r] = f], UNCHANGED <<entry, loop, provider>>
    PROVE  IInv'
<1>1. TypeOK'
  BY Types DEF IInv, TypeOK, Request
<1>2. KeysGood'
  BY Types DEF IInv, KeysGood, FetchGood
<1>3. QED
  BY <1>1, <1>2 DEF IInv, LoopGood, WarmGood, TtlIsLong

LEMMA GetIInv ==
    ASSUME IInv, NEW r \in Requests, GetMisses(r) \/ GetFails(r) \/ AnswerRequest(r)
    PROVE  IInv'
<1>1. req[r] \in Request
  BY Types DEF IInv
<1>2. CASE GetMisses(r)
  <2>1. FetchGood(NewFetch)
    BY DEF FetchGood, NewFetch, Proc
  <2>2. QED
    BY <1>2, <2>1, Procs, RequestIInv DEF GetMisses
<1>3. CASE GetFails(r)
  <2>1. FetchGood(Idle)
    BY DEF FetchGood, Idle, Proc
  <2>2. QED
    BY <1>3, <2>1, Procs, RequestIInv DEF GetFails
<1>4. CASE AnswerRequest(r)
  <2>1. PICK f \in Answered(req[r]) : req' = [req EXCEPT ![r] = f]
    BY <1>4 DEF AnswerRequest
  <2>2. f = Proc("got", req[r].t, 0) \/ f = Proc("refused", req[r].t, 0)
    BY <2>1 DEF Answered
  <2>3. req[r].t \in 0 .. FetchTime
    BY <1>1 DEF Request
  <2>4. f \in Request /\ f.keys = 0
    BY <2>2, <2>3, Procs
  <2>5. FetchGood(f)
    <3>1. f.t = req[r].t
      BY <2>2, Procs
    <3>2. QED
      BY <2>3, <2>4, <3>1 DEF FetchGood
  <2>6. QED
    BY <1>4, <2>1, <2>4, <2>5, RequestIInv DEF AnswerRequest
<1>5. QED
  BY <1>2, <1>3, <1>4

(***************************************************************************)
(* Steps of the loop                                                       *)
(***************************************************************************)
\* A loop that moves on, with an entry whose keys are dated correctly.
LEMMA OneLoopIInv ==
    ASSUME IInv, NEW l \in Loops, NEW p \in Loop, loop[l].pc # "none", p.pc # "none",
           p.t <= Limit(p), FetchGood(p),
           loop' = [loop EXCEPT ![l] = p],
           entry' \in Entry, entry'.exists = entry.exists,
           entry'.refreshing = entry.refreshing,
           entry'.age < Ttl => entry'.keys <= entry'.age + FetchTime + 1,
           TtlIsLong /\ provider = "reliable" => WarmGood(loop[l])',
           UNCHANGED <<req, provider>>
    PROVE  IInv'
<1>1. loop \in [Loops -> Loop]
  BY Types DEF IInv
<1>2. loop'[l] = p /\ \A k \in Loops \ {l} : loop'[k] = loop[k]
  BY <1>1
<1>3. \A k \in Loops \ {l} : loop[k].pc = "none" /\ loop[k] = NoLoop
  BY DEF IInv, LoopGood
<1>4. TypeOK'
  <2>1. \A k \in Loops : loop'[k].t <= Limit(loop'[k])
    BY <1>2, Types DEF IInv
  <2>2. /\ entry' \in Entry /\ req' \in [Requests -> Request]
        /\ loop' \in [Loops -> Loop] /\ provider' \in {"reliable", "flaky", "settled"}
    BY <1>1, Types DEF IInv
  <2>3. QED
    BY <2>1, <2>2 DEF TypeOK, Entry, Request, Loop, Limit
<1>5. KeysGood'
  BY <1>2 DEF IInv, KeysGood, FetchGood
<1>6. LoopGood'
  <2>1. entry.exists /\ entry.refreshing
    BY DEF IInv, LoopGood, NoLoop, Proc
  <2>2. QED
    BY <1>2, <1>3, <2>1 DEF LoopGood
<1>7. ASSUME (TtlIsLong /\ provider = "reliable")' PROVE \A k \in Loops : WarmGood(loop[k])'
  BY <1>2, <1>3, <1>7 DEF WarmGood, Fetching, TtlIsLong
<1>8. QED
  BY <1>4, <1>5, <1>6, <1>7 DEF IInv

\* The loop sets its timer.
LEMMA LoopSleepsIInv ==
    ASSUME IInv, NEW l \in Loops, LoopSleeps(l)
    PROVE  IInv'
<1> DEFINE p == Proc("sleep", Delay, 0)
<1>1. entry \in Entry /\ entry.age \in Nat
  BY Types DEF IInv, Entry
<1>2. Delay \in 0 .. RefreshAfter /\ RefreshAfter \in 0 .. Ttl
  BY <1>1, RefreshWithin DEF Delay
<1>3. p \in Loop /\ p.pc = "sleep" /\ p.t = Delay /\ p.keys = 0
  BY <1>2, Procs
<1>4. p.t <= Limit(p) /\ FetchGood(p)
  BY <1>2, <1>3 DEF Limit, Fetching, FetchGood
<1>5. loop' = [loop EXCEPT ![l] = p] /\ UNCHANGED <<entry, req, provider>>
      /\ loop[l].pc = "top"
  BY DEF LoopSleeps
<1>6. loop'[l] = p
  BY <1>5, Types DEF IInv
<1>7. ASSUME TtlIsLong, provider = "reliable" PROVE WarmGood(loop[l])'
  <2>1. entry.age <= FetchTime
    BY <1>5, <1>7 DEF IInv, WarmGood
  <2>2. entry.age + Delay <= RefreshAfter + FetchTime
    BY <1>1, <1>2, <2>1 DEF Delay
  <2>3. QED
    BY <1>2, <1>3, <1>5, <1>6, <2>2 DEF WarmGood, Fetching
<1>8. entry.age < Ttl => entry.keys <= entry.age + FetchTime + 1
  BY DEF IInv, KeysGood
<1>9. QED
  BY <1>1, <1>3, <1>4, <1>5, <1>7, <1>8, OneLoopIInv

\* The loop asks, and the provider answers.
LEMMA LoopFetchesIInv ==
    ASSUME IInv, NEW l \in Loops, LoopFetches(l) \/ AnswerLoop(l)
    PROVE  IInv'
<1>1. entry \in Entry /\ entry.age \in Nat /\ loop[l] \in Loop /\ loop \in [Loops -> Loop]
  BY Types DEF IInv, Entry
<1>2. entry.age < Ttl => entry.keys <= entry.age + FetchTime + 1
  BY DEF IInv, KeysGood
<1>3. CASE LoopFetches(l)
  <2>1. /\ NewFetch.pc = "ask" /\ NewFetch.t = 0 /\ NewFetch.keys = 0
        /\ NewFetch \in Loop
    BY Procs DEF NewFetch
  <2>2. NewFetch.t <= Limit(NewFetch) /\ FetchGood(NewFetch)
    BY <2>1 DEF Limit, Fetching, FetchGood
  <2>3. /\ loop[l].pc = "sleep" /\ loop[l].t = 0 /\ loop'[l] = NewFetch
        /\ loop' = [loop EXCEPT ![l] = NewFetch] /\ UNCHANGED <<entry, req, provider>>
    BY <1>1, <1>3 DEF LoopFetches
  <2>4. ASSUME TtlIsLong, provider = "reliable" PROVE WarmGood(loop[l])'
    <3>1. entry.age <= RefreshAfter + FetchTime
      BY <1>1, <2>3, <2>4, RefreshWithin DEF IInv, WarmGood
    <3>2. QED
      BY <1>1, <2>1, <2>3, <3>1, RefreshWithin DEF WarmGood, Fetching
  <2>5. QED
    BY <1>1, <1>2, <2>1, <2>2, <2>3, <2>4, OneLoopIInv
<1>4. CASE AnswerLoop(l)
  <2>1. PICK f \in Answered(loop[l]) : loop' = [loop EXCEPT ![l] = f]
    BY <1>4 DEF AnswerLoop
  <2>2. loop[l].pc = "ask" /\ loop[l].t <= FetchTime /\ loop[l].t \in Nat
    BY <1>1, <1>4, Types DEF AnswerLoop, IInv, Limit, Fetching, Loop
  <2>3. /\ f.pc \in {"got", "refused"} /\ f.t = loop[l].t /\ f.keys = 0 /\ f \in Loop
        /\ provider = "reliable" => f.pc = "got"
    BY <2>1, <2>2, Procs DEF Answered
  <2>4. f.t <= Limit(f) /\ FetchGood(f)
    BY <2>2, <2>3 DEF Limit, Fetching, FetchGood
  <2>5. loop'[l] = f /\ UNCHANGED <<entry, req, provider>>
    BY <1>1, <1>4, <2>1 DEF AnswerLoop
  <2>6. ASSUME TtlIsLong, provider = "reliable" PROVE WarmGood(loop[l])'
    BY <2>2, <2>3, <2>5, <2>6 DEF IInv, WarmGood, Fetching
  <2>7. QED
    BY <1>1, <1>2, <2>1, <2>2, <2>3, <2>4, <2>5, <2>6, OneLoopIInv
<1>5. QED
  BY <1>3, <1>4

\* The loop stores what it got, or backs off.
LEMMA LoopEndsIInv ==
    ASSUME IInv, NEW l \in Loops, LoopStores(l) \/ LoopFails(l) \/ LoopBackedOff(l)
    PROVE  IInv'
<1>1. /\ entry \in Entry /\ loop[l] \in Loop /\ loop \in [Loops -> Loop]
      /\ loop[l].t <= Limit(loop[l])
  BY Types DEF IInv
<1>2. entry.age < Ttl => entry.keys <= entry.age + FetchTime + 1
  BY DEF IInv, KeysGood
<1>3. /\ AtTop.pc = "top" /\ AtTop.t = 0 /\ AtTop.keys = 0 /\ AtTop \in Loop
      /\ AtTop.t <= Limit(AtTop) /\ FetchGood(AtTop)
  BY AtTopGood
<1>4. CASE LoopStores(l)
  <2>1. /\ loop[l].pc = "got" /\ UNCHANGED <<req, provider>>
        /\ loop' = [loop EXCEPT ![l] = AtTop] /\ loop'[l] = AtTop
        /\ entry' = [entry EXCEPT !.keys = loop[l].keys, !.age = 0, !.backoff = 1]
    BY <1>1, <1>4 DEF LoopStores
  <2>2. /\ entry' \in Entry /\ entry'.exists = entry.exists
        /\ entry'.refreshing = entry.refreshing
        /\ entry'.age = 0 /\ entry'.keys = loop[l].keys
    <3>1. loop[l].keys \in Keys /\ 0 \in 0 .. Ttl /\ 1 \in 1 .. MaxBackoff
      BY <1>1 DEF Loop
    <3>2. QED
      BY <1>1, <2>1, <3>1 DEF Entry
  <2>3. loop[l].keys <= FetchTime + 1
    <3>1. loop[l].keys <= loop[l].t + 1 /\ loop[l].t <= FetchTime
      BY <1>1, <2>1 DEF IInv, KeysGood, FetchGood, Limit, Fetching
    <3>2. loop[l].keys \in Nat /\ loop[l].t \in Nat
      BY <1>1 DEF Loop, Keys
    <3>3. QED
      BY <3>1, <3>2
  <2>4. entry'.keys <= entry'.age + FetchTime + 1
    BY <2>2, <2>3
  <2>5. WarmGood(loop[l])'
    BY <1>3, <2>1, <2>2 DEF WarmGood, Fetching
  <2>6. QED
    BY <1>3, <2>1, <2>2, <2>4, <2>5, OneLoopIInv
<1>5. CASE LoopFails(l)
  <2> DEFINE p == Proc("backoff", entry.backoff, 0)
  <2>1. /\ loop[l].pc = "refused" /\ UNCHANGED <<entry, req, provider>>
        /\ loop' = [loop EXCEPT ![l] = p]
    BY <1>5 DEF LoopFails
  <2>2. p \in Loop /\ p.pc = "backoff" /\ p.t \in 1 .. MaxBackoff /\ p.keys = 0
    BY <1>1, Procs DEF Entry
  <2>3. p.t <= Limit(p) /\ FetchGood(p)
    BY <2>2 DEF Limit, Fetching, FetchGood
  <2>4. TtlIsLong => provider # "reliable"
    BY <2>1 DEF IInv, WarmGood
  <2>5. QED
    BY <1>1, <1>2, <2>1, <2>2, <2>3, <2>4, OneLoopIInv
<1>6. CASE LoopBackedOff(l)
  <2>1. /\ loop[l].pc = "backoff" /\ UNCHANGED <<req, provider>>
        /\ loop' = [loop EXCEPT ![l] = AtTop]
        /\ entry' = [entry EXCEPT !.backoff = Doubled(entry.backoff)]
    BY <1>6 DEF LoopBackedOff
  <2>2. Doubled(entry.backoff) \in 1 .. MaxBackoff
    BY <1>1 DEF Doubled, Entry
  <2>3. /\ entry' \in Entry /\ entry'.exists = entry.exists
        /\ entry'.refreshing = entry.refreshing
        /\ entry'.age = entry.age /\ entry'.keys = entry.keys
    BY <1>1, <2>1, <2>2 DEF Entry
  <2>4. TtlIsLong => provider # "reliable"
    BY <2>1 DEF IInv, WarmGood
  <2>5. QED
    BY <1>2, <1>3, <2>1, <2>3, <2>4, OneLoopIInv
<1>7. QED
  BY <1>4, <1>5, <1>6

(***************************************************************************)
(* Get stores what it got                                                  *)
(***************************************************************************)
LEMMA GetStoresIInv ==
    ASSUME IInv, NEW r \in Requests, GetStores(r)
    PROVE  IInv'
<1>1. /\ entry \in Entry /\ req \in [Requests -> Request] /\ loop \in [Loops -> Loop]
      /\ req[r] \in Request /\ req[r].pc = "got" /\ provider' = provider
      /\ \A l \in Loops : loop[l] \in Loop /\ loop[l].t <= Limit(loop[l])
      /\ provider \in {"reliable", "flaky", "settled"}
  BY Types DEF IInv, GetStores
<1>2. req[r].t \in 0 .. FetchTime /\ req[r].keys \in Keys /\ req[r].keys <= req[r].t + 1
  BY <1>1 DEF Request, IInv, KeysGood, FetchGood
<1>3. /\ entry'.exists /\ entry'.refreshing /\ entry'.keys = req[r].keys
      /\ entry'.age = (IF req[r].t < Ttl THEN req[r].t ELSE Ttl) /\ entry' \in Entry
  BY <1>1, <1>2 DEF GetStores, GetEntry, Entry
<1>4. entry'.age \in Nat /\ entry'.age <= FetchTime
  BY <1>2, <1>3
<1>5. entry'.age < Ttl => entry'.keys <= entry'.age + FetchTime + 1
  BY <1>2, <1>3 DEF Keys, OldKeys
<1>6. req' \in [Requests -> Request] /\ \A q \in Requests : FetchGood(req'[q])
  <2>1. req' = [req EXCEPT ![r] = Idle] /\ Idle \in Request /\ FetchGood(Idle)
    BY Procs DEF GetStores, FetchGood, Idle, Proc
  <2>2. QED
    BY <1>1, <2>1 DEF IInv, KeysGood
<1>7. CASE StartsLoop
  <2>1. \A k \in Loops : loop[k] = NoLoop /\ loop[k].pc = "none"
    BY <1>7 DEF StartsLoop, IInv, LoopGood, NoLoop, Proc
  <2>2. PICK l \in Loops : loop' = [loop EXCEPT ![l] = AtTop]
    BY <1>7 DEF GetStores
  <2>3. loop'[l] = AtTop /\ \A k \in Loops \ {l} : loop'[k] = loop[k]
    BY <1>1, <2>2
  <2>4. TypeOK'
    <3>1. loop' \in [Loops -> Loop]
      BY <1>1, <2>2, AtTopGood
    <3>2. \A k \in Loops : loop'[k].t <= Limit(loop'[k])
      BY <1>1, <2>3, AtTopGood
    <3>3. QED
      BY <1>1, <1>3, <1>6, <3>1, <3>2 DEF TypeOK, Entry, Request, Loop, Limit
  <2>5. KeysGood'
    <3>1. \A k \in Loops : FetchGood(loop'[k])
      BY <2>3, AtTopGood DEF IInv, KeysGood
    <3>2. QED
      BY <1>5, <1>6, <3>1 DEF KeysGood, FetchGood
  <2>6. LoopGood'
    BY <1>3, <2>1, <2>3, AtTopGood DEF LoopGood
  <2>7. \A k \in Loops : WarmGood(loop[k])'
    BY <1>4, <2>1, <2>3, AtTopGood DEF WarmGood, Fetching
  <2>8. QED
    BY <2>4, <2>5, <2>6, <2>7 DEF IInv
<1>8. CASE ~StartsLoop
  <2>1. loop' = loop /\ entry.exists
    BY <1>8 DEF GetStores, StartsLoop
  <2>2. TypeOK'
    BY <1>1, <1>3, <1>6, <2>1 DEF TypeOK, Entry, Request, Loop, Limit
  <2>3. KeysGood'
    BY <1>5, <1>6, <2>1 DEF IInv, KeysGood, FetchGood
  <2>4. LoopGood'
    BY <1>3, <2>1 DEF IInv, LoopGood
  <2>5. ASSUME TtlIsLong, provider = "reliable", NEW k \in Loops
        PROVE  WarmGood(loop[k])'
    <3>1. WarmGood(loop[k]) /\ loop[k].t \in Nat
      BY <1>1, <2>5 DEF IInv, Loop
    <3>2. QED
      BY <1>4, <2>1, <3>1, RefreshWithin DEF WarmGood, Fetching
  <2>6. QED
    BY <1>1, <2>2, <2>3, <2>4, <2>5 DEF IInv, TtlIsLong
<1>9. QED
  BY <1>7, <1>8

(***************************************************************************)
(* The provider and time                                                   *)
(***************************************************************************)
LEMMA ProviderIInv ==
    ASSUME IInv, ProviderTurnsFlaky \/ ProviderSettles
    PROVE  IInv'
<1>1. UNCHANGED <<entry, req, loop>> /\ provider' \in {"flaky", "settled"}
  BY DEF ProviderTurnsFlaky, ProviderSettles
<1>2. QED
  BY <1>1 DEF IInv, TypeOK, KeysGood, LoopGood

\* Replacing the keys changes the age of keys only.
LEMMA RotateIInv ==
    ASSUME IInv, Rotate
    PROVE  IInv'
<1>1. /\ entry \in Entry /\ req \in [Requests -> Request] /\ loop \in [Loops -> Loop]
      /\ provider' = provider /\ provider \in {"reliable", "flaky", "settled"}
      /\ \A l \in Loops : loop[l].t <= Limit(loop[l])
  BY Types DEF IInv, Rotate
<1>2. /\ entry' \in Entry /\ entry'.age = entry.age /\ entry'.exists = entry.exists
      /\ entry'.refreshing = entry.refreshing
      /\ entry'.keys = entry.keys \/ entry'.keys = 1
  BY <1>1, Procs DEF Rotate, Entry
<1>3. ASSUME NEW p, p \in Request \/ p \in Loop, FetchGood(p)
      PROVE  /\ Replaced(p).pc = p.pc /\ Replaced(p).t = p.t /\ FetchGood(Replaced(p))
             /\ p \in Request => Replaced(p) \in Request
             /\ p \in Loop => Replaced(p) \in Loop
             /\ p.pc # "got" => Replaced(p) = p
  <2>1. p.t \in Nat
    BY <1>3 DEF Request, Loop
  <2>2. CASE p.pc = "got" /\ p.keys = 0
    <3>1. Replaced(p) = Proc("got", p.t, 1)
      BY <2>2 DEF Replaced
    <3>2. QED
      BY <1>3, <2>1, <2>2, <3>1, Procs DEF FetchGood, Request, Loop
  <2>3. CASE ~(p.pc = "got" /\ p.keys = 0)
    BY <1>3, <2>3 DEF Replaced
  <2>4. QED
    BY <2>2, <2>3
<1>4. /\ req' \in [Requests -> Request] /\ \A r \in Requests : FetchGood(req'[r])
  BY <1>1, <1>3 DEF Rotate, IInv, KeysGood
<1>5. /\ loop' \in [Loops -> Loop]
      /\ \A l \in Loops : /\ FetchGood(loop'[l]) /\ loop'[l].pc = loop[l].pc
                          /\ loop'[l].t = loop[l].t
                          /\ loop[l].pc # "got" => loop'[l] = loop[l]
  BY <1>1, <1>3 DEF Rotate, IInv, KeysGood
<1>6. TypeOK'
  <2>1. \A l \in Loops : loop'[l].t <= Limit(loop'[l])
    BY <1>1, <1>5 DEF Limit, Fetching
  <2>2. QED
    BY <1>1, <1>2, <1>4, <1>5, <2>1 DEF TypeOK, Entry, Request, Loop, Limit
<1>7. KeysGood'
  <2>1. entry.age \in Nat
    BY <1>1 DEF Entry
  <2>2. entry'.age < Ttl => entry'.keys <= entry'.age + FetchTime + 1
    BY <1>2, <2>1 DEF IInv, KeysGood
  <2>3. QED
    BY <1>4, <1>5, <2>2 DEF KeysGood, FetchGood
<1>8. LoopGood'
  <2>1. \A l \in Loops : loop[l] = NoLoop => loop'[l] = NoLoop
    BY <1>5 DEF NoLoop, Proc
  <2>2. QED
    BY <1>2, <1>5, <2>1 DEF IInv, LoopGood
<1>9. ASSUME TtlIsLong, provider = "reliable", NEW l \in Loops
      PROVE  WarmGood(loop[l])'
  BY <1>2, <1>5, <1>9 DEF IInv, WarmGood, Fetching
<1>10. QED
  BY <1>1, <1>6, <1>7, <1>8, <1>9 DEF IInv, TtlIsLong

\* What a tick does to a process that may wait.
LEMMA AgedGood ==
    ASSUME NEW p, p \in Request \/ p \in Loop, FetchGood(p), MayWait(p),
           p \in Loop => p.t <= Limit(p)
    PROVE  /\ Aged(p).pc = p.pc /\ FetchGood(Aged(p))
           /\ p \in Request => Aged(p) \in Request
           /\ p \in Loop => Aged(p) \in Loop /\ Aged(p).t <= Limit(Aged(p))
           /\ Fetching(p) => Aged(p).t = p.t + 1
           /\ Timing(p) => Aged(p).t = p.t - 1
           /\ ~Fetching(p) /\ ~Timing(p) => Aged(p) = p
<1>1. p.t \in Nat /\ p.keys \in Keys /\ p.keys \in Nat
  BY DEF Request, Loop, Keys
<1>2. CASE Fetching(p)
  <2>1. Aged(p) = Proc(p.pc, p.t + 1, Older(p.keys)) /\ p.t + 1 <= FetchTime
    BY <1>1, <1>2 DEF Aged, MayWait, Fetching, Timing
  <2>2. Older(p.keys) \in Keys /\ Older(p.keys) <= p.keys + 1
        /\ (p.keys = 0 => Older(p.keys) = 0)
    BY <1>1 DEF Older, Keys, OldKeys
  <2>3. /\ Aged(p).pc = p.pc /\ Aged(p).t = p.t + 1 /\ Aged(p).keys = Older(p.keys)
    BY <2>1, Procs
  <2>4. FetchGood(Aged(p))
    <3>1. Older(p.keys) \in Nat
      BY <2>2 DEF Keys
    <3>2. QED
      BY <1>1, <2>2, <2>3, <3>1 DEF FetchGood
  <2>5. p \in Request => Aged(p) \in Request
    <3> SUFFICES ASSUME p \in Request PROVE Aged(p) \in Request
      OBVIOUS
    <3>1. p.pc \in {"idle", "ask", "got", "refused"} /\ p.t + 1 \in 0 .. FetchTime
      BY <1>1, <2>1 DEF Request
    <3>2. QED
      BY <2>1, <2>2, <3>1, Procs
  <2>6. p \in Loop => Aged(p) \in Loop
    <3> SUFFICES ASSUME p \in Loop PROVE Aged(p) \in Loop
      OBVIOUS
    <3>1. /\ p.pc \in {"none", "top", "sleep", "ask", "got", "refused", "backoff"}
          /\ p.t + 1 \in Nat
      BY <1>1 DEF Loop
    <3>2. QED
      BY <2>1, <2>2, <3>1, Procs
  <2>7. Aged(p).t <= Limit(Aged(p))
    BY <1>2, <2>1, <2>3 DEF Limit, Fetching
  <2>8. QED
    BY <1>2, <2>3, <2>4, <2>5, <2>6, <2>7 DEF Fetching, Timing
<1>3. CASE Timing(p)
  <2>1. Aged(p) = Proc(p.pc, p.t - 1, 0) /\ p.t - 1 \in Nat
    BY <1>1, <1>3 DEF Aged, MayWait, Fetching, Timing
  <2>2. Aged(p).pc = p.pc /\ Aged(p).t = p.t - 1 /\ Aged(p).keys = 0
    BY <2>1, Procs
  <2>3. p \notin Request /\ p \in Loop
    BY <1>3 DEF Request, Timing
  <2>4. p.pc \in {"none", "top", "sleep", "ask", "got", "refused", "backoff"}
    BY <2>3 DEF Loop
  <2>5. Aged(p) \in Loop
    BY <2>1, <2>4, Procs
  <2>6. Aged(p).t <= Limit(Aged(p))
    BY <1>1, <1>3, <2>2, <2>3 DEF Limit, Fetching, Timing
  <2>7. QED
    BY <1>3, <2>2, <2>3, <2>5, <2>6 DEF Fetching, Timing, FetchGood
<1>4. CASE ~Fetching(p) /\ ~Timing(p)
  <2>1. Aged(p) = p
    BY <1>4 DEF Aged
  <2>2. QED
    BY <1>4, <2>1
<1>5. QED
  BY <1>2, <1>3, <1>4

LEMMA TickIInv ==
    ASSUME IInv, Tick
    PROVE  IInv'
<1>1. /\ entry \in Entry /\ req \in [Requests -> Request] /\ loop \in [Loops -> Loop]
      /\ provider' = provider /\ provider \in {"reliable", "flaky", "settled"}
      /\ \A l \in Loops : loop[l].t <= Limit(loop[l])
  BY Types DEF IInv, Tick
<1>2. entry.age \in 0 .. Ttl /\ entry.keys \in Keys /\ entry.keys \in Nat
  BY <1>1 DEF Entry, Keys
<1>3. Older(entry.keys) \in Keys /\ Older(entry.keys) <= entry.keys + 1
      /\ Older(entry.keys) \in Nat
  BY <1>2 DEF Older, Keys, OldKeys
<1>4. /\ entry' \in Entry /\ entry'.exists = entry.exists
      /\ entry'.refreshing = entry.refreshing
      /\ entry'.age \in Nat /\ entry'.age <= entry.age + 1
      /\ entry'.age < Ttl => entry'.keys <= entry'.age + FetchTime + 1
  <2>1. CASE entry.exists
    <3>1. /\ entry' \in Entry /\ entry'.exists = entry.exists
          /\ entry'.refreshing = entry.refreshing /\ entry'.keys = Older(entry.keys)
          /\ entry'.age = IF entry.age < Ttl THEN entry.age + 1 ELSE Ttl
      <4>1. (IF entry.age < Ttl THEN entry.age + 1 ELSE Ttl) \in 0 .. Ttl
        BY <1>2
      <4>2. entry' = [entry EXCEPT !.keys = Older(entry.keys),
                        !.age = IF entry.age < Ttl THEN entry.age + 1 ELSE Ttl]
        BY <1>1, <2>1 DEF Tick, Entry
      <4>3. QED
        BY <1>1, <1>3, <4>1, <4>2 DEF Entry
    <3>2. entry.age < Ttl => entry.keys <= entry.age + FetchTime + 1
      BY DEF IInv, KeysGood
    <3>3. QED
      BY <1>2, <1>3, <3>1, <3>2
  <2>2. CASE ~entry.exists
    BY <1>1, <1>2, <2>2 DEF Tick, IInv, KeysGood
  <2>3. QED
    BY <2>1, <2>2
<1>5. \A r \in Requests : req'[r] \in Request /\ FetchGood(req'[r])
  <2> SUFFICES ASSUME NEW r \in Requests
               PROVE  req'[r] \in Request /\ FetchGood(req'[r])
    OBVIOUS
  <2>1. /\ req'[r] = Aged(req[r]) /\ req[r] \in Request
        /\ FetchGood(req[r]) /\ MayWait(req[r])
    BY <1>1 DEF Tick, IInv, KeysGood
  <2>2. req[r] \in Loop => req[r].t <= Limit(req[r])
    BY <2>1 DEF Request, Loop, Limit, Fetching
  <2>3. QED
    BY <2>1, <2>2, AgedGood
<1>6. \A l \in Loops : /\ loop'[l] = Aged(loop[l]) /\ loop[l] \in Loop
                       /\ FetchGood(loop[l]) /\ MayWait(loop[l])
  BY <1>1 DEF Tick, IInv, KeysGood
<1>7. \A l \in Loops : /\ loop'[l] \in Loop /\ FetchGood(loop'[l])
                       /\ loop'[l].pc = loop[l].pc /\ loop'[l].t <= Limit(loop'[l])
  BY <1>1, <1>6, AgedGood
<1>8. TypeOK'
  <2>1. req' \in [Requests -> Request] /\ loop' \in [Loops -> Loop]
    BY <1>5, <1>7 DEF Tick
  <2>2. QED
    BY <1>1, <1>4, <1>7, <2>1 DEF TypeOK, Entry, Request, Loop, Limit
<1>9. KeysGood'
  BY <1>4, <1>5, <1>7 DEF KeysGood, FetchGood
<1>10. LoopGood'
  <2>1. \A l \in Loops : loop[l].pc = "none" => loop'[l] = loop[l]
    BY <1>1, <1>6, AgedGood DEF Fetching, Timing
  <2>2. NoLoop.pc = "none"
    BY DEF NoLoop, Proc
  <2>3. QED
    BY <1>4, <1>7, <2>1, <2>2 DEF IInv, LoopGood
<1>11. ASSUME TtlIsLong, provider = "reliable", NEW l \in Loops
       PROVE  WarmGood(loop[l])'
  <2>1. WarmGood(loop[l]) /\ loop[l].pc # "top" /\ loop[l].t \in Nat
    BY <1>6, <1>11 DEF IInv, MayWait, Loop
  <2>2. CASE loop[l].pc = "sleep"
    <3>1. loop'[l].t = loop[l].t - 1 /\ loop'[l].pc = "sleep" /\ loop'[l].t \in Nat
      BY <1>1, <1>6, <1>7, <2>2, AgedGood DEF Timing, Loop
    <3>2. QED
      BY <1>2, <1>4, <2>1, <2>2, <3>1, RefreshWithin DEF WarmGood, Fetching
  <2>3. CASE Fetching(loop[l])
    <3>1. loop'[l].t = loop[l].t + 1 /\ loop'[l].pc = loop[l].pc
      BY <1>1, <1>6, <1>7, <2>3, AgedGood
    <3>2. QED
      BY <1>2, <1>4, <2>1, <2>3, <3>1, RefreshWithin DEF WarmGood, Fetching
  <2>4. CASE loop[l].pc \notin {"sleep", "top"} /\ ~Fetching(loop[l])
    BY <1>7, <2>1, <2>4 DEF WarmGood, Fetching
  <2>5. QED
    BY <2>1, <2>2, <2>3, <2>4
<1>12. QED
  BY <1>1, <1>8, <1>9, <1>10, <1>11 DEF IInv, TtlIsLong

(***************************************************************************)
(* The theorems                                                            *)
(***************************************************************************)
LEMMA NextIInv == IInv /\ [Next]_vars => IInv'
<1> SUFFICES ASSUME IInv, [Next]_vars PROVE IInv'
  OBVIOUS
<1>1. ASSUME NEW r \in Requests, GetStep(r) PROVE IInv'
  BY <1>1, GetIInv, GetStoresIInv DEF GetStep
<1>2. ASSUME NEW l \in Loops, LoopStep(l) PROVE IInv'
  BY <1>2, LoopSleepsIInv, LoopFetchesIInv, LoopEndsIInv DEF LoopStep
<1>3. CASE Rotate \/ ProviderTurnsFlaky \/ ProviderSettles \/ Tick
  BY <1>3, RotateIInv, ProviderIInv, TickIInv
<1>4. CASE UNCHANGED vars
  BY <1>4 DEF vars, IInv, TypeOK, KeysGood, LoopGood, WarmGood
<1>5. QED
  BY <1>1, <1>2, <1>3, <1>4 DEF Next

LEMMA Invariance == Spec => []IInv
BY InitIInv, NextIInv, PTL DEF Spec

\* One loop refreshes the cache, however many requests miss at once, and while the
\* provider has never failed no request after the first waits for it: for every
\* ttl that is longer than the refresh and two time-outs.
THEOREM CacheSound == Spec => []CacheInv
<1>1. IInv => CacheInv
  <2> SUFFICES ASSUME IInv PROVE OneLoop /\ StaysWarm
    BY DEF CacheInv
  <2>1. OneLoop
    BY DEF IInv, LoopGood, OneLoop
  <2>2. ASSUME TtlIsLong, provider = "reliable", entry.exists PROVE Hit
    <3>1. PICK l \in Loops : loop[l].pc # "none"
      BY <2>2 DEF IInv, LoopGood
    <3>2. WarmGood(loop[l])
      BY <2>2 DEF IInv
    <3>3. entry.age \in Nat /\ loop[l] \in Loop /\ loop[l].t <= Limit(loop[l])
      BY Types DEF IInv, Entry
    <3>4. loop[l].t \in Nat /\ (Fetching(loop[l]) => loop[l].t <= FetchTime)
      BY <3>3 DEF Loop, Limit
    <3>5. loop[l].pc \in {"top", "sleep"} \/ Fetching(loop[l])
      BY <3>1, <3>2, <3>3 DEF WarmGood, Fetching, Loop
    <3>6. entry.age <= RefreshAfter + 2 * FetchTime
      BY <3>2, <3>3, <3>4, <3>5, RefreshWithin DEF WarmGood
    <3>7. QED
      BY <2>2, <3>3, <3>6, RefreshWithin DEF TtlIsLong, Hit
  <2>3. QED
    BY <2>1, <2>2 DEF StaysWarm
<1>2. QED
  BY <1>1, Invariance, PTL

\* Keys that the provider has replaced are trusted for at most a ttl and one
\* time-out, whichever fetch stored them and in whatever order.
THEOREM KeysAreFresh == Spec => []KeysFresh
<1>1. IInv => KeysFresh
  <2> SUFFICES ASSUME IInv, Hit PROVE entry.keys <= Ttl + FetchTime
    BY DEF KeysFresh
  <2>1. entry.age < Ttl /\ entry.keys <= entry.age + FetchTime + 1
    BY DEF Hit, IInv, KeysGood
  <2>2. entry.age \in Nat /\ entry.keys \in Nat
    BY Types DEF IInv, Entry, Keys
  <2>3. QED
    BY <2>1, <2>2
<1>2. QED
  BY <1>1, Invariance, PTL
=============================================================================
