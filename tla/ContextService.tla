--------------------------- MODULE ContextService ---------------------------
(***************************************************************************)
(* The gateway's context service (internal/context/service.go and its      *)
(* collectors): one goroutine polls every source in turn, one watcher per  *)
(* source sends what it finds into a bounded channel, and one goroutine    *)
(* writes what comes out of it into the graph.  A source holds one object: *)
(* version 0 is absent, and a snapshot of it is one row of the graph with  *)
(* that version.  Nothing is ever deleted from the graph.                  *)
(***************************************************************************)
EXTENDS Naturals, Sequences, FiniteSetsExt

CONSTANTS Pollers,      \* the sources, in the order RefreshContext polls them
          K8sSources,   \* those a K8sWatcher watches; others a PollingWatcher
          Breakable,    \* those that may be broken for good
          ChanCap,      \* capacity of the snapshot channel
          ErrsCap,      \* capacity of Errs
          MaxChanges    \* bound on the changes of all sources together

Sources == {Pollers[i] : i \in DOMAIN Pollers}

ASSUME ContextAssumption ==
    /\ Pollers \in Seq(Sources)
    /\ K8sSources \subseteq Sources /\ Breakable \subseteq Sources
    /\ ChanCap \in Nat /\ ErrsCap \in Nat
    /\ MaxChanges \in Nat

VARIABLES world,     \* what the sources hold
          broken,    \* sources that cannot be read, or not stored, at all
          graph,     \* context_nodes and context_edges
          channel,   \* snapshots on their way to ingestLoop
          poller,    \* the goroutine of runPollers
          watchers,  \* the goroutines of runWatchers
          ingester,  \* the goroutine of ingestLoop
          errs       \* number of errors in Errs

ctxVars == <<world, broken, graph, channel, poller, watchers, ingester, errs>>

Snapshot == [source: Sources, version: Nat \ {0}]
NoSnap   == [source |-> Pollers[1], version |-> 0]

\* A writer of the graph and the snapshot it stores.  The poller also knows how
\* far it is in its list.
Writer == [state: {"off", "idle", "write"},
           snap: Snapshot \cup {NoSnap}, next: 0 .. Len(Pollers) + 1]
Off    == [state |-> "off", snap |-> NoSnap, next |-> 0]
Ready  == [state |-> "idle", snap |-> NoSnap, next |-> 0]

\* A watcher: waiting for its next round, or blocked on the channel; `last` is
\* what it compares with (w.Last, or the last resource version).
WatcherState == [state: {"off", "idle", "sending"}, last: Nat]
NoWatcher    == [state |-> "off", last |-> 0]

CtxTypeOK ==
    /\ broken \in SUBSET Sources
    /\ world \in [Sources -> Nat]
    /\ graph \in [Sources -> Nat]
    /\ channel \in Seq(Snapshot) /\ Len(channel) <= ChanCap
    /\ poller \in Writer /\ ingester \in Writer
    /\ watchers \in [Sources -> WatcherState]
    /\ errs \in 0 .. ErrsCap

\* A watcher compares with, and sends, versions its source has had.
WatchersGood ==
    \A s \in Sources : /\ watchers[s].last <= world[s]
                       /\ watchers[s].state = "sending" => watchers[s].last # 0

\* No goroutine runs; the sources and the graph outlive the process.
CtxStopped ==
    /\ channel' = <<>> /\ errs' = 0
    /\ poller' = Off /\ ingester' = Off
    /\ watchers' = [s \in Sources |-> NoWatcher]

CtxInit ==
    /\ world = [s \in Sources |-> 0] /\ broken \in SUBSET Breakable
    /\ graph = [s \in Sources |-> 0]
    /\ channel = <<>> /\ errs = 0
    /\ poller = Off /\ ingester = Off
    /\ watchers = [s \in Sources |-> NoWatcher]

\* Start: three goroutines, and one per watcher outside the wait group.
CtxStart ==
    /\ poller' = [Ready EXCEPT !.next = 1] /\ ingester' = Ready
    /\ watchers' = [s \in Sources |-> [state |-> "idle", last |-> 0]]
    /\ UNCHANGED <<world, broken, graph, channel, errs>>

\* A source changes (an object appears or changes, or goes away and comes back).
SourceChanges(s) ==
    /\ MapThenSumSet(LAMBDA t : world[t], Sources) < MaxChanges
    /\ world' = [world EXCEPT ![s] = @ + 1]
    /\ UNCHANGED <<broken, graph, channel, poller, watchers, ingester, errs>>

\* sendErr never blocks: an error is lost when Errs is full.
MutantErrsAfterSend == errs + 1
ErrsAfterSend == IF errs < ErrsCap THEN errs + 1 ELSE errs

-----------------------------------------------------------------------------
\* IngestSnapshot: the snapshot's row replaces the one in the graph, which may
\* be newer.
Upserted(w) == [graph EXCEPT ![w.snap.source] = w.snap.version]
Writing(w)  == w.state = "write"

\* RefreshContext asks the sources one after the other and stores each answer
\* before it asks the next.
PollSource ==
    /\ poller.state = "idle" /\ poller.next \in DOMAIN Pollers
    /\ Pollers[poller.next] \notin broken
    /\ LET s == Pollers[poller.next] IN
         poller' = [state |-> IF world[s] = 0 THEN "idle" ELSE "write",
                    snap  |-> IF world[s] = 0 THEN NoSnap
                              ELSE [source |-> s, version |-> world[s]],
                    next  |-> poller.next + 1]
    /\ UNCHANGED <<world, broken, graph, channel, watchers, ingester, errs>>

PollerUpsert ==
    /\ Writing(poller)
    /\ graph' = Upserted(poller)
    /\ poller' = [poller EXCEPT !.state = "idle", !.snap = NoSnap]
    /\ UNCHANGED <<world, broken, channel, watchers, ingester, errs>>

\* A failing source or statement ends the round, not the goroutine: the sources
\* after it wait for the next round.
MutantPollerFails ==
    /\ Writing(poller) \/ (poller.state = "idle" /\ poller.next \in DOMAIN Pollers)
    /\ poller' = Off
    /\ errs' = ErrsAfterSend
    /\ UNCHANGED <<world, broken, graph, channel, watchers, ingester>>
PollerFails ==
    /\ Writing(poller) \/ (poller.state = "idle" /\ poller.next \in DOMAIN Pollers)
    /\ poller' = [Ready EXCEPT !.next = Len(Pollers) + 1]
    /\ errs' = ErrsAfterSend
    /\ UNCHANGED <<world, broken, graph, channel, watchers, ingester>>

\* The ticker starts the next round.
PollAgain ==
    /\ poller.state = "idle" /\ poller.next \notin DOMAIN Pollers
    /\ poller' = [poller EXCEPT !.next = 1]
    /\ UNCHANGED <<world, broken, graph, channel, watchers, ingester, errs>>

-----------------------------------------------------------------------------
\* The poller is at a source that always fails.
AtBroken == /\ poller.state = "idle" /\ poller.next \in DOMAIN Pollers
            /\ Pollers[poller.next] \in broken

\* A K8sWatcher reports every change since the last resource version; a
\* PollingWatcher only objects its last snapshot did not have (diffSnapshot).
Reports(s) == IF s \in K8sSources THEN world[s] # watchers[s].last
              ELSE watchers[s].last = 0 /\ world[s] # 0

\* A watcher finds something and sends it.  A failing call is ignored and
\* tried again: it is a step that changes nothing.
Found(s) == [source |-> s, version |-> world[s]]

Watch(s) ==
    /\ watchers[s].state = "idle" /\ s \notin broken /\ Reports(s) /\ Len(channel) < ChanCap
    /\ channel' = Append(channel, Found(s))
    /\ watchers' = [watchers EXCEPT ![s].last = world[s]]
    /\ UNCHANGED <<world, broken, graph, poller, ingester, errs>>

\* With the channel full the send blocks, whatever becomes of the context.
Block(s) ==
    /\ watchers[s].state = "idle" /\ s \notin broken /\ Reports(s) /\ Len(channel) = ChanCap
    /\ watchers' = [watchers EXCEPT ![s] = [state |-> "sending", last |-> world[s]]]
    /\ UNCHANGED <<world, broken, graph, channel, poller, ingester, errs>>

Unblock(s) ==
    /\ watchers[s].state = "sending" /\ Len(channel) < ChanCap
    /\ channel' = Append(channel, [source |-> s, version |-> watchers[s].last])
    /\ watchers' = [watchers EXCEPT ![s].state = "idle"]
    /\ UNCHANGED <<world, broken, graph, poller, ingester, errs>>

-----------------------------------------------------------------------------
Receive ==
    /\ ingester.state = "idle" /\ channel # <<>>
    /\ ingester' = [ingester EXCEPT !.state = "write", !.snap = Head(channel)]
    /\ channel' = Tail(channel)
    /\ UNCHANGED <<world, broken, graph, poller, watchers, errs>>

IngesterUpsert ==
    /\ Writing(ingester)
    /\ graph' = Upserted(ingester)
    /\ ingester' = Ready
    /\ UNCHANGED <<world, broken, channel, poller, watchers, errs>>

\* A statement fails: the snapshot is dropped, and no watcher sends it again.
IngesterFails ==
    /\ Writing(ingester)
    /\ ingester' = Ready
    /\ errs' = ErrsAfterSend
    /\ UNCHANGED <<world, broken, graph, channel, poller, watchers>>

-----------------------------------------------------------------------------
PollerStep   == PollSource \/ PollerUpsert \/ PollAgain
IngesterStep == Receive \/ IngesterUpsert
WatcherStep(s) == Watch(s) \/ Block(s) \/ Unblock(s)

\* A poll gets as far as s.
Reached(s) == \E i \in DOMAIN Pollers :
                 Pollers[i] = s /\ \A j \in 1 .. i : Pollers[j] \notin broken

\* The graph shows every object that polls get to as its source has it now.
Current == \A s \in Sources :
              world[s] # 0 /\ Reached(s) => graph[s] = world[s]
=============================================================================
