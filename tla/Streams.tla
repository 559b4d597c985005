------------------------------- MODULE Streams -------------------------------
(***************************************************************************)
(* The hubs and the streams that read them: the LogHub of the tool router  *)
(* with GET /v1/tools/logs (the gateway's LogHub and /logs are the same    *)
(* code), and the EventHub with the SSE and WebSocket event streams.       *)
(*                                                                         *)
(* Every method of a hub holds its mutex, so it is one action; the         *)
(* handlers of the streams are not atomic.  A message is the number of its *)
(* publication.                                                            *)
(***************************************************************************)
EXTENDS Naturals, Sequences, FiniteSets, FiniteSetsExt

CONSTANTS
    Keys,       \* tool calls, or sessions
    All,        \* the session "": subscribed to, it sees every event
    Streams,    \* open requests
    Cap,        \* places of a channel (8)
    MaxLines,   \* lines of history per key (200)
    MaxKeys,    \* keys with history (500)
    MaxMsgs     \* bound on publications

ASSUME StreamsAssumption ==
    /\ All \notin Keys /\ IsFiniteSet(Keys) /\ IsFiniteSet(Streams)
    /\ Cap \in Nat \ {0} /\ MaxLines \in Nat \ {0} /\ MaxKeys \in Nat \ {0}
    /\ MaxMsgs \in Nat

VARIABLES
    published,  \* what was published so far: the hub and the key of every message
    history,    \* LogHub.history; a key without an entry has <<>>
    stream      \* the requests

vars == <<published, history, stream>>

Closed == [hub |-> "log", key |-> All, pc |-> "closed", subscribed |-> FALSE,
           todo |-> <<>>, chan |-> <<>>, sent |-> <<>>, since |-> 0]

\* The subscribers of a key, LogHub.subs or EventHub.subs.
Subs(hub, k) == {s \in Streams : /\ stream[s].subscribed
                                 /\ stream[s].hub = hub /\ stream[s].key = k}

Now == Len(published)

(***************************************************************************)
(* Publishing                                                              *)
(***************************************************************************)
\* select { case ch <- m: default: }
MutantSend(ch, m) == IF Len(ch) < Cap - 1 THEN Append(ch, m) ELSE ch
Send(ch, m) == IF Len(ch) < Cap THEN Append(ch, m) ELSE ch

Deliver(subs, m) == [s \in Streams |->
    IF s \in subs THEN [stream[s] EXCEPT !.chan = Send(@, m)] ELSE stream[s]]

Publication(hub, k) ==
    /\ Now < MaxMsgs
    /\ published' = Append(published, [hub |-> hub, key |-> k])

\* The last MaxLines lines
MutantTrim(lines) == IF Len(lines) <= MaxLines + 1 THEN lines ELSE Tail(lines)
Trim(lines) == IF Len(lines) <= MaxLines THEN lines ELSE Tail(lines)

Held(h) == {k \in Keys : h[k] # <<>>}

\* What the loop over the map may delete, which has no order: keys without
\* subscribers, until no more than MaxKeys are left.
MutantEvictions(h, k) ==
    LET excess == Cardinality(Held(h)) - MaxKeys
    IN  IF excess > 0 THEN kSubset(1, Held(h) \ {k}) ELSE {{}}
Evictions(h, k) ==
    LET excess    == Cardinality(Held(h)) - MaxKeys
        evictable == {x \in Held(h) \ {k} : Subs("log", x) = {}}
        n         == IF excess < Cardinality(evictable) THEN excess ELSE Cardinality(evictable)
    IN  IF excess > 0 THEN kSubset(n, evictable) ELSE {{}}

MutantAppendLog(k) ==
    LET h == [history EXCEPT ![k] = Trim(Append(@, Now + 1))] IN
    /\ Publication("log", k)
    /\ \E evicted \in IF history[k] = <<>> /\ Held(history) # {}
                      THEN {{}} ELSE Evictions(h, k) :
         history' = [x \in Keys |-> IF x \in evicted THEN <<>> ELSE h[x]]
    /\ stream' = Deliver(Subs("log", k), Now + 1)
\* LogHub.Append, called by Router.Execute when a tool call starts and ends
AppendLog(k) ==
    LET h == [history EXCEPT ![k] = Trim(Append(@, Now + 1))] IN
    /\ Publication("log", k)
    /\ \E evicted \in Evictions(h, k) :
         history' = [x \in Keys |-> IF x \in evicted THEN <<>> ELSE h[x]]
    /\ stream' = Deliver(Subs("log", k), Now + 1)

MutantPublishEvent(k) ==
    LET first == Deliver(Subs("event", k), Now + 1) IN
    /\ Publication("event", k)
    /\ stream' = [s \in Streams |->
         IF s \in Subs("event", All) THEN [first[s] EXCEPT !.chan = Send(@, Now + 1)]
         ELSE first[s]]
    /\ UNCHANGED history
\* EventHub.Publish: to the session, and to those who see every event
PublishEvent(k) ==
    /\ Publication("event", k)
    /\ stream' = Deliver(Subs("event", k) \cup Subs("event", All), Now + 1)
    /\ UNCHANGED history

(***************************************************************************)
(* Streams                                                                 *)
(***************************************************************************)
Live(hub, k) == [Closed EXCEPT !.hub = hub, !.key = k, !.pc = "live",
                               !.subscribed = TRUE, !.since = Now]

\* handleToolLogs, handleExecutionLogs: first the history
OpenLogs(s, k) ==
    /\ stream[s].pc = "closed"
    /\ stream' = [stream EXCEPT ![s] =
         [Closed EXCEPT !.hub = "log", !.key = k, !.pc = "history", !.todo = history[k]]]
    /\ UNCHANGED <<published, history>>

\* one writeLine of the history
WriteHistory(s) ==
    /\ stream[s].pc = "history" /\ stream[s].todo # <<>>
    /\ stream' = [stream EXCEPT ![s].sent = Append(@, Head(stream[s].todo)),
                                ![s].todo = Tail(@)]
    /\ UNCHANGED <<published, history>>

\* then the subscription, as an action of its own
SubscribeLogs(s) ==
    /\ stream[s].pc = "history" /\ stream[s].todo = <<>>
    /\ stream' = [stream EXCEPT ![s].pc = "live", ![s].subscribed = TRUE, ![s].since = Now]
    /\ UNCHANGED <<published, history>>

\* handleEventsSSE, handleWS: the subscription only
OpenEvents(s, k) ==
    /\ stream[s].pc = "closed"
    /\ stream' = [stream EXCEPT ![s] = Live("event", k)]
    /\ UNCHANGED <<published, history>>

\* A message is taken from the channel and written.
Receive(s) ==
    /\ stream[s].pc = "live" /\ stream[s].chan # <<>>
    /\ stream' = [stream EXCEPT ![s].sent = Append(@, Head(stream[s].chan)),
                                ![s].chan = Tail(@)]
    /\ UNCHANGED <<published, history>>

\* The client is gone or a write fails: the deferred cancel unsubscribes.
Close(s) ==
    /\ stream[s].pc # "closed"
    /\ stream' = [stream EXCEPT ![s] = Closed]
    /\ UNCHANGED <<published, history>>

Init ==
    /\ published = <<>>
    /\ history = [k \in Keys |-> <<>>]
    /\ stream = [s \in Streams |-> Closed]

Next ==
    \/ \E k \in Keys : AppendLog(k)
    \/ \E k \in Keys \cup {All} : PublishEvent(k)
    \/ \E s \in Streams :
         \/ \E k \in Keys : OpenLogs(s, k)
         \/ \E k \in Keys \cup {All} : OpenEvents(s, k)
         \/ WriteHistory(s) \/ SubscribeLogs(s) \/ Receive(s) \/ Close(s)

Spec == Init /\ [][Next]_vars

(***************************************************************************)
(* Properties                                                              *)
(***************************************************************************)
Messages == 1 .. MaxMsgs

\* Everything a request has written and is going to write, in that order.
Output(r) == r.sent \o r.todo \o r.chan

For(r, n) == /\ published[n].hub = r.hub
             /\ published[n].key = r.key \/ r.key = All

Request == [hub : {"log", "event"}, key : Keys \cup {All},
            pc : {"closed", "history", "live"}, subscribed : BOOLEAN,
            todo : Seq(Messages), chan : Seq(Messages), sent : Seq(Messages), since : Nat]

\* Types of the hubs and streams.
TypeOK ==
    /\ published \in Seq([hub : {"log", "event"}, key : Keys \cup {All}])
    /\ history \in [Keys -> Seq(Messages)]
    /\ stream \in [Streams -> Request]
    /\ \A k \in Keys : Len(history[k]) <= MaxLines
    /\ \A s \in Streams : Len(stream[s].chan) <= Cap

Rising(seq) == \A i, j \in DOMAIN seq : i < j => seq[i] < seq[j]

\* A stream shows messages of its own key, each once and in the order they
\* were published: what it takes from the history never comes again from the
\* subscription, and a subscriber of everything gets no event twice.
OnceInOrder ==
    \A s \in Streams :
       LET out == Output(stream[s]) IN
       Rising(out) /\ \A i \in DOMAIN out : For(stream[s], out[i])

\* A slow reader loses nothing until more messages than its channel has places
\* have come since it subscribed.
New(r) == {n \in r.since + 1 .. Now : For(r, n)}

KeptUpToCap ==
    \A s \in Streams :
       LET r == stream[s] IN
       r.subscribed /\ Cardinality(New(r)) <= Cap
          => \A n \in New(r) : \E i \in DOMAIN Output(r) : Output(r)[i] = n

\* A stream is faithful to what was published: once, in order, and complete until
\* its channel overflows.
StreamExact == OnceInOrder /\ KeptUpToCap

\* What StreamExact rests on: a history holds lines of its key in their order, ...
HistoryGood ==
    \A k \in Keys :
       /\ Rising(history[k])
       /\ \A i \in DOMAIN history[k] :
            /\ history[k][i] <= Now
            /\ published[history[k][i]] = [hub |-> "log", key |-> k]

\* ... and a request is past its history before it has a channel, which holds
\* only what came since.
StagesGood ==
    \A s \in Streams :
       LET r == stream[s] IN
       /\ r.subscribed <=> r.pc = "live"
       /\ r.pc = "live" => r.todo = <<>>
       /\ r.pc # "live" => r.chan = <<>>
       /\ r.pc # "closed" /\ r.hub = "log" => r.key # All
       /\ r.since <= Now
       /\ \A i \in DOMAIN Output(r) : Output(r)[i] <= Now
       /\ \A i \in DOMAIN r.chan : r.chan[i] > r.since

\* The history does not grow over the lifetime of the process, however many
\* tool calls there are and whoever reads them: it holds MaxKeys keys, or one
\* more than there are readers.
HistoryBounded == Cardinality(Held(history)) <= Max({MaxKeys, Cardinality(Streams) + 1})

\* The types, with the lengths of channels and histories, the stages of a request
\* and the order of the histories, and the bound on keys.
StreamsInv == TypeOK /\ HistoryGood /\ StagesGood /\ HistoryBounded

IInv == StreamsInv /\ StreamExact

\* "Only evict keys with no active subscribers": other calls' lines never take
\* away the history of a call that is being watched.
WatchedHistoryKept ==
    [][\A k \in Keys : Subs("log", k) # {} /\ history[k] # <<>>
          => history'[k] # <<>> /\ history'[k][Len(history'[k])] >= history[k][Len(history[k])]]_vars
=============================================================================
