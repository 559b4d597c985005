--------------------------- MODULE Streams_proofs ---------------------------
(***************************************************************************)
(* Proofs about the hubs and their streams, for any number of readers,     *)
(* keys and messages and any capacities: a stream shows each message of    *)
(* its key once, in order, and misses none before its channel overflows;   *)
(* channels and histories are bounded; and a watched history is kept.      *)
(***************************************************************************)
EXTENDS Streams, SequenceTheorems, FiniteSetTheorems, TLAPS

(***************************************************************************)
(* Sequences                                                               *)
(***************************************************************************)
LEMMA RisingAppend ==
  ASSUME NEW seq \in Seq(Nat), Rising(seq), NEW m \in Nat,
         \A i \in DOMAIN seq : seq[i] < m
  PROVE  Rising(Append(seq, m))
<1>1. /\ DOMAIN Append(seq, m) = 1 .. Len(seq) + 1 /\ DOMAIN seq = 1 .. Len(seq)
      /\ Len(seq) \in Nat /\ Append(seq, m)[Len(seq) + 1] = m
      /\ \A i \in 1 .. Len(seq) : Append(seq, m)[i] = seq[i]
  BY AppendProperties, LenProperties
<1>2. SUFFICES ASSUME NEW i \in 1 .. Len(seq) + 1, NEW j \in 1 .. Len(seq) + 1, i < j
               PROVE  Append(seq, m)[i] < Append(seq, m)[j]
  BY <1>1 DEF Rising
<1>3. i \in 1 .. Len(seq)
  BY <1>1, <1>2
<1>4. CASE j = Len(seq) + 1
  BY <1>1, <1>3, <1>4
<1>5. CASE j # Len(seq) + 1
  <2>1. j \in 1 .. Len(seq)
    BY <1>1, <1>5
  <2>2. QED
    BY <1>1, <1>2, <1>3, <2>1 DEF Rising
<1>6. QED
  BY <1>4, <1>5

LEMMA RisingTail ==
  ASSUME NEW seq \in Seq(Nat), seq # <<>>, Rising(seq)
  PROVE  Rising(Tail(seq))
<1>1. /\ DOMAIN Tail(seq) = 1 .. (Len(seq) - 1) /\ DOMAIN seq = 1 .. Len(seq)
      /\ Len(seq) \in Nat
      /\ \A i \in 1 .. (Len(seq) - 1) : Tail(seq)[i] = seq[i + 1]
  BY HeadTailProperties, LenProperties
<1>2. SUFFICES ASSUME NEW i \in 1 .. (Len(seq) - 1), NEW j \in 1 .. (Len(seq) - 1), i < j
               PROVE  Tail(seq)[i] < Tail(seq)[j]
  BY <1>1 DEF Rising
<1>3. i + 1 \in DOMAIN seq /\ j + 1 \in DOMAIN seq /\ i + 1 < j + 1
  BY <1>1, <1>2
<1>4. QED
  BY <1>1, <1>3 DEF Rising

LEMMA HeadThenTail ==
  ASSUME NEW S, NEW seq \in Seq(S), seq # <<>>
  PROVE  /\ seq = <<Head(seq)>> \o Tail(seq)
         /\ Head(seq) = seq[1] /\ 1 \in DOMAIN seq
         /\ <<Head(seq)>> \in Seq(S) /\ Tail(seq) \in Seq(S)
<1>1. Len(seq) \in Nat \ {0} /\ DOMAIN seq = 1 .. Len(seq) /\ Head(seq) = seq[1]
  BY EmptySeq, LenProperties
<1>2. Head(seq) \in S /\ Tail(seq) \in Seq(S) /\ <<Head(seq)>> \in Seq(S)
  BY HeadTailProperties
<1>3. 1 \in 1 .. Len(seq) /\ Len(seq) \in 1 .. Len(seq)
  BY <1>1
<1>4. SubSeq(seq, 1, Len(seq)) = <<seq[1]>> \o SubSeq(seq, 1 + 1, Len(seq))
  BY <1>3, SubSeqRecursiveFirst
<1>5. SubSeq(seq, 1, Len(seq)) = seq /\ Tail(seq) = SubSeq(seq, 2, Len(seq))
  BY SubSeqFull, TailIsSubSeq
<1>6. QED
  BY <1>1, <1>2, <1>3, <1>4, <1>5

LEMMA MoveHead ==
  ASSUME NEW S, NEW a \in Seq(S), NEW b \in Seq(S), b # <<>>
  PROVE  /\ Append(a, Head(b)) \o Tail(b) = a \o b
         /\ Append(a, Head(b)) \in Seq(S) /\ Tail(b) \in Seq(S)
<1> DEFINE h == <<Head(b)>>
           t == Tail(b)
<1>1. b = h \o t /\ h \in Seq(S) /\ t \in Seq(S) /\ Head(b) \in S
  BY HeadThenTail, HeadTailProperties
<1>2. Append(a, Head(b)) = a \o h /\ Append(a, Head(b)) \in Seq(S)
  BY <1>1, AppendIsConcat, AppendProperties
<1>3. (a \o h) \o t = a \o (h \o t)
  <2> HIDE DEF h, t
  <2>1. QED
    BY <1>1, ConcatAssociative
<1>4. QED
  BY <1>1, <1>2, <1>3

(***************************************************************************)
(* The output of a request                                                 *)
(***************************************************************************)
LEMMA OutputType ==
  ASSUME NEW r \in Request
  PROVE  /\ Output(r) \in Seq(Messages)
         /\ r.sent \in Seq(Messages) /\ r.todo \in Seq(Messages) /\ r.chan \in Seq(Messages)
<1>1. r.sent \in Seq(Messages) /\ r.todo \in Seq(Messages) /\ r.chan \in Seq(Messages)
  BY DEF Request
<1>2. r.sent \o r.todo \in Seq(Messages)
  BY <1>1, ConcatProperties
<1>3. QED
  BY <1>1, <1>2, ConcatProperties DEF Output

\* A message sent to the channel comes last.
LEMMA OutputSend ==
  ASSUME NEW r \in Request, NEW m \in Messages
  PROVE  Output([r EXCEPT !.chan = Append(r.chan, m)]) = Append(Output(r), m)
<1> DEFINE a == r.sent \o r.todo
           c == r.chan
           u == <<m>>
<1>1. a \in Seq(Messages) /\ c \in Seq(Messages) /\ u \in Seq(Messages)
  BY OutputType, ConcatProperties
<1>2. Append(c, m) = c \o u
  BY <1>1, AppendIsConcat
<1>3. Append(a \o c, m) = (a \o c) \o u
  BY <1>1, ConcatProperties, AppendIsConcat
<1>4. (a \o c) \o u = a \o (c \o u)
  <2> HIDE DEF a, c, u
  <2>1. QED
    BY <1>1, ConcatAssociative
<1>5. Output(r) = a \o r.chan
  BY DEF Output
<1>6. Output([r EXCEPT !.chan = Append(r.chan, m)]) = a \o Append(r.chan, m)
  BY DEF Output, Request
<1>7. QED
  BY <1>2, <1>3, <1>4, <1>5, <1>6

\* Writing a line of the history, or a message of the channel once there is no
\* history left, changes nothing of the output.
LEMMA OutputWrite ==
  ASSUME NEW r \in Request, r.todo # <<>>
  PROVE  Output([r EXCEPT !.sent = Append(r.sent, Head(r.todo)), !.todo = Tail(r.todo)])
           = Output(r)
<1>1. Append(r.sent, Head(r.todo)) \o Tail(r.todo) = r.sent \o r.todo
  BY OutputType, MoveHead
<1>2. Output([r EXCEPT !.sent = Append(r.sent, Head(r.todo)), !.todo = Tail(r.todo)])
        = Append(r.sent, Head(r.todo)) \o Tail(r.todo) \o r.chan
  BY DEF Output, Request
<1>3. QED
  BY <1>1, <1>2 DEF Output

LEMMA OutputReceive ==
  ASSUME NEW r \in Request, r.todo = <<>>, r.chan # <<>>
  PROVE  Output([r EXCEPT !.sent = Append(r.sent, Head(r.chan)), !.chan = Tail(r.chan)])
           = Output(r)
<1>1. /\ Append(r.sent, Head(r.chan)) \o Tail(r.chan) = r.sent \o r.chan
      /\ Append(r.sent, Head(r.chan)) \in Seq(Messages)
  BY OutputType, MoveHead
<1>2. /\ Append(r.sent, Head(r.chan)) \o <<>> = Append(r.sent, Head(r.chan))
      /\ r.sent \o <<>> = r.sent
  BY <1>1, OutputType, ConcatEmptySeq
<1>3. Output([r EXCEPT !.sent = Append(r.sent, Head(r.chan)), !.chan = Tail(r.chan)])
        = Append(r.sent, Head(r.chan)) \o <<>> \o Tail(r.chan)
  BY DEF Output, Request
<1>4. Output(r) = r.sent \o <<>> \o r.chan
  BY DEF Output
<1>5. QED
  BY <1>1, <1>2, <1>3, <1>4

(***************************************************************************)
(* The inductive invariant, request by request                             *)
(***************************************************************************)
Publications == Seq([hub : {"log", "event"}, key : Keys \cup {All}])

ForIn(r, pub, n) == pub[n].hub = r.hub /\ (pub[n].key = r.key \/ r.key = All)

NewIn(r, pub) == {n \in r.since + 1 .. Len(pub) : ForIn(r, pub, n)}

\* What the request shows.
Exact(r, pub) ==
    /\ Rising(Output(r))
    /\ \A i \in DOMAIN Output(r) : Output(r)[i] <= Len(pub) /\ ForIn(r, pub, Output(r)[i])

Complete(r, pub) ==
    r.subscribed /\ Cardinality(NewIn(r, pub)) <= Cap
       => \A n \in NewIn(r, pub) : \E i \in DOMAIN Output(r) : Output(r)[i] = n

\* Where it is.
Staged(r, pub) ==
    /\ r \in Request /\ Len(r.chan) <= Cap
    /\ r.subscribed <=> r.pc = "live"
    /\ r.pc = "live" => r.todo = <<>>
    /\ r.pc # "live" => r.chan = <<>>
    /\ r.pc # "closed" /\ r.hub = "log" => r.key # All
    /\ r.since <= Len(pub)
    /\ \A i \in DOMAIN r.chan : r.chan[i] > r.since

GoodRequest(r, pub) == Staged(r, pub) /\ Exact(r, pub) /\ Complete(r, pub)

GoodHistory(h, pub) ==
    /\ h \in [Keys -> Seq(Messages)]
    /\ \A k \in Keys :
         /\ Len(h[k]) <= MaxLines /\ Rising(h[k])
         /\ \A i \in DOMAIN h[k] : /\ h[k][i] <= Len(pub)
                                   /\ pub[h[k][i]] = [hub |-> "log", key |-> k]

LEMMA IInvParts ==
  IInv <=> /\ published \in Publications
           /\ GoodHistory(history, published)
           /\ stream \in [Streams -> Request]
           /\ \A s \in Streams : GoodRequest(stream[s], published)
           /\ HistoryBounded
<1>1. StreamExact <=> \A s \in Streams : /\ Rising(Output(stream[s]))
                                         /\ \A i \in DOMAIN Output(stream[s]) :
                                               ForIn(stream[s], published, Output(stream[s])[i])
                                         /\ Complete(stream[s], published)
  BY DEF StreamExact, OnceInOrder, KeptUpToCap, For, ForIn, New, NewIn, Now, Complete
<1>2. StreamsInv <=> /\ published \in Publications
                     /\ GoodHistory(history, published)
                     /\ stream \in [Streams -> Request]
                     /\ \A s \in Streams :
                          /\ Staged(stream[s], published)
                          /\ \A i \in DOMAIN Output(stream[s]) :
                                Output(stream[s])[i] <= Len(published)
                     /\ HistoryBounded
  BY DEF StreamsInv, TypeOK, HistoryGood, StagesGood, Publications, GoodHistory, Staged, Now
<1>3. QED
  BY <1>1, <1>2 DEF IInv, GoodRequest, Exact

LEMMA IInvPartsNext ==
  IInv' <=> /\ published' \in Publications
            /\ GoodHistory(history', published')
            /\ stream' \in [Streams -> Request]
            /\ \A s \in Streams : GoodRequest(stream'[s], published')
            /\ HistoryBounded'
<1>1. StreamExact' <=> \A s \in Streams : /\ Rising(Output(stream'[s]))
                                          /\ \A i \in DOMAIN Output(stream'[s]) :
                                                ForIn(stream'[s], published', Output(stream'[s])[i])
                                          /\ Complete(stream'[s], published')
  BY DEF StreamExact, OnceInOrder, KeptUpToCap, For, ForIn, New, NewIn, Now, Complete
<1>2. StreamsInv' <=> /\ published' \in Publications
                      /\ GoodHistory(history', published')
                      /\ stream' \in [Streams -> Request]
                      /\ \A s \in Streams :
                           /\ Staged(stream'[s], published')
                           /\ \A i \in DOMAIN Output(stream'[s]) :
                                 Output(stream'[s])[i] <= Len(published')
                      /\ HistoryBounded'
  BY DEF StreamsInv, TypeOK, HistoryGood, StagesGood, Publications, GoodHistory, Staged, Now
<1>3. QED
  BY <1>1, <1>2 DEF IInv, GoodRequest, Exact

(***************************************************************************)
(* A publication                                                           *)
(***************************************************************************)
Entry == [hub : {"log", "event"}, key : Keys \cup {All}]

\* The messages before it stay what they were.
LEMMA PublicationKeeps ==
  ASSUME NEW pub \in Publications, NEW e \in Entry
  PROVE  /\ Append(pub, e) \in Publications
         /\ Len(pub) \in Nat /\ Len(Append(pub, e)) = Len(pub) + 1
         /\ Append(pub, e)[Len(pub) + 1] = e
         /\ \A n \in 1 .. Len(pub) : Append(pub, e)[n] = pub[n]
  BY AppendProperties, LenProperties DEF Publications, Entry

\* What a request has to have seen is finite, and what waits in its channel is
\* part of it.
LEMMA ChannelIsNew ==
  ASSUME NEW pub \in Publications, NEW r, GoodRequest(r, pub)
  PROVE  /\ IsFiniteSet(NewIn(r, pub)) /\ Cardinality(NewIn(r, pub)) \in Nat
         /\ Len(r.chan) <= Cardinality(NewIn(r, pub))
<1> DEFINE new == NewIn(r, pub)
           n == Len(r.chan)
<1>1. r \in Request /\ r.since \in Nat /\ Len(pub) \in Nat
  BY LenProperties DEF GoodRequest, Staged, Request, Publications
<1>2. r.sent \in Seq(Messages) /\ r.todo \in Seq(Messages) /\ r.chan \in Seq(Messages)
  BY <1>1, OutputType
<1>3. n \in Nat /\ DOMAIN r.chan = 1 .. n /\ \A i \in 1 .. n : r.chan[i] \in Messages
  BY <1>2, LenProperties, ElementOfSeq
<1>4. IsFiniteSet(r.since + 1 .. Len(pub))
  BY <1>1, FS_Interval
<1>5. IsFiniteSet(new) /\ Cardinality(new) \in Nat
  BY <1>4, FS_Subset, FS_CardinalityType DEF NewIn
<1>6. PICK m \in Nat : /\ \A i \in 1 .. n : m + i \in DOMAIN Output(r)
                                            /\ Output(r)[m + i] = r.chan[i]
  <2> DEFINE a == r.sent \o r.todo
  <2>1. a \in Seq(Messages) /\ Len(a) \in Nat
    BY <1>2, ConcatProperties, LenProperties
  <2>2. Output(r) = a \o r.chan
    BY DEF Output
  <2> HIDE DEF a
  <2>3. /\ DOMAIN (a \o r.chan) = 1 .. Len(a) + n
        /\ \A i \in 1 .. Len(a) + n :
             (a \o r.chan)[i] = IF i <= Len(a) THEN a[i] ELSE r.chan[i - Len(a)]
    BY <1>2, <2>1, ConcatProperties, LenProperties
  <2>4. ASSUME NEW i \in 1 .. n
        PROVE  Len(a) + i \in DOMAIN Output(r) /\ Output(r)[Len(a) + i] = r.chan[i]
    <3>1. /\ Len(a) + i \in 1 .. Len(a) + n /\ ~(Len(a) + i <= Len(a))
          /\ Len(a) + i - Len(a) = i
      BY <1>3, <2>1
    <3>2. QED
      BY <2>2, <2>3, <3>1
  <2>5. QED
    BY <2>1, <2>4
<1>7. \A i \in 1 .. n : r.chan[i] \in new
  <2>1. SUFFICES ASSUME NEW i \in 1 .. n PROVE r.chan[i] \in new
    OBVIOUS
  <2>2. r.chan[i] <= Len(pub) /\ ForIn(r, pub, r.chan[i])
    BY <1>6 DEF GoodRequest, Exact
  <2>3. r.chan[i] > r.since /\ r.chan[i] \in Nat
    BY <1>3, StreamsAssumption DEF GoodRequest, Staged, Messages
  <2>4. QED
    BY <1>1, <2>2, <2>3 DEF NewIn
<1>8. ASSUME NEW i \in 1 .. n, NEW j \in 1 .. n, r.chan[i] = r.chan[j]
      PROVE  i = j
  <2>1. i \in Nat /\ j \in Nat /\ r.chan[i] \in Nat /\ r.chan[j] \in Nat
    BY <1>3, StreamsAssumption DEF Messages
  <2>2. \A x, y \in 1 .. n : x < y => r.chan[x] < r.chan[y]
    <3>1. SUFFICES ASSUME NEW x \in 1 .. n, NEW y \in 1 .. n, x < y
                   PROVE  r.chan[x] < r.chan[y]
      OBVIOUS
    <3>2. m + x < m + y
      BY <1>3, <3>1
    <3>3. QED
      BY <1>6, <3>2 DEF GoodRequest, Exact, Rising
  <2>3. ~(i < j) /\ ~(j < i)
    BY <1>8, <2>1, <2>2
  <2>4. QED
    BY <2>1, <2>3
<1> HIDE DEF new
<1>9. [i \in 1 .. n |-> r.chan[i]] \in Injection(1 .. n, new)
  BY <1>7, <1>8 DEF Injection, IsInjective
<1>10. Cardinality(1 .. n) <= Cardinality(new)
  BY <1>5, <1>9, FS_Injection
<1>11. Cardinality(1 .. n) = n
  BY <1>3, FS_Interval
<1>12. QED
  BY <1>5, <1>10, <1>11 DEF new

\* A publication that is not for a request, or finds it not subscribed.
LEMMA NotDelivered ==
  ASSUME NEW pub \in Publications, NEW e \in Entry, NEW r, GoodRequest(r, pub),
         ~(r.subscribed /\ ForIn(r, Append(pub, e), Len(pub) + 1))
  PROVE  GoodRequest(r, Append(pub, e))
<1> DEFINE pub2 == Append(pub, e)
<1>1. /\ pub2 \in Publications /\ Len(pub) \in Nat /\ Len(pub2) = Len(pub) + 1
      /\ \A n \in 1 .. Len(pub) : pub2[n] = pub[n]
  BY PublicationKeeps
<1>2. r \in Request /\ r.since \in Nat
  BY DEF GoodRequest, Staged, Request
<1>3. \A i \in DOMAIN Output(r) : Output(r)[i] \in Nat \ {0}
  BY <1>2, OutputType, LenProperties, ElementOfSeq, StreamsAssumption DEF Messages
<1> HIDE DEF pub2
<1>4. Staged(r, pub2)
  BY <1>1, <1>2 DEF GoodRequest, Staged
<1>5. Exact(r, pub2)
  BY <1>1, <1>3 DEF GoodRequest, Exact, ForIn
<1>6. Complete(r, pub2)
  <2>1. CASE ~r.subscribed
    BY <2>1 DEF Complete
  <2>2. CASE r.subscribed
    <3>1. ~ForIn(r, pub2, Len(pub) + 1)
      BY <2>2 DEF pub2
    <3>2. NewIn(r, pub2) = NewIn(r, pub)
      BY <1>1, <1>2, <3>1 DEF NewIn, ForIn
    <3>3. QED
      BY <3>2 DEF GoodRequest, Complete
  <2>3. QED
    BY <2>1, <2>2
<1>7. QED
  BY <1>4, <1>5, <1>6 DEF GoodRequest, pub2

\* A publication for a subscriber: it goes into the channel, or the channel is
\* full and there are already more new messages than it has places.
LEMMA Delivered ==
  ASSUME NEW pub \in Publications, NEW e \in Entry, NEW r, GoodRequest(r, pub),
         r.subscribed, ForIn(r, Append(pub, e), Len(pub) + 1), Len(pub) + 1 \in Messages
  PROVE  GoodRequest([r EXCEPT !.chan = Send(r.chan, Len(pub) + 1)], Append(pub, e))
<1> DEFINE pub2 == Append(pub, e)
           m == Len(pub) + 1
           q == [r EXCEPT !.chan = Send(r.chan, m)]
<1>1. /\ pub2 \in Publications /\ Len(pub) \in Nat /\ Len(pub2) = m
      /\ \A n \in 1 .. Len(pub) : pub2[n] = pub[n]
      /\ m \in Messages /\ m \in Nat /\ ForIn(r, pub2, m)
  BY PublicationKeeps
<1>2. r \in Request /\ r.since \in Nat /\ r.since <= Len(pub) /\ r.chan \in Seq(Messages)
  BY OutputType DEF GoodRequest, Staged, Request
<1>3. /\ Output(r) \in Seq(Messages)
      /\ \A i \in DOMAIN Output(r) : Output(r)[i] \in Nat \ {0} /\ Output(r)[i] <= Len(pub)
  BY <1>2, OutputType, LenProperties, ElementOfSeq, StreamsAssumption
     DEF Messages, GoodRequest, Exact
<1>4. /\ IsFiniteSet(NewIn(r, pub)) /\ Cardinality(NewIn(r, pub)) \in Nat
      /\ Len(r.chan) <= Cardinality(NewIn(r, pub))
  BY ChannelIsNew
<1>5. Len(r.chan) \in Nat /\ DOMAIN r.chan = 1 .. Len(r.chan) /\ Cap \in Nat
  BY <1>2, LenProperties, StreamsAssumption
<1> HIDE DEF pub2
<1>6. NewIn(r, pub2) = NewIn(r, pub) \cup {m} /\ m \notin NewIn(r, pub)
  BY <1>1, <1>2 DEF NewIn, ForIn
<1>7. Cardinality(NewIn(r, pub2)) = Cardinality(NewIn(r, pub)) + 1
  BY <1>4, <1>6, FS_AddElement
<1>8. CASE Len(r.chan) < Cap
  <2>1. q = [r EXCEPT !.chan = Append(r.chan, m)]
    BY <1>8 DEF Send
  <2>2. /\ Append(r.chan, m) \in Seq(Messages) /\ Len(Append(r.chan, m)) = Len(r.chan) + 1
        /\ DOMAIN Append(r.chan, m) = 1 .. Len(r.chan) + 1
        /\ Append(r.chan, m)[Len(r.chan) + 1] = m
        /\ \A i \in 1 .. Len(r.chan) : Append(r.chan, m)[i] = r.chan[i]
    BY <1>1, <1>2, <1>5, AppendProperties, LenProperties
  <2>3. Output(q) = Append(Output(r), m)
    BY <1>1, <1>2, <2>1, OutputSend
  <2>4. /\ q \in Request /\ q.chan = Append(r.chan, m) /\ q.since = r.since /\ q.pc = r.pc
        /\ q.subscribed = r.subscribed /\ q.hub = r.hub /\ q.key = r.key /\ q.todo = r.todo
    BY <1>2, <2>1, <2>2 DEF Request
  <2> HIDE DEF q, m
  <2>5. Staged(q, pub2)
    <3>1. Len(q.chan) <= Cap
      BY <1>5, <1>8, <2>2, <2>4
    <3>2. r.pc = "live"
      BY DEF GoodRequest, Staged
    <3>3. \A i \in DOMAIN q.chan : q.chan[i] > q.since
      <4>1. SUFFICES ASSUME NEW i \in 1 .. Len(r.chan) + 1
                     PROVE  Append(r.chan, m)[i] > r.since
        BY <2>2, <2>4
      <4>2. CASE i = Len(r.chan) + 1
        BY <1>1, <1>2, <2>2, <4>2 DEF m
      <4>3. CASE i # Len(r.chan) + 1
        <5>1. i \in 1 .. Len(r.chan)
          BY <1>5, <4>3
        <5>2. QED
          BY <1>5, <2>2, <5>1 DEF GoodRequest, Staged
      <4>4. QED
        BY <4>2, <4>3
    <3>4. q.since <= Len(pub2)
      BY <1>1, <1>2, <2>4 DEF m
    <3>5. QED
      BY <2>4, <3>1, <3>2, <3>3, <3>4 DEF GoodRequest, Staged
  <2>6. /\ DOMAIN Output(r) = 1 .. Len(Output(r)) /\ Len(Output(r)) \in Nat
        /\ DOMAIN Output(q) = 1 .. Len(Output(r)) + 1
        /\ Output(q)[Len(Output(r)) + 1] = m
        /\ \A i \in 1 .. Len(Output(r)) : Output(q)[i] = Output(r)[i]
    BY <1>1, <1>3, <2>3, AppendProperties, LenProperties
  <2>7. Exact(q, pub2)
    <3>1. Rising(Output(q))
      <4>1. Output(r) \in Seq(Nat)
        BY <1>3, SeqMonotonic, StreamsAssumption DEF Messages
      <4>2. \A i \in DOMAIN Output(r) : Output(r)[i] < m
        BY <1>1, <1>3 DEF m
      <4>3. QED
        BY <1>1, <2>3, <4>1, <4>2, RisingAppend DEF GoodRequest, Exact
    <3>2. ASSUME NEW i \in DOMAIN Output(q)
          PROVE  Output(q)[i] <= Len(pub2) /\ ForIn(q, pub2, Output(q)[i])
      <4>1. CASE i = Len(Output(r)) + 1
        BY <1>1, <2>4, <2>6, <4>1 DEF ForIn
      <4>2. CASE i # Len(Output(r)) + 1
        <5>1. i \in DOMAIN Output(r) /\ Output(q)[i] = Output(r)[i]
          BY <2>6, <4>2
        <5>2. Output(r)[i] \in 1 .. Len(pub) /\ ForIn(r, pub, Output(r)[i])
          BY <1>1, <1>3, <5>1 DEF GoodRequest, Exact
        <5>3. Output(r)[i] <= Len(pub2)
          BY <1>1, <5>2 DEF m
        <5>4. ForIn(q, pub2, Output(r)[i])
          BY <1>1, <2>4, <5>2 DEF ForIn
        <5>5. QED
          BY <5>1, <5>3, <5>4
      <4>3. QED
        BY <4>1, <4>2
    <3>3. QED
      BY <3>1, <3>2 DEF Exact
  <2>8. Complete(q, pub2)
    <3>1. NewIn(q, pub2) = NewIn(r, pub2)
      BY <2>4 DEF NewIn, ForIn
    <3>2. SUFFICES ASSUME Cardinality(NewIn(r, pub2)) <= Cap, NEW n \in NewIn(r, pub2)
                   PROVE  \E i \in DOMAIN Output(q) : Output(q)[i] = n
      BY <3>1 DEF Complete
    <3>3. CASE n = m
      BY <2>6, <3>3
    <3>4. CASE n # m
      <4>1. n \in NewIn(r, pub) /\ Cardinality(NewIn(r, pub)) <= Cap
        BY <1>4, <1>5, <1>6, <1>7, <3>2, <3>4
      <4>2. PICK i \in DOMAIN Output(r) : Output(r)[i] = n
        BY <4>1 DEF GoodRequest, Complete
      <4>3. QED
        BY <2>6, <4>2
    <3>5. QED
      BY <3>3, <3>4
  <2>9. QED
    BY <2>5, <2>7, <2>8 DEF GoodRequest, q, m, pub2
<1>9. CASE ~(Len(r.chan) < Cap)
  <2>1. q = r
    BY <1>2, <1>9 DEF Send, Request
  <2>2. ~(Cardinality(NewIn(r, pub2)) <= Cap)
    BY <1>4, <1>5, <1>7, <1>9
  <2>3. Complete(r, pub2)
    BY <2>2 DEF Complete
  <2>4. Staged(r, pub2)
    BY <1>1, <1>2 DEF GoodRequest, Staged
  <2>5. Exact(r, pub2)
    BY <1>1, <1>3 DEF GoodRequest, Exact, ForIn
  <2>6. GoodRequest(r, pub2)
    BY <2>3, <2>4, <2>5 DEF GoodRequest
  <2>7. QED
    BY <2>1, <2>6 DEF pub2
<1>10. QED
  BY <1>8, <1>9

(***************************************************************************)
(* The histories                                                           *)
(***************************************************************************)
LEMMA HistoryLater ==
  ASSUME NEW pub \in Publications, NEW e \in Entry, NEW h, GoodHistory(h, pub)
  PROVE  GoodHistory(h, Append(pub, e))
<1> DEFINE pub2 == Append(pub, e)
<1>1. /\ Len(pub) \in Nat /\ Len(pub2) = Len(pub) + 1
      /\ \A n \in 1 .. Len(pub) : pub2[n] = pub[n]
  BY PublicationKeeps
<1> HIDE DEF pub2
<1>2. ASSUME NEW x \in Keys, NEW i \in DOMAIN h[x]
      PROVE  h[x][i] <= Len(pub2) /\ pub2[h[x][i]] = [hub |-> "log", key |-> x]
  <2>1. h[x][i] \in Nat \ {0} /\ h[x][i] <= Len(pub)
    <3>1. h[x] \in Seq(Messages) /\ h[x][i] <= Len(pub)
      BY DEF GoodHistory
    <3>2. h[x][i] \in Messages
      BY <3>1, LenProperties, ElementOfSeq
    <3>3. QED
      BY <3>1, <3>2, StreamsAssumption DEF Messages
  <2>2. pub[h[x][i]] = [hub |-> "log", key |-> x]
    BY DEF GoodHistory
  <2>3. QED
    BY <1>1, <2>1, <2>2
<1>3. GoodHistory(h, pub2)
  BY <1>2 DEF GoodHistory
<1>4. QED
  BY <1>3 DEF pub2

\* A new line at the end, and the oldest one gone when there are too many.
LEMMA HistoryAppends ==
  ASSUME NEW pub \in Publications, NEW k \in Keys, NEW h, GoodHistory(h, pub),
         Len(pub) + 1 \in Messages
  PROVE  LET e    == [hub |-> "log", key |-> k]
             line == Trim(Append(h[k], Len(pub) + 1))
         IN  /\ GoodHistory([h EXCEPT ![k] = line], Append(pub, e))
             /\ line # <<>> /\ line[Len(line)] = Len(pub) + 1
<1> DEFINE e == [hub |-> "log", key |-> k]
           pub2 == Append(pub, e)
           m == Len(pub) + 1
           new == Append(h[k], m)
           line == Trim(new)
<1>1. e \in Entry
  BY DEF Entry
<1>2. /\ Len(pub) \in Nat /\ Len(pub2) = m /\ pub2[m] = e
      /\ \A n \in 1 .. Len(pub) : pub2[n] = pub[n]
  BY <1>1, PublicationKeeps
<1>3. GoodHistory(h, pub2)
  BY <1>1, HistoryLater
<1>4. /\ h[k] \in Seq(Messages) /\ Len(h[k]) \in Nat /\ DOMAIN h[k] = 1 .. Len(h[k])
      /\ Len(h[k]) <= MaxLines /\ MaxLines \in Nat \ {0}
      /\ \A i \in 1 .. Len(h[k]) : h[k][i] \in Nat /\ h[k][i] < m
  BY <1>2, LenProperties, ElementOfSeq, StreamsAssumption DEF GoodHistory, Messages
<1>5. /\ new \in Seq(Messages) /\ Len(new) = Len(h[k]) + 1 /\ new # <<>>
      /\ DOMAIN new = 1 .. Len(h[k]) + 1
      /\ new[Len(h[k]) + 1] = m /\ \A i \in 1 .. Len(h[k]) : new[i] = h[k][i]
  BY <1>4, AppendProperties, LenProperties
<1> HIDE DEF pub2, e
<1>6. Rising(new)
  <2>1. h[k] \in Seq(Nat) /\ m \in Nat
    BY <1>2, <1>4, SeqMonotonic, StreamsAssumption DEF Messages
  <2>2. Rising(h[k])
    BY DEF GoodHistory
  <2>3. QED
    BY <1>4, <2>1, <2>2, RisingAppend
<1>7. \A i \in DOMAIN new : new[i] <= Len(pub2) /\ pub2[new[i]] = e
  <2>1. SUFFICES ASSUME NEW i \in 1 .. Len(h[k]) + 1
                 PROVE  new[i] <= Len(pub2) /\ pub2[new[i]] = e
    BY <1>5
  <2>2. CASE i = Len(h[k]) + 1
    BY <1>2, <1>5, <2>2
  <2>3. CASE i # Len(h[k]) + 1
    <3>1. i \in 1 .. Len(h[k])
      BY <1>4, <2>3
    <3>2. QED
      BY <1>3, <1>4, <1>5, <3>1 DEF GoodHistory, e
  <2>4. QED
    BY <2>2, <2>3
<1> HIDE DEF new, m
<1>8. /\ line \in Seq(Messages) /\ Rising(line) /\ Len(line) <= MaxLines
      /\ \A i \in DOMAIN line : line[i] <= Len(pub2) /\ pub2[line[i]] = e
      /\ line # <<>> /\ line[Len(line)] = m
  <2>1. CASE Len(new) <= MaxLines
    BY <1>4, <1>5, <1>6, <1>7, <2>1 DEF Trim
  <2>2. CASE ~(Len(new) <= MaxLines)
    <3>1. line = Tail(new) /\ Len(new) = MaxLines + 1
      BY <1>4, <1>5, <2>2 DEF Trim
    <3>2. /\ Tail(new) \in Seq(Messages) /\ Len(Tail(new)) = MaxLines
          /\ DOMAIN Tail(new) = 1 .. MaxLines
          /\ \A i \in 1 .. MaxLines : Tail(new)[i] = new[i + 1]
      BY <1>4, <1>5, <3>1, HeadTailProperties, LenProperties
    <3>3. Tail(new)[MaxLines] = m
      BY <1>4, <1>5, <3>1, <3>2
    <3>4. \A i \in DOMAIN Tail(new) : i + 1 \in DOMAIN new
      BY <1>4, <1>5, <3>1, <3>2
    <3>5. Rising(Tail(new))
      <4>1. new \in Seq(Nat)
        BY <1>5, SeqMonotonic, StreamsAssumption DEF Messages
      <4>2. QED
        BY <1>5, <1>6, <4>1, RisingTail
    <3>6. Tail(new) # <<>>
      BY <1>4, <3>2
    <3>7. QED
      BY <1>4, <1>7, <3>1, <3>2, <3>3, <3>4, <3>5, <3>6
  <2>3. QED
    BY <2>1, <2>2
<1> HIDE DEF line
<1>9. GoodHistory([h EXCEPT ![k] = line], pub2)
  <2>1. [h EXCEPT ![k] = line] \in [Keys -> Seq(Messages)]
    BY <1>3, <1>8 DEF GoodHistory
  <2>2. ASSUME NEW x \in Keys
        PROVE  /\ Len([h EXCEPT ![k] = line][x]) <= MaxLines /\ Rising([h EXCEPT ![k] = line][x])
               /\ \A i \in DOMAIN [h EXCEPT ![k] = line][x] :
                    /\ [h EXCEPT ![k] = line][x][i] <= Len(pub2)
                    /\ pub2[[h EXCEPT ![k] = line][x][i]] = [hub |-> "log", key |-> x]
    <3>1. CASE x = k
      <4>1. [h EXCEPT ![k] = line][x] = line
        BY <1>3, <3>1 DEF GoodHistory
      <4>2. QED
        BY <1>8, <3>1, <4>1 DEF e
    <3>2. CASE x # k
      <4>1. [h EXCEPT ![k] = line][x] = h[x]
        BY <1>3, <3>2 DEF GoodHistory
      <4>2. QED
        BY <1>3, <4>1 DEF GoodHistory
    <3>3. QED
      BY <3>1, <3>2
  <2>3. QED
    BY <2>1, <2>2 DEF GoodHistory
<1>10. QED
  BY <1>8, <1>9 DEF line, new, m, pub2, e

LEMMA HistoryEvicts ==
  ASSUME NEW pub, NEW h, GoodHistory(h, pub), NEW evicted
  PROVE  GoodHistory([x \in Keys |-> IF x \in evicted THEN <<>> ELSE h[x]], pub)
<1> DEFINE g == [x \in Keys |-> IF x \in evicted THEN <<>> ELSE h[x]]
<1>1. /\ <<>> \in Seq(Messages) /\ Len(<<>>) = 0 /\ Rising(<<>>) /\ DOMAIN <<>> = {}
      /\ MaxLines \in Nat
  BY EmptySeq, StreamsAssumption DEF Rising
<1>2. g \in [Keys -> Seq(Messages)]
  BY <1>1 DEF GoodHistory
<1>3. ASSUME NEW x \in Keys
      PROVE  /\ Len(g[x]) <= MaxLines /\ Rising(g[x])
             /\ \A i \in DOMAIN g[x] : /\ g[x][i] <= Len(pub)
                                       /\ pub[g[x][i]] = [hub |-> "log", key |-> x]
  <2>1. CASE x \in evicted
    <3>1. g[x] = <<>>
      BY <2>1
    <3> HIDE DEF g
    <3>2. QED
      BY <1>1, <3>1
  <2>2. CASE x \notin evicted
    BY <2>2 DEF GoodHistory
  <2>3. QED
    BY <2>1, <2>2
<1> HIDE DEF g
<1>4. GoodHistory(g, pub)
  BY <1>2, <1>3 DEF GoodHistory
<1>5. QED
  BY <1>4 DEF g

\* The bound on the table of histories.
Bound == Max({MaxKeys, Cardinality(Streams) + 1})

LEMMA BoundFacts ==
  Bound \in Nat /\ MaxKeys <= Bound /\ Cardinality(Streams) + 1 <= Bound
<1>1. MaxKeys \in Nat /\ Cardinality(Streams) + 1 \in Nat
  BY StreamsAssumption, FS_CardinalityType
<1> DEFINE two == {MaxKeys, Cardinality(Streams) + 1}
<1>2. \E x \in two : \A y \in two : x >= y
  BY <1>1
<1>3. Bound \in two /\ \A y \in two : Bound >= y
  BY <1>2 DEF Bound, Max
<1>4. QED
  BY <1>1, <1>3

\* No more keys are watched than there are readers.
LEMMA WatchedKeys ==
  ASSUME NEW W \in SUBSET Keys, \A x \in W : Subs("log", x) # {}
  PROVE  IsFiniteSet(W) /\ Cardinality(W) <= Cardinality(Streams)
<1> DEFINE f == [x \in W |-> CHOOSE s \in Streams : s \in Subs("log", x)]
<1>1. \A x \in W : f[x] \in Streams /\ f[x] \in Subs("log", x)
  BY DEF Subs
<1>2. \A x \in W : f[x] \in Streams /\ stream[f[x]].key = x
  BY <1>1 DEF Subs
<1>3. f \in Injection(W, Streams)
  BY <1>2 DEF Injection, IsInjective
<1>4. QED
  BY <1>3, StreamsAssumption, FS_Injection

\* The loop that evicts: it gets down to MaxKeys, or leaves only the new key and
\* watched ones.
LEMMA EvictionsBound ==
  ASSUME NEW k \in Keys, NEW h \in [Keys -> Seq(Messages)],
         NEW evicted \in Evictions(h, k)
  PROVE  Cardinality(Held([x \in Keys |-> IF x \in evicted THEN <<>> ELSE h[x]])) <= Bound
<1> DEFINE g == [x \in Keys |-> IF x \in evicted THEN <<>> ELSE h[x]]
           held == Held(h)
           excess == Cardinality(held) - MaxKeys
           evictable == {x \in held \ {k} : Subs("log", x) = {}}
           n == IF excess < Cardinality(evictable) THEN excess ELSE Cardinality(evictable)
<1>1. Held(g) = held \ evicted
  BY DEF Held
<1>2. IsFiniteSet(held) /\ Cardinality(held) \in Nat
  BY StreamsAssumption, FS_Subset, FS_CardinalityType DEF Held
<1>3. IsFiniteSet(evictable) /\ Cardinality(evictable) \in Nat
  BY <1>2, FS_Subset, FS_CardinalityType
<1>4. MaxKeys \in Nat /\ excess \in Int
  BY <1>2, StreamsAssumption
<1>5. evicted \in IF excess > 0 THEN kSubset(n, evictable) ELSE {{}}
  BY DEF Evictions
<1>6. held \subseteq Keys
  BY DEF Held
<1>7. evictable \subseteq held /\ \A x \in held : x = k \/ x \in evictable \/ Subs("log", x) # {}
  OBVIOUS
<1> HIDE DEF g, held, evictable
<1>8. CASE ~(excess > 0)
  <2>1. evicted = {}
    BY <1>5, <1>8
  <2>2. Held(g) = held
    BY <1>1, <2>1
  <2>3. Cardinality(held) <= MaxKeys
    BY <1>2, <1>4, <1>8
  <2> HIDE DEF excess, n
  <2>4. Cardinality(held) <= Bound
    BY <1>2, <1>4, <2>3, BoundFacts
  <2>5. QED
    BY <2>2, <2>4 DEF g
<1>9. CASE excess > 0
  <2>1. evicted \subseteq evictable /\ Cardinality(evicted) = n
    BY <1>5, <1>9 DEF kSubset
  <2>2. held \cap evicted = evicted
    BY <1>7, <2>1
  <2>3. Cardinality(held \ evicted) = Cardinality(held) - n
    <3>1. Cardinality(held \ evicted) = Cardinality(held) - Cardinality(held \cap evicted)
      <4> HIDE DEF excess, n
      <4>1. QED
        BY <1>2, FS_Difference
    <3>2. QED
      BY <2>1, <2>2, <3>1
  <2>4. CASE excess < Cardinality(evictable)
    <3>1. Cardinality(held \ evicted) = MaxKeys
      BY <1>2, <1>4, <2>3, <2>4
    <3>2. QED
      BY <1>1, <3>1, BoundFacts DEF g
  <2>5. CASE ~(excess < Cardinality(evictable))
    <3>1. evicted = evictable
      BY <1>3, <2>1, <2>5, FS_Subset
    <3> DEFINE W == (held \ evictable) \ {k}
    <3>2. IsFiniteSet(W) /\ Cardinality(W) <= Cardinality(Streams)
      BY <1>6, <1>7, WatchedKeys
    <3> HIDE DEF W, excess, n
    <3>3. /\ IsFiniteSet(W \cup {k}) /\ Cardinality(W) \in Nat
          /\ Cardinality(W \cup {k}) <= Cardinality(W) + 1
          /\ Cardinality(W \cup {k}) \in Nat
      <4>1. Cardinality(W) \in Nat
        BY <3>2, FS_CardinalityType
      <4>2. /\ IsFiniteSet(W \cup {k})
            /\ Cardinality(W \cup {k}) = IF k \in W THEN Cardinality(W) ELSE Cardinality(W) + 1
        BY <3>2, FS_AddElement
      <4>3. QED
        BY <4>1, <4>2
    <3>4. Cardinality(held \ evicted) <= Cardinality(W \cup {k})
      <4>1. held \ evicted \subseteq W \cup {k}
        BY <3>1 DEF W
      <4>2. QED
        BY <3>3, <4>1, FS_Subset
    <3>5. Cardinality(Streams) \in Nat
      BY StreamsAssumption, FS_CardinalityType
    <3>6. Cardinality(held \ evicted) \in Nat
      BY <1>2, FS_Subset, FS_CardinalityType
    <3>7. Cardinality(held \ evicted) <= Bound
      BY <3>2, <3>3, <3>4, <3>5, <3>6, BoundFacts
    <3>8. QED
      BY <1>1, <3>7 DEF g
  <2>6. QED
    BY <2>4, <2>5
<1>10. QED
  BY <1>8, <1>9

(***************************************************************************)
(* The initial state and the actions                                       *)
(***************************************************************************)
LEMMA ClosedGood ==
  ASSUME NEW pub \in Publications
  PROVE  GoodRequest(Closed, pub) /\ Closed \in Request
<1>1. <<>> \in Seq(Messages) /\ Len(<<>>) = 0 /\ DOMAIN <<>> = {} /\ Rising(<<>>)
  BY EmptySeq DEF Rising
<1>2. /\ Closed \in Request /\ Closed.sent = <<>> /\ Closed.todo = <<>> /\ Closed.chan = <<>>
      /\ Closed.since = 0 /\ Closed.pc = "closed" /\ Closed.subscribed = FALSE
  BY <1>1 DEF Closed, Request
<1>3. Output(Closed) = <<>>
  BY <1>1, <1>2, ConcatEmptySeq DEF Output
<1>4. Len(pub) \in Nat /\ Cap \in Nat
  BY LenProperties, StreamsAssumption DEF Publications
<1> HIDE DEF Closed
<1>5. Staged(Closed, pub)
  BY <1>1, <1>2, <1>4 DEF Staged
<1>6. Exact(Closed, pub)
  BY <1>1, <1>3 DEF Exact
<1>7. Complete(Closed, pub)
  BY <1>2 DEF Complete
<1>8. QED
  BY <1>2, <1>5, <1>6, <1>7 DEF GoodRequest

LEMMA InitGood ==
  ASSUME Init
  PROVE  IInv
<1>1. published = <<>> /\ published \in Publications
  BY EmptySeq DEF Init, Publications
<1>2. GoodHistory(history, published)
  <2>1. <<>> \in Seq(Messages) /\ Len(<<>>) = 0 /\ DOMAIN <<>> = {} /\ Rising(<<>>)
    BY EmptySeq DEF Rising
  <2>2. history \in [Keys -> Seq(Messages)] /\ \A k \in Keys : history[k] = <<>>
    BY <2>1 DEF Init
  <2>3. QED
    BY <2>1, <2>2, StreamsAssumption DEF GoodHistory
<1>3. stream \in [Streams -> Request] /\ \A s \in Streams : GoodRequest(stream[s], published)
  BY <1>1, ClosedGood DEF Init
<1>4. HistoryBounded
  <2>1. Held(history) = {}
    BY DEF Init, Held
  <2>2. Cardinality(Held(history)) = 0
    BY <2>1, FS_EmptySet
  <2>3. QED
    BY <2>2, BoundFacts DEF HistoryBounded, Bound
<1>5. QED
  BY <1>1, <1>2, <1>3, <1>4, IInvParts

\* A message reaches exactly the subscribers it is for.
LEMMA DeliverGood ==
  ASSUME IInv, NEW e \in Entry, Now < MaxMsgs, NEW subs,
         \A s \in Streams : s \in subs <=> /\ stream[s].subscribed
                                           /\ ForIn(stream[s], Append(published, e), Now + 1)
  PROVE  /\ Deliver(subs, Now + 1) \in [Streams -> Request]
         /\ \A s \in Streams : GoodRequest(Deliver(subs, Now + 1)[s], Append(published, e))
<1>1. published \in Publications /\ \A s \in Streams : GoodRequest(stream[s], published)
  BY IInvParts
<1>2. Now = Len(published) /\ Now \in Nat /\ Now + 1 \in Messages
  BY <1>1, LenProperties, StreamsAssumption DEF Now, Publications, Messages
<1>3. ASSUME NEW s \in Streams
      PROVE  GoodRequest(Deliver(subs, Now + 1)[s], Append(published, e))
  <2>1. CASE s \in subs
    <3>1. Deliver(subs, Now + 1)[s] = [stream[s] EXCEPT !.chan = Send(stream[s].chan, Now + 1)]
      BY <2>1 DEF Deliver
    <3>2. stream[s].subscribed /\ ForIn(stream[s], Append(published, e), Len(published) + 1)
      BY <1>2, <2>1
    <3>3. QED
      BY <1>1, <1>2, <3>1, <3>2, Delivered
  <2>2. CASE s \notin subs
    <3>1. Deliver(subs, Now + 1)[s] = stream[s]
      BY <2>2 DEF Deliver
    <3>2. ~(stream[s].subscribed /\ ForIn(stream[s], Append(published, e), Len(published) + 1))
      BY <1>2, <2>2
    <3>3. QED
      BY <1>1, <3>1, <3>2, NotDelivered
  <2>3. QED
    BY <2>1, <2>2
<1>4. \A s \in Streams : Deliver(subs, Now + 1)[s] \in Request
  BY <1>3 DEF GoodRequest, Staged
<1>5. Deliver(subs, Now + 1) = [s \in Streams |-> Deliver(subs, Now + 1)[s]]
  BY DEF Deliver
<1>6. QED
  BY <1>3, <1>4, <1>5

LEMMA AppendLogGood ==
  ASSUME IInv, NEW k \in Keys, AppendLog(k)
  PROVE  IInv'
<1> DEFINE e == [hub |-> "log", key |-> k]
           line == Trim(Append(history[k], Now + 1))
           h == [history EXCEPT ![k] = line]
<1>1. PICK evicted \in Evictions(h, k) :
         history' = [x \in Keys |-> IF x \in evicted THEN <<>> ELSE h[x]]
  BY DEF AppendLog
<1>2. /\ Now < MaxMsgs /\ published' = Append(published, e)
      /\ stream' = Deliver(Subs("log", k), Now + 1)
  BY DEF AppendLog, Publication
<1>3. /\ published \in Publications /\ GoodHistory(history, published)
      /\ \A s \in Streams : GoodRequest(stream[s], published)
  BY IInvParts
<1>4. Now = Len(published) /\ Now \in Nat /\ Now + 1 \in Messages /\ e \in Entry
  BY <1>2, <1>3, LenProperties, StreamsAssumption DEF Now, Publications, Messages, Entry
<1>5. published' \in Publications /\ Append(published, e)[Now + 1] = e
  BY <1>2, <1>3, <1>4, PublicationKeeps
<1>6. GoodHistory(h, published')
  BY <1>2, <1>3, <1>4, HistoryAppends
<1>7. GoodHistory(history', published')
  BY <1>1, <1>6, HistoryEvicts
<1>8. ASSUME NEW s \in Streams
      PROVE  s \in Subs("log", k) <=> /\ stream[s].subscribed
                                      /\ ForIn(stream[s], Append(published, e), Now + 1)
  <2>1. stream[s].subscribed /\ stream[s].hub = "log" => stream[s].key # All
    BY <1>3 DEF GoodRequest, Staged
  <2>2. Append(published, e)[Now + 1].hub = "log" /\ Append(published, e)[Now + 1].key = k
    <3>1. e.hub = "log" /\ e.key = k
      OBVIOUS
    <3> HIDE DEF e
    <3>2. QED
      BY <1>5, <3>1
  <2>3. k # All
    BY StreamsAssumption
  <2> HIDE DEF e
  <2>4. QED
    BY <2>1, <2>2, <2>3 DEF Subs, ForIn
<1>9. stream' \in [Streams -> Request] /\ \A s \in Streams : GoodRequest(stream'[s], published')
  <2> HIDE DEF e
  <2>1. QED
    BY <1>2, <1>4, <1>8, DeliverGood
<1>10. HistoryBounded'
  <2>1. h \in [Keys -> Seq(Messages)]
    BY <1>6 DEF GoodHistory
  <2> HIDE DEF h
  <2>2. Cardinality(Held(history')) <= Bound
    BY <1>1, <2>1, EvictionsBound
  <2>3. QED
    BY <2>2 DEF HistoryBounded, Bound, Held
<1>11. QED
  BY <1>5, <1>7, <1>9, <1>10, IInvPartsNext

LEMMA PublishEventGood ==
  ASSUME IInv, NEW k \in Keys \cup {All}, PublishEvent(k)
  PROVE  IInv'
<1> DEFINE e == [hub |-> "event", key |-> k]
           subs == Subs("event", k) \cup Subs("event", All)
<1>1. /\ Now < MaxMsgs /\ published' = Append(published, e)
      /\ stream' = Deliver(subs, Now + 1) /\ history' = history
  BY DEF PublishEvent, Publication
<1>2. /\ published \in Publications /\ GoodHistory(history, published) /\ HistoryBounded
  BY IInvParts
<1>3. e \in Entry /\ Now = Len(published)
  BY DEF Entry, Now
<1>4. published' \in Publications /\ Append(published, e)[Now + 1] = e
  BY <1>1, <1>2, <1>3, PublicationKeeps
<1>5. GoodHistory(history', published') /\ HistoryBounded'
  BY <1>1, <1>2, <1>3, HistoryLater DEF HistoryBounded, Held
<1>6. ASSUME NEW s \in Streams
      PROVE  s \in subs <=> /\ stream[s].subscribed
                            /\ ForIn(stream[s], Append(published, e), Now + 1)
  <2>1. Append(published, e)[Now + 1].hub = "event" /\ Append(published, e)[Now + 1].key = k
    <3>1. e.hub = "event" /\ e.key = k
      OBVIOUS
    <3> HIDE DEF e
    <3>2. QED
      BY <1>4, <3>1
  <2> HIDE DEF e
  <2>2. QED
    BY <2>1 DEF Subs, ForIn
<1>7. stream' \in [Streams -> Request] /\ \A s \in Streams : GoodRequest(stream'[s], published')
  <2> HIDE DEF e, subs
  <2>1. QED
    BY <1>1, <1>3, <1>6, DeliverGood
<1>8. QED
  BY <1>4, <1>5, <1>7, IInvPartsNext

\* A step of one request leaves the hubs and the others alone.
LEMMA OneRequest ==
  ASSUME IInv, NEW s \in Streams, NEW r, GoodRequest(r, published),
         stream' = [stream EXCEPT ![s] = r], UNCHANGED <<published, history>>
  PROVE  IInv'
<1>1. /\ published \in Publications /\ GoodHistory(history, published)
      /\ stream \in [Streams -> Request] /\ HistoryBounded
      /\ \A x \in Streams : GoodRequest(stream[x], published)
  BY IInvParts
<1>2. HistoryBounded'
  BY <1>1 DEF HistoryBounded, Held
<1>3. r \in Request
  BY DEF GoodRequest, Staged
<1>4. stream' \in [Streams -> Request] /\ \A x \in Streams : GoodRequest(stream'[x], published)
  BY <1>1, <1>3
<1>5. QED
  BY <1>1, <1>2, <1>4, IInvPartsNext

LEMMA OpenLogsGood ==
  ASSUME IInv, NEW s \in Streams, NEW k \in Keys, OpenLogs(s, k)
  PROVE  IInv'
<1> DEFINE r == [Closed EXCEPT !.hub = "log", !.key = k, !.pc = "history", !.todo = history[k]]
<1>1. stream' = [stream EXCEPT ![s] = r] /\ UNCHANGED <<published, history>>
  BY DEF OpenLogs
<1>2. published \in Publications /\ GoodHistory(history, published)
  BY IInvParts
<1>3. history[k] \in Seq(Messages) /\ <<>> \in Seq(Messages) /\ Len(<<>>) = 0 /\ DOMAIN <<>> = {}
  BY <1>2, EmptySeq DEF GoodHistory
<1>4. /\ r \in Request /\ r.sent = <<>> /\ r.todo = history[k] /\ r.chan = <<>>
      /\ r.since = 0 /\ r.pc = "history" /\ r.subscribed = FALSE /\ r.hub = "log" /\ r.key = k
  BY <1>3 DEF Closed, Request
<1> HIDE DEF r
<1>5. Output(r) = history[k]
  BY <1>3, <1>4, ConcatEmptySeq DEF Output
<1>6. Len(published) \in Nat /\ Cap \in Nat
  BY <1>2, LenProperties, StreamsAssumption DEF Publications
<1>7. Staged(r, published)
  BY <1>3, <1>4, <1>6, StreamsAssumption DEF Staged
<1>8. Exact(r, published)
  <2>1. /\ Rising(history[k])
        /\ \A i \in DOMAIN history[k] :
             /\ history[k][i] <= Len(published)
             /\ published[history[k][i]].hub = "log" /\ published[history[k][i]].key = k
    <3> DEFINE e == [hub |-> "log", key |-> k]
    <3>1. /\ Rising(history[k])
          /\ \A i \in DOMAIN history[k] :
               history[k][i] <= Len(published) /\ published[history[k][i]] = e
      BY <1>2 DEF GoodHistory
    <3>2. e.hub = "log" /\ e.key = k
      OBVIOUS
    <3> HIDE DEF e
    <3>3. QED
      BY <3>1, <3>2
  <2>2. QED
    BY <1>4, <1>5, <2>1 DEF Exact, ForIn
<1>9. Complete(r, published)
  BY <1>4 DEF Complete
<1>10. QED
  BY <1>1, <1>7, <1>8, <1>9, OneRequest DEF GoodRequest

LEMMA WriteHistoryGood ==
  ASSUME IInv, NEW s \in Streams, WriteHistory(s)
  PROVE  IInv'
<1> DEFINE q == stream[s]
           r == [q EXCEPT !.sent = Append(q.sent, Head(q.todo)), !.todo = Tail(q.todo)]
<1>1. GoodRequest(q, published) /\ q \in Request /\ stream \in [Streams -> Request]
  BY IInvParts DEF GoodRequest, Staged
<1>2. /\ q.pc = "history" /\ q.todo # <<>> /\ UNCHANGED <<published, history>>
      /\ stream' = [stream EXCEPT ![s] = r]
  BY <1>1 DEF WriteHistory, Request
<1> HIDE DEF q
<1>3. q.todo \in Seq(Messages) /\ q.sent \in Seq(Messages)
  BY <1>1, OutputType
<1>4. Append(q.sent, Head(q.todo)) \in Seq(Messages) /\ Tail(q.todo) \in Seq(Messages)
  BY <1>2, <1>3, MoveHead
<1>5. /\ r \in Request /\ r.chan = q.chan /\ r.since = q.since /\ r.pc = q.pc
      /\ r.subscribed = q.subscribed /\ r.hub = q.hub /\ r.key = q.key
  BY <1>1, <1>4 DEF Request
<1>6. Output(r) = Output(q)
  BY <1>1, <1>2, OutputWrite
<1> HIDE DEF r
<1>7. Staged(r, published)
  BY <1>1, <1>2, <1>5 DEF GoodRequest, Staged
<1>8. Exact(r, published)
  BY <1>1, <1>5, <1>6 DEF GoodRequest, Exact, ForIn
<1>9. Complete(r, published)
  BY <1>1, <1>2, <1>5 DEF GoodRequest, Staged, Complete
<1>10. QED
  BY <1>2, <1>7, <1>8, <1>9, OneRequest DEF GoodRequest

\* Nothing is new to a request that subscribes now.
LEMMA NothingNew ==
  ASSUME NEW pub \in Publications, NEW r, r.since = Len(pub)
  PROVE  Complete(r, pub)
<1>1. Len(pub) \in Nat
  BY LenProperties DEF Publications
<1>2. NewIn(r, pub) = {}
  BY <1>1 DEF NewIn
<1>3. QED
  BY <1>2 DEF Complete

LEMMA SubscribeLogsGood ==
  ASSUME IInv, NEW s \in Streams, SubscribeLogs(s)
  PROVE  IInv'
<1> DEFINE q == stream[s]
           r == [q EXCEPT !.pc = "live", !.subscribed = TRUE, !.since = Now]
<1>1. /\ GoodRequest(q, published) /\ q \in Request /\ stream \in [Streams -> Request]
      /\ published \in Publications
  BY IInvParts DEF GoodRequest, Staged
<1>2. /\ q.pc = "history" /\ q.todo = <<>> /\ UNCHANGED <<published, history>>
      /\ stream' = [stream EXCEPT ![s] = r]
  BY <1>1 DEF SubscribeLogs, Request
<1>3. Now = Len(published) /\ Now \in Nat
  BY <1>1, LenProperties DEF Now, Publications
<1> HIDE DEF q
<1>4. /\ r \in Request /\ r.chan = q.chan /\ r.since = Now /\ r.pc = "live" /\ r.subscribed = TRUE
      /\ r.hub = q.hub /\ r.key = q.key /\ r.todo = q.todo /\ r.sent = q.sent
  BY <1>1, <1>3 DEF Request
<1> HIDE DEF r
<1>5. Output(r) = Output(q)
  BY <1>4 DEF Output
<1>6. DOMAIN <<>> = {}
  BY EmptySeq
<1>7. q.chan = <<>>
  BY <1>1, <1>2 DEF GoodRequest, Staged
<1>8. Staged(r, published)
  BY <1>1, <1>2, <1>3, <1>4, <1>6, <1>7 DEF GoodRequest, Staged
<1>9. Exact(r, published)
  BY <1>1, <1>4, <1>5 DEF GoodRequest, Exact, ForIn
<1>10. Complete(r, published)
  BY <1>1, <1>3, <1>4, NothingNew
<1>11. QED
  BY <1>2, <1>8, <1>9, <1>10, OneRequest DEF GoodRequest

LEMMA OpenEventsGood ==
  ASSUME IInv, NEW s \in Streams, NEW k \in Keys \cup {All}, OpenEvents(s, k)
  PROVE  IInv'
<1> DEFINE r == Live("event", k)
<1>1. stream' = [stream EXCEPT ![s] = r] /\ UNCHANGED <<published, history>>
  BY DEF OpenEvents
<1>2. published \in Publications /\ Now = Len(published) /\ Now \in Nat /\ Cap \in Nat
  BY IInvParts, LenProperties, StreamsAssumption DEF Publications, Now
<1>3. <<>> \in Seq(Messages) /\ Len(<<>>) = 0 /\ DOMAIN <<>> = {} /\ Rising(<<>>)
  BY EmptySeq DEF Rising
<1>4. /\ r \in Request /\ r.sent = <<>> /\ r.todo = <<>> /\ r.chan = <<>>
      /\ r.since = Now /\ r.pc = "live" /\ r.subscribed = TRUE /\ r.hub = "event"
  BY <1>2, <1>3 DEF Live, Closed, Request
<1> HIDE DEF r
<1>5. Output(r) = <<>>
  BY <1>3, <1>4, ConcatEmptySeq DEF Output
<1>6. Staged(r, published)
  BY <1>2, <1>3, <1>4 DEF Staged
<1>7. Exact(r, published)
  BY <1>3, <1>5 DEF Exact
<1>8. Complete(r, published)
  BY <1>2, <1>4, NothingNew
<1>9. QED
  BY <1>1, <1>6, <1>7, <1>8, OneRequest DEF GoodRequest

LEMMA ReceiveGood ==
  ASSUME IInv, NEW s \in Streams, Receive(s)
  PROVE  IInv'
<1> DEFINE q == stream[s]
           r == [q EXCEPT !.sent = Append(q.sent, Head(q.chan)), !.chan = Tail(q.chan)]
<1>1. GoodRequest(q, published) /\ q \in Request /\ stream \in [Streams -> Request]
  BY IInvParts DEF GoodRequest, Staged
<1>2. /\ q.pc = "live" /\ q.chan # <<>> /\ UNCHANGED <<published, history>>
      /\ stream' = [stream EXCEPT ![s] = r]
  BY <1>1 DEF Receive, Request
<1> HIDE DEF q
<1>3. q.chan \in Seq(Messages) /\ q.sent \in Seq(Messages) /\ q.todo = <<>>
  BY <1>1, <1>2, OutputType DEF GoodRequest, Staged
<1>4. Append(q.sent, Head(q.chan)) \in Seq(Messages) /\ Tail(q.chan) \in Seq(Messages)
  BY <1>2, <1>3, MoveHead
<1>5. /\ r \in Request /\ r.chan = Tail(q.chan) /\ r.since = q.since /\ r.pc = q.pc
      /\ r.subscribed = q.subscribed /\ r.hub = q.hub /\ r.key = q.key /\ r.todo = q.todo
  BY <1>1, <1>4 DEF Request
<1>6. Output(r) = Output(q)
  BY <1>1, <1>2, <1>3, OutputReceive
<1> HIDE DEF r
<1>7. /\ Len(q.chan) \in Nat /\ Len(Tail(q.chan)) = Len(q.chan) - 1
      /\ DOMAIN Tail(q.chan) = 1 .. (Len(q.chan) - 1) /\ DOMAIN q.chan = 1 .. Len(q.chan)
      /\ \A i \in 1 .. (Len(q.chan) - 1) : Tail(q.chan)[i] = q.chan[i + 1]
  BY <1>2, <1>3, <1>4, HeadTailProperties, LenProperties
<1>8. Len(r.chan) <= Cap /\ \A i \in DOMAIN r.chan : r.chan[i] > r.since
  <2>1. Len(q.chan) <= Cap /\ Cap \in Nat /\ \A i \in DOMAIN q.chan : q.chan[i] > q.since
    BY <1>1, StreamsAssumption DEF GoodRequest, Staged
  <2>2. \A i \in DOMAIN Tail(q.chan) : i + 1 \in DOMAIN q.chan
    BY <1>7
  <2>3. QED
    BY <1>5, <1>7, <2>1, <2>2
<1>9. Staged(r, published)
  BY <1>1, <1>2, <1>5, <1>8 DEF GoodRequest, Staged
<1>10. Exact(r, published)
  BY <1>1, <1>5, <1>6 DEF GoodRequest, Exact, ForIn
<1>11. Complete(r, published)
  <2>1. NewIn(r, published) = NewIn(q, published)
    BY <1>5 DEF NewIn, ForIn
  <2>2. QED
    BY <1>1, <1>5, <1>6, <2>1 DEF GoodRequest, Complete
<1>12. QED
  BY <1>2, <1>9, <1>10, <1>11, OneRequest DEF GoodRequest

LEMMA CloseGood ==
  ASSUME IInv, NEW s \in Streams, Close(s)
  PROVE  IInv'
<1>1. GoodRequest(Closed, published)
  BY IInvParts, ClosedGood
<1> HIDE DEF Closed
<1>2. stream' = [stream EXCEPT ![s] = Closed] /\ UNCHANGED <<published, history>>
  BY DEF Close
<1>3. QED
  BY <1>1, <1>2, OneRequest

LEMMA Inductive ==
  ASSUME IInv, [Next]_vars
  PROVE  IInv'
<1>1. CASE \E k \in Keys : AppendLog(k)
  BY <1>1, AppendLogGood
<1>2. CASE \E k \in Keys \cup {All} : PublishEvent(k)
  BY <1>2, PublishEventGood
<1>3. ASSUME NEW s \in Streams,
             \/ \E k \in Keys : OpenLogs(s, k)
             \/ \E k \in Keys \cup {All} : OpenEvents(s, k)
             \/ WriteHistory(s) \/ SubscribeLogs(s) \/ Receive(s) \/ Close(s)
      PROVE  IInv'
  BY <1>3, OpenLogsGood, OpenEventsGood, WriteHistoryGood, SubscribeLogsGood, ReceiveGood,
     CloseGood
<1>4. CASE UNCHANGED vars
  <2>1. HistoryBounded => HistoryBounded'
    BY <1>4 DEF vars, HistoryBounded, Held
  <2>2. published' = published /\ history' = history /\ stream' = stream
    BY <1>4 DEF vars
  <2>3. QED
    BY <2>1, <2>2, IInvParts, IInvPartsNext
<1>5. QED
  BY <1>1, <1>2, <1>3, <1>4 DEF Next

LEMMA Invariance == Spec => []IInv
  BY InitGood, Inductive, PTL DEF Spec

\* The channels never hold more than their places and the histories no more than
\* MaxLines lines, of MaxKeys calls or one more than there are readers; and a
\* request has written its history before it is subscribed (LogHub.Append, the
\* evictions and handleToolLogs).
THEOREM StreamsSound == Spec => []StreamsInv
<1>1. IInv => StreamsInv
  BY DEF IInv
<1>2. QED
  BY <1>1, Invariance, PTL

\* Whatever is published and however slow the reader, a log or event stream shows
\* messages of its own key, each once and in order, and has shown or holds every
\* one since its subscription as long as they were not more than the channel has
\* places (the select with a default in the hubs).
THEOREM StreamsExact == Spec => []StreamExact
<1>1. IInv => StreamExact
  BY DEF IInv
<1>2. QED
  BY <1>1, Invariance, PTL

\* A line of any call leaves the history of a watched call, which still ends where
\* it ended or with a later line: LogHub.Append evicts keys without subscribers only.
THEOREM WatchedKept == Spec => WatchedHistoryKept
<1>1. IInv /\ [Next]_vars =>
        [\A k \in Keys : Subs("log", k) # {} /\ history[k] # <<>>
            => history'[k] # <<>> /\ history'[k][Len(history'[k])] >= history[k][Len(history[k])]]_vars
  <2> DEFINE Kept == \A k \in Keys : Subs("log", k) # {} /\ history[k] # <<>>
                        => /\ history'[k] # <<>>
                           /\ history'[k][Len(history'[k])] >= history[k][Len(history[k])]
  <2> SUFFICES ASSUME IInv, [Next]_vars PROVE Kept
    OBVIOUS
  <2>1. GoodHistory(history, published) /\ published \in Publications
    BY IInvParts
  <2>2. ASSUME NEW k \in Keys, history[k] # <<>>
        PROVE  /\ history[k][Len(history[k])] \in Nat /\ history[k][Len(history[k])] <= Now
               /\ Now \in Nat
    <3>1. history[k] \in Seq(Messages)
      BY <2>1 DEF GoodHistory
    <3>2. Len(history[k]) \in DOMAIN history[k]
      BY <2>2, <3>1, LenProperties, EmptySeq
    <3>3. history[k][Len(history[k])] \in Messages
      BY <3>1, <3>2, LenProperties, ElementOfSeq
    <3>4. history[k][Len(history[k])] <= Now
      BY <2>1, <3>2 DEF GoodHistory, Now
    <3>5. QED
      BY <2>1, <3>3, <3>4, LenProperties, StreamsAssumption DEF Messages, Publications, Now
  <2>3. CASE history' = history
    BY <2>2, <2>3
  <2>4. ASSUME NEW a \in Keys, AppendLog(a) PROVE Kept
    <3> DEFINE line == Trim(Append(history[a], Now + 1))
               h == [history EXCEPT ![a] = line]
    <3>1. PICK evicted \in Evictions(h, a) :
             history' = [x \in Keys |-> IF x \in evicted THEN <<>> ELSE h[x]]
      BY <2>4 DEF AppendLog
    <3>2. Now = Len(published) /\ Now \in Nat /\ Now + 1 \in Messages
      BY <2>1, <2>4, LenProperties, StreamsAssumption
         DEF AppendLog, Publication, Now, Publications, Messages
    <3>3. line # <<>> /\ line[Len(line)] = Now + 1
      BY <2>1, <3>2, HistoryAppends
    <3>4. history \in [Keys -> Seq(Messages)]
      BY <2>1 DEF GoodHistory
    <3>5. \A x \in evicted : x # a /\ Subs("log", x) = {}
      BY <3>1 DEF Evictions, kSubset
    <3> HIDE DEF line
    <3>6. ASSUME NEW k \in Keys, Subs("log", k) # {}, history[k] # <<>>
          PROVE  /\ history'[k] # <<>>
                 /\ history'[k][Len(history'[k])] >= history[k][Len(history[k])]
      <4>1. history'[k] = IF k = a THEN line ELSE history[k]
        BY <3>1, <3>4, <3>5, <3>6
      <4>2. CASE k = a
        BY <2>2, <3>2, <3>3, <3>6, <4>1, <4>2
      <4>3. CASE k # a
        BY <2>2, <3>6, <4>1, <4>3
      <4>4. QED
        BY <4>2, <4>3
    <3>7. QED
      BY <3>6
  <2>5. (\E a \in Keys : AppendLog(a)) \/ history' = history
    BY DEF Next, vars, PublishEvent, OpenLogs, OpenEvents, WriteHistory, SubscribeLogs,
                Receive, Close
  <2>6. QED
    BY <2>3, <2>4, <2>5
<1>2. QED
  BY <1>1, Invariance, PTL DEF Spec, WatchedHistoryKept
=============================================================================
