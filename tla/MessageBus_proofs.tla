------------------------ MODULE MessageBus_proofs ------------------------
(* Proofs about MessageBus, for every set of origins, with and without a
   validator, and for any number of messages, generations and nested calls: what
   the page is handed is in order, approved, from the locked origin and replayed
   once, and no settled message holds back the ones behind it. *)
EXTENDS MessageBus, SequenceTheorems, TLAPS

\* An arrival keeps its number, and its revision is one the bus has given out.
ArrivalsAreNumbered ==
  \A i \in 1..Len(arrived) :
    arrived[i].id = i /\ (arrived[i].kind = "data" => arrived[i].revision <= revision)

\* The queue holds arrivals of the attached generation, in order.
Queued(q) ==
  /\ queue[q].id \in 1..Len(arrived)
  /\ queue[q] = arrived[queue[q].id]
  /\ queue[q].generation = generation
  /\ queue[q].kind # "ready"
QueueIsCurrent ==
  /\ ~attached \/ ~Validated => queue = <<>>
  /\ \A q \in 1..Len(queue) : Queued(q)
  /\ \A q, r \in 1..Len(queue) : q < r =>
       /\ queue[q].id < queue[r].id
       /\ queue[q].kind = "data" /\ queue[r].kind = "data" => queue[q].revision < queue[r].revision

\* What the page was handed is of the past and approved.
HandedIsPast ==
  \A i \in 1..Len(history) :
    /\ history[i].generation <= generation
    /\ IsDocument(history[i]) => history[i].revision <= revision
    /\ IsCommit(history[i]) => /\ history[i].id \in 1..Len(arrived)
                               /\ Validated => verdict[history[i].id] = "yes"

\* What is queued is newer than everything the page was handed, but for the replay of the
\* generation it came in.
OfThisReplay(e) == e.event = "replay" /\ e.generation = generation
QueuedIsNewer ==
  \A i \in 1..Len(history), q \in 1..Len(queue) :
    /\ IsDocument(history[i]) /\ queue[q].kind = "data" =>
         history[i].revision < queue[q].revision \/ OfThisReplay(history[i])
    /\ IsCommit(history[i]) => history[i].id < queue[q].id

\* A generation that has replayed will not do so again.
ReplayIsMarked ==
  (\E i \in 1..Len(history) : OfThisReplay(history[i])) =>
    \/ replayedGeneration = generation
    \/ lastAccepted = NoUpdate
    \/ lastAccepted.generation = generation

\* The retained update is the document the page was handed last.
RetainedIsNewest ==
  lastAccepted # NoUpdate =>
    /\ lastAccepted.id \in 1..Len(arrived)
    /\ arrived[lastAccepted.id].kind = "data"
    /\ arrived[lastAccepted.id].origin = lastAccepted.origin
    /\ \E k \in 1..Len(history) :
         /\ IsNewestDocument(k, Len(history))
         /\ history[k].id = lastAccepted.id
         /\ history[k].generation = lastAccepted.generation

\* A head that is settled or shut out has a drain of its generation on the stack.
SomeoneDrains ==
  queue # <<>> /\ (verdict[queue[1].id] # "open" \/ ~Trusts(queue[1].origin)) =>
    \E s \in 1..Len(stack) : stack[s].frame = "drain" /\ stack[s].generation = generation

HandedInOrder ==
  /\ HandedIsPast
  /\ RevisionsIncrease
  /\ CommitsInArrivalOrder
  /\ ReplaysTheLastDocument
  /\ QueuedIsNewer
  /\ ReplayIsMarked

IInv ==
  /\ TypeOK
  /\ ArrivalsAreNumbered
  /\ QueueIsCurrent
  /\ HandedInOrder
  /\ RetainedIsNewest
  /\ SomeoneDrains

---------------------------------------------------------------------------
(* Sequences *)

LEMMA Pushed ==
  ASSUME NEW S, NEW s \in Seq(S), NEW x \in S
  PROVE  /\ Append(s, x) \in Seq(S)
         /\ Len(Append(s, x)) = Len(s) + 1
         /\ \A i \in 1..Len(s) : Append(s, x)[i] = s[i]
         /\ Append(s, x)[Len(s) + 1] = x
  OBVIOUS

LEMMA Dropped ==
  ASSUME NEW S, NEW s \in Seq(S), s # <<>>
  PROVE  /\ Tail(s) \in Seq(S)
         /\ Len(Tail(s)) = Len(s) - 1
         /\ \A i \in 1..(Len(s) - 1) : Tail(s)[i] = s[i + 1]
         /\ Head(s) = s[1] /\ Head(s) \in S
         /\ Len(s) \in Nat \ {0}
  OBVIOUS

LEMMA Prefix ==
  ASSUME NEW S, NEW s \in Seq(S), NEW n \in Nat, n <= Len(s)
  PROVE  /\ SubSeq(s, 1, n) \in Seq(S)
         /\ Len(SubSeq(s, 1, n)) = n
         /\ \A i \in 1..n : SubSeq(s, 1, n)[i] = s[i]
<1>1. \A i \in 1..n : s[i] \in S
  OBVIOUS
<1>2. /\ SubSeq(s, 1, n) \in Seq(S)
      /\ Len(SubSeq(s, 1, n)) = IF 1 <= n THEN n - 1 + 1 ELSE 0
      /\ \A i \in 1..(n - 1 + 1) : SubSeq(s, 1, n)[i] = s[1 + i - 1]
  BY <1>1, SubSeqProperties
<1>3. \A i \in 1..n : i \in 1..(n - 1 + 1) /\ 1 + i - 1 = i
  OBVIOUS
<1>4. \A i \in 1..n : SubSeq(s, 1, n)[i] = s[i]
  BY <1>2, <1>3
<1>5. QED
  BY <1>2, <1>4

LEMMA Popped ==
  ASSUME NEW S, NEW s \in Seq(S), s # <<>>
  PROVE  /\ Front(s) \in Seq(S)
         /\ Len(Front(s)) = Len(s) - 1
         /\ \A i \in 1..(Len(s) - 1) : Front(s)[i] = s[i]
         /\ Last(s) = s[Len(s)] /\ Last(s) \in S
         /\ Len(s) \in Nat \ {0}
<1>1. /\ Len(s) \in Nat \ {0} /\ s[Len(s)] \in S
      /\ Len(s) - 1 \in Nat /\ Len(s) - 1 <= Len(s)
  OBVIOUS
<1>2. QED
  BY <1>1, Prefix DEF Front, Last

LEMMA PushedTwice ==
  ASSUME NEW S, NEW s \in Seq(S), NEW x \in S, NEW y \in S
  PROVE  s \o <<x, y>> \in Seq(S)
OBVIOUS

LEMMA Replaced ==
  ASSUME NEW S, NEW s \in Seq(S), NEW n \in 1..Len(s), NEW x \in S
  PROVE  /\ [s EXCEPT ![n] = x] \in Seq(S)
         /\ Len([s EXCEPT ![n] = x]) = Len(s)
         /\ [s EXCEPT ![n] = x][n] = x
         /\ \A i \in 1..Len(s) : i # n => [s EXCEPT ![n] = x][i] = s[i]
  OBVIOUS

\* The elements of the sequences have their types.
LEMMA ElementTypes ==
  ASSUME TypeOK
  PROVE  /\ \A i \in 1..Len(history) :
              /\ history[i] \in Events
              /\ history[i].id \in Nat /\ history[i].generation \in Nat /\ history[i].revision \in Nat
         /\ \A i \in 1..Len(arrived) :
              /\ arrived[i] \in Arrivals
              /\ arrived[i].id \in Nat /\ arrived[i].generation \in Nat /\ arrived[i].revision \in Nat
         /\ \A i \in 1..Len(queue) :
              /\ queue[i] \in Arrivals
              /\ queue[i].id \in Nat /\ queue[i].generation \in Nat /\ queue[i].revision \in Nat
         /\ \A i \in 1..Len(stack) : stack[i] \in Frames
         /\ \A i \in 1..Len(arrived) : verdict[i] \in Verdicts
         /\ Len(history) \in Nat /\ Len(arrived) \in Nat /\ Len(queue) \in Nat /\ Len(stack) \in Nat
<1>1. \A i \in 1..Len(history) : history[i] \in Events
  BY DEF TypeOK
<1>2. \A i \in 1..Len(arrived) : arrived[i] \in Arrivals
  BY DEF TypeOK
<1>3. \A i \in 1..Len(queue) : queue[i] \in Arrivals
  BY DEF TypeOK
<1>4. \A e \in Events : e.id \in Nat /\ e.generation \in Nat /\ e.revision \in Nat
  BY DEF Events
<1>5. \A m \in Arrivals : m.id \in Nat /\ m.generation \in Nat /\ m.revision \in Nat
  BY DEF Arrivals
<1>6. \A i \in 1..Len(stack) : stack[i] \in Frames
  BY DEF TypeOK
<1>7. \A i \in 1..Len(arrived) : verdict[i] \in Verdicts
  BY DEF TypeOK
<1>8. Len(history) \in Nat /\ Len(arrived) \in Nat /\ Len(queue) \in Nat /\ Len(stack) \in Nat
  BY DEF TypeOK
<1>9. QED
  BY <1>1, <1>2, <1>3, <1>4, <1>5, <1>6, <1>7, <1>8

---------------------------------------------------------------------------
(* What a step does to the history *)

\* What is appended comes after the rest of the history.
LEMMA Handed ==
  ASSUME TypeOK, NEW e \in Events, history' = Append(history, e)
  PROVE  /\ history' \in Seq(Events)
         /\ Len(history') = Len(history) + 1
         /\ Len(history) \in Nat
         /\ \A i \in 1..Len(history) : i \in 1..Len(history') /\ history'[i] = history[i]
         /\ history'[Len(history) + 1] = e
         /\ \A i \in 1..Len(history') : i \in 1..Len(history) \/ i = Len(history) + 1
BY Pushed DEF TypeOK

\* Replays keep pointing at the document before them when something is appended.
LEMMA ReplaysKept ==
  ASSUME TypeOK, HandedInOrder, NEW e \in Events, history' = Append(history, e),
         e.event # "replay"
  PROVE  ReplaysTheLastDocument'
<1>1. /\ Len(history') = Len(history) + 1
      /\ Len(history) \in Nat
      /\ \A i \in 1..Len(history) : i \in 1..Len(history') /\ history'[i] = history[i]
      /\ history'[Len(history) + 1] = e
      /\ \A i \in 1..Len(history') : i \in 1..Len(history) \/ i = Len(history) + 1
  BY Handed
<1>2. ASSUME NEW i \in 1..Len(history'), history'[i].event = "replay"
      PROVE  \E k \in 1..(i - 1) : /\ IsNewestDocument(k, i - 1)'
                                   /\ history'[k].id = history'[i].id
                                   /\ history'[k].generation < history'[i].generation
  <2>1. i \in 1..Len(history) /\ history[i].event = "replay" /\ history'[i] = history[i]
    BY <1>1, <1>2
  <2>2. PICK k \in 1..(i - 1) : /\ IsNewestDocument(k, i - 1)
                                /\ history[k].id = history[i].id
                                /\ history[k].generation < history[i].generation
    BY <2>1 DEF HandedInOrder, ReplaysTheLastDocument
  <2>3. \A l \in k..(i - 1) : history'[l] = history[l]
    BY <1>1, <2>1
  <2>4. IsNewestDocument(k, i - 1)' /\ history'[k] = history[k]
    BY <2>2, <2>3 DEF IsNewestDocument
  <2>5. QED
    BY <2>1, <2>2, <2>4
<1>3. ASSUME NEW i \in 1..Len(history'), NEW j \in 1..Len(history'), i < j,
             history'[i].event = "replay", history'[j].event = "replay"
      PROVE  history'[i].generation # history'[j].generation
  BY <1>1, <1>3 DEF HandedInOrder, ReplaysTheLastDocument
<1>4. QED
  BY <1>2, <1>3 DEF ReplaysTheLastDocument

\* Time goes on: arrivals keep their verdict once it is "yes", and counters grow.
Forward ==
  /\ generation' \in Nat /\ generation <= generation'
  /\ revision' \in Nat /\ revision <= revision'
  /\ Len(arrived') \in Nat /\ Len(arrived) <= Len(arrived')
  /\ \A i \in 1..Len(arrived) : verdict[i] = "yes" => verdict'[i] = "yes"

\* What the page was handed stays in order when nothing is added to it.
LEMMA PastKept ==
  ASSUME TypeOK, HandedInOrder, Forward, history' = history
  PROVE  /\ HandedIsPast' /\ RevisionsIncrease' /\ CommitsInArrivalOrder'
         /\ ReplaysTheLastDocument'
<1>1. /\ generation \in Nat /\ revision \in Nat /\ Len(arrived) \in Nat
      /\ \A i \in 1..Len(history) :
           history[i].generation \in Nat /\ history[i].revision \in Nat /\ history[i].id \in Nat
  BY ElementTypes DEF TypeOK
<1>2. HandedIsPast'
  BY <1>1 DEF HandedInOrder, HandedIsPast, IsDocument, IsCommit, Forward
<1>3. RevisionsIncrease' /\ CommitsInArrivalOrder'
  BY DEF HandedInOrder, RevisionsIncrease, CommitsInArrivalOrder, IsDocument, IsCommit, Outran
<1>4. ReplaysTheLastDocument'
  BY DEF HandedInOrder, ReplaysTheLastDocument, IsNewestDocument
<1>5. QED
  BY <1>2, <1>3, <1>4

\* It stays in order when something newer is added to it.
LEMMA PastExtended ==
  ASSUME TypeOK, HandedInOrder, Forward, NEW e \in Events, history' = Append(history, e),
         generation <= e.generation, e.generation <= generation',
         IsDocument(e) => /\ e.revision <= revision'
                          /\ \A i \in 1..Len(history) :
                               IsDocument(history[i]) =>
                                 history[i].revision < e.revision \/ Outran(history[i], e),
         IsCommit(e) => /\ e.id \in 1..Len(arrived')
                        /\ Validated => verdict'[e.id] = "yes"
                        /\ \A i \in 1..Len(history) : IsCommit(history[i]) => history[i].id < e.id
  PROVE  HandedIsPast' /\ RevisionsIncrease' /\ CommitsInArrivalOrder'
<1>1. /\ Len(history') = Len(history) + 1
      /\ Len(history) \in Nat
      /\ \A i \in 1..Len(history) : i \in 1..Len(history') /\ history'[i] = history[i]
      /\ history'[Len(history) + 1] = e
      /\ \A i \in 1..Len(history') : i \in 1..Len(history) \/ i = Len(history) + 1
  BY Handed
<1>2. /\ generation \in Nat /\ revision \in Nat /\ Len(arrived) \in Nat
      /\ \A i \in 1..Len(history) :
           history[i].generation \in Nat /\ history[i].revision \in Nat /\ history[i].id \in Nat
      /\ e.generation \in Nat /\ e.revision \in Nat /\ e.id \in Nat
  BY ElementTypes DEF TypeOK, Events
<1>3. ASSUME NEW i \in 1..Len(history')
      PROVE  /\ history'[i].generation <= generation'
             /\ IsDocument(history'[i]) => history'[i].revision <= revision'
             /\ IsCommit(history'[i]) => /\ history'[i].id \in 1..Len(arrived')
                                         /\ Validated => verdict'[history'[i].id] = "yes"
  <2>1. CASE i \in 1..Len(history)
    <3>1. /\ history'[i] = history[i]
          /\ history[i].generation <= generation
          /\ IsDocument(history[i]) => history[i].revision <= revision
          /\ IsCommit(history[i]) => /\ history[i].id \in 1..Len(arrived)
                                     /\ Validated => verdict[history[i].id] = "yes"
      BY <1>1, <2>1 DEF HandedInOrder, HandedIsPast
    <3>2. history'[i].generation <= generation'
      BY <1>2, <2>1, <3>1 DEF Forward
    <3>3. IsDocument(history'[i]) => history'[i].revision <= revision'
      BY <1>2, <2>1, <3>1 DEF Forward
    <3>4. ASSUME IsCommit(history'[i])
          PROVE  /\ history'[i].id \in 1..Len(arrived')
                 /\ Validated => verdict'[history'[i].id] = "yes"
      <4>1. /\ history'[i].id \in 1..Len(arrived)
            /\ Validated => verdict[history'[i].id] = "yes"
        BY <3>1, <3>4
      <4>2. 1..Len(arrived) \subseteq 1..Len(arrived')
        BY <1>2 DEF Forward
      <4>3. QED
        BY <4>1, <4>2 DEF Forward
    <3>5. QED
      BY <3>2, <3>3, <3>4
  <2>2. CASE i = Len(history) + 1
    BY <1>1, <2>2
  <2>3. QED
    BY <1>1, <2>1, <2>2
<1>4. HandedIsPast'
  BY <1>3 DEF HandedIsPast, IsDocument, IsCommit
<1>5. ASSUME NEW i \in 1..Len(history'), NEW j \in 1..Len(history'), i < j
      PROVE  /\ IsDocument(history'[i]) /\ IsDocument(history'[j]) =>
                  /\ history'[i].revision < history'[j].revision \/ Outran(history'[i], history'[j])
                  /\ history'[i].generation <= history'[j].generation
             /\ IsCommit(history'[i]) /\ IsCommit(history'[j]) => history'[i].id < history'[j].id
  <2>1. i \in 1..Len(history) /\ history'[i] = history[i]
    BY <1>1, <1>5
  <2>2. CASE j \in 1..Len(history)
    <3>1. history'[j] = history[j]
      BY <1>1, <2>2
    <3>2. QED
      BY <1>5, <2>1, <2>2, <3>1 DEF HandedInOrder, RevisionsIncrease, CommitsInArrivalOrder
  <2>3. CASE j = Len(history) + 1
    <3>1. history[i].generation <= generation
      BY <2>1 DEF HandedInOrder, HandedIsPast
    <3>2. history[i].generation <= e.generation
      BY <1>2, <2>1, <3>1
    <3>3. QED
      BY <1>1, <2>1, <2>3, <3>2
  <2>4. QED
    BY <1>1, <2>2, <2>3
<1>6. RevisionsIncrease' /\ CommitsInArrivalOrder'
  BY <1>5 DEF RevisionsIncrease, CommitsInArrivalOrder, IsDocument, IsCommit, Outran
<1>7. QED
  BY <1>4, <1>6

\* The retained update stays the newest document when nothing newer is handed over.
LEMMA RetainedKept ==
  ASSUME TypeOK, RetainedIsNewest, lastAccepted' = lastAccepted,
         Len(arrived') \in Nat, Len(arrived) <= Len(arrived'),
         \A i \in 1..Len(arrived) : arrived'[i] = arrived[i],
         \/ history' = history
         \/ \E e \in Events : /\ history' = Append(history, e)
                              /\ e.event # "forget"
                              /\ e.event = "update" => e.kind # "data"
  PROVE  RetainedIsNewest'
<1> SUFFICES ASSUME lastAccepted # NoUpdate
             PROVE  RetainedIsNewest'
  BY DEF RetainedIsNewest
<1>1. /\ lastAccepted'.id \in 1..Len(arrived')
      /\ arrived'[lastAccepted'.id].kind = "data"
      /\ arrived'[lastAccepted'.id].origin = lastAccepted'.origin
  BY ElementTypes DEF RetainedIsNewest
<1>2. PICK k \in 1..Len(history) : /\ IsNewestDocument(k, Len(history))
                                   /\ history[k].id = lastAccepted.id
                                   /\ history[k].generation = lastAccepted.generation
  BY DEF RetainedIsNewest
<1>3. CASE history' = history
  <2>1. IsNewestDocument(k, Len(history))'
    BY <1>2, <1>3 DEF IsNewestDocument
  <2>2. QED
    BY <1>1, <1>2, <1>3, <2>1 DEF RetainedIsNewest
<1>4. ASSUME NEW e \in Events, history' = Append(history, e), e.event # "forget",
             e.event = "update" => e.kind # "data"
      PROVE  RetainedIsNewest'
  <2>1. /\ Len(history') = Len(history) + 1
        /\ Len(history) \in Nat
        /\ \A i \in 1..Len(history) : i \in 1..Len(history') /\ history'[i] = history[i]
        /\ history'[Len(history) + 1] = e
    BY <1>4, Handed
  <2>2. \A l \in (k + 1)..Len(history') : l \in (k + 1)..Len(history) \/ l = Len(history) + 1
    BY <2>1
  <2>3. \A l \in (k + 1)..Len(history) : history'[l] = history[l]
    BY <2>1
  <2>4. k \in 1..Len(history') /\ history'[k] = history[k]
    BY <2>1
  <2>5. IsNewestDocument(k, Len(history))'
    BY <1>2, <1>4, <2>1, <2>2, <2>3, <2>4 DEF IsNewestDocument
  <2>6. QED
    BY <1>1, <1>2, <2>4, <2>5 DEF RetainedIsNewest
<1>5. QED
  BY <1>3, <1>4

\* A document that is handed over is retained, unless it cannot be cloned.
LEMMA RetainedAnew ==
  ASSUME TypeOK, NEW e \in Events, history' = Append(history, e), e.event = "update", e.kind = "data",
         e.id \in 1..Len(arrived'), arrived'[e.id].kind = "data", arrived'[e.id].origin = e.origin,
         \/ lastAccepted' = NoUpdate
         \/ lastAccepted' = [id |-> e.id, origin |-> e.origin, generation |-> e.generation]
  PROVE  RetainedIsNewest'
<1>1. /\ Len(history') = Len(history) + 1
      /\ Len(history) \in Nat
      /\ history'[Len(history) + 1] = e
  BY Handed
<1>2. IsNewestDocument(Len(history), Len(history))' /\ Len(history') \in 1..Len(history')
  BY <1>1 DEF IsNewestDocument
<1>3. QED
  BY <1>1, <1>2 DEF RetainedIsNewest

\* A replay points at the document the page was handed last.
LEMMA ReplayAdded ==
  ASSUME TypeOK, HandedInOrder, RetainedIsNewest, lastAccepted # NoUpdate,
         NEW e \in Events, history' = Append(history, e), e.event = "replay",
         e.id = lastAccepted.id, lastAccepted.generation < e.generation,
         \A i \in 1..Len(history) :
           history[i].event = "replay" => history[i].generation # e.generation
  PROVE  ReplaysTheLastDocument'
<1>1. /\ Len(history') = Len(history) + 1
      /\ Len(history) \in Nat
      /\ \A i \in 1..Len(history) : i \in 1..Len(history') /\ history'[i] = history[i]
      /\ history'[Len(history) + 1] = e
      /\ \A i \in 1..Len(history') : i \in 1..Len(history) \/ i = Len(history) + 1
  BY Handed
<1>2. ASSUME NEW i \in 1..Len(history'), history'[i].event = "replay"
      PROVE  \E k \in 1..(i - 1) : /\ IsNewestDocument(k, i - 1)'
                                   /\ history'[k].id = history'[i].id
                                   /\ history'[k].generation < history'[i].generation
  <2>1. PICK k \in 1..(i - 1) : /\ IsNewestDocument(k, i - 1)
                                /\ history[k].id = history'[i].id
                                /\ history[k].generation < history'[i].generation
    <3>1. CASE i \in 1..Len(history)
      BY <1>1, <1>2, <3>1 DEF HandedInOrder, ReplaysTheLastDocument
    <3>2. CASE i = Len(history) + 1
      <4>1. i - 1 = Len(history) /\ history'[i] = e
        BY <1>1, <3>2
      <4>2. PICK k \in 1..Len(history) : /\ IsNewestDocument(k, Len(history))
                                         /\ history[k].id = lastAccepted.id
                                         /\ history[k].generation = lastAccepted.generation
        BY DEF RetainedIsNewest
      <4>3. QED
        BY <4>1, <4>2
    <3>3. QED
      BY <1>1, <3>1, <3>2
  <2>2. \A l \in k..(i - 1) : history'[l] = history[l]
    BY <1>1
  <2>3. IsNewestDocument(k, i - 1)' /\ history'[k] = history[k]
    BY <2>1, <2>2 DEF IsNewestDocument
  <2>4. QED
    BY <2>1, <2>3
<1>3. ASSUME NEW i \in 1..Len(history'), NEW j \in 1..Len(history'), i < j,
             history'[i].event = "replay", history'[j].event = "replay"
      PROVE  history'[i].generation # history'[j].generation
  <2>1. i \in 1..Len(history) /\ history'[i] = history[i]
    BY <1>1, <1>3
  <2>2. CASE j \in 1..Len(history)
    BY <1>1, <1>3, <2>1, <2>2 DEF HandedInOrder, ReplaysTheLastDocument
  <2>3. CASE j = Len(history) + 1
    BY <1>1, <1>3, <2>1, <2>3
  <2>4. QED
    BY <1>1, <2>2, <2>3
<1>4. QED
  BY <1>2, <1>3 DEF ReplaysTheLastDocument

---------------------------------------------------------------------------
(* The lifecycle's calls: the queue goes, and the history gets a mark or nothing *)

\* The event of a message has the type of an event.
LEMMA EventType ==
  ASSUME NEW m \in Arrivals, NEW kind \in {"update", "replay"}, NEW g \in Nat, NEW r \in Nat
  PROVE  /\ Event(kind, m, g, r) \in Events
         /\ Event(kind, m, g, r).event = kind /\ Event(kind, m, g, r).id = m.id
         /\ Event(kind, m, g, r).kind = m.kind /\ Event(kind, m, g, r).origin = m.origin
         /\ Event(kind, m, g, r).generation = g /\ Event(kind, m, g, r).revision = r
BY DEF Event, Events, Arrivals

\* With an empty queue, only the page's past and the retained update matter.
LEMMA ResetKeeps ==
  ASSUME IInv, TypeOK', queue' = <<>>, arrived' = arrived, verdict' = verdict,
         revision' \in Nat, revision <= revision',
         HandedIsPast', RevisionsIncrease', CommitsInArrivalOrder', ReplaysTheLastDocument',
         ReplayIsMarked', RetainedIsNewest'
  PROVE  IInv'
<1>1. ArrivalsAreNumbered'
  <2>1. revision \in Nat /\ \A i \in 1..Len(arrived) : arrived[i].revision \in Nat
    BY ElementTypes DEF IInv, TypeOK
  <2>2. QED
    BY <2>1 DEF IInv, ArrivalsAreNumbered
<1>2. Len(queue') = 0
  BY EmptySeq
<1>3. QueueIsCurrent' /\ QueuedIsNewer' /\ SomeoneDrains'
  BY <1>2 DEF QueueIsCurrent, QueuedIsNewer, SomeoneDrains
<1>4. QED
  BY <1>1, <1>3 DEF IInv, HandedInOrder

\* Nothing is handed over.
LEMMA ResetQuietly ==
  ASSUME IInv, TypeOK', queue' = <<>>, generation <= generation',
         UNCHANGED <<arrived, verdict, revision, lastAccepted, replayedGeneration, history>>
  PROVE  IInv'
<1>1. Forward
  BY ElementTypes DEF IInv, TypeOK, Forward
<1>2. HandedIsPast' /\ RevisionsIncrease' /\ CommitsInArrivalOrder' /\ ReplaysTheLastDocument'
  BY <1>1, PastKept DEF IInv
<1>3. RetainedIsNewest'
  BY RetainedKept, ElementTypes DEF IInv
<1>4. ReplayIsMarked'
  <2>1. CASE generation' = generation
    BY <2>1 DEF IInv, HandedInOrder, ReplayIsMarked, OfThisReplay
  <2>2. CASE generation < generation'
    <3>1. \A i \in 1..Len(history) : history[i].generation <= generation /\ history[i].generation \in Nat
      BY ElementTypes DEF IInv, HandedInOrder, HandedIsPast
    <3>2. generation \in Nat /\ generation' \in Nat
      BY DEF IInv, TypeOK
    <3>3. QED
      BY <2>2, <3>1, <3>2 DEF ReplayIsMarked, OfThisReplay
  <2>3. QED
    BY <2>1, <2>2 DEF IInv, TypeOK
<1>5. QED
  BY <1>1, <1>2, <1>3, <1>4, ResetKeeps DEF Forward

\* The retained update is forgotten.
LEMMA ResetForgetting ==
  ASSUME IInv, TypeOK', queue' = <<>>, UNCHANGED <<arrived, verdict, revision>>,
         generation <= generation', Forget
  PROVE  IInv'
<1>1. Forward
  BY ElementTypes DEF IInv, TypeOK, Forward
<1>2. RetainedIsNewest' /\ ReplayIsMarked'
  BY DEF Forget, RetainedIsNewest, ReplayIsMarked
<1>3. HandedIsPast' /\ RevisionsIncrease' /\ CommitsInArrivalOrder' /\ ReplaysTheLastDocument'
  <2>1. CASE history' = history
    BY <1>1, <2>1, PastKept DEF IInv
  <2>2. CASE history' = Append(history, Forgotten)
    <3>1. /\ Forgotten \in Events /\ Forgotten.event = "forget"
          /\ Forgotten.generation = generation
      BY DEF Forgotten, Events, IInv, TypeOK, Kinds
    <3>2. ~IsDocument(Forgotten) /\ ~IsCommit(Forgotten)
      BY <3>1 DEF IsDocument, IsCommit
    <3>3. generation <= Forgotten.generation /\ Forgotten.generation <= generation'
      BY <3>1 DEF IInv, TypeOK
    <3>4. QED
      BY <1>1, <2>2, <3>1, <3>2, <3>3, PastExtended, ReplaysKept DEF IInv
  <2>3. QED
    BY <2>1, <2>2 DEF Forget
<1>4. QED
  BY <1>1, <1>2, <1>3, ResetKeeps DEF Forward

\* What forgetting leaves of the types.
LEMMA ForgetType ==
  ASSUME TypeOK, Forget
  PROVE  lastAccepted' \in Accepted \cup {NoUpdate} /\ replayedGeneration' \in Nat /\ history' \in Seq(Events)
<1>1. Forgotten \in Events
  BY DEF Forgotten, Events, TypeOK, Kinds
<1>2. QED
  BY <1>1 DEF Forget, TypeOK

LEMMA StartKeeps ==
  ASSUME IInv, Start
  PROVE  IInv'
<1> DEFINE f == [frame |-> "start", generation |-> generation + 1]
<1>1. /\ queue' = <<>> /\ attached' = TRUE /\ suspended' = FALSE
      /\ replayRetainedOnStart' = (replayRetainedOnStart \/ suspended)
      /\ generation' = generation + 1
      /\ stack' = stack \o <<f, CallbackFrame>>
      /\ UNCHANGED <<revision, verdict, arrived, lastAccepted, replayedGeneration, connected, locked, history>>
  BY DEF Start, ResetQueue, replayVars, hostVars
<1>2. generation \in Nat /\ generation + 1 \in Nat /\ <<>> \in Seq(Arrivals)
  BY DEF IInv, TypeOK
<1>3. f \in Frames /\ CallbackFrame \in Frames
  BY <1>2 DEF Frames, StartFrames
<1> HIDE DEF f
<1>4. stack' \in Seq(Frames)
  BY <1>1, <1>3, PushedTwice DEF IInv, TypeOK
<1>5. TypeOK'
  BY <1>1, <1>2, <1>4 DEF IInv, TypeOK
<1>6. QED
  BY <1>1, <1>2, <1>5, ResetQuietly

LEMMA SuspendKeeps ==
  ASSUME IInv, Suspend
  PROVE  IInv'
<1>1. generation \in Nat /\ <<>> \in Seq(Arrivals)
  BY DEF IInv, TypeOK
<1>2. TypeOK'
  BY <1>1 DEF Suspend, ResetQueue, replayVars, IInv, TypeOK
<1>3. QED
  BY <1>1, <1>2, ResetQuietly DEF Suspend, ResetQueue, replayVars

LEMMA DestroyKeeps ==
  ASSUME IInv, Destroy
  PROVE  IInv'
<1>1. generation \in Nat /\ <<>> \in Seq(Arrivals)
  BY DEF IInv, TypeOK
<1>2. TypeOK'
  BY <1>1, ForgetType DEF Destroy, ResetQueue, IInv, TypeOK
<1>3. QED
  BY <1>1, <1>2, ResetForgetting DEF Destroy, ResetQueue

LEMMA NavigationKeeps ==
  ASSUME IInv, NavigationCommit
  PROVE  IInv'
<1>1. /\ queue' = <<>> /\ generation' = generation + 1
      /\ stack' = stack \o <<NavigationFrame, CallbackFrame>>
      /\ UNCHANGED <<attached, suspended, replayRetainedOnStart, revision, verdict, arrived>>
      /\ UNCHANGED <<lastAccepted, replayedGeneration, connected, locked, history>>
  BY DEF NavigationCommit, ResetQueue, sessionVars, replayVars, hostVars
<1>2. generation \in Nat /\ generation + 1 \in Nat /\ <<>> \in Seq(Arrivals)
  BY DEF IInv, TypeOK
<1>3. stack' \in Seq(Frames)
  <2>1. NavigationFrame \in Frames /\ CallbackFrame \in Frames
    BY DEF Frames
  <2>2. QED
    BY <1>1, <2>1, PushedTwice DEF IInv, TypeOK
<1>4. TypeOK'
  BY <1>1, <1>2, <1>3 DEF IInv, TypeOK
<1>5. QED
  BY <1>1, <1>2, <1>4, ResetQuietly

\* A heartbeat timeout keeps the invariant, out of a timer or out of a start.
LEMMA TimeOutKeeps ==
  ASSUME IInv, TimeOut, replayRetainedOnStart' \in BOOLEAN, stack' \in Seq(Frames),
         UNCHANGED <<attached, suspended, revision, verdict, arrived>>
  PROVE  IInv'
<1>1. /\ queue' = <<>> /\ generation' = generation + 1 /\ connected' = FALSE /\ locked' = NoOrigin
      /\ Forget
  BY DEF TimeOut, ResetQueue
<1>2. generation \in Nat /\ generation + 1 \in Nat /\ <<>> \in Seq(Arrivals)
  BY DEF IInv, TypeOK
<1>3. TypeOK'
  <2>1. lastAccepted' \in Accepted \cup {NoUpdate} /\ replayedGeneration' \in Nat /\ history' \in Seq(Events)
    BY <1>1, ForgetType DEF IInv
  <2>2. QED
    BY <1>1, <1>2, <2>1 DEF IInv, TypeOK
<1>4. QED
  BY <1>1, <1>2, <1>3, ResetForgetting

LEMMA ExpireKeeps ==
  ASSUME IInv, Expire
  PROVE  IInv'
BY TimeOutKeeps DEF Expire, sessionVars, IInv, TypeOK

---------------------------------------------------------------------------
(* What returns to its caller *)

\* No drain is lost when the top of the stack is none.
LEMMA PopKeeps ==
  ASSUME IInv, stack # <<>>, Last(stack).frame # "drain", stack' = Front(stack),
         UNCHANGED <<generation, queue, verdict, locked>>
  PROVE  stack' \in Seq(Frames) /\ SomeoneDrains'
<1>1. /\ stack' \in Seq(Frames) /\ Len(stack') = Len(stack) - 1 /\ Len(stack) \in Nat \ {0}
      /\ \A i \in 1..Len(stack') : stack'[i] = stack[i]
      /\ stack[Len(stack)] = Last(stack)
  BY Popped DEF IInv, TypeOK
<1>2. ASSUME queue # <<>>, verdict[queue[1].id] # "open" \/ ~Trusts(queue[1].origin)
      PROVE  \E s \in 1..Len(stack') : stack'[s].frame = "drain" /\ stack'[s].generation = generation
  <2>1. PICK s \in 1..Len(stack) : stack[s].frame = "drain" /\ stack[s].generation = generation
    BY <1>2 DEF IInv, SomeoneDrains
  <2>2. s # Len(stack)
    BY <1>1, <2>1
  <2>3. s \in 1..Len(stack') /\ stack'[s] = stack[s]
    BY <1>1, <2>2
  <2>4. QED
    BY <2>1, <2>3
<1>3. QED
  BY <1>1, <1>2 DEF SomeoneDrains, Trusts

\* A return that changes nothing of the bus keeps the invariant.
LEMMA ReturnKeeps ==
  ASSUME IInv, stack # <<>>, Last(stack).frame # "drain", stack' = Front(stack),
         replayRetainedOnStart' \in BOOLEAN,
         UNCHANGED <<attached, suspended, generation, revision, queue, verdict, arrived>>,
         UNCHANGED <<lastAccepted, replayedGeneration, connected, locked, history>>
  PROVE  IInv'
<1>1. stack' \in Seq(Frames) /\ SomeoneDrains'
  BY PopKeeps
<1>2. TypeOK'
  BY <1>1 DEF IInv, TypeOK
<1>3. ArrivalsAreNumbered' /\ QueueIsCurrent'
  BY DEF IInv, ArrivalsAreNumbered, QueueIsCurrent, Queued
<1>4. HandedInOrder'
  <2>1. Forward
    BY ElementTypes DEF IInv, TypeOK, Forward
  <2>2. HandedIsPast' /\ RevisionsIncrease' /\ CommitsInArrivalOrder' /\ ReplaysTheLastDocument'
    BY <2>1, PastKept DEF IInv
  <2>3. QueuedIsNewer' /\ ReplayIsMarked'
    BY DEF IInv, HandedInOrder, QueuedIsNewer, ReplayIsMarked, OfThisReplay, IsDocument, IsCommit
  <2>4. QED
    BY <2>2, <2>3 DEF HandedInOrder
<1>5. RetainedIsNewest'
  BY DEF IInv, RetainedIsNewest, IsNewestDocument
<1>6. QED
  BY <1>1, <1>2, <1>3, <1>4, <1>5 DEF IInv

LEMMA CallbackReturnsKeeps ==
  ASSUME IInv, CallbackReturns
  PROVE  IInv'
<1>1. /\ UNCHANGED <<attached, suspended, generation, revision, queue, verdict, arrived>>
      /\ UNCHANGED <<replayRetainedOnStart, lastAccepted, replayedGeneration, connected, locked, history>>
  BY DEF CallbackReturns, busVars, sessionVars, replayVars, hostVars
<1>2. stack # <<>> /\ stack' = Front(stack) /\ Last(stack).frame # "drain"
  BY DEF CallbackReturns, InCallback, Idle, CallbackFrame
<1>3. replayRetainedOnStart' \in BOOLEAN
  BY <1>1 DEF IInv, TypeOK
<1>4. QED
  BY <1>1, <1>2, <1>3, ReturnKeeps

(* A return that replays keeps it: what is replayed is newer than everything the page was
   handed, and the messages that are queued by now are of its own generation. *)
LEMMA ReplayKeeps ==
  ASSUME IInv, Replay, stack # <<>>, Last(stack).frame # "drain", stack' = Front(stack),
         replayRetainedOnStart' \in BOOLEAN,
         UNCHANGED <<attached, suspended, generation, queue, verdict, arrived, connected, locked>>
  PROVE  IInv'
<1>1. CASE ~MayReplay
  <2>1. UNCHANGED <<revision, lastAccepted, replayedGeneration, history>>
    BY <1>1 DEF Replay, replayVars
  <2>2. QED
    BY <2>1, ReturnKeeps
<1>2. CASE MayReplay
  <2> DEFINE m == arrived[lastAccepted.id]
             e == Event("replay", m, generation, revision + 1)
  <2>1. /\ replayedGeneration' = generation /\ revision' = revision + 1 /\ lastAccepted' = lastAccepted
        /\ history' = Append(history, e)
    BY <1>2 DEF Replay
  <2>2. /\ lastAccepted # NoUpdate /\ lastAccepted.id \in 1..Len(arrived)
        /\ lastAccepted.generation < generation /\ replayedGeneration # generation
        /\ m.kind = "data"
    BY <1>2 DEF MayReplay, IInv, RetainedIsNewest
  <2>3. m \in Arrivals /\ m.id = lastAccepted.id
    BY <2>2, ElementTypes DEF IInv, ArrivalsAreNumbered
  <2>4. generation \in Nat /\ revision \in Nat /\ revision + 1 \in Nat
    BY DEF IInv, TypeOK
  <2>5. /\ e \in Events /\ e.event = "replay" /\ e.id = lastAccepted.id /\ e.kind = "data"
        /\ e.generation = generation /\ e.revision = revision + 1
    <3>1. "replay" \in {"update", "replay"}
      OBVIOUS
    <3>2. QED
      BY <2>2, <2>3, <2>4, <3>1, EventType
  <2> HIDE DEF m, e
  <2>6. Forward
    BY <2>1, <2>4, ElementTypes DEF IInv, Forward
  <2>7. ~IsCommit(e)
    BY <2>5 DEF IsCommit
  <2>8. generation <= e.generation /\ e.generation <= generation' /\ e.revision <= revision'
    BY <2>1, <2>4, <2>5
  <2>9. \A i \in 1..Len(history) : IsDocument(history[i]) => history[i].revision < e.revision
    <3>1. \A i \in 1..Len(history) : IsDocument(history[i]) => history[i].revision <= revision
      BY DEF IInv, HandedInOrder, HandedIsPast
    <3>2. \A i \in 1..Len(history) : history[i].revision \in Nat
      BY ElementTypes DEF IInv
    <3>3. QED
      BY <2>4, <2>5, <3>1, <3>2
  <2>10. HandedIsPast' /\ RevisionsIncrease' /\ CommitsInArrivalOrder'
    BY <2>1, <2>5, <2>6, <2>7, <2>8, <2>9, PastExtended DEF IInv
  <2>11. \A i \in 1..Len(history) : history[i].event = "replay" => history[i].generation # e.generation
    <3>1. lastAccepted.generation # generation
      BY <2>2, <2>4
    <3>2. QED
      BY <2>2, <2>5, <3>1 DEF IInv, HandedInOrder, ReplayIsMarked, OfThisReplay
  <2>12. ReplaysTheLastDocument'
    BY <2>1, <2>2, <2>5, <2>11, ReplayAdded DEF IInv
  <2>13. RetainedIsNewest'
    BY <2>1, <2>5, RetainedKept, ElementTypes DEF IInv
  <2>14. ReplayIsMarked'
    BY <2>1 DEF ReplayIsMarked
  <2>15. /\ \A i \in 1..Len(history) : i \in 1..Len(history') /\ history'[i] = history[i]
         /\ history'[Len(history) + 1] = e
         /\ \A i \in 1..Len(history') : i \in 1..Len(history) \/ i = Len(history) + 1
         /\ history' \in Seq(Events)
    BY <2>1, <2>5, Handed DEF IInv
  <2>16. QueuedIsNewer'
    <3>1. ASSUME NEW i \in 1..Len(history'), NEW q \in 1..Len(queue)
          PROVE  /\ IsDocument(history'[i]) /\ queue[q].kind = "data" =>
                      history'[i].revision < queue[q].revision \/ OfThisReplay(history'[i])
                 /\ IsCommit(history'[i]) => history'[i].id < queue[q].id
      <4>1. CASE i \in 1..Len(history)
        BY <2>15, <4>1 DEF IInv, HandedInOrder, QueuedIsNewer
      <4>2. CASE i = Len(history) + 1
        BY <2>5, <2>7, <2>15, <4>2 DEF OfThisReplay
      <4>3. QED
        BY <2>15, <4>1, <4>2
    <3>2. QED
      BY <3>1 DEF QueuedIsNewer, IsDocument, IsCommit, OfThisReplay
  <2>17. ArrivalsAreNumbered'
    <3>1. \A i \in 1..Len(arrived) : arrived[i].revision \in Nat
      BY ElementTypes DEF IInv
    <3>2. QED
      BY <2>1, <2>4, <3>1 DEF IInv, ArrivalsAreNumbered
  <2>18. QueueIsCurrent'
    BY DEF IInv, QueueIsCurrent, Queued
  <2>19. stack' \in Seq(Frames) /\ SomeoneDrains'
    BY PopKeeps
  <2>20. TypeOK'
    BY <2>1, <2>4, <2>15, <2>19 DEF IInv, TypeOK
  <2>21. QED
    BY <2>10, <2>12, <2>13, <2>14, <2>16, <2>17, <2>18, <2>19, <2>20 DEF IInv, HandedInOrder
<1>3. QED
  BY <1>1, <1>2

LEMMA StartGoesOnKeeps ==
  ASSUME IInv, StartGoesOn
  PROVE  IInv'
<1>1. /\ stack # <<>> /\ Last(stack).frame # "drain" /\ stack' = Front(stack)
      /\ UNCHANGED <<attached, suspended, verdict, arrived>>
  BY DEF StartGoesOn, InFrame, Idle
<1>2. replayRetainedOnStart' \in BOOLEAN
  BY DEF StartGoesOn
<1>3. CASE TimeOut /\ UNCHANGED revision
  <2>1. stack' \in Seq(Frames)
    BY <1>1, Popped DEF IInv, TypeOK
  <2>2. QED
    BY <1>1, <1>2, <1>3, <2>1, TimeOutKeeps
<1>4. CASE Replay /\ UNCHANGED <<generation, queue, hostVars>>
  <2>1. UNCHANGED <<generation, queue, connected, locked>>
    BY <1>4 DEF hostVars
  <2>2. QED
    BY <1>1, <1>2, <1>4, <2>1, ReplayKeeps
<1>5. CASE UNCHANGED <<generation, revision, queue, replayVars, hostVars, history>>
  <2>1. UNCHANGED <<generation, revision, queue, lastAccepted, replayedGeneration, connected, locked, history>>
    BY <1>5 DEF replayVars, hostVars
  <2>2. QED
    BY <1>1, <1>2, <2>1, ReturnKeeps
<1>6. QED
  BY <1>3, <1>4, <1>5 DEF StartGoesOn

LEMMA NavigationGoesOnKeeps ==
  ASSUME IInv, NavigationGoesOn
  PROVE  IInv'
<1>1. /\ stack # <<>> /\ Last(stack).frame # "drain" /\ stack' = Front(stack) /\ Replay
      /\ UNCHANGED <<attached, suspended, replayRetainedOnStart, generation, queue, verdict, arrived>>
      /\ UNCHANGED <<connected, locked>>
  BY DEF NavigationGoesOn, InFrame, Idle, sessionVars, hostVars
<1>2. replayRetainedOnStart' \in BOOLEAN
  BY <1>1 DEF IInv, TypeOK
<1>3. QED
  BY <1>1, <1>2, ReplayKeeps

---------------------------------------------------------------------------
(* Commits *)

\* The message that is committed now is the newest the page has been handed.
Newest(m) ==
  /\ m \in Arrivals
  /\ m.generation = generation
  /\ m.id \in 1..Len(arrived') /\ arrived'[m.id] = m
  /\ m.kind = "data" => m.revision <= revision'
  /\ m.kind # "ready" /\ Validated => verdict'[m.id] = "yes"
  /\ \A i \in 1..Len(history) :
       /\ IsDocument(history[i]) /\ m.kind = "data" =>
            history[i].revision < m.revision \/ OfThisReplay(history[i])
       /\ IsCommit(history[i]) /\ m.kind # "ready" => history[i].id < m.id

\* Its commit hands it to the page and keeps the page's past in order.
LEMMA CommitHands ==
  ASSUME IInv, Forward, attached, NEW m, Newest(m), NEW within \in Seq(Frames), CommitUpdate(m, within),
         generation' = generation, \A i \in 1..Len(arrived) : arrived'[i] = arrived[i]
  PROVE  /\ HandedIsPast' /\ RevisionsIncrease' /\ CommitsInArrivalOrder' /\ ReplaysTheLastDocument'
         /\ RetainedIsNewest' /\ ReplayIsMarked'
         /\ stack' = within
         /\ history' = Append(history, Event("update", m, generation, m.revision))
         /\ history' \in Seq(Events)
         /\ lastAccepted' \in Accepted \cup {NoUpdate} /\ replayedGeneration' \in Nat
         /\ connected' \in BOOLEAN /\ locked' \in Origins \cup {NoOrigin}
<1> DEFINE e == Event("update", m, generation, m.revision)
<1>1. /\ m \in Arrivals /\ m.generation = generation /\ generation \in Nat /\ m.revision \in Nat
      /\ m.origin \in Origins /\ m.id \in Nat
  BY DEF Newest, Arrivals, IInv, TypeOK
<1>2. /\ e \in Events /\ e.event = "update" /\ e.id = m.id /\ e.kind = m.kind /\ e.origin = m.origin
      /\ e.generation = generation /\ e.revision = m.revision
  <2>1. "update" \in {"update", "replay"}
    OBVIOUS
  <2>2. QED
    BY <1>1, <2>1, EventType
<1>3. IsCurrentGeneration(m.generation)
  BY <1>1 DEF IsCurrentGeneration
<1>4. /\ history' = Append(history, e) /\ stack' = within
      /\ Connect(m) /\ replayedGeneration' = replayedGeneration
      /\ m.kind # "data" => lastAccepted' = lastAccepted
      /\ m.kind = "data" => \/ lastAccepted' = NoUpdate
                            \/ lastAccepted' = [id |-> m.id, origin |-> m.origin, generation |-> m.generation]
  BY <1>1, <1>3 DEF CommitUpdate
<1> HIDE DEF e
<1>5. e.event = "update"
  BY <1>2
<1>6. ReplayIsMarked'
  <2>1. ASSUME \E i \in 1..Len(history') : OfThisReplay(history'[i])
        PROVE  \E i \in 1..Len(history) : OfThisReplay(history[i])
    <3>1. PICK i \in 1..Len(history') : OfThisReplay(history'[i])
      BY <2>1
    <3>2. /\ i \in 1..Len(history) => history'[i] = history[i]
          /\ i \in 1..Len(history) \/ i = Len(history) + 1
          /\ history'[Len(history) + 1] = e
      BY <1>2, <1>4, Handed DEF IInv
    <3>3. QED
      BY <1>5, <3>1, <3>2 DEF OfThisReplay
  <2>2. \/ replayedGeneration' = replayedGeneration /\ lastAccepted' = lastAccepted
        \/ lastAccepted' = NoUpdate
        \/ lastAccepted'.generation = generation
    BY <1>1, <1>4
  <2>3. QED
    BY <2>1, <2>2 DEF IInv, HandedInOrder, ReplayIsMarked, OfThisReplay
<1>7. lastAccepted' \in Accepted \cup {NoUpdate}
  BY <1>1, <1>4 DEF Accepted, IInv, TypeOK
<1>8. connected' \in BOOLEAN /\ locked' \in Origins \cup {NoOrigin}
  BY <1>1, <1>4 DEF Connect, hostVars, IInv, TypeOK
<1>9. /\ IsDocument(e) <=> m.kind = "data"
      /\ IsCommit(e) <=> m.kind # "ready"
  BY <1>2 DEF IsDocument, IsCommit
<1>10. /\ generation <= e.generation /\ e.generation <= generation'
       /\ IsDocument(e) => /\ e.revision <= revision'
                           /\ \A i \in 1..Len(history) :
                                IsDocument(history[i]) =>
                                  history[i].revision < e.revision \/ Outran(history[i], e)
       /\ IsCommit(e) => /\ e.id \in 1..Len(arrived')
                         /\ Validated => verdict'[e.id] = "yes"
                         /\ \A i \in 1..Len(history) : IsCommit(history[i]) => history[i].id < e.id
  BY <1>1, <1>2, <1>9 DEF Newest, OfThisReplay, Outran
<1>11. HandedIsPast' /\ RevisionsIncrease' /\ CommitsInArrivalOrder'
  BY <1>2, <1>4, <1>10, PastExtended DEF IInv
<1>12. ReplaysTheLastDocument' /\ history' \in Seq(Events)
  BY <1>2, <1>4, ReplaysKept, Handed DEF IInv
<1>13. RetainedIsNewest'
  <2>1. CASE m.kind = "data"
    <3>1. e.id \in 1..Len(arrived') /\ arrived'[e.id].kind = "data" /\ arrived'[e.id].origin = e.origin
      BY <1>2, <2>1 DEF Newest
    <3>2. \/ lastAccepted' = NoUpdate
          \/ lastAccepted' = [id |-> e.id, origin |-> e.origin, generation |-> e.generation]
      BY <1>1, <1>2, <1>4, <2>1
    <3>3. QED
      BY <1>2, <1>4, <2>1, <3>1, <3>2, RetainedAnew DEF IInv
  <2>2. CASE m.kind # "data"
    <3>1. e.event # "forget" /\ (e.event = "update" => e.kind # "data")
      BY <1>2, <2>2
    <3>2. lastAccepted' = lastAccepted
      BY <1>4, <2>2
    <3>3. QED
      BY <1>2, <1>4, <3>1, <3>2, RetainedKept DEF IInv, Forward
  <2>3. QED
    BY <2>1, <2>2
<1>14. QED
  BY <1>4, <1>6, <1>7, <1>8, <1>11, <1>12, <1>13 DEF e, IInv, TypeOK

---------------------------------------------------------------------------
(* The messages *)

\* What is queued stays newer than what was handed over, when the queue loses its head.
LEMMA ShorterQueue ==
  ASSUME TypeOK, QueueIsCurrent, queue # <<>>, queue' = Tail(queue),
         UNCHANGED <<attached, generation, arrived>>
  PROVE  /\ QueueIsCurrent'
         /\ \A q \in 1..Len(queue') : q + 1 \in 1..Len(queue) /\ queue'[q] = queue[q + 1]
         /\ Head(queue) = queue[1] /\ 1 \in 1..Len(queue) /\ queue' \in Seq(Arrivals)
<1>1. /\ queue' \in Seq(Arrivals) /\ Len(queue') = Len(queue) - 1
      /\ \A q \in 1..Len(queue') : q + 1 \in 1..Len(queue) /\ queue'[q] = queue[q + 1]
      /\ Head(queue) = queue[1] /\ 1 \in 1..Len(queue)
  BY Dropped DEF TypeOK
<1>2. ~(~attached' \/ ~Validated)
  BY DEF QueueIsCurrent
<1>3. \A q \in 1..Len(queue') : Queued(q)'
  BY <1>1 DEF QueueIsCurrent, Queued
<1>4. \A q, r \in 1..Len(queue') : q < r => q + 1 < r + 1
  OBVIOUS
<1>5. \A q, r \in 1..Len(queue') : q < r =>
        /\ queue'[q].id < queue'[r].id
        /\ queue'[q].kind = "data" /\ queue'[r].kind = "data" => queue'[q].revision < queue'[r].revision
  BY <1>1, <1>4 DEF QueueIsCurrent
<1>6. QED
  BY <1>1, <1>2, <1>3, <1>5 DEF QueueIsCurrent

\* A drain of the current generation is on the stack.
DrainsNow == \E s \in 1..Len(stack) : stack[s].frame = "drain" /\ stack[s].generation = generation

\* It stays there when something is pushed.
LEMMA DrainStays ==
  ASSUME TypeOK, DrainsNow, generation' = generation, stack' = stack \/ \E f \in Frames : stack' = Append(stack, f)
  PROVE  DrainsNow'
<1>1. PICK s \in 1..Len(stack) : stack[s].frame = "drain" /\ stack[s].generation = generation
  BY DEF DrainsNow
<1>2. s \in 1..Len(stack') /\ stack'[s] = stack[s]
  <2>1. CASE stack' = stack
    BY <2>1
  <2>2. ASSUME NEW f \in Frames, stack' = Append(stack, f)
        PROVE  s \in 1..Len(stack') /\ stack'[s] = stack[s]
    <3>1. stack \in Seq(Frames)
      BY DEF TypeOK
    <3>2. Len(stack') = Len(stack) + 1 /\ stack'[s] = stack[s] /\ Len(stack) \in Nat
      BY <2>2, <3>1, Pushed
    <3>3. QED
      BY <3>2
  <2>3. QED
    BY <2>1, <2>2
<1>3. QED
  BY <1>1, <1>2 DEF DrainsNow

\* A drain on top of the stack that is of the current generation.
LEMMA TopDrains ==
  ASSUME TypeOK, InFrame("drain"), Last(stack).generation = generation
  PROVE  DrainsNow
<1>1. Last(stack) = stack[Len(stack)] /\ Len(stack) \in 1..Len(stack) /\ Last(stack) \in Frames
  BY Popped DEF InFrame, Idle, TypeOK
<1>2. Last(stack).frame = "drain"
  BY DEF InFrame
<1>3. QED
  BY <1>1, <1>2 DEF DrainsNow

LEMMA SettleKeeps ==
  ASSUME IInv, NEW id \in 1..MaxEvents, NEW approved \in BOOLEAN, Settle(id, approved)
  PROVE  IInv'
<1> DEFINE f == [frame |-> "drain", generation |-> arrived[id].generation]
<1>1. /\ UNCHANGED <<attached, suspended, replayRetainedOnStart, generation, revision, queue, arrived>>
      /\ UNCHANGED <<lastAccepted, replayedGeneration, connected, locked, history>>
      /\ verdict' = [verdict EXCEPT ![id] = Answer(approved)]
      /\ stack' = Append(stack, f)
      /\ verdict[id] = "open"
  BY DEF Settle, sessionVars, replayVars, hostVars
<1>2. id \in 1..Len(arrived) /\ id \in 1..Len(verdict) /\ Answer(approved) \in Verdicts
  BY DEF Settle, Answer, Verdicts, IInv, TypeOK
<1>3. /\ verdict' \in Seq(Verdicts) /\ Len(verdict') = Len(arrived')
      /\ \A i \in 1..Len(arrived) : i # id => verdict'[i] = verdict[i]
  BY <1>1, <1>2, Replaced DEF IInv, TypeOK
<1>4. f \in Frames /\ f.frame = "drain" /\ f.generation = arrived[id].generation
  <2>1. arrived[id].generation \in Nat
    BY <1>2, ElementTypes DEF IInv
  <2>2. QED
    BY <2>1 DEF Frames, DrainFrames
<1> HIDE DEF f
<1>5. TypeOK'
  BY <1>1, <1>3, <1>4 DEF IInv, TypeOK
<1>6. ArrivalsAreNumbered' /\ QueueIsCurrent'
  <2>1. ArrivalsAreNumbered'
    BY <1>1 DEF IInv, ArrivalsAreNumbered
  <2>2. \A q \in 1..Len(queue') : Queued(q)'
    BY <1>1 DEF IInv, QueueIsCurrent, Queued
  <2>3. QED
    BY <1>1, <2>1, <2>2 DEF IInv, QueueIsCurrent
<1>7. Forward
  BY <1>1, <1>2, <1>3, ElementTypes DEF Forward, IInv, TypeOK
<1>8. QueuedIsNewer' /\ ReplayIsMarked'
  BY <1>1 DEF IInv, HandedInOrder, QueuedIsNewer, ReplayIsMarked, OfThisReplay, IsDocument, IsCommit
<1>9. HandedInOrder'
  <2>1. HandedIsPast' /\ RevisionsIncrease' /\ CommitsInArrivalOrder' /\ ReplaysTheLastDocument'
    BY <1>1, <1>7, PastKept DEF IInv
  <2>2. QED
    BY <1>8, <2>1 DEF HandedInOrder
<1>10. RetainedIsNewest'
  BY <1>1 DEF IInv, RetainedIsNewest, IsNewestDocument
<1>11. SomeoneDrains'
  <2>1. SUFFICES ASSUME queue # <<>> /\ (verdict'[queue[1].id] # "open" \/ ~Trusts(queue[1].origin))
                 PROVE  DrainsNow'
    BY <1>1 DEF SomeoneDrains, DrainsNow, Trusts
  <2>2. 1 \in 1..Len(queue)
    BY <2>1 DEF IInv, TypeOK
  <2>3. queue[1].id \in 1..Len(arrived) /\ arrived[queue[1].id].generation = generation
    BY <2>2 DEF IInv, QueueIsCurrent, Queued
  <2>4. CASE queue[1].id = id
    <3>1. Len(stack) + 1 \in 1..Len(stack') /\ stack'[Len(stack) + 1] = f
      BY <1>1, <1>4, Pushed, ElementTypes DEF IInv, TypeOK
    <3>2. QED
      BY <1>1, <1>4, <2>3, <2>4, <3>1 DEF DrainsNow
  <2>5. CASE queue[1].id # id
    <3>1. verdict'[queue[1].id] = verdict[queue[1].id]
      BY <1>3, <2>3, <2>5
    <3>2. DrainsNow
      BY <2>1, <3>1 DEF IInv, SomeoneDrains, DrainsNow
    <3>3. QED
      BY <1>1, <1>4, <3>2, DrainStays DEF IInv
  <2>6. QED
    BY <2>4, <2>5
<1>12. QED
  BY <1>5, <1>6, <1>9, <1>10, <1>11 DEF IInv

LEMMA DrainStepKeeps ==
  ASSUME IInv, DrainStep
  PROVE  IInv'
<1> DEFINE g == Last(stack).generation
           m == Head(queue)
<1>1. /\ UNCHANGED <<attached, suspended, replayRetainedOnStart, generation, revision, verdict, arrived>>
      /\ stack # <<>> /\ InFrame("drain")
  BY DEF DrainStep, InFrame, Idle, busVars, sessionVars
<1>2. CASE /\ \/ ~IsCurrentGeneration(g)
              \/ queue = <<>>
              \/ queue # <<>> /\ MatchesOrigin(m.origin, g) /\ verdict[m.id] = "open"
           /\ stack' = Front(stack)
           /\ UNCHANGED <<busVars, replayVars, hostVars, history>>
  <2>1. UNCHANGED <<queue, lastAccepted, replayedGeneration, connected, locked, history>>
    BY <1>2 DEF busVars, replayVars, hostVars
  <2>2. /\ stack' \in Seq(Frames) /\ Len(stack') = Len(stack) - 1 /\ Len(stack) \in Nat \ {0}
        /\ \A i \in 1..Len(stack') : stack'[i] = stack[i]
        /\ stack[Len(stack)] = Last(stack)
    BY <1>1, <1>2, Popped DEF IInv, TypeOK
  <2>3. TypeOK'
    BY <1>1, <2>1, <2>2 DEF IInv, TypeOK
  <2>4. ArrivalsAreNumbered' /\ QueueIsCurrent'
    BY <1>1, <2>1 DEF IInv, ArrivalsAreNumbered, QueueIsCurrent, Queued
  <2>5. HandedInOrder'
    <3>1. Forward
      BY <1>1, ElementTypes DEF IInv, TypeOK, Forward
    <3>2. HandedIsPast' /\ RevisionsIncrease' /\ CommitsInArrivalOrder' /\ ReplaysTheLastDocument'
      BY <2>1, <3>1, PastKept DEF IInv
    <3>3. QueuedIsNewer' /\ ReplayIsMarked'
      BY <1>1, <2>1 DEF IInv, HandedInOrder, QueuedIsNewer, ReplayIsMarked, OfThisReplay, IsDocument, IsCommit
    <3>4. QED
      BY <3>2, <3>3 DEF HandedInOrder
  <2>6. RetainedIsNewest'
    BY <1>1, <2>1 DEF IInv, RetainedIsNewest, IsNewestDocument
  <2>7. SomeoneDrains'
    <3>1. SUFFICES ASSUME queue # <<>> /\ (verdict[queue[1].id] # "open" \/ ~Trusts(queue[1].origin))
                   PROVE  DrainsNow'
      BY <1>1, <2>1 DEF SomeoneDrains, DrainsNow, Trusts
    <3>2. PICK s \in 1..Len(stack) : stack[s].frame = "drain" /\ stack[s].generation = generation
      BY <3>1 DEF IInv, SomeoneDrains
    <3>3. m = queue[1]
      BY <3>1, Dropped DEF IInv, TypeOK
    <3>4. attached
      BY <3>1 DEF IInv, QueueIsCurrent
    <3>5. Last(stack).generation # generation
      BY <1>2, <3>1, <3>3, <3>4 DEF MatchesOrigin, IsCurrentGeneration
    <3>6. s # Len(stack)
      BY <2>2, <3>2, <3>5
    <3>7. s \in 1..Len(stack') /\ stack'[s] = stack[s]
      BY <2>2, <3>6
    <3>8. QED
      BY <1>1, <3>2, <3>7 DEF DrainsNow
  <2>8. QED
    BY <2>3, <2>4, <2>5, <2>6, <2>7 DEF IInv
<1>3. CASE IsCurrentGeneration(g) /\ queue # <<>> /\ queue' = Tail(queue)
  <2>1. /\ QueueIsCurrent'
        /\ \A q \in 1..Len(queue') : q + 1 \in 1..Len(queue) /\ queue'[q] = queue[q + 1]
        /\ m = queue[1] /\ 1 \in 1..Len(queue) /\ queue' \in Seq(Arrivals)
    BY <1>1, <1>3, ShorterQueue DEF IInv
  <2>2. ArrivalsAreNumbered' /\ Forward
    BY <1>1, ElementTypes DEF IInv, TypeOK, ArrivalsAreNumbered, Forward
  <2>3. attached /\ DrainsNow
    BY <1>1, <1>3, TopDrains DEF IInv, IsCurrentGeneration
  <2>4. CASE /\ UNCHANGED <<replayVars, hostVars, history>>
             /\ stack' = stack \/ stack' = Append(stack, CallbackFrame)
    <3>1. UNCHANGED <<lastAccepted, replayedGeneration, connected, locked, history>>
      BY <2>4 DEF replayVars, hostVars
    <3>2. CallbackFrame \in Frames
      BY DEF Frames
    <3>3. stack' \in Seq(Frames)
      BY <2>4, <3>2, Pushed DEF IInv, TypeOK
    <3>4. TypeOK'
      BY <1>1, <2>1, <3>1, <3>3 DEF IInv, TypeOK
    <3>5. HandedIsPast' /\ RevisionsIncrease' /\ CommitsInArrivalOrder' /\ ReplaysTheLastDocument'
      BY <2>2, <3>1, PastKept DEF IInv
    <3>6. QueuedIsNewer' /\ ReplayIsMarked'
      BY <1>1, <2>1, <3>1 DEF IInv, HandedInOrder, QueuedIsNewer, ReplayIsMarked, OfThisReplay,
                              IsDocument, IsCommit
    <3>7. RetainedIsNewest'
      BY <1>1, <3>1 DEF IInv, RetainedIsNewest, IsNewestDocument
    <3>8. DrainsNow'
      BY <1>1, <2>3, <2>4, <3>2, DrainStays DEF IInv
    <3>9. SomeoneDrains'
      BY <3>8 DEF SomeoneDrains, DrainsNow
    <3>10. QED
      BY <2>1, <2>2, <3>4, <3>5, <3>6, <3>7, <3>9 DEF IInv, HandedInOrder
  <2>5. CASE CommitUpdate(m, Append(stack, CallbackFrame)) /\ verdict[m.id] = "yes"
    <3>1. /\ m \in Arrivals /\ Queued(1)
      BY <2>1, ElementTypes DEF IInv, QueueIsCurrent
    <3>2. /\ m.generation = generation
          /\ m.id \in 1..Len(arrived') /\ arrived'[m.id] = m
          /\ m.kind # "ready" /\ Validated => verdict'[m.id] = "yes"
      BY <1>1, <2>1, <2>5, <3>1 DEF Queued
    <3>3. m.kind = "data" => m.revision <= revision'
      <4>1. m.id \in 1..Len(arrived) /\ arrived[m.id] = m
        BY <1>1, <3>2
      <4>2. QED
        BY <1>1, <4>1 DEF IInv, ArrivalsAreNumbered
    <3>4. \A i \in 1..Len(history) :
            /\ IsDocument(history[i]) /\ m.kind = "data" =>
                 history[i].revision < m.revision \/ OfThisReplay(history[i])
            /\ IsCommit(history[i]) /\ m.kind # "ready" => history[i].id < m.id
      BY <2>1 DEF IInv, HandedInOrder, QueuedIsNewer
    <3>5. Newest(m)
      BY <3>1, <3>2, <3>3, <3>4 DEF Newest
    <3> HIDE DEF m
    <3>6. /\ HandedIsPast' /\ RevisionsIncrease' /\ CommitsInArrivalOrder' /\ ReplaysTheLastDocument'
          /\ RetainedIsNewest' /\ ReplayIsMarked'
          /\ stack' = Append(stack, CallbackFrame) /\ stack' \in Seq(Frames)
          /\ history' = Append(history, Event("update", m, generation, m.revision))
          /\ history' \in Seq(Events)
          /\ lastAccepted' \in Accepted \cup {NoUpdate} /\ replayedGeneration' \in Nat
          /\ connected' \in BOOLEAN /\ locked' \in Origins \cup {NoOrigin}
      <4>1. Append(stack, CallbackFrame) \in Seq(Frames) /\ generation' = generation
        <5>1. CallbackFrame \in Frames
          BY DEF Frames
        <5>2. QED
          BY <1>1, <5>1, Pushed DEF IInv, TypeOK
      <4>2. \A i \in 1..Len(arrived) : arrived'[i] = arrived[i]
        BY <1>1
      <4>3. QED
        BY <2>2, <2>3, <2>5, <3>5, <4>1, <4>2, CommitHands
    <3>7. TypeOK'
      BY <1>1, <2>1, <3>6 DEF IInv, TypeOK
    <3>8. QueuedIsNewer'
      <4> DEFINE e == Event("update", m, generation, m.revision)
      <4>1. /\ e \in Events /\ e.id = m.id /\ e.kind = m.kind /\ e.revision = m.revision /\ e.event = "update"
        <5>1. "update" \in {"update", "replay"} /\ m.revision \in Nat /\ generation \in Nat
          BY <3>1 DEF IInv, TypeOK, Arrivals
        <5>2. QED
          BY <3>1, <5>1, EventType
      <4> HIDE DEF e
      <4>2. /\ Len(history') = Len(history) + 1
            /\ \A i \in 1..Len(history) : i \in 1..Len(history') /\ history'[i] = history[i]
            /\ history'[Len(history) + 1] = e
            /\ \A i \in 1..Len(history') : i \in 1..Len(history) \/ i = Len(history) + 1
        BY <3>6, <4>1, Handed DEF e, IInv
      <4>3. ASSUME NEW i \in 1..Len(history'), NEW q \in 1..Len(queue')
            PROVE  /\ IsDocument(history'[i]) /\ queue'[q].kind = "data" =>
                        history'[i].revision < queue'[q].revision \/ OfThisReplay(history'[i])
                   /\ IsCommit(history'[i]) => history'[i].id < queue'[q].id
        <5>1. q + 1 \in 1..Len(queue) /\ queue'[q] = queue[q + 1] /\ 1 < q + 1
          BY <2>1
        <5>2. CASE i \in 1..Len(history)
          BY <4>2, <5>1, <5>2 DEF IInv, HandedInOrder, QueuedIsNewer
        <5>3. CASE i = Len(history) + 1
          <6>1. history'[i] = e
            BY <4>2, <5>3
          <6>2. /\ queue[1].id < queue[q + 1].id
                /\ queue[1].kind = "data" /\ queue[q + 1].kind = "data" => queue[1].revision < queue[q + 1].revision
            BY <2>1, <5>1 DEF IInv, QueueIsCurrent
          <6>3. QED
            BY <2>1, <4>1, <5>1, <6>1, <6>2 DEF IsDocument, IsCommit
        <5>4. QED
          BY <4>2, <5>2, <5>3
      <4>4. QED
        BY <1>1, <4>3 DEF QueuedIsNewer, IsDocument, IsCommit, OfThisReplay
    <3>9. CallbackFrame \in Frames
      BY DEF Frames
    <3>10. DrainsNow'
      BY <1>1, <2>3, <3>6, <3>9, DrainStays DEF IInv
    <3>11. SomeoneDrains'
      BY <3>10 DEF SomeoneDrains, DrainsNow
    <3>12. QED
      BY <2>1, <2>2, <3>6, <3>7, <3>8, <3>11 DEF IInv, HandedInOrder
  <2>6. QED
    BY <1>1, <1>3, <2>4, <2>5, EmptySeq DEF DrainStep, busVars
<1>4. QED
  BY <1>2, <1>3 DEF DrainStep

LEMMA ReceiveKeeps ==
  ASSUME IInv, NEW kind \in Kinds, NEW origin \in Origins, Receive(kind, origin)
  PROVE  IInv'
<1> DEFINE m == NewArrival(kind, origin)
<1>1. /\ UNCHANGED <<attached, suspended, replayRetainedOnStart, generation>> /\ attached
      /\ arrived' = Append(arrived, m)
      /\ revision' = IF kind = "data" THEN revision + 1 ELSE revision
      /\ Trusts(origin)
  BY DEF Receive, MatchesOrigin, IsCurrentGeneration, sessionVars
<1>2. revision \in Nat /\ generation \in Nat /\ Len(arrived) \in Nat /\ revision + 1 \in Nat
  BY ElementTypes DEF IInv, TypeOK
<1>3. /\ m \in Arrivals /\ m.id = Len(arrived) + 1 /\ m.kind = kind /\ m.origin = origin
      /\ m.generation = generation
      /\ m.revision = IF kind = "data" THEN revision + 1 ELSE 0
  BY <1>2 DEF NewArrival, Arrivals
<1> HIDE DEF m
<1>4. /\ arrived' \in Seq(Arrivals) /\ Len(arrived') = Len(arrived) + 1
      /\ \A i \in 1..Len(arrived) : i \in 1..Len(arrived') /\ arrived'[i] = arrived[i]
      /\ arrived'[Len(arrived) + 1] = m
      /\ \A i \in 1..Len(arrived') : i \in 1..Len(arrived) \/ i = Len(arrived) + 1
      /\ Len(arrived) + 1 \in 1..Len(arrived')
  BY <1>1, <1>2, <1>3, Pushed DEF IInv, TypeOK
<1>5. revision' \in Nat /\ revision <= revision' /\ (kind = "data" => m.revision = revision')
  BY <1>1, <1>2, <1>3
<1>6. ArrivalsAreNumbered'
  <2>1. ASSUME NEW i \in 1..Len(arrived')
        PROVE  arrived'[i].id = i /\ (arrived'[i].kind = "data" => arrived'[i].revision <= revision')
    <3>1. CASE i \in 1..Len(arrived)
      <4>1. arrived[i].revision \in Nat
        BY <3>1, ElementTypes DEF IInv
      <4>2. QED
        BY <1>2, <1>4, <1>5, <3>1, <4>1 DEF IInv, ArrivalsAreNumbered
    <3>2. CASE i = Len(arrived) + 1
      BY <1>3, <1>4, <1>5, <3>2
    <3>3. QED
      BY <1>4, <3>1, <3>2
  <2>2. QED
    BY <2>1 DEF ArrivalsAreNumbered
<1>7. \A i \in 1..Len(history) :
        /\ IsDocument(history[i]) => history[i].revision < revision + 1
        /\ IsCommit(history[i]) => history[i].id < Len(arrived) + 1
  <2>1. \A i \in 1..Len(history) : history[i].revision \in Nat /\ history[i].id \in Nat
    BY ElementTypes DEF IInv
  <2>2. QED
    BY <1>2, <2>1 DEF IInv, HandedInOrder, HandedIsPast
<1>8. \A v \in Verdicts : verdict' = Append(verdict, v) =>
        /\ verdict' \in Seq(Verdicts) /\ Len(verdict') = Len(arrived')
        /\ \A i \in 1..Len(arrived) : verdict'[i] = verdict[i]
        /\ verdict'[Len(arrived) + 1] = v
        /\ Forward
  <2>1. SUFFICES ASSUME NEW v \in Verdicts, verdict' = Append(verdict, v)
                 PROVE  /\ verdict' \in Seq(Verdicts) /\ Len(verdict') = Len(arrived')
                        /\ \A i \in 1..Len(arrived) : verdict'[i] = verdict[i]
                        /\ verdict'[Len(arrived) + 1] = v
                        /\ Forward
    OBVIOUS
  <2>2. verdict \in Seq(Verdicts) /\ Len(verdict) = Len(arrived)
    BY DEF IInv, TypeOK
  <2>3. /\ verdict' \in Seq(Verdicts) /\ Len(verdict') = Len(arrived) + 1
        /\ \A i \in 1..Len(arrived) : verdict'[i] = verdict[i]
        /\ verdict'[Len(arrived) + 1] = v
    BY <2>1, <2>2, Pushed
  <2>4. Forward
    BY <1>1, <1>2, <1>4, <1>5, <2>3 DEF Forward
  <2>5. QED
    BY <1>4, <2>3, <2>4
<1>9. CASE /\ Exempt(kind)
           /\ verdict' = Append(verdict, "unasked")
           /\ CommitUpdate(m, stack)
           /\ UNCHANGED queue
  <2>1. /\ verdict' \in Seq(Verdicts) /\ Len(verdict') = Len(arrived')
        /\ \A i \in 1..Len(arrived) : verdict'[i] = verdict[i]
        /\ Forward
    <3>1. "unasked" \in Verdicts
      BY DEF Verdicts
    <3>2. QED
      BY <1>8, <1>9, <3>1
  <2>2. Exempt(kind) => ~Validated \/ kind = "ready"
    BY DEF Exempt
  <2>3. Newest(m)
    <3>1. /\ m \in Arrivals /\ m.generation = generation
          /\ m.id \in 1..Len(arrived') /\ arrived'[m.id] = m
      BY <1>3, <1>4
    <3>2. m.kind = "data" => m.revision <= revision'
      BY <1>3, <1>5
    <3>3. ~(m.kind # "ready" /\ Validated)
      BY <1>3, <1>9, <2>2
    <3>4. \A i \in 1..Len(history) :
            /\ IsDocument(history[i]) /\ m.kind = "data" => history[i].revision < m.revision
            /\ IsCommit(history[i]) /\ m.kind # "ready" => history[i].id < m.id
      BY <1>3, <1>7
    <3>5. QED
      BY <3>1, <3>2, <3>3, <3>4 DEF Newest
  <2>4. /\ HandedIsPast' /\ RevisionsIncrease' /\ CommitsInArrivalOrder' /\ ReplaysTheLastDocument'
        /\ RetainedIsNewest' /\ ReplayIsMarked'
        /\ stack' = stack /\ stack' \in Seq(Frames)
        /\ history' = Append(history, Event("update", m, generation, m.revision))
        /\ history' \in Seq(Events)
        /\ lastAccepted' \in Accepted \cup {NoUpdate} /\ replayedGeneration' \in Nat
        /\ connected' \in BOOLEAN /\ locked' \in Origins \cup {NoOrigin}
    <3>1. stack \in Seq(Frames) /\ generation' = generation /\ attached
      BY <1>1 DEF IInv, TypeOK
    <3>2. \A i \in 1..Len(arrived) : arrived'[i] = arrived[i]
      BY <1>4
    <3>3. CommitUpdate(m, stack)
      BY <1>9
    <3>4. QED
      BY <2>1, <2>3, <3>1, <3>2, <3>3, CommitHands
  <2>5. TypeOK'
    <3>1. /\ queue' \in Seq(Arrivals) /\ attached' \in BOOLEAN /\ suspended' \in BOOLEAN
          /\ replayRetainedOnStart' \in BOOLEAN /\ generation' \in Nat
      BY <1>1, <1>9 DEF IInv, TypeOK
    <3>2. QED
      BY <1>4, <1>5, <2>1, <2>4, <3>1 DEF TypeOK
  <2>6. QueueIsCurrent'
    <3>1. ~attached' \/ ~Validated => queue' = <<>>
      BY <1>1, <1>9 DEF IInv, QueueIsCurrent
    <3>2. \A q \in 1..Len(queue') : Queued(q)'
      BY <1>1, <1>4, <1>9 DEF IInv, QueueIsCurrent, Queued
    <3>3. QED
      BY <1>9, <3>1, <3>2 DEF IInv, QueueIsCurrent
  <2>7. QueuedIsNewer'
    <3>1. CASE ~Validated
      <4>1. Len(queue') = 0
        BY <1>9, <3>1, EmptySeq DEF IInv, QueueIsCurrent
      <4>2. QED
        BY <4>1 DEF QueuedIsNewer
    <3>2. CASE kind = "ready"
      <4> DEFINE e == Event("update", m, generation, m.revision)
      <4>1. e \in Events /\ e.kind = "ready"
        <5>1. "update" \in {"update", "replay"} /\ m.revision \in Nat /\ generation \in Nat
          BY <1>2, <1>3, <3>2
        <5>2. QED
          BY <1>3, <3>2, <5>1, EventType
      <4> HIDE DEF e
      <4>2. /\ \A i \in 1..Len(history) : i \in 1..Len(history') /\ history'[i] = history[i]
            /\ history'[Len(history) + 1] = e
            /\ \A i \in 1..Len(history') : i \in 1..Len(history) \/ i = Len(history) + 1
        BY <2>4, <4>1, Handed DEF e, IInv
      <4>3. ASSUME NEW i \in 1..Len(history'), NEW q \in 1..Len(queue')
            PROVE  /\ IsDocument(history'[i]) /\ queue'[q].kind = "data" =>
                        history'[i].revision < queue'[q].revision \/ OfThisReplay(history'[i])
                   /\ IsCommit(history'[i]) => history'[i].id < queue'[q].id
        <5>1. CASE i \in 1..Len(history)
          BY <1>9, <4>2, <5>1 DEF IInv, HandedInOrder, QueuedIsNewer
        <5>2. CASE i = Len(history) + 1
          BY <4>1, <4>2, <5>2 DEF IsDocument, IsCommit
        <5>3. QED
          BY <4>2, <5>1, <5>2
      <4>4. QED
        BY <1>1, <4>3 DEF QueuedIsNewer, IsDocument, IsCommit, OfThisReplay
    <3>3. QED
      BY <1>9, <2>2, <3>1, <3>2
  <2>8. SomeoneDrains'
    <3>1. CASE ~Validated
      BY <1>9, <3>1 DEF IInv, QueueIsCurrent, SomeoneDrains
    <3>2. CASE kind = "ready"
      <4>1. UNCHANGED <<connected, locked>>
        <5>1. IsCurrentGeneration(m.generation) /\ m.kind = "ready"
          BY <1>1, <1>3, <3>2 DEF IsCurrentGeneration
        <5>2. QED
          BY <1>9, <5>1 DEF CommitUpdate, Connect, hostVars
      <4>2. SUFFICES ASSUME queue # <<>> /\ (verdict'[queue[1].id] # "open" \/ ~Trusts(queue[1].origin))
                     PROVE  DrainsNow'
        BY <1>9, <4>1 DEF SomeoneDrains, DrainsNow, Trusts
      <4>3. 1 \in 1..Len(queue)
        BY <4>2 DEF IInv, TypeOK
      <4>4. queue[1].id \in 1..Len(arrived)
        BY <4>3 DEF IInv, QueueIsCurrent, Queued
      <4>5. DrainsNow
        BY <2>1, <4>2, <4>4 DEF IInv, SomeoneDrains, DrainsNow
      <4>6. QED
        BY <1>1, <2>4, <4>5, DrainStays DEF IInv
    <3>3. QED
      BY <1>9, <2>2, <3>1, <3>2
  <2>9. QED
    BY <1>6, <2>4, <2>5, <2>6, <2>7, <2>8 DEF IInv, HandedInOrder
<1>10. ASSUME NEW v \in {"open", "yes", "no"}, ~Exempt(kind), Enqueue(m),
              verdict' = Append(verdict, v),
              stack' = IF v = "open" THEN stack
                       ELSE Append(stack, [frame |-> "drain", generation |-> generation]),
              UNCHANGED <<replayVars, hostVars, history>>
       PROVE  IInv'
  <2> DEFINE f == [frame |-> "drain", generation |-> generation]
  <2>1. /\ UNCHANGED <<lastAccepted, replayedGeneration, connected, locked, history>>
        /\ kind # "ready" /\ Validated
        /\ queue' = Append(queue, m)
    BY <1>10 DEF replayVars, hostVars, Exempt, Enqueue, ValidatedAssumption
  <2>2. /\ verdict' \in Seq(Verdicts) /\ Len(verdict') = Len(arrived')
        /\ \A i \in 1..Len(arrived) : verdict'[i] = verdict[i]
        /\ verdict'[Len(arrived) + 1] = v
        /\ Forward
    <3>1. v \in Verdicts
      BY DEF Verdicts
    <3>2. QED
      BY <1>8, <1>10, <3>1
  <2>3. f \in Frames /\ f.frame = "drain" /\ f.generation = generation
    BY <1>2 DEF Frames, DrainFrames
  <2>4. /\ stack' = IF v = "open" THEN stack ELSE Append(stack, f)
        /\ stack' \in Seq(Frames)
    BY <1>10, <2>3, Pushed DEF IInv, TypeOK
  <2> HIDE DEF f
  <2>5. /\ queue' \in Seq(Arrivals) /\ Len(queue') = Len(queue) + 1 /\ Len(queue) \in Nat
        /\ \A q \in 1..Len(queue) : q \in 1..Len(queue') /\ queue'[q] = queue[q]
        /\ queue'[Len(queue) + 1] = m
        /\ \A q \in 1..Len(queue') : q \in 1..Len(queue) \/ q = Len(queue) + 1
    BY <1>3, <2>1, Pushed DEF IInv, TypeOK
  <2>6. TypeOK'
    <3>1. /\ attached' \in BOOLEAN /\ suspended' \in BOOLEAN /\ connected' \in BOOLEAN
          /\ replayRetainedOnStart' \in BOOLEAN /\ generation' \in Nat
      BY <1>1, <2>1 DEF IInv, TypeOK
    <3>2. /\ lastAccepted' \in Accepted \cup {NoUpdate} /\ replayedGeneration' \in Nat
          /\ locked' \in Origins \cup {NoOrigin} /\ history' \in Seq(Events)
      BY <2>1 DEF IInv, TypeOK
    <3>3. QED
      BY <1>4, <1>5, <2>2, <2>4, <2>5, <3>1, <3>2 DEF TypeOK
  <2>7. \A q \in 1..Len(queue) :
          /\ queue[q].id \in 1..Len(arrived) /\ queue[q].id < m.id
          /\ queue[q].kind = "data" /\ m.kind = "data" => queue[q].revision < m.revision
    <3>1. ASSUME NEW q \in 1..Len(queue)
          PROVE  /\ queue[q].id \in 1..Len(arrived) /\ queue[q].id < m.id
                 /\ queue[q].kind = "data" /\ m.kind = "data" => queue[q].revision < m.revision
      <4>1. queue[q].id \in 1..Len(arrived) /\ queue[q] = arrived[queue[q].id]
        BY DEF IInv, QueueIsCurrent, Queued
      <4>2. queue[q].kind = "data" => queue[q].revision <= revision
        BY <4>1 DEF IInv, ArrivalsAreNumbered
      <4>3. queue[q].revision \in Nat
        BY ElementTypes DEF IInv
      <4>4. QED
        BY <1>2, <1>3, <4>1, <4>2, <4>3
    <3>2. QED
      BY <3>1
  <2>8. QueueIsCurrent'
    <3>1. ~(~attached' \/ ~Validated)
      BY <1>1, <2>1
    <3>2. ASSUME NEW q \in 1..Len(queue')
          PROVE  Queued(q)'
      <4>1. CASE q \in 1..Len(queue)
        BY <1>1, <1>4, <2>5, <4>1 DEF IInv, QueueIsCurrent, Queued
      <4>2. CASE q = Len(queue) + 1
        BY <1>1, <1>3, <1>4, <2>1, <2>5, <4>2 DEF Queued
      <4>3. QED
        BY <2>5, <4>1, <4>2
    <3>3. ASSUME NEW q \in 1..Len(queue'), NEW r \in 1..Len(queue'), q < r
          PROVE  /\ queue'[q].id < queue'[r].id
                 /\ queue'[q].kind = "data" /\ queue'[r].kind = "data" => queue'[q].revision < queue'[r].revision
      <4>1. q \in 1..Len(queue) /\ queue'[q] = queue[q]
        BY <2>5, <3>3
      <4>2. CASE r \in 1..Len(queue)
        BY <2>5, <3>3, <4>1, <4>2 DEF IInv, QueueIsCurrent
      <4>3. CASE r = Len(queue) + 1
        BY <2>5, <2>7, <4>1, <4>3
      <4>4. QED
        BY <2>5, <4>2, <4>3
    <3>4. QED
      BY <3>1, <3>2, <3>3 DEF QueueIsCurrent
  <2>9. HandedIsPast' /\ RevisionsIncrease' /\ CommitsInArrivalOrder' /\ ReplaysTheLastDocument'
    BY <2>1, <2>2, PastKept DEF IInv
  <2>10. QueuedIsNewer' /\ ReplayIsMarked'
    <3>1. ASSUME NEW i \in 1..Len(history), NEW q \in 1..Len(queue')
          PROVE  /\ IsDocument(history[i]) /\ queue'[q].kind = "data" =>
                      history[i].revision < queue'[q].revision \/ OfThisReplay(history[i])
                 /\ IsCommit(history[i]) => history[i].id < queue'[q].id
      <4>1. CASE q \in 1..Len(queue)
        BY <2>5, <4>1 DEF IInv, HandedInOrder, QueuedIsNewer
      <4>2. CASE q = Len(queue) + 1
        BY <1>3, <1>7, <2>5, <4>2
      <4>3. QED
        BY <2>5, <4>1, <4>2
    <3>2. ReplayIsMarked'
      BY <1>1, <2>1 DEF IInv, HandedInOrder, ReplayIsMarked, OfThisReplay
    <3>3. QED
      BY <1>1, <2>1, <3>1, <3>2 DEF QueuedIsNewer, IsDocument, IsCommit, OfThisReplay
  <2>11. RetainedIsNewest'
    BY <1>2, <1>4, <2>1, RetainedKept DEF IInv
  <2>12. SomeoneDrains'
    <3>1. SUFFICES ASSUME verdict'[queue'[1].id] # "open" \/ ~Trusts(queue'[1].origin)
                   PROVE  DrainsNow'
      BY <2>1 DEF SomeoneDrains, DrainsNow, Trusts
    <3>2. CASE v # "open"
      <4>1. Len(stack) + 1 \in 1..Len(stack') /\ stack'[Len(stack) + 1] = f
        BY <2>3, <2>4, <3>2, Pushed, ElementTypes DEF IInv, TypeOK
      <4>2. QED
        BY <1>1, <2>3, <4>1 DEF DrainsNow
    <3>3. CASE v = "open" /\ Len(queue) = 0
      <4>1. queue'[1] = m
        BY <2>5, <3>3
      <4>2. QED
        BY <1>1, <1>3, <2>2, <3>1, <3>3, <4>1
    <3>4. CASE v = "open" /\ Len(queue) # 0
      <4>1. 1 \in 1..Len(queue) /\ queue'[1] = queue[1] /\ queue # <<>>
        BY <2>5, <3>4, EmptySeq
      <4>2. verdict'[queue[1].id] = verdict[queue[1].id]
        BY <2>2, <2>7, <4>1
      <4>3. DrainsNow
        BY <3>1, <4>1, <4>2 DEF IInv, SomeoneDrains, DrainsNow
      <4>4. QED
        BY <1>1, <2>4, <3>4, <4>3, DrainStays DEF IInv
    <3>5. QED
      BY <3>2, <3>3, <3>4
  <2>13. QED
    BY <1>6, <2>6, <2>8, <2>9, <2>10, <2>11, <2>12 DEF IInv, HandedInOrder
<1>11. QED
  BY <1>9, <1>10 DEF Receive, m

---------------------------------------------------------------------------
(* The theorems *)

LEMMA Initially ==
  ASSUME Init
  PROVE  IInv
<1>1. /\ Len(arrived) = 0 /\ Len(history) = 0 /\ Len(queue) = 0
      /\ <<>> \in Seq(Arrivals) /\ <<>> \in Seq(Verdicts) /\ <<>> \in Seq(Frames) /\ <<>> \in Seq(Events)
  BY EmptySeq DEF Init
<1>2. TypeOK
  BY <1>1 DEF Init, TypeOK
<1>3. ArrivalsAreNumbered /\ QueueIsCurrent /\ RetainedIsNewest /\ SomeoneDrains
  BY <1>1 DEF Init, ArrivalsAreNumbered, QueueIsCurrent, RetainedIsNewest, SomeoneDrains
<1>4. HandedInOrder
  BY <1>1 DEF HandedInOrder, HandedIsPast, RevisionsIncrease, CommitsInArrivalOrder,
              ReplaysTheLastDocument, QueuedIsNewer, ReplayIsMarked
<1>5. QED
  BY <1>2, <1>3, <1>4 DEF IInv

LEMMA StutterKeeps ==
  ASSUME IInv, UNCHANGED vars
  PROVE  IInv'
<1>1. /\ UNCHANGED <<attached, suspended, replayRetainedOnStart, generation, revision, queue, verdict>>
      /\ UNCHANGED <<arrived, lastAccepted, replayedGeneration, connected, locked, stack, history>>
  BY DEF vars, busVars, sessionVars, replayVars, hostVars
<1>2. TypeOK' /\ ArrivalsAreNumbered' /\ QueueIsCurrent'
  <2>1. TypeOK'
    BY <1>1 DEF IInv, TypeOK
  <2>2. ArrivalsAreNumbered'
    BY <1>1 DEF IInv, ArrivalsAreNumbered
  <2>3. QueueIsCurrent'
    BY <1>1 DEF IInv, QueueIsCurrent, Queued
  <2>4. QED
    BY <2>1, <2>2, <2>3
<1>3. HandedInOrder'
  <2>1. Forward
    BY <1>1, ElementTypes DEF IInv, TypeOK, Forward
  <2>2. HandedIsPast' /\ RevisionsIncrease' /\ CommitsInArrivalOrder' /\ ReplaysTheLastDocument'
    BY <1>1, <2>1, PastKept DEF IInv
  <2>3. QueuedIsNewer' /\ ReplayIsMarked'
    BY <1>1 DEF IInv, HandedInOrder, QueuedIsNewer, ReplayIsMarked, OfThisReplay, IsDocument, IsCommit
  <2>4. QED
    BY <2>2, <2>3 DEF HandedInOrder
<1>4. RetainedIsNewest' /\ SomeoneDrains'
  BY <1>1 DEF IInv, RetainedIsNewest, IsNewestDocument, SomeoneDrains, Trusts
<1>5. QED
  BY <1>2, <1>3, <1>4 DEF IInv

\* IInv holds in every reachable state.
THEOREM Invariance == Spec => []IInv
<1>1. Init => IInv
  BY Initially
<1>2. IInv /\ [Next]_vars => IInv'
  BY StutterKeeps, ReceiveKeeps, SettleKeeps, DrainStepKeeps, CallbackReturnsKeeps, StartKeeps,
     StartGoesOnKeeps, SuspendKeeps, DestroyKeeps, NavigationKeeps, NavigationGoesOnKeeps, ExpireKeeps
  DEF Next
<1>3. QED
  BY <1>1, <1>2, PTL DEF Spec

(* Whatever the validators answer, and in which order, and whatever a callback does to the bus
   meanwhile: the page is handed documents of increasing revision and generation (but for one
   that was posted between the opening of a generation and its replay, which may follow that
   replay), messages in arrival order, each approved by its own token, and between tasks the
   head of the queue is under validation and from an origin that is trusted. *)
THEOREM DispatchStaysSound == Spec => []DispatchIsSound
<1>1. ASSUME IInv
      PROVE  DispatchIsSound
  <2>1. OnlyApprovedCommits
    BY <1>1 DEF IInv, HandedInOrder, HandedIsPast, OnlyApprovedCommits
  <2>2. ASSUME Idle, queue # <<>>
        PROVE  /\ attached
               /\ verdict[Head(queue).id] = "open"
               /\ MatchesOrigin(Head(queue).origin, generation)
               /\ \A i \in DOMAIN queue : queue[i].generation = generation
    <3>1. Head(queue) = queue[1] /\ DOMAIN queue = 1..Len(queue)
      BY <1>1, <2>2, Dropped DEF IInv, TypeOK
    <3>2. attached /\ \A i \in 1..Len(queue) : queue[i].generation = generation
      BY <1>1, <2>2 DEF IInv, QueueIsCurrent, Queued
    <3>3. Len(stack) = 0
      BY <2>2, EmptySeq DEF Idle
    <3>4. verdict[queue[1].id] = "open" /\ Trusts(queue[1].origin)
      BY <1>1, <2>2, <3>3 DEF IInv, SomeoneDrains
    <3>5. QED
      BY <3>1, <3>2, <3>4 DEF MatchesOrigin, IsCurrentGeneration
  <2>3. HeadNeverBlocks
    BY <2>2 DEF HeadNeverBlocks
  <2>4. QED
    BY <1>1, <2>1, <2>3 DEF DispatchIsSound, IInv, HandedInOrder
<1>2. QED
  BY <1>1, Invariance, PTL

(* What is replayed into a new generation is the document the page was handed last, once, and
   nothing that was forgotten. *)
THEOREM ReplayIsTheLastDocument == Spec => []ReplaysTheLastDocument
<1>1. IInv => ReplaysTheLastDocument
  BY DEF IInv, HandedInOrder
<1>2. QED
  BY <1>1, Invariance, PTL

\* Appending hands over the element that is appended.
LEMMA DispatchedIs ==
  ASSUME TypeOK, NEW e \in Events, history' = Append(history, e)
  PROVE  Last(history') = e
BY Handed DEF Last

(* Once an update has locked the detector, the page is handed nothing from another origin. *)
THEOREM LockIsRespected == Spec => LockedOriginOnly
<1>1. ASSUME IInv, [Next]_vars, Dispatched, locked # NoOrigin
      PROVE  Last(history').origin = locked
  <2>1. ASSUME NEW m \in Arrivals, NEW kind \in {"update", "replay"}, NEW g \in Nat, NEW r \in Nat,
               Trusts(m.origin), history' = Append(history, Event(kind, m, g, r))
        PROVE  Last(history').origin = locked
    <3>1. Event(kind, m, g, r) \in Events /\ Event(kind, m, g, r).origin = m.origin
      BY <2>1, EventType
    <3>2. m.origin = locked
      BY <1>1, <2>1 DEF Trusts
    <3>3. QED
      BY <1>1, <2>1, <3>1, <3>2, DispatchedIs DEF IInv
  <2>2. history' # history
    BY <1>1 DEF Dispatched, IInv, TypeOK
  <2>3. ASSUME NEW m \in Arrivals, NEW within, CommitUpdate(m, within), Trusts(m.origin)
        PROVE  Last(history').origin = locked
    <3>1. history' = Append(history, Event("update", m, m.generation, m.revision))
      BY <2>2, <2>3 DEF CommitUpdate
    <3>2. "update" \in {"update", "replay"} /\ m.generation \in Nat /\ m.revision \in Nat
      BY DEF Arrivals
    <3>3. QED
      BY <2>1, <2>3, <3>1, <3>2
  <2>4. ASSUME Replay
        PROVE  Last(history').origin = locked
    <3>1. MayReplay
      BY <2>2, <2>4 DEF Replay
    <3>2. /\ lastAccepted.id \in 1..Len(arrived)
          /\ arrived[lastAccepted.id].origin = lastAccepted.origin
          /\ Trusts(lastAccepted.origin)
      BY <1>1, <3>1 DEF MayReplay, MatchesOrigin, IInv, RetainedIsNewest
    <3>3. arrived[lastAccepted.id] \in Arrivals
      BY <1>1, <3>2, ElementTypes DEF IInv
    <3>4. history' = Append(history, Event("replay", arrived[lastAccepted.id], generation, revision + 1))
      BY <2>4, <3>1 DEF Replay
    <3>5. "replay" \in {"update", "replay"} /\ generation \in Nat /\ revision + 1 \in Nat
      BY <1>1 DEF IInv, TypeOK
    <3>6. QED
      BY <2>1, <3>2, <3>3, <3>4, <3>5
  <2>5. ASSUME Forget
        PROVE  FALSE
    <3>1. history' = Append(history, Forgotten)
      BY <2>2, <2>5 DEF Forget
    <3>2. Forgotten \in Events /\ Forgotten.event = "forget"
      BY <1>1 DEF Forgotten, Events, Kinds, IInv, TypeOK
    <3>3. Last(history') = Forgotten
      BY <1>1, <3>1, <3>2, DispatchedIs DEF IInv
    <3>4. QED
      BY <1>1, <3>2, <3>3 DEF Dispatched
  <2>6. ASSUME NEW kind \in Kinds, NEW origin \in Origins, Receive(kind, origin)
        PROVE  Last(history').origin = locked
    <3>1. CommitUpdate(NewArrival(kind, origin), stack) /\ Trusts(origin)
      BY <2>2, <2>6 DEF Receive, MatchesOrigin
    <3>2. NewArrival(kind, origin) \in Arrivals /\ NewArrival(kind, origin).origin = origin
      <4>1. Len(arrived) + 1 \in Nat /\ generation \in Nat /\ revision + 1 \in Nat
        BY <1>1, ElementTypes DEF IInv, TypeOK
      <4>2. QED
        BY <4>1 DEF NewArrival, Arrivals
    <3>3. QED
      BY <2>3, <3>1, <3>2
  <2>7. CASE DrainStep
    <3>1. /\ CommitUpdate(Head(queue), Append(stack, CallbackFrame)) /\ queue # <<>>
          /\ MatchesOrigin(Head(queue).origin, Last(stack).generation)
      BY <2>2, <2>7 DEF DrainStep
    <3>2. Head(queue) \in Arrivals
      BY <1>1, <3>1, Dropped DEF IInv, TypeOK
    <3>3. QED
      BY <2>3, <3>1, <3>2 DEF MatchesOrigin
  <2>8. CASE StartGoesOn
    BY <2>2, <2>4, <2>5, <2>8 DEF StartGoesOn, TimeOut
  <2>9. CASE NavigationGoesOn
    BY <2>4, <2>9 DEF NavigationGoesOn
  <2>10. CASE Destroy \/ Expire
    BY <2>5, <2>10 DEF Destroy, Expire, TimeOut
  <2>11. CASE \/ Start \/ NavigationCommit \/ Suspend \/ CallbackReturns
              \/ \E id \in 1..MaxEvents, approved \in BOOLEAN : Settle(id, approved)
    BY <2>2, <2>11 DEF Start, NavigationCommit, Suspend, CallbackReturns, Settle
  <2>12. CASE UNCHANGED vars
    BY <2>2, <2>12 DEF vars
  <2>13. QED
    BY <1>1, <2>6, <2>7, <2>8, <2>9, <2>10, <2>11, <2>12 DEF Next
<1>2. IInv /\ [Next]_vars => (Dispatched /\ locked # NoOrigin => Last(history').origin = locked)
  BY <1>1
<1>3. QED
  BY <1>2, Invariance, PTL DEF Spec, LockedOriginOnly
===========================================================================
