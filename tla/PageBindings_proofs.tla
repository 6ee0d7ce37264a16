------------------------ MODULE PageBindings_proofs ------------------------
(* Proofs about PageBindings, for every finite page, every set of fields, every
   threshold and every number of entries on their way: the cache and the buffers
   are true to the page, and what is in view is served. *)
EXTENDS PageBindings, TLAPS

\* A session that does not run has nothing of its page.
Closed ==
  ~running =>
    /\ cache = Unbound /\ pending = Unbound /\ replay = Unbound
    /\ ~timer /\ ~active
    /\ visible = {} /\ news = <<>> /\ late = {}

ObservedAreCached == \A e \in Elements : seen[e] = "unobserved" <=> cache[e] = None

\* An entry that says e left the view is followed by one that says it came back.
Overtaken(e) ==
  \A i \in 1..Len(news) : news[i] = <<e, FALSE>> =>
    \E j \in 1..Len(news) : j > i /\ news[j] = <<e, TRUE>>
OnItsWay(e) == \E i \in 1..Len(news) : news[i] = <<e, TRUE>>

\* The observer last queued "in view" of e: that is known, or about to be.
Reported ==
  \A e \in Elements : seen[e] = "in" => Overtaken(e) /\ (e \in visible \/ OnItsWay(e))

\* A write is deferred only for an element the manager does not know to be in view.
DeferredAreUnseen == \A e \in Elements : replay[e] # None => e \notin visible

\* Every bound element shows the newest document, has its write buffered, or was bound too late.
NoneIsDropped ==
  active => \A e \in Elements \ late :
    cache[e] # None => shown[e] = cache[e] \/ pending[e] # None \/ replay[e] # None

NoneIsLateAfterReplay == active /\ replaying => late = {}

IInv ==
  /\ TypeOK
  /\ Closed
  /\ ObservedAreCached
  /\ BindingsAreTrue
  /\ Reported
  /\ DeferredAreUnseen
  /\ NoneIsDropped
  /\ NoneIsLateAfterReplay

---------------------------------------------------------------------------
(* The steps *)

\* What a rebuild does to each element.
LEMMA RebuiltElements ==
  ASSUME TypeOK, NEW found \in Bindings, RebuildCache(found)
  PROVE  /\ cache' = found
         /\ pending' \in Bindings /\ replay' \in Bindings
         /\ seen' \in [Elements -> {"unobserved", "new", "in", "out"}]
         /\ late' \subseteq Elements
         /\ \A e \in Elements :
              /\ seen'[e] = IF found[e] # None THEN "new" ELSE "unobserved"
              /\ cache[e] # None /\ found[e] = cache[e] =>
                   /\ pending'[e] = pending[e] /\ replay'[e] = replay[e]
                   /\ e \in late' <=> e \in late
              /\ ~(cache[e] # None /\ found[e] = cache[e]) =>
                   /\ pending'[e] \in {None, found[e]} /\ replay'[e] = None
                   /\ found[e] # None => pending'[e] # None \/ e \in late'
         /\ replaying /\ active => late' \subseteq late
<1> DEFINE added == {e \in Elements : found[e] # None /\ found[e] # cache[e]}
<1> DEFINE written == IF replaying /\ active THEN added ELSE {}
<1>1. /\ cache' = found
      /\ seen' = [e \in Elements |-> IF found[e] # None THEN "new" ELSE "unobserved"]
      /\ pending' = [e \in Elements |-> IF e \in written THEN found[e] ELSE Kept(pending, found)[e]]
      /\ replay' = Kept(replay, found)
      /\ late' = {e \in late : found[e] = cache[e]} \cup (added \ written)
  BY DEF RebuildCache, Observe
<1>2. /\ Kept(pending, found) \in Bindings /\ Kept(replay, found) \in Bindings
      /\ \A e \in Elements :
           /\ Kept(pending, found)[e]
                = IF cache[e] # None /\ found[e] = cache[e] THEN pending[e] ELSE None
           /\ Kept(replay, found)[e]
                = IF cache[e] # None /\ found[e] = cache[e] THEN replay[e] ELSE None
  BY DEF Kept, TypeOK, Bindings
<1>3. pending' \in Bindings /\ replay' \in Bindings
  BY <1>1, <1>2 DEF Bindings
<1>4. /\ seen' \in [Elements -> {"unobserved", "new", "in", "out"}]
      /\ late' \subseteq Elements
      /\ replaying /\ active => late' \subseteq late
  BY <1>1 DEF TypeOK
<1>5. ASSUME NEW e \in Elements
      PROVE  /\ seen'[e] = IF found[e] # None THEN "new" ELSE "unobserved"
             /\ cache[e] # None /\ found[e] = cache[e] =>
                  /\ pending'[e] = pending[e] /\ replay'[e] = replay[e]
                  /\ e \in late' <=> e \in late
             /\ ~(cache[e] # None /\ found[e] = cache[e]) =>
                  /\ pending'[e] \in {None, found[e]} /\ replay'[e] = None
                  /\ found[e] # None => pending'[e] # None \/ e \in late'
  <2>1. CASE cache[e] # None /\ found[e] = cache[e]
    <3>1. e \notin added /\ e \notin written
      BY <2>1
    <3>2. pending'[e] = pending[e] /\ replay'[e] = replay[e]
      BY <1>1, <1>2, <2>1, <3>1
    <3>3. QED
      BY <1>1, <2>1, <3>1, <3>2
  <2>2. CASE ~(cache[e] # None /\ found[e] = cache[e])
    <3>1. replay'[e] = None /\ (e \notin written => pending'[e] = None)
                            /\ (e \in written => pending'[e] = found[e])
      BY <1>1, <1>2, <2>2
    <3>2. found[e] # None => e \in added
      BY <2>2
    <3>3. QED
      BY <1>1, <2>2, <3>1, <3>2
  <2>3. QED
    BY <2>1, <2>2
<1>6. QED
  BY <1>1, <1>3, <1>4, <1>5

\* A rebuild of a running session keeps the invariant, once the observers are told.
LEMMA RebuildKeeps ==
  ASSUME IInv, NEW found \in Bindings, RebuildCache(found), running, running',
         page' = found, inView' = inView, shown' = shown, timer' \in BOOLEAN,
         UNCHANGED <<active, retained, replaying, awaitsReplay>>,
         \/ visible' = visible \ Cached /\ news' = news
         \/ visible' = {} /\ news' = <<>>
  PROVE  IInv'
<1> USE DEF IInv
<1>1. /\ cache' = found
      /\ pending' \in Bindings /\ replay' \in Bindings
      /\ seen' \in [Elements -> {"unobserved", "new", "in", "out"}]
      /\ late' \subseteq Elements
      /\ \A e \in Elements :
           /\ seen'[e] = IF found[e] # None THEN "new" ELSE "unobserved"
           /\ cache[e] # None /\ found[e] = cache[e] =>
                /\ pending'[e] = pending[e] /\ replay'[e] = replay[e]
                /\ e \in late' <=> e \in late
           /\ ~(cache[e] # None /\ found[e] = cache[e]) =>
                /\ pending'[e] \in {None, found[e]} /\ replay'[e] = None
                /\ found[e] # None => pending'[e] # None \/ e \in late'
      /\ replaying /\ active => late' \subseteq late
  BY RebuiltElements
<1>2. visible' \subseteq visible
  OBVIOUS
<1>3. TypeOK'
  <2>1. visible' \subseteq Elements
    BY <1>2 DEF TypeOK
  <2>2. news' \in Seq(Elements \X BOOLEAN) /\ Len(news') <= MaxNews
    <3>1. CASE news' = news
      BY <3>1 DEF TypeOK
    <3>2. CASE news' = <<>>
      <4>1. Len(news') = 0 /\ news' \in Seq(Elements \X BOOLEAN)
        BY <3>2
      <4>2. QED
        BY <4>1, PageAssumption
    <3>3. QED
      BY <3>1, <3>2
  <2>3. QED
    BY <1>1, <2>1, <2>2 DEF TypeOK
<1>4. Closed'
  BY DEF Closed
<1>5. ObservedAreCached'
  BY <1>1 DEF ObservedAreCached
<1>6. BindingsAreTrue'
  BY <1>1 DEF BindingsAreTrue, CacheFollowsThePage, BufferedForItsBinding
<1>7. Reported'
  BY <1>1 DEF Reported
<1>8. DeferredAreUnseen'
  BY <1>1, <1>2 DEF DeferredAreUnseen
<1>9. NoneIsDropped'
  BY <1>1 DEF NoneIsDropped
<1>10. NoneIsLateAfterReplay'
  BY <1>1 DEF NoneIsLateAfterReplay
<1>11. QED
  BY <1>3, <1>4, <1>5, <1>6, <1>7, <1>8, <1>9, <1>10

\* Appending or taking an entry: what the invariant says of the queue.
LEMMA QueuedEntries ==
  ASSUME NEW q \in Seq(Elements \X BOOLEAN), NEW entry \in Elements \X BOOLEAN
  PROVE  /\ Append(q, entry) \in Seq(Elements \X BOOLEAN)
         /\ Len(Append(q, entry)) = Len(q) + 1
         /\ Append(q, entry)[Len(q) + 1] = entry
         /\ \A i \in 1..Len(q) : Append(q, entry)[i] = q[i]
OBVIOUS

LEMMA TakenEntries ==
  ASSUME NEW q \in Seq(Elements \X BOOLEAN), q # <<>>
  PROVE  /\ Len(q) \in Nat \ {0}
         /\ Head(q) = q[1] /\ q[1] \in Elements \X BOOLEAN
         /\ Tail(q) \in Seq(Elements \X BOOLEAN)
         /\ Len(Tail(q)) = Len(q) - 1
         /\ \A i \in 1..(Len(q) - 1) : Tail(q)[i] = q[i + 1]
OBVIOUS

LEMMA InitHolds == Init => IInv
<1> SUFFICES ASSUME Init PROVE IInv
  OBVIOUS
<1>1. TypeOK
  <2>1. Unbound \in Bindings /\ [e \in Elements |-> "unobserved"]
                                  \in [Elements -> {"unobserved", "new", "in", "out"}]
    BY DEF Bindings, Unbound
  <2>2. <<>> \in Seq(Elements \X BOOLEAN) /\ Len(<<>>) = 0
    OBVIOUS
  <2>3. news \in Seq(Elements \X BOOLEAN) /\ Len(news) <= MaxNews
    BY <2>2, PageAssumption DEF Init
  <2>4. QED
    BY <2>1, <2>3 DEF Init, TypeOK
<1>2. QED
  BY <1>1 DEF Init, IInv, Closed, ObservedAreCached, BindingsAreTrue, CacheFollowsThePage,
     BufferedForItsBinding, Reported, DeferredAreUnseen, NoneIsDropped,
     NoneIsLateAfterReplay, Unbound

\* The page changes, or an element is scrolled: the armed debounce answers for the cache.
LEMMA PageStepKeeps ==
  ASSUME IInv, NEW e \in Elements, Scroll(e) \/ \E f \in Fields \cup {None} : Change(e, f)
  PROVE  IInv'
<1>1. /\ TypeOK'
      /\ timer' = timer \/ timer' = running
      /\ page' = page \/ timer' = running
      /\ UNCHANGED <<cache, seen, visible, news, buffers, shown, late, session>>
  BY ZenonT(30) DEF Scroll, Change, observers, buffers, session, IInv, TypeOK, Bindings
<1>2. UNCHANGED <<cache, seen, visible, news, pending, replay, shown, late, running, active, replaying>>
  BY <1>1 DEF buffers, session
<1>3. Closed' /\ BindingsAreTrue'
  BY <1>1, <1>2 DEF IInv, Closed, Unbound, BindingsAreTrue, CacheFollowsThePage,
     BufferedForItsBinding, TypeOK, Scroll, Change, observers
<1>4. ObservedAreCached' /\ DeferredAreUnseen'
  BY <1>2 DEF IInv, ObservedAreCached, DeferredAreUnseen
<1>5. Reported'
  BY <1>2 DEF IInv, Reported, Overtaken, OnItsWay
<1>6. NoneIsDropped' /\ NoneIsLateAfterReplay'
  BY <1>2 DEF IInv, NoneIsDropped, NoneIsLateAfterReplay
<1>7. QED
  BY <1>1, <1>3, <1>4, <1>5, <1>6 DEF IInv

\* A new entry is the last one: it agrees with what the observer now takes for queued.
LEMMA LookKeeps ==
  ASSUME IInv, NEW e \in Elements, Look(e)
  PROVE  IInv'
<1> USE DEF IInv
<1> DEFINE entry == <<e, inView[e]>>
<1>1. /\ news \in Seq(Elements \X BOOLEAN) /\ Len(news) \in Nat
      /\ entry \in Elements \X BOOLEAN
      /\ Len(news) < MaxNews
      /\ news' = Append(news, entry)
      /\ seen' = [seen EXCEPT ![e] = Sight(e)]
      /\ seen[e] # "unobserved"
      /\ Sight(e) \in {"in", "out"} /\ (Sight(e) = "in" <=> inView[e])
  BY DEF Look, TypeOK, Sight
<1>2. /\ news' \in Seq(Elements \X BOOLEAN)
      /\ Len(news') = Len(news) + 1
      /\ news'[Len(news) + 1] = entry
      /\ \A i \in 1..Len(news) : news'[i] = news[i]
  BY <1>1, QueuedEntries
<1> DEFINE n == Len(news)
<1>n. /\ n \in Nat /\ n = Len(news)
      /\ Len(news') = n + 1
      /\ news'[n + 1] = <<e, inView[e]>>
      /\ \A i \in 1..n : i \in 1..Len(news') /\ news'[i] = news[i]
  BY <1>1, <1>2
<1> HIDE DEF n
<1>3. UNCHANGED <<document, cache, timer, visible, buffers, shown, late, session>>
  BY DEF Look
<1>4. TypeOK'
  BY <1>1, <1>2, <1>3, PageAssumption
     DEF TypeOK, document, buffers, session, Bindings
<1>5. Reported'
  <2> SUFFICES ASSUME NEW d \in Elements, seen'[d] = "in"
               PROVE  Overtaken(d)' /\ (d \in visible' \/ OnItsWay(d)')
    BY DEF Reported
  <2>1. CASE d = e
    <3>1. inView[e] = TRUE
      BY <1>1, <2>1 DEF TypeOK
    <3>2. news'[n + 1] = <<d, TRUE>>
      BY <1>n, <2>1, <3>1
    <3>3. OnItsWay(d)'
      <4>1. n + 1 \in 1..Len(news')
        BY <1>n
      <4>2. QED
        BY <3>2, <4>1 DEF OnItsWay
    <3>4. Overtaken(d)'
      <4> SUFFICES ASSUME NEW i \in 1..Len(news'), news'[i] = <<d, FALSE>>
                   PROVE  \E j \in 1..Len(news') : j > i /\ news'[j] = <<d, TRUE>>
        BY DEF Overtaken
      <4>1. i # n + 1
        <5> SUFFICES ASSUME i = n + 1 PROVE FALSE
          OBVIOUS
        <5>1. <<d, FALSE>> = <<d, TRUE>>
          BY <3>2
        <5>2. QED
          BY <5>1
      <4>2. n + 1 \in 1..Len(news') /\ n + 1 > i
        BY <1>n, <4>1
      <4>3. QED
        BY <3>2, <4>2
    <3>5. QED
      BY <3>3, <3>4
  <2>2. CASE d # e
    <3>1. seen[d] = "in"
      BY <1>1, <2>2 DEF TypeOK
    <3>2. Overtaken(d) /\ (d \in visible \/ OnItsWay(d))
      BY <3>1 DEF Reported
    <3>3. ASSUME OnItsWay(d) PROVE OnItsWay(d)'
      <4>1. PICK i \in 1..n : news[i] = <<d, TRUE>>
        BY <1>n, <3>3 DEF OnItsWay
      <4>2. i \in 1..Len(news') /\ news'[i] = <<d, TRUE>>
        BY <1>n, <4>1
      <4>3. QED
        BY <4>2 DEF OnItsWay
    <3>4. Overtaken(d)'
      <4> SUFFICES ASSUME NEW i \in 1..Len(news'), news'[i] = <<d, FALSE>>
                   PROVE  \E j \in 1..Len(news') : j > i /\ news'[j] = <<d, TRUE>>
        BY DEF Overtaken
      <4>1. i # n + 1
        <5> SUFFICES ASSUME i = n + 1 PROVE FALSE
          OBVIOUS
        <5>1. <<d, FALSE>> = <<e, inView[e]>>
          BY <1>n
        <5>2. QED
          BY <2>2, <5>1
      <4>2. i \in 1..n
        BY <1>n, <4>1
      <4>6. news[i] = <<d, FALSE>>
        BY <1>n, <4>2
      <4>3. PICK j \in 1..n : j > i /\ news[j] = <<d, TRUE>>
        BY <1>n, <3>2, <4>2, <4>6 DEF Overtaken
      <4>4. j \in 1..Len(news') /\ news'[j] = <<d, TRUE>>
        BY <1>n, <4>3
      <4>5. QED
        BY <4>3, <4>4
    <3>5. QED
      BY <1>3, <3>2, <3>3, <3>4
  <2>3. QED
    BY <2>1, <2>2
<1>6. running
  BY <1>1, <1>3 DEF Closed, ObservedAreCached, Unbound
<1>7. Closed' /\ ObservedAreCached'
  BY <1>1, <1>3, <1>6 DEF Closed, ObservedAreCached, session, TypeOK
<1>8. BindingsAreTrue' /\ DeferredAreUnseen' /\ NoneIsDropped' /\ NoneIsLateAfterReplay'
  BY <1>3 DEF BindingsAreTrue, CacheFollowsThePage, BufferedForItsBinding, DeferredAreUnseen,
     NoneIsDropped, NoneIsLateAfterReplay, document, buffers, session
<1>9. QED
  BY <1>4, <1>5, <1>7, <1>8

\* The entry delivered was the first: what overtakes it is still on its way.
LEMMA DeliverKeeps ==
  ASSUME IInv, Deliver
  PROVE  IInv'
<1> USE DEF IInv
<1> DEFINE e == Head(news)[1]
<1> DEFINE b == Head(news)[2]
<1> DEFINE n == Len(news)
<1>1. news \in Seq(Elements \X BOOLEAN) /\ news # <<>> /\ news' = Tail(news)
  BY DEF Deliver, TypeOK
<1>2. /\ n \in Nat \ {0} /\ n = Len(news) /\ Len(news') = n - 1
      /\ news' \in Seq(Elements \X BOOLEAN)
      /\ e \in Elements /\ b \in BOOLEAN /\ news[1] = <<e, b>>
      /\ \A i \in 1..Len(news') : i + 1 \in 1..n /\ news'[i] = news[i + 1]
      /\ \A j \in 1..n : j > 1 => j - 1 \in 1..Len(news') /\ news'[j - 1] = news[j]
  BY <1>1, TakenEntries
<1>3. /\ visible' = IF b THEN visible \cup {e} ELSE visible \ {e}
      /\ replay' = IF b /\ e \notin visible THEN [replay EXCEPT ![e] = None] ELSE replay
      /\ shown' = IF b /\ e \notin visible /\ replay[e] # None
                  THEN [shown EXCEPT ![e] = replay[e]] ELSE shown
      /\ UNCHANGED <<document, cache, timer, seen, pending, late, session>>
  BY DEF Deliver
<1> HIDE DEF e, b, n
<1>4. TypeOK'
  <2>1. Len(news') <= MaxNews
    BY <1>2, PageAssumption DEF TypeOK
  <2>2. visible' \subseteq Elements /\ replay' \in Bindings /\ shown' \in Bindings
    BY <1>2, <1>3 DEF TypeOK, Bindings
  <2>3. QED
    BY <1>2, <1>3, <2>1, <2>2 DEF TypeOK, document, session
<1>5. Reported'
  <2> SUFFICES ASSUME NEW d \in Elements, seen'[d] = "in"
               PROVE  Overtaken(d)' /\ (d \in visible' \/ OnItsWay(d)')
    BY DEF Reported
  <2>1. Overtaken(d) /\ (d \in visible \/ OnItsWay(d))
    BY <1>3 DEF Reported
  <2>2. Overtaken(d)'
    <3> SUFFICES ASSUME NEW i \in 1..Len(news'), news'[i] = <<d, FALSE>>
                 PROVE  \E j \in 1..Len(news') : j > i /\ news'[j] = <<d, TRUE>>
      BY DEF Overtaken
    <3>1. i + 1 \in 1..n /\ news[i + 1] = <<d, FALSE>>
      BY <1>2
    <3>2. PICK j \in 1..n : j > i + 1 /\ news[j] = <<d, TRUE>>
      BY <1>2, <2>1, <3>1 DEF Overtaken
    <3>3. j > 1 /\ j - 1 > i
      BY <3>2
    <3>4. j - 1 \in 1..Len(news') /\ news'[j - 1] = <<d, TRUE>>
      BY <1>2, <3>2, <3>3
    <3>5. QED
      BY <3>3, <3>4
  <2>3. ASSUME NEW j \in 1..n, j > 1, news[j] = <<d, TRUE>>
        PROVE  OnItsWay(d)'
    <3>1. j - 1 \in 1..Len(news') /\ news'[j - 1] = <<d, TRUE>>
      BY <1>2, <2>3
    <3>2. QED
      BY <3>1 DEF OnItsWay
  <2>4. CASE d = e /\ b
    BY <1>3, <2>2, <2>4
  <2>5. CASE d = e /\ ~b
    <3>1. 1 \in 1..n /\ news[1] = <<d, FALSE>>
      <4>1. b = FALSE
        BY <1>2, <2>5
      <4>2. news[1] = <<d, FALSE>>
        BY <1>2, <2>5, <4>1
      <4>3. 1 \in 1..n
        BY <1>2
      <4>4. QED
        BY <4>2, <4>3
    <3>2. PICK j \in 1..n : j > 1 /\ news[j] = <<d, TRUE>>
      BY <1>2, <2>1, <3>1 DEF Overtaken
    <3>3. QED
      BY <2>2, <2>3, <3>2
  <2>6. CASE d # e
    <3>1. d \in visible => d \in visible'
      BY <1>3, <2>6
    <3>2. ASSUME OnItsWay(d) PROVE OnItsWay(d)'
      <4>1. PICK j \in 1..n : news[j] = <<d, TRUE>>
        BY <1>2, <3>2 DEF OnItsWay
      <4>2. j # 1
        <5> SUFFICES ASSUME j = 1 PROVE FALSE
          OBVIOUS
        <5>1. <<d, TRUE>> = <<e, b>>
          BY <1>2, <4>1
        <5>2. QED
          BY <2>6, <5>1
      <4>3. j > 1
        BY <4>2
      <4>4. QED
        BY <2>3, <4>1, <4>3
    <3>3. QED
      BY <2>1, <2>2, <3>1, <3>2
  <2>7. QED
    BY <1>2, <2>4, <2>5, <2>6
<1>6. running
  BY <1>1 DEF Closed
<1>7. Closed' /\ ObservedAreCached'
  BY <1>3, <1>6 DEF Closed, ObservedAreCached, session
<1>8. BindingsAreTrue'
  BY <1>2, <1>3 DEF BindingsAreTrue, CacheFollowsThePage, BufferedForItsBinding, document,
     session, TypeOK, Bindings
<1>9. DeferredAreUnseen'
  <2> SUFFICES ASSUME NEW d \in Elements, replay'[d] # None PROVE d \notin visible'
    BY DEF DeferredAreUnseen
  <2>1. replay[d] # None /\ d \notin visible
    BY <1>2, <1>3 DEF DeferredAreUnseen, TypeOK, Bindings
  <2>2. CASE d = e
    BY <1>2, <1>3, <2>1, <2>2 DEF TypeOK, Bindings
  <2>3. CASE d # e
    BY <1>3, <2>1, <2>3
  <2>4. QED
    BY <2>2, <2>3
<1>10. NoneIsDropped'
  <2> SUFFICES ASSUME active, NEW d \in Elements \ late, cache[d] # None
               PROVE  shown'[d] = cache[d] \/ pending[d] # None \/ replay'[d] # None
    BY <1>3 DEF NoneIsDropped, session
  <2>1. shown[d] = cache[d] \/ pending[d] # None \/ replay[d] # None
    BY DEF NoneIsDropped
  <2>2. replay[d] \in {None, cache[d]}
    BY DEF BindingsAreTrue, BufferedForItsBinding
  <2>3. CASE d = e
    BY <1>2, <1>3, <2>1, <2>2, <2>3 DEF TypeOK, Bindings
  <2>4. CASE d # e
    BY <1>2, <1>3, <2>1, <2>4 DEF TypeOK, Bindings
  <2>5. QED
    BY <2>3, <2>4
<1>11. NoneIsLateAfterReplay'
  BY <1>3 DEF NoneIsLateAfterReplay, session
<1>12. QED
  BY <1>4, <1>5, <1>7, <1>8, <1>9, <1>10, <1>11

\* What is written is the field of the cache; what is held is of an unseen element.
LEMMA FlushKeeps ==
  ASSUME IInv, Flush
  PROVE  IInv'
<1> USE DEF IInv
<1> DEFINE held == IF Cardinality(Cached) > Threshold THEN Elements \ visible ELSE {}
<1> HIDE DEF held
<1>1. /\ replay' = [e \in Elements |-> IF pending[e] = None THEN replay[e]
                                        ELSE IF e \in held THEN pending[e] ELSE None]
      /\ shown' = [e \in Elements |-> IF pending[e] # None /\ e \notin held
                                       THEN pending[e] ELSE shown[e]]
      /\ pending' = Unbound
      /\ UNCHANGED <<document, cache, observers, late, session>>
  BY DEF Flush, held
<1>2. held \cap visible = {}
  BY DEF held
<1>3. TypeOK'
  BY <1>1 DEF TypeOK, Bindings, Unbound, document, observers, session
<1>4. UNCHANGED <<page, inView, cache, timer, seen, visible, news, late, running, active, replaying>>
  BY <1>1 DEF document, observers, session
<1>5. running
  BY DEF Flush, Closed
<1>6. Closed' /\ ObservedAreCached' /\ NoneIsLateAfterReplay'
  BY <1>4, <1>5 DEF Closed, ObservedAreCached, NoneIsLateAfterReplay
<1>7. BindingsAreTrue'
  BY <1>1, <1>4 DEF BindingsAreTrue, CacheFollowsThePage, BufferedForItsBinding, Unbound
<1>8. Reported'
  BY <1>4 DEF Reported, Overtaken, OnItsWay
<1>9. DeferredAreUnseen'
  BY <1>1, <1>2, <1>4 DEF DeferredAreUnseen
<1>10. NoneIsDropped'
  BY <1>1, <1>4 DEF NoneIsDropped, BindingsAreTrue, BufferedForItsBinding
<1>11. QED
  BY <1>3, <1>6, <1>7, <1>8, <1>9, <1>10

\* A document is accepted for the cache as it is: nobody is late for it.
LEMMA MessageKeeps ==
  ASSUME IInv, Message
  PROVE  IInv'
<1> USE DEF IInv
<1>1. /\ running
      /\ pending' = cache /\ replay' = Unbound /\ late' = {} /\ shown' = Unbound
      /\ active' = TRUE /\ retained' = TRUE
      /\ replaying' = (replaying \/ awaitsReplay) /\ awaitsReplay' = FALSE
      /\ UNCHANGED <<page, inView, cache, timer, seen, visible, news, running>>
  BY DEF Message, Accept, document, observers
<1>2. TypeOK'
  BY <1>1 DEF TypeOK, Bindings, Unbound
<1>3. Closed' /\ ObservedAreCached' /\ NoneIsLateAfterReplay'
  BY <1>1 DEF Closed, ObservedAreCached, NoneIsLateAfterReplay
<1>4. BindingsAreTrue' /\ DeferredAreUnseen' /\ NoneIsDropped'
  BY <1>1 DEF BindingsAreTrue, CacheFollowsThePage, BufferedForItsBinding, DeferredAreUnseen,
     NoneIsDropped, Unbound
<1>5. Reported'
  BY <1>1 DEF Reported, Overtaken, OnItsWay
<1>6. QED
  BY <1>2, <1>3, <1>4, <1>5

\* The route left takes its work along; the page is scanned and observed anew.
LEMMA NavigateKeeps ==
  ASSUME IInv, Navigate
  PROVE  IInv'
<1> USE DEF IInv
<1>1. /\ running /\ cache' = page /\ visible' = visible \ Cached /\ shown' = Unbound
      /\ seen' = [e \in Elements |-> IF page[e] # None THEN "new" ELSE "unobserved"]
      /\ replay' = Unbound /\ late' = {}
      /\ UNCHANGED <<page, inView, timer, news, running, retained>>
  BY DEF Navigate, DropWork, Observe, document
<1>a. pending' = page \/ (pending' = Unbound /\ active' = FALSE)
  BY DEF Navigate, DropWork
<1>b. active' \in BOOLEAN /\ replaying' \in BOOLEAN /\ awaitsReplay' \in BOOLEAN
  <2>1. CASE retained
    <3>1. active' = TRUE /\ replaying' = TRUE /\ awaitsReplay' = FALSE
      BY <2>1 DEF Navigate
    <3>2. QED
      BY <3>1
  <2>2. CASE ~retained
    <3>1. active' = FALSE /\ replaying' = replaying /\ awaitsReplay' = TRUE
      BY <2>2 DEF Navigate, DropWork
    <3>2. QED
      BY <3>1 DEF TypeOK
  <2>3. QED
    BY <2>1, <2>2
<1>2. TypeOK'
  BY <1>1, <1>a, <1>b DEF TypeOK, Bindings, Unbound
<1>3. Closed' /\ ObservedAreCached' /\ NoneIsLateAfterReplay'
  BY <1>1 DEF Closed, ObservedAreCached, NoneIsLateAfterReplay
<1>4. BindingsAreTrue' /\ DeferredAreUnseen' /\ NoneIsDropped'
  BY <1>1, <1>a DEF BindingsAreTrue, CacheFollowsThePage, BufferedForItsBinding, DeferredAreUnseen,
     NoneIsDropped, Unbound
<1>5. Reported'
  BY <1>1 DEF Reported
<1>6. QED
  BY <1>2, <1>3, <1>4, <1>5

LEMMA HeartbeatKeeps ==
  ASSUME IInv, HeartbeatTimeout
  PROVE  IInv'
<1> USE DEF IInv
<1>1. /\ running
      /\ pending' = Unbound /\ replay' = Unbound /\ late' = {}
      /\ active' = FALSE /\ retained' = FALSE /\ replaying' = FALSE
      /\ UNCHANGED <<page, inView, cache, timer, seen, visible, news, shown, running, awaitsReplay>>
  BY DEF HeartbeatTimeout, DropWork, document, observers
<1>2. TypeOK'
  BY <1>1 DEF TypeOK, Bindings, Unbound
<1>3. Closed' /\ ObservedAreCached' /\ NoneIsLateAfterReplay'
  BY <1>1 DEF Closed, ObservedAreCached, NoneIsLateAfterReplay
<1>4. BindingsAreTrue' /\ DeferredAreUnseen' /\ NoneIsDropped'
  BY <1>1 DEF BindingsAreTrue, CacheFollowsThePage, BufferedForItsBinding, DeferredAreUnseen,
     NoneIsDropped, Unbound
<1>5. Reported'
  BY <1>1 DEF Reported, Overtaken, OnItsWay
<1>6. QED
  BY <1>2, <1>3, <1>4, <1>5

LEMMA SuspendKeeps ==
  ASSUME IInv, Suspend
  PROVE  IInv'
<1> USE DEF IInv
<1>1. /\ running' = FALSE /\ replaying' = FALSE /\ active' = FALSE /\ timer' = FALSE
      /\ pending' = Unbound /\ replay' = Unbound /\ cache' = Unbound /\ late' = {}
      /\ visible' = {} /\ news' = <<>>
      /\ seen' = [e \in Elements |-> IF Unbound[e] # None THEN "new" ELSE "unobserved"]
      /\ UNCHANGED <<page, inView, shown, retained, awaitsReplay>>
  BY DEF Suspend, DropWork, Observe, document
<1>2. TypeOK'
  <2>1. news' \in Seq(Elements \X BOOLEAN) /\ Len(news') = 0
    BY <1>1
  <2>2. Len(news') <= MaxNews
    BY <2>1, PageAssumption
  <2>3. QED
    BY <1>1, <2>1, <2>2 DEF TypeOK, Bindings, Unbound
<1>3. Closed' /\ ObservedAreCached' /\ NoneIsLateAfterReplay'
  BY <1>1 DEF Closed, ObservedAreCached, NoneIsLateAfterReplay, Unbound
<1>4. BindingsAreTrue' /\ DeferredAreUnseen' /\ NoneIsDropped'
  BY <1>1 DEF BindingsAreTrue, CacheFollowsThePage, BufferedForItsBinding, DeferredAreUnseen,
     NoneIsDropped, Unbound
<1>5. Reported'
  BY <1>1 DEF Reported, Unbound
<1>6. QED
  BY <1>2, <1>3, <1>4, <1>5

LEMMA StartKeeps ==
  ASSUME IInv, NEW expired \in BOOLEAN, Start(expired)
  PROVE  IInv'
<1> USE DEF IInv
<1>1. /\ ~running /\ running' = TRUE /\ cache' = page /\ shown' = Unbound
      /\ seen' = [e \in Elements |-> IF page[e] # None THEN "new" ELSE "unobserved"]
      /\ retained' \in BOOLEAN /\ active' = retained' /\ replaying' = retained'
      /\ awaitsReplay' \in BOOLEAN
      /\ pending' = IF retained' THEN page ELSE Unbound
      /\ UNCHANGED <<page, inView, timer, visible, news, replay, late>>
  BY DEF Start, Observe, document, TypeOK
<1>2. replay = Unbound /\ late = {} /\ ~timer
  BY <1>1 DEF Closed
<1>3. TypeOK'
  BY <1>1 DEF TypeOK, Bindings, Unbound
<1>4. Closed' /\ ObservedAreCached' /\ NoneIsLateAfterReplay'
  BY <1>1, <1>2 DEF Closed, ObservedAreCached, NoneIsLateAfterReplay
<1>5. BindingsAreTrue' /\ DeferredAreUnseen' /\ NoneIsDropped'
  BY <1>1, <1>2 DEF BindingsAreTrue, CacheFollowsThePage, BufferedForItsBinding,
     DeferredAreUnseen, NoneIsDropped, Unbound
<1>6. Reported'
  BY <1>1 DEF Reported
<1>7. QED
  BY <1>3, <1>4, <1>5, <1>6

LEMMA StepKeeps == IInv /\ [Next]_vars => IInv'
<1> SUFFICES ASSUME IInv, [Next]_vars PROVE IInv'
  OBVIOUS
<1>1. ASSUME NEW e \in Elements, Scroll(e) \/ \E f \in Fields \cup {None} : Change(e, f)
      PROVE  IInv'
  BY <1>1, PageStepKeeps
<1>2. ASSUME NEW e \in Elements, Look(e)
      PROVE  IInv'
  BY <1>2, LookKeeps
<1>3. ASSUME NEW body \in Bindings, ReplaceBody(body)
      PROVE  IInv'
  <2>1. /\ RebuildCache(body) /\ page' = body /\ timer' \in BOOLEAN
        /\ visible' = {} /\ news' = <<>>
        /\ running /\ UNCHANGED <<inView, shown, running, active, retained, replaying, awaitsReplay>>
    BY <1>3 DEF ReplaceBody, session
  <2>2. QED
    BY <2>1, RebuildKeeps
<1>4. CASE TimerFires \/ Refresh
  <2>1. running /\ page \in Bindings /\ timer \in BOOLEAN
    BY <1>4 DEF TimerFires, Refresh, IInv, Closed, TypeOK
  <2>2. /\ RebuildCache(page) /\ page' = page /\ timer' \in BOOLEAN
        /\ visible' = visible \ Cached /\ news' = news
        /\ UNCHANGED <<inView, shown, running, active, retained, replaying, awaitsReplay>>
    BY <1>4, <2>1 DEF TimerFires, Refresh, document, session
  <2>3. QED
    BY <2>1, <2>2, RebuildKeeps
<1>5. CASE Deliver
  BY <1>5, DeliverKeeps
<1>6. CASE Flush
  BY <1>6, FlushKeeps
<1>7. CASE Message
  BY <1>7, MessageKeeps
<1>8. CASE Navigate
  BY <1>8, NavigateKeeps
<1>9. CASE HeartbeatTimeout
  BY <1>9, HeartbeatKeeps
<1>10. CASE Suspend
  BY <1>10, SuspendKeeps
<1>11. ASSUME NEW expired \in BOOLEAN, Start(expired)
       PROVE  IInv'
  BY <1>11, StartKeeps
<1>12. CASE UNCHANGED vars
  BY <1>12, ZenonT(30) DEF vars, document, observers, buffers, session, IInv, TypeOK, Closed,
     ObservedAreCached, BindingsAreTrue, CacheFollowsThePage, BufferedForItsBinding, Reported,
     Overtaken, OnItsWay, DeferredAreUnseen, NoneIsDropped, NoneIsLateAfterReplay
<1>13. QED
  BY <1>1, <1>2, <1>3, <1>4, <1>5, <1>6, <1>7, <1>8, <1>9, <1>10, <1>11, <1>12 DEF Next

\* The invariant says that what is in view is served.
LEMMA ServedFollows == IInv => InViewIsServed
<1> SUFFICES ASSUME IInv PROVE InViewIsServed
  OBVIOUS
<1> USE DEF IInv
<1>1. NoneIsStranded
  <2> SUFFICES ASSUME NEW e \in Elements, replay[e] # None, seen[e] = "in"
               PROVE  <<e, TRUE>> \in Range(news)
    BY DEF NoneIsStranded, DeferredAreUnseen
  <2>1. PICK i \in 1..Len(news) : news[i] = <<e, TRUE>>
    BY DEF DeferredAreUnseen, Reported, OnItsWay
  <2>2. DOMAIN news = 1..Len(news)
    BY DEF TypeOK
  <2>3. QED
    BY <2>1, <2>2 DEF Range
<1>2. ASSUME AtRest, NEW e \in Elements, page[e] # None, inView[e], e \in late => replaying
      PROVE  shown[e] = page[e]
  <2>1. e \notin late
    BY <1>2 DEF AtRest, NoneIsLateAfterReplay
  <2>2. cache[e] = page[e] /\ pending[e] = None
    BY <1>2 DEF AtRest, BindingsAreTrue, CacheFollowsThePage, Unbound
  <2>3. seen[e] = "in"
    BY <1>2, <2>2 DEF AtRest, ObservedAreCached, Sight
  <2>4. Len(news) = 0
    BY <1>2 DEF AtRest
  <2>5. replay[e] = None
    BY <2>3, <2>4 DEF DeferredAreUnseen, Reported, OnItsWay
  <2>6. QED
    BY <1>2, <2>1, <2>2, <2>5 DEF AtRest, NoneIsDropped
<1>3. QED
  BY <1>1, <1>2 DEF InViewIsServed

---------------------------------------------------------------------------
(* The theorems *)

LEMMA Invariance == Spec => []IInv
<1>1. QED
  BY InitHolds, StepKeeps, PTL DEF Spec

\* Every variable keeps its type.
THEOREM TypeCorrect == Spec => []TypeOK
<1>1. IInv => TypeOK
  BY DEF IInv
<1>2. QED
  BY <1>1, Invariance, PTL

(* The cache follows the page, and buffered work never outlives the binding it
   was meant for (lifecycle.ts:487-501). *)
THEOREM BindingsStayTrue == Spec => []BindingsAreTrue
<1>1. IInv => BindingsAreTrue
  BY DEF IInv
<1>2. QED
  BY <1>1, Invariance, PTL

(* No deferred write is stranded, and a page at rest shows the newest document in
   every element in view that was bound when it came (observers.ts:167-184). *)
THEOREM ViewStaysServed == Spec => []InViewIsServed
<1>1. QED
  BY ServedFollows, Invariance, PTL
=============================================================================
