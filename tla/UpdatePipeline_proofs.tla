----------------------- MODULE UpdatePipeline_proofs -----------------------
(* Proofs about UpdatePipeline, for every set of pages and values and any number
   of documents: what is on its way to the page, what was asked of the server and
   what the page was last told agree with the newest message. *)
EXTENDS UpdatePipeline, SequenceTheorems, TLAPS

---------------------------------------------------------------------------
(* The inductive invariant *)

Requests == [raw : Raws, status : Statuses]
Needs ==
  [resolved : Docs \cup {None}, unresolved : BOOLEAN, lastRaw : Raws \cup {None},
   open : BOOLEAN, trailing : Nat]
Entries == [revision : Nat, failed : BOOLEAN, queued : BOOLEAN, reported : States \cup {None}]
Counters == [updates : Nat, completed : Nat, superseded : Nat, dropped : Nat]

Typed ==
  /\ site \in Pages
  /\ tx \in Seq(Transactions) /\ active \in 0..Len(tx)
  /\ retained \in Raws \cup {None}
  /\ need \in Needs /\ requests \in Seq(Requests) /\ newest \in 0..Len(requests)
  /\ buffer \in Page /\ page \in Page
  /\ ledger \in Entries
  /\ said \in [Revisions -> SUBSET States]
  /\ counted \in Counters

\* What the message itself can show.
Shown == Plain \cup Rich

\* Each revision waits for a request that was made, and makes one at most.
Asked(txs, reqs) ==
  \A r \in DOMAIN txs :
    /\ txs[r].request <= Len(reqs)
    /\ txs[r].phase = "resolving" \/ txs[r].waits => txs[r].request # 0

Bounded ==
  /\ Len(tx) <= MaxRevision
  /\ Len(requests) <= Len(tx)
  /\ Asked(tx, requests)

\* The ledger reports on the active revision, and buffered work is its work.
Owned ==
  /\ ledger.revision = active
  /\ buffer # Blank => active # 0 /\ ~tx[active].cancelled

Counted ==
  counted.updates = counted.completed + counted.superseded + counted.dropped
                    + (IF Live /\ tx[active].counts THEN 1 ELSE 0)

(* The carried-over document holds the newest values, and no question to the
   server is open unless it says so. *)
Remembers(m) ==
  /\ m.lastRaw # None =>
       m.resolved # None /\ \A f \in Shown : m.resolved[f].value = m.lastRaw[f]
  /\ ~m.unresolved =>
       m.resolved # None /\ (m.lastRaw # None => m.resolved = Populated(m.lastRaw))

\* The timer of a queued request, and a queued request for every timer.
Queues(m, reqs) ==
  /\ m.trailing \in 0..Len(reqs)
  /\ m.trailing # 0 => reqs[m.trailing].status = "queued"
  /\ \A i \in DOMAIN reqs : reqs[i].status = "queued" => m.trailing = i

(* The request of the active revision carries its values and is the newest: no
   older one is queued that could go out after it. *)
Asking ==
  LET q == tx[active].request IN
  active # 0 /\ q # 0 =>
    /\ requests[q].raw = tx[active].raw
    /\ requests[q].status # "superseded"
    /\ requests[q].status = "sent" => newest = q
    /\ need.trailing \in {0, q}

\* What the active revision resolved, and whether its question is answered.
Resolving ==
  LET t == tx[active] IN
  active # 0 =>
    /\ need.lastRaw = t.raw
    /\ \A f \in Shown : t.fields[f].value = t.raw[f]
    /\ t.phase = "resolving" => buffer = Blank /\ ~t.waits
    /\ t.phase \in {"resolved", "gate", "applied"} /\ ~t.waits => ledger.failed \/ ~need.unresolved

\* What is buffered, or else on the page, has the values of the active revision.
Writing ==
  LET t == tx[active] IN
  active # 0 => \A f \in Shown :
    /\ buffer[f] # None => buffer[f].value = t.raw[f]
    /\ t.phase = "applied" /\ ~t.cancelled /\ buffer[f] = None =>
         page[f] # None /\ page[f].value = t.raw[f]

Full(d, f) == d # None /\ d[f] # None /\ d[f].full

(* A document that reached the page or is on its way is one the merges remember;
   without handlers nothing less is on its way to it. *)
Referring ==
  \A f \in Refs :
    /\ Full(page, f) \/ Full(buffer, f) \/ (active # 0 /\ Full(tx[active].fields, f))
         => Full(need.resolved, f)
    /\ ~Handlers /\ Full(page, f) =>
         /\ buffer[f] # None => Full(buffer, f)
         /\ active # 0 /\ tx[active].phase \in {"resolving", "resolved"} => Full(tx[active].fields, f)

Gateless(txs) == ~Handlers => \A r \in DOMAIN txs : txs[r].phase # "gate"

\* What is said of the active revision.
Active == Asking /\ Resolving /\ Writing /\ Referring

IInv ==
  /\ Typed
  /\ Bounded
  /\ Owned
  /\ Counted
  /\ Remembers(need)
  /\ Queues(need, requests)
  /\ Gateless(tx)
  /\ Active

---------------------------------------------------------------------------
(* The data *)

\* null is neither a value, nor a message, nor a document of the page.
LEMMA NullIsNothing ==
  ASSUME site \in Pages
  PROVE  None \notin Slot /\ None \notin Raws /\ None \notin Docs /\ None \notin Page
<1>1. None \notin [Fields -> Values] \cup [Fields -> Slot \cup {None}]
  BY PipelineAssumption DEF IsNull, Fields, Plain, Rich, Refs
<1>2. None \notin Slot /\ None \notin Raws /\ None \notin Page
  BY <1>1, PipelineAssumption DEF IsNull, Raws, Page
<1>3. \A d \in Docs : d \in Page
  BY DEF Docs, Page
<1> QED BY <1>2, <1>3

\* The page stays what it is, and so does all that is made of its fields.
LEMMA SameSite ==
  ASSUME site' = site
  PROVE  /\ Plain' = Plain /\ Rich' = Rich /\ Refs' = Refs /\ Handlers' = Handlers
         /\ Fields' = Fields /\ Shown' = Shown
         /\ Raws' = Raws /\ Docs' = Docs /\ Page' = Page /\ Blank' = Blank
         /\ Transactions' = Transactions /\ Requests' = Requests /\ Needs' = Needs
BY DEF Plain, Rich, Refs, Handlers, Fields, Shown, Raws, Docs, Page, Blank, Transactions,
       Requests, Needs

\* The parts of a slot, whatever they are.
LEMMA SlotParts ==
  ASSUME NEW v, NEW b
  PROVE  [value |-> v, full |-> b].value = v
OBVIOUS

LEMMA FullSlot ==
  ASSUME NEW v
  PROVE  [value |-> v, full |-> TRUE].full
OBVIOUS

LEMMA SentAndPopulated ==
  ASSUME NEW raw \in Raws
  PROVE  /\ AsSent(raw) \in Docs /\ Populated(raw) \in Docs
         /\ \A f \in Fields : /\ AsSent(raw)[f].value = raw[f]
                              /\ f \in Plain => AsSent(raw)[f] = [value |-> raw[f], full |-> TRUE]
                              /\ Populated(raw)[f] = [value |-> raw[f], full |-> TRUE]
<1>1. \A f \in Fields : AsSent(raw)[f] = [value |-> raw[f], full |-> f \in Plain]
  BY DEF AsSent
<1>2. \A f \in Fields : Populated(raw)[f] = [value |-> raw[f], full |-> TRUE]
  BY DEF Populated
<1>3. ASSUME NEW f \in Fields
      PROVE  AsSent(raw)[f].value = raw[f]
  <2> DEFINE b == f \in Plain
  <2>1. AsSent(raw)[f] = [value |-> raw[f], full |-> b]
    BY <1>1
  <2> HIDE DEF b
  <2> QED BY ONLY <2>1, SlotParts
<1>4. ASSUME NEW f \in Fields, f \in Plain
      PROVE  AsSent(raw)[f] = [value |-> raw[f], full |-> TRUE]
  <2>1. (f \in Plain) = TRUE
    BY <1>4
  <2> QED BY <1>1, <2>1, Zenon
<1>5. AsSent(raw) \in Docs /\ Populated(raw) \in Docs
  BY DEF AsSent, Populated, Raws, Docs, Slot
<1> QED BY <1>2, <1>3, <1>4, <1>5

\* The decision keeps the memory of the merges, whatever the message.
LEMMA DecideSound ==
  ASSUME site \in Pages, NEW m \in Needs, NEW raw \in Raws, NEW force \in BOOLEAN, Remembers(m)
  PROVE  LET plan == Decide(m, raw, force) IN
         /\ plan.merge \in BOOLEAN
         /\ plan.need \in Needs /\ Remembers(plan.need)
         /\ plan.need.open = m.open /\ plan.need.trailing = m.trailing
         /\ plan.need.lastRaw = raw
         /\ plan.need.resolved \in Docs
         /\ \A f \in Shown : plan.need.resolved[f].value = raw[f]
         /\ ~plan.merge => ~plan.need.unresolved
         /\ \A f \in Refs : Full(m.resolved, f) => Full(plan.need.resolved, f)
<1> DEFINE changed == Changed(m, raw)
           asks == force \/ changed \ Plain # {}
           own == [f \in Fields |-> IF f \in changed /\ ~Kept(f) THEN AsSent(raw)[f] ELSE m.resolved[f]]
           resolved == IF m.resolved = None THEN AsSent(raw) ELSE own
           n == [m EXCEPT !.lastRaw = raw, !.unresolved = Unresolved(m, asks), !.resolved = resolved]
<1>1. Decide(m, raw, force) = [merge |-> m.unresolved \/ asks, need |-> n]
  BY DEF Decide, Changed, Needs
<1>2. asks \in BOOLEAN /\ m.unresolved \in BOOLEAN /\ Unresolved(m, asks) \in BOOLEAN
  BY DEF Needs, Unresolved
<1>3. /\ AsSent(raw) \in Docs /\ None \notin Docs /\ None \notin Raws /\ None \notin Slot
      /\ \A f \in Fields : /\ AsSent(raw)[f].value = raw[f]
                           /\ f \in Plain => AsSent(raw)[f] = [value |-> raw[f], full |-> TRUE]
  BY NullIsNothing, SentAndPopulated
<1>4. ASSUME m.resolved # None
      PROVE  m.resolved \in Docs /\ own \in Docs
  BY <1>3, <1>4 DEF Needs, Docs
<1>5. resolved \in Docs
  BY <1>3, <1>4
<1>6. /\ n \in Needs /\ n.lastRaw = raw /\ n.resolved = resolved /\ n.unresolved = Unresolved(m, asks)
      /\ n.open = m.open /\ n.trailing = m.trailing
  BY <1>2, <1>5 DEF Needs
<1>7. \A f \in Shown : f \in Fields /\ ~Kept(f)
  BY PipelineAssumption DEF Shown, Kept, Fields, Plain, Rich, Refs, IsPage
<1>a. \A f \in Fields :
        /\ m.resolved = None \/ (f \in changed /\ ~Kept(f)) => resolved[f] = AsSent(raw)[f]
        /\ m.resolved # None /\ ~(f \in changed /\ ~Kept(f)) => resolved[f] = m.resolved[f]
  OBVIOUS
<1>b. \A f \in Fields : f \notin changed => m.lastRaw # None /\ m.lastRaw[f] = raw[f]
  BY DEF Changed
<1>c. ~Unresolved(m, asks) => ~m.unresolved /\ changed \subseteq Plain
  BY DEF Unresolved
<1> HIDE DEF changed, asks, own, resolved, n
<1>8. ASSUME NEW f \in Shown PROVE resolved[f].value = raw[f]
  <2>1. CASE m.resolved = None \/ f \in changed
    <3>1. f \in Fields /\ resolved[f] = AsSent(raw)[f]
      BY <1>7, <1>a, <2>1
    <3>2. AsSent(raw)[f].value = raw[f]
      BY <1>3, <3>1, Zenon
    <3> QED BY <3>1, <3>2, Zenon
  <2>2. CASE m.resolved # None /\ f \notin changed
    <3>1. resolved[f] = m.resolved[f] /\ m.lastRaw # None /\ m.lastRaw[f] = raw[f]
      BY <1>7, <1>a, <1>b, <2>2
    <3> QED BY <3>1 DEF Remembers
  <2> QED BY <2>1, <2>2
<1>9. ASSUME NEW f \in Refs, Full(m.resolved, f) PROVE Full(resolved, f)
  <2>1. f \in Fields /\ Kept(f) /\ m.resolved # None
    BY <1>9 DEF Full, Kept, Fields
  <2>2. resolved[f] = m.resolved[f] /\ resolved # None
    BY <1>3, <1>5, <1>a, <2>1
  <2> QED BY <1>9, <2>2 DEF Full
<1>10. ASSUME ~Unresolved(m, asks) PROVE resolved = Populated(raw)
  <2>1. ~m.unresolved /\ changed \subseteq Plain /\ m.resolved # None
    BY <1>10, <1>c DEF Remembers
  <2>2. ASSUME NEW f \in Fields PROVE resolved[f] = [value |-> raw[f], full |-> TRUE]
    <3>1. CASE f \in changed
      <4>1. f \in Plain /\ ~Kept(f)
        BY <1>7, <2>1, <3>1 DEF Shown
      <4>2. resolved[f] = AsSent(raw)[f]
        BY <1>a, <3>1, <4>1
      <4>3. AsSent(raw)[f] = [value |-> raw[f], full |-> TRUE]
        BY <1>3, <4>1, Zenon
      <4> QED BY <4>2, <4>3, Zenon
    <3>2. CASE f \notin changed
      <4>1. m.lastRaw # None /\ m.lastRaw[f] = raw[f] /\ m.resolved = Populated(m.lastRaw)
        BY <1>b, <2>1, <3>2 DEF Remembers
      <4>2. resolved[f] = m.resolved[f]
        BY <1>a, <2>1, <3>2
      <4> QED BY <4>1, <4>2 DEF Populated
    <3> QED BY <3>1, <3>2
  <2> QED BY <1>5, <2>2 DEF Populated, Docs
<1>11. Remembers(n)
  BY <1>3, <1>5, <1>6, <1>8, <1>10 DEF Remembers
<1>12. ~(m.unresolved \/ asks) => ~Unresolved(m, asks)
  BY DEF Unresolved
<1> QED BY <1>1, <1>2, <1>5, <1>6, <1>8, <1>9, <1>11, <1>12

---------------------------------------------------------------------------
(* The requests *)

\* Requests that are given up keep everything but their outcome.
LEMMA SupersedeSound ==
  ASSUME NEW reqs \in Seq(Requests), NEW gone
  PROVE  /\ Supersede(reqs, gone) \in Seq(Requests)
         /\ Len(Supersede(reqs, gone)) = Len(reqs)
         /\ DOMAIN Supersede(reqs, gone) = DOMAIN reqs
         /\ \A i \in DOMAIN reqs :
              /\ Supersede(reqs, gone)[i].raw = reqs[i].raw
              /\ i \in gone => Supersede(reqs, gone)[i].status = "superseded"
              /\ i \notin gone => Supersede(reqs, gone)[i] = reqs[i]
<1> DEFINE given == Supersede(reqs, gone)
<1>1. DOMAIN reqs = 1..Len(reqs) /\ Len(reqs) \in Nat /\ \A i \in DOMAIN reqs : reqs[i] \in Requests
  BY LenProperties
<1>2. ASSUME NEW i \in DOMAIN reqs
      PROVE  /\ given[i] \in Requests /\ given[i].raw = reqs[i].raw
             /\ i \in gone => given[i].status = "superseded"
             /\ i \notin gone => given[i] = reqs[i]
  <2>1. reqs[i] \in Requests
    BY <1>1
  <2>2. CASE i \in gone
    <3>1. given[i] = [reqs[i] EXCEPT !.status = "superseded"]
      BY <2>2 DEF Supersede
    <3> QED BY <2>1, <2>2, <3>1 DEF Requests, Statuses
  <2>3. CASE i \notin gone
    <3>1. given[i] = reqs[i]
      BY <2>3 DEF Supersede
    <3> QED BY <2>1, <2>3, <3>1
  <2> QED BY <2>2, <2>3
<1>3. given = [i \in 1..Len(reqs) |-> given[i]] /\ DOMAIN given = DOMAIN reqs
  BY <1>1 DEF Supersede
<1>4. given \in [1..Len(reqs) -> Requests]
  BY <1>1, <1>2, <1>3
<1>5. given \in Seq(Requests) /\ Len(given) = Len(reqs)
  BY <1>1, <1>4
<1> QED BY <1>2, <1>3, <1>5

(* A request goes out at once, or is the one of the queue: it carries the newest
   values, and nothing is left in the queue beside it. *)
LEMMA AskSound ==
  ASSUME NEW m \in Needs, NEW reqs \in Seq(Requests), NEW raw \in Raws, Queues(m, reqs)
  PROVE  LET ask == Ask(m, reqs, raw) IN
         /\ ask.leading \in BOOLEAN
         /\ ask.requests \in Seq(Requests)
         /\ Len(ask.requests) \in Len(reqs)..(Len(reqs) + 1)
         /\ ask.request \in 1..Len(ask.requests)
         /\ ask.requests[ask.request].raw = raw
         /\ ask.need \in Needs
         /\ ask.need.resolved = m.resolved /\ ask.need.unresolved = m.unresolved
         /\ ask.need.lastRaw = m.lastRaw
         /\ Queues(ask.need, ask.requests)
         /\ ask.leading => ask.requests[ask.request].status = "sent" /\ ask.need.trailing = 0
         /\ ~ask.leading => /\ ask.requests[ask.request].status = "queued"
                            /\ ask.need.trailing = ask.request
<1>0. DOMAIN reqs = 1..Len(reqs) /\ Len(reqs) \in Nat /\ \A i \in DOMAIN reqs : reqs[i] \in Requests
  BY LenProperties
<1>1. CASE ~m.open
  <2> DEFINE rest == Supersede(reqs, Dropped(m))
             sent == [raw |-> raw, status |-> "sent"]
             n == [m EXCEPT !.open = TRUE, !.trailing = IF m.trailing \in Dropped(m) THEN 0 ELSE m.trailing]
  <2>1. Ask(m, reqs, raw) = [leading |-> TRUE, request |-> Len(reqs) + 1,
                             requests |-> Append(rest, sent), need |-> n]
    BY <1>1 DEF Ask
  <2>2. /\ rest \in Seq(Requests) /\ Len(rest) = Len(reqs)
        /\ \A i \in DOMAIN reqs : rest[i].status # "queued"
    <3>1. ASSUME NEW i \in DOMAIN reqs
          PROVE  rest[i].status # "queued"
      <4>1. CASE i \in Dropped(m)
        BY <4>1, SupersedeSound
      <4>2. CASE i \notin Dropped(m)
        BY <1>0, <4>2, SupersedeSound DEF Dropped, Queues
      <4> QED BY <4>1, <4>2
    <3> QED BY <3>1, SupersedeSound
  <2>3. sent \in Requests /\ sent.raw = raw /\ sent.status = "sent"
    BY DEF Requests, Statuses
  <2>4. /\ Append(rest, sent) \in Seq(Requests) /\ Len(Append(rest, sent)) = Len(reqs) + 1
        /\ Append(rest, sent)[Len(reqs) + 1] = sent
        /\ \A i \in 1..Len(reqs) : Append(rest, sent)[i] = rest[i]
    BY <2>2, <2>3, AppendProperties
  <2>5. /\ n \in Needs /\ n.trailing = 0 /\ n.resolved = m.resolved
        /\ n.unresolved = m.unresolved /\ n.lastRaw = m.lastRaw
    BY DEF Needs, Dropped
  <2>6. \A i \in DOMAIN Append(rest, sent) : Append(rest, sent)[i].status # "queued"
    BY <1>0, <2>2, <2>3, <2>4, LenProperties
  <2>7. Queues(n, Append(rest, sent))
    BY <1>0, <2>4, <2>5, <2>6 DEF Queues
  <2> HIDE DEF rest, sent, n
  <2> QED BY <1>0, <2>1, <2>3, <2>4, <2>5, <2>7
<1>2. CASE m.open /\ m.trailing = 0
  <2> DEFINE queued == [raw |-> raw, status |-> "queued"]
             n == [m EXCEPT !.trailing = Len(reqs) + 1]
  <2>1. Ask(m, reqs, raw) = [leading |-> FALSE, request |-> Len(reqs) + 1,
                             requests |-> Append(reqs, queued), need |-> n]
    BY <1>2 DEF Ask
  <2>2. queued \in Requests /\ queued.raw = raw /\ queued.status = "queued"
    BY DEF Requests, Statuses
  <2>3. /\ Append(reqs, queued) \in Seq(Requests) /\ Len(Append(reqs, queued)) = Len(reqs) + 1
        /\ Append(reqs, queued)[Len(reqs) + 1] = queued
        /\ \A i \in 1..Len(reqs) : Append(reqs, queued)[i] = reqs[i]
    BY <2>2, AppendProperties
  <2>4. /\ n \in Needs /\ n.trailing = Len(reqs) + 1 /\ n.resolved = m.resolved
        /\ n.unresolved = m.unresolved /\ n.lastRaw = m.lastRaw
    BY <1>0 DEF Needs
  <2>5. \A i \in DOMAIN Append(reqs, queued) :
          Append(reqs, queued)[i].status = "queued" => i = Len(reqs) + 1
    <3>1. \A i \in 1..Len(reqs) : reqs[i].status # "queued"
      BY <1>0, <1>2 DEF Queues
    <3>2. DOMAIN Append(reqs, queued) = 1..(Len(reqs) + 1)
      BY <2>3, LenProperties
    <3> QED BY <1>0, <2>3, <3>1, <3>2
  <2>6. Queues(n, Append(reqs, queued))
    BY <1>0, <2>2, <2>3, <2>4, <2>5 DEF Queues
  <2> HIDE DEF queued, n
  <2> QED BY <1>0, <2>1, <2>2, <2>3, <2>4, <2>6
<1>3. CASE m.open /\ m.trailing # 0
  <2> DEFINE t == m.trailing
             latest == [reqs EXCEPT ![t].raw = raw]
  <2>1. Ask(m, reqs, raw) = [leading |-> FALSE, request |-> t, requests |-> latest, need |-> m]
    BY <1>3 DEF Ask
  <2>2. t \in 1..Len(reqs) /\ reqs[t].status = "queued"
    BY <1>0, <1>3 DEF Queues
  <2>3. [reqs[t] EXCEPT !.raw = raw] \in Requests
    BY <1>0, <2>2 DEF Requests
  <2>4. /\ latest \in Seq(Requests) /\ Len(latest) = Len(reqs)
        /\ \A i \in 1..Len(reqs) : latest[i] = IF i = t THEN [reqs[t] EXCEPT !.raw = raw] ELSE reqs[i]
    BY <2>2, <2>3, ExceptSeq
  <2>5. latest[t].raw = raw /\ \A i \in 1..Len(reqs) : latest[i].status = reqs[i].status
    BY <1>0, <2>2, <2>4 DEF Requests
  <2>6. Queues(m, latest)
    BY <1>0, <2>2, <2>4, <2>5, LenProperties DEF Queues
  <2> HIDE DEF latest
  <2> QED BY <1>0, <2>1, <2>2, <2>4, <2>5, <2>6
<1> QED BY <1>1, <1>2, <1>3 DEF Needs

---------------------------------------------------------------------------
(* Acceptance *)

LEMMA SequenceFacts ==
  ASSUME NEW S, NEW s \in Seq(S)
  PROVE  Len(s) \in Nat /\ DOMAIN s = 1..Len(s) /\ \A i \in DOMAIN s : s[i] \in S
BY LenProperties

(* An accepted document becomes the newest revision, with nothing on its way and
   its question to the server, if there is one, on top of all others. *)
LEMMA AcceptSound ==
  ASSUME site \in Pages, site' = site,
         NEW txs \in Seq(Transactions), NEW m \in Needs, NEW reqs \in Seq(Requests),
         NEW sent \in 0..Len(reqs), NEW raw \in Raws, NEW force \in BOOLEAN, NEW counts \in BOOLEAN,
         Len(txs) < MaxRevision, Len(reqs) <= Len(txs), Asked(txs, reqs), Gateless(txs),
         Remembers(m), Queues(m, reqs),
         \A f \in Refs : Full(page, f)' => Full(m.resolved, f),
         Accept(txs, m, reqs, sent, raw, force, counts)
  PROVE  /\ tx' \in Seq(Transactions) /\ active' = Len(tx') /\ active' # 0 /\ Bounded'
         /\ need' \in Needs /\ requests' \in Seq(Requests) /\ newest' \in 0..Len(requests')
         /\ buffer' = Blank /\ ledger' = [NoEntry EXCEPT !.revision = active']
         /\ tx'[active'].counts = counts /\ ~tx'[active'].completed
         /\ Remembers(need') /\ Queues(need', requests') /\ Gateless(tx')
         /\ Active'
<1> DEFINE r == Len(txs) + 1
           plan == Decide(m, raw, force)
           ask == Ask(plan.need, reqs, raw)
           leads == plan.merge /\ ask.leading
           t == [raw |-> raw, force |-> force, counts |-> counts, fields |-> plan.need.resolved,
                 phase |-> IF leads THEN "resolving" ELSE "resolved",
                 request |-> IF plan.merge THEN ask.request ELSE 0,
                 waits |-> plan.merge /\ ~leads,
                 cancelled |-> FALSE, completed |-> FALSE]
<1>0. /\ DOMAIN txs = 1..Len(txs) /\ Len(txs) \in Nat /\ \A i \in DOMAIN txs : txs[i] \in Transactions
      /\ Len(reqs) \in Nat /\ MaxRevision \in Nat
  BY SequenceFacts, PipelineAssumption
<1>1. /\ plan.merge \in BOOLEAN
      /\ plan.need \in Needs /\ Remembers(plan.need)
      /\ plan.need.trailing = m.trailing /\ plan.need.lastRaw = raw /\ plan.need.resolved \in Docs
      /\ \A f \in Shown : plan.need.resolved[f].value = raw[f]
      /\ ~plan.merge => ~plan.need.unresolved
      /\ \A f \in Refs : Full(m.resolved, f) => Full(plan.need.resolved, f)
  BY DecideSound
<1>2. Queues(plan.need, reqs)
  BY <1>1 DEF Queues
<1>3. /\ ask.leading \in BOOLEAN
      /\ ask.requests \in Seq(Requests) /\ Len(ask.requests) \in Len(reqs)..(Len(reqs) + 1)
      /\ ask.request \in 1..Len(ask.requests) /\ ask.requests[ask.request].raw = raw
      /\ ask.need \in Needs
      /\ ask.need.resolved = plan.need.resolved /\ ask.need.unresolved = plan.need.unresolved
      /\ ask.need.lastRaw = plan.need.lastRaw
      /\ Queues(ask.need, ask.requests)
      /\ ask.leading => ask.requests[ask.request].status = "sent" /\ ask.need.trailing = 0
      /\ ~ask.leading => /\ ask.requests[ask.request].status = "queued"
                         /\ ask.need.trailing = ask.request
  BY <1>1, <1>2, AskSound
<1>4. /\ tx' = Append(txs, t) /\ active' = r /\ buffer' = Blank
      /\ ledger' = [NoEntry EXCEPT !.revision = r]
      /\ plan.merge => need' = ask.need /\ requests' = ask.requests
      /\ ~plan.merge => need' = plan.need /\ requests' = reqs
      /\ newest' = IF leads THEN ask.request ELSE sent
  BY DEF Accept
<1> HIDE DEF plan, ask
<1>5. leads \in BOOLEAN /\ (IF plan.merge THEN ask.request ELSE 0) \in 0..MaxRevision
  BY <1>0, <1>1, <1>3
<1>6. t \in Transactions
  BY <1>1, <1>5 DEF Transactions, Phases
<1>7. /\ t.raw = raw /\ t.counts = counts /\ t.fields = plan.need.resolved
      /\ t.phase \in {"resolving", "resolved"} /\ (t.phase = "resolving" <=> leads)
      /\ t.request = (IF plan.merge THEN ask.request ELSE 0)
      /\ (t.waits <=> plan.merge /\ ~leads) /\ ~t.cancelled /\ ~t.completed
  BY <1>5
<1> HIDE DEF t
<1>8. /\ tx' \in Seq(Transactions) /\ Len(tx') = r /\ tx'[r] = t /\ r \in Nat \ {0}
      /\ DOMAIN tx' = 1..r /\ \A i \in 1..Len(txs) : tx'[i] = txs[i]
  BY <1>0, <1>4, <1>6, AppendProperties, SequenceFacts
<1>9. /\ need' \in Needs /\ requests' \in Seq(Requests) /\ Len(requests') \in Len(reqs)..(Len(reqs) + 1)
      /\ newest' \in 0..Len(requests') /\ Queues(need', requests')
      /\ need'.resolved = plan.need.resolved /\ need'.unresolved = plan.need.unresolved
      /\ need'.lastRaw = raw
  BY <1>0, <1>1, <1>2, <1>3, <1>4
<1>10. Remembers(need')
  BY <1>1, <1>9 DEF Remembers
<1>11. Bounded'
  <2>1. ASSUME NEW i \in DOMAIN tx'
        PROVE  /\ tx'[i].request <= Len(requests')
               /\ tx'[i].phase = "resolving" \/ tx'[i].waits => tx'[i].request # 0
    <3>1. CASE i = r
      BY <1>0, <1>1, <1>3, <1>4, <1>7, <1>8, <1>9, <3>1
    <3>2. CASE i # r
      <4>1. i \in DOMAIN txs /\ tx'[i] = txs[i] /\ txs[i].request \in Nat
        BY <1>0, <1>8, <3>2 DEF Transactions
      <4> QED BY <1>0, <1>9, <4>1 DEF Asked
    <3> QED BY <3>1, <3>2
  <2>2. Len(tx') <= MaxRevision /\ Len(requests') <= Len(tx')
    BY <1>0, <1>8, <1>9
  <2> QED BY <2>1, <2>2 DEF Bounded, Asked
<1>12. Gateless(tx')
  BY <1>0, <1>7, <1>8 DEF Gateless
<1>13. Asking'
  BY <1>1, <1>3, <1>4, <1>7, <1>8 DEF Asking
<1>14. Resolving'
  <2>1. Shown' = Shown /\ Blank' = Blank
    BY SameSite
  <2> QED BY <1>1, <1>4, <1>7, <1>8, <1>9, <2>1 DEF Resolving
<1>15. \A f \in Fields : buffer'[f] = None
  BY <1>4 DEF Blank
<1>16. Writing'
  <2>1. Shown' = Shown /\ \A f \in Shown : f \in Fields
    BY SameSite DEF Shown, Fields
  <2> QED BY <1>4, <1>7, <1>8, <1>15, <2>1 DEF Writing
<1>17. Referring'
  <2>1. Refs' = Refs /\ \A f \in Refs : f \in Fields
    BY SameSite DEF Fields
  <2>2. ASSUME NEW f \in Refs
        PROVE  /\ ~Full(buffer', f) /\ buffer'[f] = None
               /\ Full(page', f) => Full(plan.need.resolved, f)
    BY <1>1, <1>15, <2>1 DEF Full
  <2> QED BY <1>4, <1>7, <1>8, <1>9, <2>1, <2>2 DEF Referring, Full
<1> QED BY <1>4, <1>7, <1>8, <1>9, <1>10, <1>11, <1>12, <1>13, <1>14, <1>16, <1>17 DEF Active

---------------------------------------------------------------------------
(* Steps that keep the revision *)

LEMMA ActiveFacts ==
  ASSUME Typed, active # 0
  PROVE  /\ active \in DOMAIN tx /\ tx[active] \in Transactions
         /\ tx[active].raw \in Raws /\ tx[active].fields \in Docs
         /\ tx[active].counts \in BOOLEAN /\ tx[active].completed \in BOOLEAN
<1>1. active \in DOMAIN tx /\ tx[active] \in Transactions
  <2>1. Len(tx) \in Nat /\ DOMAIN tx = 1..Len(tx) /\ \A i \in DOMAIN tx : tx[i] \in Transactions
    BY SequenceFacts DEF Typed
  <2> QED BY <2>1 DEF Typed
<1> QED BY <1>1 DEF Transactions

\* The parts of the invariant, of the state after a step, on the page that stays.
LEMMA Together ==
  ASSUME site \in Pages, site' = site,
         tx' \in Seq(Transactions), active' \in 0..Len(tx'), retained' \in Raws \cup {None},
         need' \in Needs, requests' \in Seq(Requests), newest' \in 0..Len(requests'),
         buffer' \in Page, page' \in Page, ledger' \in Entries,
         said' \in [Revisions -> SUBSET States], counted' \in Counters,
         Bounded', ledger'.revision = active',
         buffer' # Blank => active' # 0 /\ ~tx'[active'].cancelled,
         Counted', Remembers(need'), Queues(need', requests'), Gateless(tx'), Active'
  PROVE  IInv'
<1>1. /\ Raws' = Raws /\ Page' = Page /\ Blank' = Blank /\ Transactions' = Transactions
      /\ Requests' = Requests /\ Needs' = Needs /\ Handlers' = Handlers
      /\ Shown' = Shown /\ Fields' = Fields
  BY SameSite
<1>2. Typed'
  BY <1>1 DEF Typed
<1>3. Owned'
  BY <1>1 DEF Owned
<1>4. Remembers(need)'
  BY <1>1 DEF Remembers, Populated
<1>5. Queues(need, requests)'
  BY DEF Queues
<1>6. Gateless(tx)'
  BY <1>1 DEF Gateless
<1> QED BY <1>2, <1>3, <1>4, <1>5, <1>6 DEF IInv

\* A transaction moves on with the request it has.
LEMMA TxSound ==
  ASSUME IInv, NEW r \in DOMAIN tx, NEW t \in Transactions,
         t.request = tx[r].request,
         t.phase = "resolving" \/ t.waits => tx[r].phase = "resolving" \/ tx[r].waits,
         ~Handlers => t.phase # "gate",
         tx' = [tx EXCEPT ![r] = t], Len(requests') = Len(requests)
  PROVE  /\ tx' \in Seq(Transactions) /\ Len(tx') = Len(tx) /\ DOMAIN tx' = DOMAIN tx
         /\ tx'[r] = t /\ \A i \in DOMAIN tx : i # r => tx'[i] = tx[i]
         /\ Bounded' /\ Gateless(tx')
<1>1. tx \in Seq(Transactions) /\ DOMAIN tx = 1..Len(tx)
  BY SequenceFacts DEF IInv, Typed
<1>2. /\ tx' \in Seq(Transactions) /\ Len(tx') = Len(tx)
      /\ \A i \in 1..Len(tx) : tx'[i] = IF i = r THEN t ELSE tx[i]
  BY <1>1, ExceptSeq
<1>3. DOMAIN tx' = DOMAIN tx
  BY <1>1, <1>2, SequenceFacts
<1>4. Bounded'
  BY <1>1, <1>2, <1>3 DEF IInv, Bounded, Asked
<1>5. Gateless(tx')
  BY <1>1, <1>2, <1>3 DEF IInv, Gateless
<1> QED BY <1>1, <1>2, <1>3, <1>4, <1>5

\* What becomes of a revision that is no longer the active one concerns nobody.
LEMMA OtherMoves ==
  ASSUME IInv, NEW r \in DOMAIN tx, NEW t \in Transactions, r # active,
         t.request = tx[r].request,
         t.phase = "resolving" \/ t.waits => tx[r].phase = "resolving" \/ tx[r].waits,
         ~Handlers => t.phase # "gate",
         tx' = [tx EXCEPT ![r] = t],
         UNCHANGED <<site, active, retained, mergeVars, buffer, page, displayVars, counted>>
  PROVE  IInv'
<1>1. /\ site' = site /\ active' = active /\ retained' = retained /\ need' = need
      /\ requests' = requests /\ newest' = newest /\ buffer' = buffer /\ page' = page
      /\ ledger' = ledger /\ said' = said /\ counted' = counted
  BY DEF mergeVars, displayVars
<1>2. /\ tx' \in Seq(Transactions) /\ Len(tx') = Len(tx) /\ Bounded' /\ Gateless(tx')
      /\ \A i \in DOMAIN tx : i # r => tx'[i] = tx[i]
  BY <1>1, TxSound
<1>3. active # 0 => active \in DOMAIN tx /\ tx'[active] = tx[active]
  BY <1>2, ActiveFacts DEF IInv
<1>4. Shown' = Shown /\ Refs' = Refs /\ Blank' = Blank /\ Handlers' = Handlers
  BY <1>1, SameSite
<1>5. Active'
  BY <1>1, <1>3, <1>4 DEF IInv, Active, Asking, Resolving, Writing, Referring, Full
<1>6. Counted'
  BY <1>1, <1>3 DEF IInv, Counted, Live
<1>7. buffer' # Blank => active' # 0 /\ ~tx'[active'].cancelled
  BY <1>1, <1>3 DEF IInv, Owned
<1>8. Typed /\ ledger.revision = active /\ Remembers(need) /\ Queues(need, requests)
  BY DEF IInv, Owned
<1> QED BY <1>1, <1>2, <1>5, <1>6, <1>7, <1>8, Together DEF Typed

\* A step of the active revision that puts nothing on its way.
LEMMA ActiveMoves ==
  ASSUME IInv, active # 0, NEW t \in Transactions,
         LET was == tx[active] IN
         /\ t.raw = was.raw /\ t.counts = was.counts /\ t.completed = was.completed
         /\ t.request = was.request
         /\ was.cancelled => t.cancelled
         /\ t.phase = "resolving" \/ t.waits => was.phase = "resolving" \/ was.waits
         /\ t.phase = "resolving" => was.phase = "resolving" /\ ~t.waits
         /\ t.phase = "applied" => was.phase = "applied" /\ (was.cancelled \/ ~t.cancelled),
         ~Handlers => t.phase # "gate",
         tx' = [tx EXCEPT ![active] = t],
         UNCHANGED <<site, active, retained, requests, newest, page, said, counted>>,
         buffer' = buffer \/ (buffer' = Blank /\ t.phase # "applied"),
         t.cancelled => buffer' = Blank,
         ledger' \in Entries, ledger'.revision = active,
         need' \in Needs, Remembers(need'), need'.trailing = need.trailing,
         need'.lastRaw = need.lastRaw,
         \A f \in Shown : t.fields[f].value = t.raw[f],
         t.phase \in {"resolved", "gate", "applied"} /\ ~t.waits => ledger'.failed \/ ~need'.unresolved,
         \A f \in Refs : /\ Full(need.resolved, f) \/ Full(t.fields, f) => Full(need'.resolved, f)
                         /\ ~Handlers /\ Full(page, f) /\ t.phase \in {"resolving", "resolved"}
                              => Full(t.fields, f)
  PROVE  IInv'
<1>1. active \in DOMAIN tx /\ tx[active] \in Transactions
  BY ActiveFacts DEF IInv
<1>2. /\ tx' \in Seq(Transactions) /\ Len(tx') = Len(tx) /\ Bounded' /\ Gateless(tx')
      /\ tx'[active] = t
  BY <1>1, TxSound
<1>3. Shown' = Shown /\ Refs' = Refs /\ Blank' = Blank /\ Handlers' = Handlers
  BY SameSite
<1>4. /\ Blank \in Page /\ \A f \in Fields : Blank[f] = None
      /\ \A f \in Shown \cup Refs : f \in Fields
  BY DEF Blank, Page, Shown, Fields
<1>5. Asking'
  BY <1>2 DEF IInv, Active, Asking
<1>6. Resolving'
  BY <1>2, <1>3 DEF IInv, Active, Resolving
<1>7. Writing'
  BY <1>2, <1>3, <1>4 DEF IInv, Active, Writing
<1>8. Referring'
  BY <1>2, <1>3, <1>4 DEF IInv, Active, Referring, Full
<1>9. Counted'
  BY <1>2 DEF IInv, Counted, Live
<1>10. Queues(need', requests')
  BY DEF IInv, Queues
<1>11. buffer' # Blank => active' # 0 /\ ~tx'[active'].cancelled
  BY <1>2
<1> QED BY <1>2, <1>4, <1>5, <1>6, <1>7, <1>8, <1>9, <1>10, <1>11, Together DEF IInv, Typed, Active

---------------------------------------------------------------------------
(* The actions *)

LEMMA ViewTyped ==
  ASSUME NEW r, NEW failed
  PROVE  View(r, failed, buffer) \in States \cup {"pending"}
BY DEF View, States

LEMMA ReportTyped ==
  ASSUME Typed
  PROVE  BeginReport(buffer) \in [Revisions -> SUBSET States]
<1> DEFINE view == View(ledger.revision, ledger.failed, buffer)
           state == IF view = "pending" THEN "superseded" ELSE view
<1>1. state \in States
  BY ViewTyped DEF States
<1> HIDE DEF state
<1>2. [said EXCEPT ![ledger.revision] = @ \cup {state}] \in [Revisions -> SUBSET States]
  BY <1>1 DEF Typed
<1> QED BY <1>2 DEF BeginReport, Typed, state

\* A message or a replay puts an accepted revision in the place of the active one.
LEMMA AcceptKeeps ==
  ASSUME IInv, site' = site, NEW raw \in Raws, NEW force \in BOOLEAN, NEW counts \in BOOLEAN,
         NEW txs \in Seq(Transactions), NEW m \in Needs, NEW reqs \in Seq(Requests),
         NEW sent \in 0..Len(reqs),
         Len(txs) < MaxRevision, Len(reqs) <= Len(txs), Asked(txs, reqs), Gateless(txs),
         Remembers(m), Queues(m, reqs),
         \A f \in Refs : Full(page, f)' => Full(m.resolved, f),
         Accept(txs, m, reqs, sent, raw, force, counts),
         page' \in Page, retained' \in Raws, said' \in [Revisions -> SUBSET States],
         counted' = [counted EXCEPT !.updates = @ + (IF counts THEN 1 ELSE 0),
                                    !.superseded = @ + SupersededNow]
  PROVE  IInv'
<1>1. /\ tx' \in Seq(Transactions) /\ active' = Len(tx') /\ active' # 0 /\ Bounded'
      /\ need' \in Needs /\ requests' \in Seq(Requests) /\ newest' \in 0..Len(requests')
      /\ buffer' = Blank /\ ledger' = [NoEntry EXCEPT !.revision = active']
      /\ tx'[active'].counts = counts /\ ~tx'[active'].completed
      /\ Remembers(need') /\ Queues(need', requests') /\ Gateless(tx') /\ Active'
  BY AcceptSound DEF IInv, Typed
<1>2. active' \in 0..Len(tx') /\ active' \in Nat
  BY <1>1, SequenceFacts
<1>3. ledger' \in Entries /\ ledger'.revision = active'
  BY <1>1, <1>2 DEF NoEntry, Entries
<1>4. SupersededNow \in {0, 1} /\ (SupersededNow = 1 <=> Live /\ tx[active].counts)
  BY DEF SupersededNow
<1> DEFINE accepted == IF counts THEN 1 ELSE 0
<1>5. /\ accepted \in {0, 1} /\ (accepted = 1 <=> counts)
      /\ counted' = [counted EXCEPT !.updates = counted.updates + accepted,
                                    !.superseded = counted.superseded + SupersededNow]
  OBVIOUS
<1> HIDE DEF accepted
<1>6. /\ counted' \in Counters
      /\ counted'.updates = counted.updates + accepted
      /\ counted'.superseded = counted.superseded + SupersededNow
      /\ counted'.completed = counted.completed /\ counted'.dropped = counted.dropped
  <2> DEFINE u == counted.updates + accepted
             v == counted.superseded + SupersededNow
  <2>1. counted \in Counters
    BY DEF IInv, Typed
  <2>2. u \in Nat /\ v \in Nat
    BY <1>4, <1>5, <2>1 DEF Counters
  <2>3. counted' = [counted EXCEPT !.updates = u, !.superseded = v]
    BY <1>5
  <2> HIDE DEF u, v
  <2>4. /\ counted' \in Counters /\ counted'.updates = u /\ counted'.superseded = v
        /\ counted'.completed = counted.completed /\ counted'.dropped = counted.dropped
    <3> DEFINE c == [counted EXCEPT !.updates = u, !.superseded = v]
    <3>1. /\ c \in Counters /\ c.updates = u /\ c.superseded = v
          /\ c.completed = counted.completed /\ c.dropped = counted.dropped
      BY ONLY <2>1, <2>2 DEF Counters
    <3> HIDE DEF c
    <3>2. counted' = c
      BY ONLY <2>3 DEF c
    <3> QED BY ONLY <3>1, <3>2
  <2> QED BY <2>4 DEF u, v
<1>8. Counted'
  <2>1. Live' /\ tx'[active'].counts = counts
    BY <1>1 DEF Live
  <2>2. counted.updates = counted.completed + counted.superseded + counted.dropped + SupersededNow
    BY <1>4 DEF IInv, Counted
  <2>3. counted \in Counters
    BY DEF IInv, Typed
  <2>4. (IF Live' /\ tx'[active'].counts THEN 1 ELSE 0) = accepted
    BY <1>5, <2>1
  <2>5. /\ counted.updates \in Nat /\ counted.completed \in Nat
        /\ counted.superseded \in Nat /\ counted.dropped \in Nat
    BY <2>3 DEF Counters
  <2>6. counted'.updates = counted'.completed + counted'.superseded + counted'.dropped + accepted
    <3> DEFINE now == SupersededNow
    <3>1. now \in Nat /\ accepted \in Nat
      BY <1>4, <1>5
    <3> HIDE DEF now
    <3>2. /\ counted'.updates = counted.updates + accepted
          /\ counted'.superseded = counted.superseded + now
          /\ counted.updates = counted.completed + counted.superseded + counted.dropped + now
      BY <1>6, <2>2 DEF now
    <3> QED BY <1>6, <2>5, <3>1, <3>2
  <2> QED BY <2>4, <2>6 DEF Counted
<1>7. Blank \in Page
  BY DEF Blank, Page
<1> QED BY <1>1, <1>2, <1>3, <1>6, <1>7, <1>8, Together DEF IInv, Typed

LEMMA MessageKeeps ==
  ASSUME IInv, NEW raw \in Raws, NEW related \in BOOLEAN, Message(raw, related)
  PROVE  IInv'
<1>1. (related \/ Owed) \in BOOLEAN
  BY DEF Owed, Live
<1>2. \A f \in Refs : Full(page, f)' => Full(need.resolved, f)
  BY DEF IInv, Active, Referring, Message, Full
<1>3. counted' = [counted EXCEPT !.updates = @ + (IF TRUE THEN 1 ELSE 0),
                                 !.superseded = @ + SupersededNow]
  BY DEF Message
<1>4. /\ Len(tx) < MaxRevision /\ site' = site /\ page' = page /\ retained' = raw
      /\ Accept(tx, need, requests, newest, raw, related \/ Owed, TRUE)
      /\ said' = BeginReport(buffer)
  BY DEF Message
<1> QED BY <1>1, <1>2, <1>3, <1>4, ReportTyped, AcceptKeeps DEF IInv, Typed, Bounded

LEMMA RespondKeeps ==
  ASSUME IInv, NEW i, NEW ok, Respond(i, ok)
  PROVE  IInv'
<1> DEFINE status == IF i # newest THEN "superseded" ELSE IF ok THEN "merged" ELSE "unavailable"
           answered == [requests[i] EXCEPT !.status = status]
<1>1. /\ requests \in Seq(Requests) /\ DOMAIN requests = 1..Len(requests) /\ i \in 1..Len(requests)
      /\ requests[i] \in Requests /\ requests[i].status = "sent" /\ Len(requests) \in Nat
  BY SequenceFacts DEF Respond, IInv, Typed
<1>2. answered \in Requests /\ answered.raw = requests[i].raw /\ answered.status = status
  BY <1>1 DEF Requests, Statuses
<1>3. requests' = [requests EXCEPT ![i] = answered]
  BY DEF Respond
<1> HIDE DEF answered
<1>4. /\ requests' \in Seq(Requests) /\ Len(requests') = Len(requests)
      /\ \A j \in 1..Len(requests) : requests'[j] = IF j = i THEN answered ELSE requests[j]
  BY <1>1, <1>2, <1>3, ExceptSeq
<1>5. /\ site' = site /\ tx' = tx /\ active' = active /\ retained' = retained /\ need' = need
      /\ newest' = newest /\ buffer' = buffer /\ page' = page /\ ledger' = ledger
      /\ said' = said /\ counted' = counted
  BY DEF Respond, displayVars
<1>6. DOMAIN requests' = DOMAIN requests
  BY <1>1, <1>4, SequenceFacts
<1>7. Queues(need', requests')
  BY <1>1, <1>2, <1>4, <1>5, <1>6 DEF IInv, Queues
<1>8. Shown' = Shown /\ Refs' = Refs /\ Blank' = Blank /\ Handlers' = Handlers
  BY <1>5, SameSite
<1>9. Asking'
  <2>1. ASSUME active # 0, tx[active].request # 0
        PROVE  tx[active].request \in 1..Len(requests)
    BY <2>1, <1>1, ActiveFacts DEF IInv, Bounded, Asked, Transactions
  <2> QED BY <1>1, <1>2, <1>4, <1>5, <2>1 DEF IInv, Active, Asking
<1>10. Resolving' /\ Writing' /\ Referring'
  BY <1>5, <1>8 DEF IInv, Active, Resolving, Writing, Referring, Full
<1>11. Counted'
  BY <1>5 DEF IInv, Counted, Live
<1>12. Bounded'
  BY <1>4, <1>5 DEF IInv, Bounded, Asked
<1>13. Gateless(tx') /\ (buffer' # Blank => active' # 0 /\ ~tx'[active'].cancelled)
  BY <1>5 DEF IInv, Owned, Gateless
<1> QED BY <1>4, <1>5, <1>7, <1>9, <1>10, <1>11, <1>12, <1>13, Together DEF IInv, Typed, Active, Owned

LEMMA WindowKeeps ==
  ASSUME IInv, WindowCloses
  PROVE  IInv'
<1>1. /\ site' = site /\ tx' = tx /\ active' = active /\ retained' = retained
      /\ requests' = requests /\ newest' = newest /\ buffer' = buffer /\ page' = page
      /\ ledger' = ledger /\ said' = said /\ counted' = counted
      /\ need' = [need EXCEPT !.open = FALSE]
  BY DEF WindowCloses, displayVars
<1>2. /\ need' \in Needs /\ need'.resolved = need.resolved /\ need'.unresolved = need.unresolved
      /\ need'.lastRaw = need.lastRaw /\ need'.trailing = need.trailing
  BY <1>1 DEF IInv, Typed, Needs
<1>3. Shown' = Shown /\ Refs' = Refs /\ Blank' = Blank /\ Handlers' = Handlers
  BY <1>1, SameSite
<1>4. Remembers(need') /\ Queues(need', requests')
  BY <1>1, <1>2 DEF IInv, Remembers, Queues
<1>5. Active'
  BY <1>1, <1>2, <1>3 DEF IInv, Active, Asking, Resolving, Writing, Referring, Full
<1>6. Counted' /\ Bounded' /\ Gateless(tx') /\ (buffer' # Blank => active' # 0 /\ ~tx'[active'].cancelled)
  BY <1>1 DEF IInv, Counted, Live, Bounded, Asked, Owned, Gateless
<1> QED BY <1>1, <1>2, <1>4, <1>5, <1>6, Together DEF IInv, Typed, Owned

(* The queued request goes out as the newest: an active revision that asked for
   another has its answer, for a newer question would have taken its place. *)
LEMMA TrailingKeeps ==
  ASSUME IInv, TrailingFires
  PROVE  IInv'
<1> DEFINE k == need.trailing
           sent == [requests[k] EXCEPT !.status = "sent"]
<1>1. /\ requests \in Seq(Requests) /\ DOMAIN requests = 1..Len(requests) /\ k \in 1..Len(requests)
      /\ requests[k] \in Requests /\ requests[k].status = "queued" /\ Len(requests) \in Nat
  BY SequenceFacts DEF TrailingFires, IInv, Typed, Queues
<1>2. sent \in Requests /\ sent.raw = requests[k].raw /\ sent.status = "sent"
  BY <1>1 DEF Requests, Statuses
<1>3. /\ requests' = [requests EXCEPT ![k] = sent] /\ newest' = k
      /\ need' = [need EXCEPT !.trailing = 0]
      /\ site' = site /\ tx' = tx /\ active' = active /\ retained' = retained
      /\ buffer' = buffer /\ page' = page /\ ledger' = ledger /\ said' = said /\ counted' = counted
  BY DEF TrailingFires, displayVars
<1>4. /\ need' \in Needs /\ need'.resolved = need.resolved /\ need'.unresolved = need.unresolved
      /\ need'.lastRaw = need.lastRaw /\ need'.trailing = 0
  BY <1>3 DEF IInv, Typed, Needs
<1> HIDE DEF sent, k
<1>5. /\ requests' \in Seq(Requests) /\ Len(requests') = Len(requests)
      /\ \A j \in 1..Len(requests) : requests'[j] = IF j = k THEN sent ELSE requests[j]
  BY <1>1, <1>2, <1>3, ExceptSeq
<1>6. DOMAIN requests' = DOMAIN requests
  BY <1>1, <1>5, SequenceFacts
<1>7. \A j \in DOMAIN requests' : requests'[j].status # "queued"
  BY <1>1, <1>2, <1>5, <1>6 DEF IInv, Queues, k
<1>8. Queues(need', requests')
  BY <1>4, <1>5, <1>7, <1>1 DEF Queues
<1>9. Shown' = Shown /\ Refs' = Refs /\ Blank' = Blank /\ Handlers' = Handlers
  BY <1>3, SameSite
<1>10. Asking'
  <2>1. ASSUME active # 0, tx[active].request # 0
        PROVE  tx[active].request = k /\ tx[active].request \in 1..Len(requests)
    BY <1>1, <2>1 DEF IInv, Active, Asking, k
  <2> QED BY <1>2, <1>3, <1>4, <1>5, <2>1 DEF IInv, Active, Asking
<1>11. Resolving' /\ Writing' /\ Referring'
  BY <1>3, <1>4, <1>9 DEF IInv, Active, Resolving, Writing, Referring, Full
<1>12. Remembers(need')
  BY <1>4 DEF IInv, Remembers
<1>13. Counted'
  BY <1>3 DEF IInv, Counted, Live
<1>14. Bounded'
  BY <1>3, <1>5 DEF IInv, Bounded, Asked
<1>15. Gateless(tx') /\ (buffer' # Blank => active' # 0 /\ ~tx'[active'].cancelled)
  BY <1>3 DEF IInv, Owned, Gateless
<1> QED BY <1>1, <1>3, <1>4, <1>5, <1>8, <1>10, <1>11, <1>12, <1>13, <1>14, <1>15, Together
        DEF IInv, Typed, Active, Owned

LEMMA SettleKeeps ==
  ASSUME IInv, Settle
  PROVE  IInv'
<1> DEFINE view == View(ledger.revision, ledger.failed, buffer)
           news == view # "pending" /\ ledger.reported # view
<1>1. /\ site' = site /\ tx' = tx /\ active' = active /\ retained' = retained /\ need' = need
      /\ requests' = requests /\ newest' = newest /\ buffer' = buffer /\ page' = page
      /\ counted' = counted
      /\ ledger' = [ledger EXCEPT !.queued = FALSE, !.reported = IF news THEN view ELSE ledger.reported]
      /\ said' = IF news THEN [said EXCEPT ![ledger.revision] = said[ledger.revision] \cup {view}] ELSE said
  BY DEF Settle, mergeVars
<1>2. news => view \in States
  BY ViewTyped
<1> HIDE DEF news, view
<1>3. /\ ledger' \in Entries /\ ledger'.revision = ledger.revision /\ ledger'.failed = ledger.failed
  BY <1>1, <1>2 DEF IInv, Typed, Entries
<1>4. said' \in [Revisions -> SUBSET States]
  BY <1>1, <1>2 DEF IInv, Typed
<1>5. Shown' = Shown /\ Refs' = Refs /\ Blank' = Blank /\ Handlers' = Handlers
  BY <1>1, SameSite
<1>6. Active'
  BY <1>1, <1>3, <1>5 DEF IInv, Active, Asking, Resolving, Writing, Referring, Full
<1>7. Counted' /\ Bounded' /\ Gateless(tx') /\ (buffer' # Blank => active' # 0 /\ ~tx'[active'].cancelled)
  BY <1>1 DEF IInv, Counted, Live, Bounded, Asked, Owned, Gateless
<1>8. Remembers(need') /\ Queues(need', requests')
  BY <1>1 DEF IInv, Remembers, Queues
<1> QED BY <1>1, <1>3, <1>4, <1>6, <1>7, <1>8, Together DEF IInv, Typed, Owned

---------------------------------------------------------------------------
(* The steps of a revision *)

\* A revision whose turn is over ends, whoever is active.
LEMMA EndKeeps ==
  ASSUME IInv, NEW r \in DOMAIN tx, r # active \/ tx[r].cancelled, End(r),
         UNCHANGED <<site, active, retained, mergeVars, page, said>>
  PROVE  IInv'
<1> DEFINE t == [tx[r] EXCEPT !.phase = "ended"]
<1>1. tx[r] \in Transactions
  BY SequenceFacts DEF IInv, Typed
<1>2. /\ t \in Transactions /\ t.phase = "ended"
      /\ t.raw = tx[r].raw /\ t.counts = tx[r].counts /\ t.completed = tx[r].completed
      /\ t.request = tx[r].request /\ t.cancelled = tx[r].cancelled /\ t.waits = tx[r].waits
      /\ t.fields = tx[r].fields
  BY <1>1 DEF Transactions, Phases
<1>3. /\ tx' = [tx EXCEPT ![r] = t]
      /\ UNCHANGED <<site, active, retained, mergeVars, buffer, page, displayVars, counted>>
  BY DEF End, displayVars
<1> HIDE DEF t
<1>4. CASE r # active
  BY <1>2, <1>3, <1>4, OtherMoves
<1>5. CASE r = active
  <2>1. active # 0 /\ tx[active].cancelled
    BY <1>5, SequenceFacts DEF IInv, Typed
  <2>2. buffer = Blank /\ ledger \in Entries /\ ledger.revision = active /\ need \in Needs
    BY <2>1 DEF IInv, Owned, Typed
  <2>3. /\ \A f \in Shown : t.fields[f].value = t.raw[f]
        /\ \A f \in Refs : Full(t.fields, f) => Full(need.resolved, f)
    BY <1>2, <1>5, <2>1 DEF IInv, Active, Resolving, Referring
  <2>4. /\ UNCHANGED <<site, active, retained, requests, newest, page, said, counted>>
        /\ need' = need /\ ledger' = ledger /\ buffer' = buffer
    BY <1>3 DEF mergeVars, displayVars
  <2>5. Remembers(need)
    BY DEF IInv
  <2> QED BY <1>2, <1>3, <1>5, <2>1, <2>2, <2>3, <2>4, <2>5, ActiveMoves
<1> QED BY <1>4, <1>5

\* The memory of the merges after an answer to the newest question.
LEMMA ResolvedSound ==
  ASSUME site \in Pages, NEW m \in Needs, NEW raw \in Raws, m.lastRaw = raw
  PROVE  LET n == Resolved(m, Populated(raw)) IN
         /\ n \in Needs /\ Remembers(n) /\ ~n.unresolved
         /\ n.trailing = m.trailing /\ n.lastRaw = raw /\ n.resolved = Populated(raw)
         /\ \A f \in Refs : Full(n.resolved, f)
<1> DEFINE doc == Populated(raw)
<1>1. /\ doc \in Docs /\ doc # None /\ None \notin Slot /\ raw # None
      /\ \A f \in Fields : doc[f] = [value |-> raw[f], full |-> TRUE] /\ doc[f] \in Slot
  BY SentAndPopulated, NullIsNothing DEF Docs
<1> HIDE DEF doc
<1>2. LET n == Resolved(m, doc) IN
      /\ n \in Needs /\ ~n.unresolved /\ n.trailing = m.trailing /\ n.lastRaw = m.lastRaw
      /\ n.resolved = doc
  BY <1>1 DEF Resolved, Needs
<1>3. \A f \in Shown \cup Refs : f \in Fields
  BY DEF Shown, Fields
<1>4. ASSUME NEW f \in Fields
      PROVE  doc[f].value = raw[f] /\ doc[f].full
  <2>1. doc[f] = [value |-> raw[f], full |-> TRUE]
    BY <1>1
  <2>2. doc[f].value = raw[f]
    BY <2>1, SlotParts, Zenon
  <2>3. doc[f].full
    BY <2>1, FullSlot, Zenon
  <2> QED BY <2>2, <2>3
<1>5. \A f \in Refs : Full(doc, f)
  BY <1>1, <1>3, <1>4 DEF Full
<1>6. Remembers(Resolved(m, doc))
  BY <1>1, <1>2, <1>3, <1>4 DEF Remembers, doc
<1> QED BY <1>2, <1>5, <1>6 DEF doc

(* The answer to the active revision's question is the answer to what it says,
   and it is no answer that was thrown away. *)
LEMMA AnswerSound ==
  ASSUME IInv, active # 0, tx[active].phase = "resolving" \/ tx[active].waits
  PROVE  /\ requests[tx[active].request].raw = tx[active].raw
         /\ tx[active].raw \in Raws /\ need.lastRaw = tx[active].raw
         /\ requests[tx[active].request].status # "superseded"
<1>1. tx[active].request # 0 /\ tx[active].raw \in Raws
  BY ActiveFacts DEF IInv, Bounded, Asked
<1> QED BY <1>1 DEF IInv, Active, Asking, Resolving

LEMMA ShortfallSound ==
  ASSUME NEW entry \in Entries, NEW r
  PROVE  /\ Shortfall(r, entry) \in Entries /\ Shortfall(r, entry).revision = entry.revision
         /\ r = entry.revision => Shortfall(r, entry).failed
         /\ r # entry.revision => Shortfall(r, entry) = entry
<1> DEFINE short == [entry EXCEPT !.failed = TRUE, !.queued = entry.queued \/ ~entry.failed]
<1>1. (entry.queued \/ ~entry.failed) \in BOOLEAN
  BY DEF Entries
<1>2. short \in Entries /\ short.revision = entry.revision /\ short.failed
  BY <1>1 DEF Entries
<1> QED BY <1>2 DEF Shortfall

\* The leading request's answer, to the active revision or to one that was superseded.
LEMMA LeadingKeeps ==
  ASSUME IInv, NEW r, LeadingAnswered(r)
  PROVE  IInv'
<1> DEFINE answer == requests[tx[r].request]
           merged == StillCurrent(r) /\ answer.status = "merged"
           short == StillCurrent(r) /\ answer.status = "unavailable"
           phase == IF merged \/ short THEN "resolved" ELSE "ended"
           fields == IF merged THEN Populated(answer.raw) ELSE tx[r].fields
           t == [tx[r] EXCEPT !.phase = phase, !.fields = fields]
<1>1. /\ r \in DOMAIN tx /\ tx[r] \in Transactions /\ tx[r].phase = "resolving"
      /\ answer.status \in Final /\ site \in Pages
      /\ need \in Needs /\ ledger \in Entries /\ ledger.revision = active
  BY SequenceFacts DEF IInv, Typed, Owned, LeadingAnswered
<1>2. /\ need' = IF merged THEN Resolved(need, Populated(answer.raw)) ELSE need
      /\ ledger' = IF short THEN Shortfall(r, ledger) ELSE ledger
      /\ tx' = [tx EXCEPT ![r] = t]
      /\ UNCHANGED <<site, active, retained, requests, newest, buffer, page, said, counted>>
  BY <1>1 DEF LeadingAnswered
<1>3. merged \/ short => r = active
  BY DEF StillCurrent, Current
<1>4. CASE ~merged /\ ~short
  <2>1. /\ t \in Transactions /\ t.phase = "ended" /\ t.request = tx[r].request /\ t.waits = tx[r].waits
    BY <1>1, <1>4 DEF Transactions, Phases
  <2>2. r # active
    <3>1. r = active => active # 0
      BY <1>1, SequenceFacts DEF IInv, Typed
    <3> QED BY <1>1, <1>4, <3>1, AnswerSound DEF Final, StillCurrent, Current
  <2>3. UNCHANGED <<site, active, retained, mergeVars, buffer, page, displayVars, counted>>
    BY <1>2, <1>4 DEF mergeVars, displayVars
  <2> HIDE DEF t, phase, fields, merged, short, answer
  <2> QED BY <1>1, <1>2, <2>1, <2>2, <2>3, OtherMoves
<1>5. CASE merged \/ short
  <2>1. r = active /\ active # 0
    BY <1>1, <1>3, <1>5, SequenceFacts DEF IInv, Typed
  <2>2. /\ answer.raw = tx[r].raw /\ tx[r].raw \in Raws /\ need.lastRaw = tx[r].raw
        /\ buffer = Blank /\ ~tx[r].waits /\ tx[r].fields \in Docs
    BY <1>1, <2>1, AnswerSound, ActiveFacts DEF IInv, Active, Resolving
  <2>3. Populated(answer.raw) \in Docs
    BY <1>1, <2>2, SentAndPopulated
  <2>4. fields \in Docs
    BY <2>2, <2>3
  <2>5. /\ t \in Transactions /\ t.phase = "resolved" /\ t.fields = fields
        /\ t.raw = tx[r].raw /\ t.counts = tx[r].counts /\ t.completed = tx[r].completed
        /\ t.request = tx[r].request /\ t.cancelled = tx[r].cancelled /\ t.waits = tx[r].waits
    <3>1. phase = "resolved"
      BY <1>5
    <3> HIDE DEF phase, fields
    <3> QED BY <1>1, <2>4, <3>1 DEF Transactions, Phases
  <2>6. CASE merged
    <3>1. /\ need' = Resolved(need, Populated(tx[r].raw)) /\ fields = Populated(tx[r].raw)
          /\ ledger' = ledger
      BY <1>2, <2>2, <2>6
    <3>2. /\ need' \in Needs /\ Remembers(need') /\ ~need'.unresolved
          /\ need'.trailing = need.trailing /\ need'.lastRaw = need.lastRaw
          /\ need'.resolved = fields
          /\ \A f \in Refs : Full(fields, f)
      <4> DEFINE raw == tx[r].raw
      <4>1. raw \in Raws /\ need.lastRaw = raw
        BY <2>2
      <4> HIDE DEF raw
      <4> QED BY <1>1, <3>1, <4>1, ResolvedSound DEF raw
    <3>3. \A f \in Shown : t.fields[f].value = t.raw[f]
      <4>1. \A f \in Fields : fields[f] = [value |-> tx[r].raw[f], full |-> TRUE]
        BY <2>2, <3>1, SentAndPopulated
      <4>2. ASSUME NEW f \in Shown PROVE fields[f].value = tx[r].raw[f]
        <5>1. f \in Fields
          BY DEF Shown, Fields
        <5>2. fields[f] = [value |-> tx[r].raw[f], full |-> TRUE]
          BY <4>1, <5>1
        <5> QED BY ONLY <5>2, SlotParts, Zenon
      <4> HIDE DEF t, fields
      <4> QED BY <2>5, <4>2
    <3> HIDE DEF t, phase, fields, merged, short, answer
    <3> QED BY <1>1, <1>2, <2>1, <2>2, <2>5, <3>1, <3>2, <3>3, ActiveMoves
  <2>7. CASE ~merged /\ short
    <3>1. need' = need /\ fields = tx[r].fields
      BY <1>2, <2>7
    <3>2. ledger' \in Entries /\ ledger'.revision = active /\ ledger'.failed
      BY <1>1, <1>2, <2>1, <2>7, ShortfallSound
    <3>3. /\ \A f \in Shown : t.fields[f].value = t.raw[f]
          /\ \A f \in Refs : /\ Full(t.fields, f) => Full(need.resolved, f)
                             /\ ~Handlers /\ Full(page, f) => Full(t.fields, f)
      <4> HIDE DEF t, phase, fields, merged, short, answer
      <4> QED BY <1>1, <2>1, <2>5, <3>1 DEF IInv, Active, Resolving, Referring
    <3>4. Remembers(need)
      BY DEF IInv
    <3> HIDE DEF t, phase, fields, merged, short, answer
    <3> QED BY <1>1, <1>2, <2>1, <2>2, <2>5, <3>1, <3>2, <3>3, <3>4, ActiveMoves
  <2> QED BY <1>5, <2>6, <2>7
<1> QED BY <1>4, <1>5

\* A handler's cancel() takes the revision's work back with it.
LEMMA CancelKeeps ==
  ASSUME IInv, NEW r, Cancel(r)
  PROVE  IInv'
<1> DEFINE t == [tx[r] EXCEPT !.cancelled = TRUE]
<1>1. /\ r \in DOMAIN tx /\ tx[r] \in Transactions /\ tx[r].phase = "gate"
      /\ need \in Needs /\ ledger \in Entries /\ ledger.revision = active /\ Remembers(need)
  BY SequenceFacts DEF IInv, Typed, Owned, Cancel
<1>2. /\ t \in Transactions /\ t.cancelled
      /\ t.raw = tx[r].raw /\ t.counts = tx[r].counts /\ t.completed = tx[r].completed
      /\ t.request = tx[r].request /\ t.phase = tx[r].phase /\ t.waits = tx[r].waits
      /\ t.fields = tx[r].fields
  BY <1>1 DEF Transactions
<1>3. /\ tx' = [tx EXCEPT ![r] = t] /\ buffer' = IF Current(r) THEN Blank ELSE buffer
      /\ UNCHANGED <<site, active, retained, mergeVars, page, displayVars, counted>>
  BY DEF Cancel
<1>4. ~Handlers => t.phase # "gate"
  BY <1>1 DEF IInv, Gateless
<1> HIDE DEF t
<1>5. CASE r # active
  <2>1. buffer' = buffer
    BY <1>3, <1>5 DEF Current
  <2>2. UNCHANGED <<site, active, retained, mergeVars, buffer, page, displayVars, counted>>
    BY <1>3, <2>1
  <2> QED BY <1>1, <1>2, <1>3, <1>4, <1>5, <2>2, OtherMoves
<1>6. CASE r = active
  <2>1. active # 0
    BY <1>1, <1>6, SequenceFacts DEF IInv, Typed
  <2>2. buffer' = Blank
    BY <1>3, <1>6 DEF Current
  <2>3. /\ \A f \in Shown : t.fields[f].value = t.raw[f]
        /\ \A f \in Refs : Full(t.fields, f) => Full(need.resolved, f)
        /\ ~t.waits => ledger.failed \/ ~need.unresolved
    BY <1>1, <1>2, <1>6, <2>1 DEF IInv, Active, Resolving, Referring
  <2>4. /\ UNCHANGED <<site, active, retained, requests, newest, page, said, counted>>
        /\ need' = need /\ ledger' = ledger
    BY <1>3 DEF mergeVars, displayVars
  <2> QED BY <1>1, <1>2, <1>3, <1>4, <1>6, <2>1, <2>2, <2>3, <2>4, ActiveMoves
<1> QED BY <1>5, <1>6

\* The active revision completes once, and is counted for it.
LEMMA CompletedCounted ==
  ASSUME IInv, active # 0, active' = active, tx'[active].counts = tx[active].counts,
         tx'[active].completed, counted' = CountCompleted(active)
  PROVE  counted' \in Counters /\ Counted'
<1>1. counted \in Counters /\ tx[active].counts \in BOOLEAN /\ tx[active].completed \in BOOLEAN
  BY ActiveFacts DEF IInv, Typed
<1>2. ~Live'
  BY DEF Live
<1>3. CASE tx[active].completed \/ ~tx[active].counts
  BY <1>1, <1>2, <1>3 DEF IInv, Counted, CountCompleted, Live
<1>4. CASE ~tx[active].completed /\ tx[active].counts
  <2>1. counted' = [counted EXCEPT !.completed = counted.completed + 1]
    BY <1>4 DEF CountCompleted
  <2>2. counted.updates = counted.completed + counted.superseded + counted.dropped + 1
    BY <1>4 DEF IInv, Counted, Live
  <2>3. /\ counted' \in Counters /\ counted'.completed = counted.completed + 1
        /\ counted'.updates = counted.updates /\ counted'.superseded = counted.superseded
        /\ counted'.dropped = counted.dropped
    BY ONLY <1>1, <2>1 DEF Counters
  <2>4. /\ counted.updates \in Nat /\ counted.completed \in Nat
        /\ counted.superseded \in Nat /\ counted.dropped \in Nat
    BY <1>1 DEF Counters
  <2>5. counted'.updates = counted'.completed + counted'.superseded + counted'.dropped
    BY ONLY <2>2, <2>3, <2>4
  <2>6. counted'.completed + counted'.superseded + counted'.dropped \in Nat
    BY ONLY <2>3, <2>4
  <2> QED BY <1>2, <2>3, <2>5, <2>6 DEF Counted
<1> QED BY <1>3, <1>4

LEMMA SettleRequested ==
  ASSUME NEW entry \in Entries, NEW r
  PROVE  /\ RequestSettle(r, entry) \in Entries
         /\ RequestSettle(r, entry).revision = entry.revision
         /\ RequestSettle(r, entry).failed = entry.failed
BY DEF RequestSettle, Entries

(* The active revision schedules what the page does not show yet; when there is
   nothing to schedule it is complete. *)
LEMMA ApplyKeeps ==
  ASSUME IInv, active # 0, NEW doc \in Docs, NEW t \in Transactions, NEW entry \in Entries,
         LET was == tx[active] IN
         /\ t.raw = was.raw /\ t.counts = was.counts /\ t.completed = was.completed
         /\ t.request = was.request /\ t.cancelled = was.cancelled /\ t.fields = was.fields
         /\ t.waits => was.waits
         /\ t.phase = "applied" \/ (t.phase = was.phase /\ t.phase # "resolving"),
         Apply(active, doc, t, entry),
         UNCHANGED <<site, active, retained, requests, newest, page, said>>,
         entry.revision = active,
         need' \in Needs, Remembers(need'), need'.trailing = need.trailing,
         need'.lastRaw = need.lastRaw,
         \A f \in Shown : doc[f].value = tx[active].raw[f],
         t.phase \in {"resolved", "gate", "applied"} /\ ~t.waits => entry.failed \/ ~need'.unresolved,
         \A f \in Refs : /\ Full(need.resolved, f) \/ Full(doc, f) => Full(need'.resolved, f)
                         /\ ~Handlers /\ Full(page, f) => Full(doc, f)
  PROVE  IInv'
<1> DEFINE writes == {f \in Fields : ~Unchanged(active, f, doc)}
           idle == writes = {} /\ buffer = Blank
           u == [t EXCEPT !.completed = t.completed \/ idle]
<1>1. active \in DOMAIN tx /\ tx[active] \in Transactions /\ site \in Pages
  BY ActiveFacts DEF IInv, Typed
<1>2. /\ buffer' = IF tx[active].cancelled THEN buffer
                   ELSE [f \in Fields |-> IF f \in writes THEN doc[f] ELSE buffer[f]]
      /\ tx' = [tx EXCEPT ![active] = u]
      /\ counted' = IF idle THEN CountCompleted(active) ELSE counted
      /\ ledger' = IF idle THEN RequestSettle(active, entry) ELSE entry
  BY DEF Apply
<1>3. idle \in BOOLEAN
  OBVIOUS
<1>4. \A f \in Fields : f \notin writes => page[f] = doc[f]
  BY DEF Unchanged
<1> HIDE DEF writes, idle
<1>5. /\ u \in Transactions /\ (u.completed <=> t.completed \/ idle)
      /\ u.raw = t.raw /\ u.counts = t.counts /\ u.request = t.request /\ u.cancelled = t.cancelled
      /\ u.fields = t.fields /\ u.waits = t.waits /\ u.phase = t.phase
  BY <1>3 DEF Transactions
<1> HIDE DEF u
<1>6. ~Handlers => u.phase # "gate"
  BY <1>1, <1>5 DEF IInv, Gateless
<1>7. /\ tx' \in Seq(Transactions) /\ Len(tx') = Len(tx) /\ Bounded' /\ Gateless(tx')
      /\ tx'[active] = u
  <2>1. u.phase = "resolving" \/ u.waits => tx[active].phase = "resolving" \/ tx[active].waits
    BY <1>5
  <2>2. u.request = tx[active].request
    BY <1>5
  <2> QED BY <1>1, <1>2, <1>5, <1>6, <2>1, <2>2, TxSound
<1>8. Shown' = Shown /\ Refs' = Refs /\ Blank' = Blank /\ Handlers' = Handlers
  BY SameSite
<1>9. /\ \A f \in Shown \cup Refs : f \in Fields
      /\ None \notin Slot /\ None \notin Docs /\ \A f \in Fields : doc[f] \in Slot /\ doc[f] # None
      /\ buffer \in Page /\ page \in Page /\ counted \in Counters
  BY <1>1, NullIsNothing DEF Shown, Fields, Docs, IInv, Typed
<1>10. CASE tx[active].cancelled
  <2>1. buffer' = Blank /\ buffer = Blank /\ u.cancelled
    BY <1>2, <1>5, <1>10 DEF IInv, Owned
  <2> QED
    <3>1. buffer' \in Page /\ (buffer' # Blank => active' # 0 /\ ~tx'[active'].cancelled)
      BY <1>2, <1>9, <2>1
    <3>2. \A f \in Fields : buffer'[f] = buffer[f] /\ buffer'[f] = None
      BY <2>1 DEF Blank
    <3>3. Writing'
      BY <1>5, <1>7, <1>8, <1>9, <2>1, <3>2 DEF Writing
    <3>4. Referring'
      BY <1>5, <1>7, <1>8, <1>9, <3>2 DEF IInv, Active, Referring, Full
    <3>5. ledger' \in Entries /\ ledger'.revision = active /\ ledger'.failed = entry.failed
      BY <1>2, SettleRequested
    <3>6. Resolving'
      BY <1>5, <1>7, <1>8, <3>5 DEF IInv, Active, Resolving
    <3>7. Asking'
      BY <1>5, <1>7 DEF IInv, Active, Asking
    <3>8. counted' \in Counters /\ Counted'
      <4>1. CASE idle
        BY <1>2, <1>5, <1>7, <4>1, CompletedCounted
      <4>2. CASE ~idle
        BY <1>2, <1>5, <1>7, <1>9, <4>2 DEF IInv, Counted, Live
      <4> QED BY <4>1, <4>2
    <3>9. Queues(need', requests')
      BY DEF IInv, Queues
    <3> QED BY <1>7, <3>1, <3>3, <3>4, <3>5, <3>6, <3>7, <3>8, <3>9, Together DEF IInv, Typed, Active
<1>11. CASE ~tx[active].cancelled
  <2>1. /\ buffer' \in Page
        /\ \A f \in Fields : /\ f \in writes => buffer'[f] = doc[f]
                             /\ f \notin writes => buffer'[f] = buffer[f]
    BY <1>2, <1>9, <1>11 DEF Page
  <2>2. buffer' # Blank => active' # 0 /\ ~tx'[active'].cancelled
    BY <1>5, <1>7, <1>11
  <2>3. Writing'
    <3>1. ASSUME NEW f \in Shown
          PROVE  /\ buffer'[f] # None => buffer'[f].value = u.raw[f]
                 /\ buffer'[f] = None => page[f] # None /\ page[f].value = u.raw[f]
      <4>1. f \in Fields /\ doc[f].value = u.raw[f] /\ doc[f] # None
        BY <1>5, <1>9
      <4>2. CASE f \in writes
        BY <2>1, <4>1, <4>2
      <4>3. CASE f \notin writes
        <5>1. buffer'[f] = buffer[f] /\ page[f] = doc[f]
          BY <1>4, <2>1, <4>1, <4>3
        <5>2. buffer[f] # None => buffer[f].value = u.raw[f]
          BY <1>5 DEF IInv, Active, Writing
        <5> QED BY <4>1, <5>1, <5>2
      <4> QED BY <4>2, <4>3
    <3> QED BY <1>7, <1>8, <3>1 DEF Writing
  <2>4. Referring'
    <3>1. ASSUME NEW f \in Refs
          PROVE  /\ Full(page, f) \/ Full(buffer', f) \/ Full(u.fields, f) => Full(need'.resolved, f)
                 /\ ~Handlers /\ Full(page, f) =>
                      /\ buffer'[f] # None => Full(buffer', f)
                      /\ u.phase \in {"resolving", "resolved"} => Full(u.fields, f)
      <4>1. f \in Fields /\ buffer # None /\ buffer' # None /\ doc # None
        <5>1. None \notin Page
          BY <1>1, NullIsNothing
        <5> QED BY <1>9, <2>1, <5>1
      <4>2. Full(page, f) \/ Full(buffer, f) \/ Full(tx[active].fields, f) => Full(need.resolved, f)
        BY DEF IInv, Active, Referring
      <4>3. ~Handlers /\ Full(page, f) =>
              /\ buffer[f] # None => Full(buffer, f)
              /\ tx[active].phase \in {"resolving", "resolved"} => Full(tx[active].fields, f)
        BY DEF IInv, Active, Referring
      <4>4. /\ f \in writes => (Full(buffer', f) <=> Full(doc, f))
            /\ f \notin writes => (Full(buffer', f) <=> Full(buffer, f)) /\ buffer'[f] = buffer[f]
        BY <2>1, <4>1 DEF Full
      <4> QED BY <1>5, <4>2, <4>3, <4>4
    <3> QED BY <1>7, <1>8, <3>1 DEF Referring, Full
  <2>5. ledger' \in Entries /\ ledger'.revision = active /\ ledger'.failed = entry.failed
    BY <1>2, SettleRequested
  <2>6. Resolving'
    BY <1>5, <1>7, <1>8, <2>5 DEF IInv, Active, Resolving
  <2>7. Asking'
    BY <1>5, <1>7 DEF IInv, Active, Asking
  <2>8. counted' \in Counters /\ Counted'
    <3>1. CASE idle
      BY <1>2, <1>5, <1>7, <3>1, CompletedCounted
    <3>2. CASE ~idle
      BY <1>2, <1>5, <1>7, <1>9, <3>2 DEF IInv, Counted, Live
    <3> QED BY <3>1, <3>2
  <2>9. Queues(need', requests')
    BY DEF IInv, Queues
  <2> QED BY <1>7, <2>1, <2>2, <2>3, <2>4, <2>5, <2>6, <2>7, <2>8, <2>9, Together
          DEF IInv, Typed, Active
<1> QED BY <1>10, <1>11

LEMMA FieldsKeep ==
  ASSUME IInv, NEW r, FieldsResolved(r)
  PROVE  IInv'
<1>1. /\ r \in DOMAIN tx /\ tx[r] \in Transactions /\ tx[r].phase = "resolved" /\ site \in Pages
      /\ need \in Needs /\ ledger \in Entries /\ ledger.revision = active /\ Remembers(need)
      /\ UNCHANGED <<site, active, retained, mergeVars, page, said>>
  BY SequenceFacts DEF IInv, Typed, Owned, FieldsResolved
<1>2. CASE ~Current(r)
  BY <1>1, <1>2, EndKeeps DEF FieldsResolved, Current
<1>3. CASE Current(r)
  <2>1. r = active /\ active # 0
    BY <1>1, <1>3, SequenceFacts DEF Current, IInv, Typed
  <2>2. /\ tx[r].fields \in Docs
        /\ \A f \in Shown : tx[r].fields[f].value = tx[r].raw[f]
        /\ \A f \in Refs : /\ Full(tx[r].fields, f) => Full(need.resolved, f)
                           /\ ~Handlers /\ Full(page, f) => Full(tx[r].fields, f)
        /\ ~tx[r].waits => ledger.failed \/ ~need.unresolved
    BY <1>1, <2>1, ActiveFacts DEF IInv, Active, Resolving, Referring
  <2>3. need' = need /\ UNCHANGED <<site, active, retained, requests, newest, page, said>>
    BY <1>1 DEF mergeVars
  <2>4. CASE Handlers
    <3> DEFINE t == [tx[r] EXCEPT !.phase = "gate"]
    <3>1. /\ tx' = [tx EXCEPT ![r] = t] /\ buffer' = buffer /\ counted' = counted /\ ledger' = ledger
      BY <1>3, <2>4 DEF FieldsResolved
    <3>2. /\ t \in Transactions /\ t.phase = "gate"
          /\ t.raw = tx[r].raw /\ t.counts = tx[r].counts /\ t.completed = tx[r].completed
          /\ t.request = tx[r].request /\ t.cancelled = tx[r].cancelled /\ t.waits = tx[r].waits
          /\ t.fields = tx[r].fields
      BY <1>1 DEF Transactions, Phases
    <3> HIDE DEF t
    <3>3. t.cancelled => buffer' = Blank
      BY <2>1, <3>1, <3>2 DEF IInv, Owned
    <3>4. /\ t.raw = tx[active].raw /\ t.counts = tx[active].counts
          /\ t.completed = tx[active].completed /\ t.request = tx[active].request
          /\ tx[active].cancelled => t.cancelled
          /\ t.phase = "resolving" \/ t.waits => tx[active].phase = "resolving" \/ tx[active].waits
          /\ t.phase = "resolving" => tx[active].phase = "resolving" /\ ~t.waits
          /\ t.phase = "applied" => /\ tx[active].phase = "applied"
                                    /\ tx[active].cancelled \/ ~t.cancelled
      BY <2>1, <3>2
    <3>5. UNCHANGED <<site, active, retained, requests, newest, page, said, counted>>
      BY <2>3, <3>1
    <3>6. tx' = [tx EXCEPT ![active] = t]
      BY <2>1, <3>1
    <3>7. /\ \A f \in Shown : t.fields[f].value = t.raw[f]
          /\ \A f \in Refs : /\ Full(t.fields, f) => Full(need.resolved, f)
                             /\ ~Handlers /\ Full(page, f) => Full(t.fields, f)
          /\ ~t.waits => ledger.failed \/ ~need.unresolved
      BY <2>2, <3>2
    <3> QED BY ONLY IInv, <1>1, <2>1, <2>3, <2>4, <3>1, <3>2, <3>3, <3>4, <3>5, <3>6, <3>7, ActiveMoves
  <2>5. CASE ~Handlers
    <3> DEFINE t == [tx[r] EXCEPT !.phase = "applied"]
    <3>1. Apply(r, tx[r].fields, t, ledger)
      BY <1>3, <2>5 DEF FieldsResolved
    <3>2. /\ t \in Transactions /\ t.phase = "applied"
          /\ t.raw = tx[r].raw /\ t.counts = tx[r].counts /\ t.completed = tx[r].completed
          /\ t.request = tx[r].request /\ t.cancelled = tx[r].cancelled /\ t.waits = tx[r].waits
          /\ t.fields = tx[r].fields
      BY <1>1 DEF Transactions, Phases
    <3> HIDE DEF t
    <3> QED BY <1>1, <2>1, <2>2, <2>3, <3>1, <3>2, ApplyKeeps
  <2> QED BY <2>4, <2>5
<1> QED BY <1>2, <1>3

LEMMA HandlersKeep ==
  ASSUME IInv, NEW r, HandlersSettled(r)
  PROVE  IInv'
<1>1. /\ r \in DOMAIN tx /\ tx[r] \in Transactions /\ tx[r].phase = "gate" /\ site \in Pages
      /\ need \in Needs /\ ledger \in Entries /\ ledger.revision = active /\ Remembers(need)
      /\ UNCHANGED <<site, active, retained, mergeVars, page, said>>
  BY SequenceFacts DEF IInv, Typed, Owned, HandlersSettled
<1>2. CASE ~Current(r) \/ tx[r].cancelled
  BY <1>1, <1>2, EndKeeps DEF HandlersSettled, Current
<1>3. CASE Current(r) /\ ~tx[r].cancelled
  <2>1. r = active /\ active # 0
    BY <1>1, <1>3, SequenceFacts DEF Current, IInv, Typed
  <2>2. /\ tx[r].fields \in Docs /\ Handlers
        /\ \A f \in Shown : tx[r].fields[f].value = tx[r].raw[f]
        /\ \A f \in Refs : Full(tx[r].fields, f) => Full(need.resolved, f)
        /\ ~tx[r].waits => ledger.failed \/ ~need.unresolved
    BY <1>1, <2>1, ActiveFacts DEF IInv, Gateless, Active, Resolving, Referring
  <2>3. need' = need /\ UNCHANGED <<site, active, retained, requests, newest, page, said>>
    BY <1>1 DEF mergeVars
  <2> DEFINE t == [tx[r] EXCEPT !.phase = "applied"]
  <2>4. Apply(r, tx[r].fields, t, ledger)
    BY <1>3 DEF HandlersSettled
  <2>5. /\ t \in Transactions /\ t.phase = "applied"
        /\ t.raw = tx[r].raw /\ t.counts = tx[r].counts /\ t.completed = tx[r].completed
        /\ t.request = tx[r].request /\ t.cancelled = tx[r].cancelled /\ t.waits = tx[r].waits
        /\ t.fields = tx[r].fields
    BY <1>1 DEF Transactions, Phases
  <2> HIDE DEF t
  <2> QED BY <1>1, <2>1, <2>2, <2>3, <2>4, <2>5, ApplyKeeps
<1> QED BY <1>2, <1>3

(* The shared answer is the answer to the newest values, so it may be applied
   over whatever the revision has scheduled before. *)
LEMMA RefineKeeps ==
  ASSUME IInv, NEW r, Refine(r)
  PROVE  IInv'
<1> DEFINE answer == requests[tx[r].request]
           doc == Populated(answer.raw)
           done == [tx[r] EXCEPT !.waits = FALSE]
<1>1. /\ r \in DOMAIN tx /\ tx[r] \in Transactions /\ tx[r].waits /\ site \in Pages
      /\ answer.status \in Final
      /\ need \in Needs /\ ledger \in Entries /\ ledger.revision = active /\ Remembers(need)
      /\ UNCHANGED <<site, active, retained, requests, newest, page, said>>
  BY SequenceFacts DEF IInv, Typed, Owned, Refine
<1>2. /\ done \in Transactions /\ ~done.waits /\ done.phase = tx[r].phase
      /\ done.raw = tx[r].raw /\ done.counts = tx[r].counts /\ done.completed = tx[r].completed
      /\ done.request = tx[r].request /\ done.cancelled = tx[r].cancelled
      /\ done.fields = tx[r].fields
  BY <1>1 DEF Transactions
<1>3. ~Handlers => done.phase # "gate"
  BY <1>1, <1>2 DEF IInv, Gateless
<1>4. r = active => active # 0
  BY <1>1, SequenceFacts DEF IInv, Typed
<1>5. CASE answer.status = "merged" /\ r = active
  <2>1. need' = Resolved(need, doc) /\ Apply(r, doc, done, ledger)
    BY <1>5 DEF Refine, StillCurrent, Current
  <2>2. answer.raw = tx[r].raw /\ tx[r].raw \in Raws /\ need.lastRaw = tx[r].raw
    BY <1>1, <1>4, <1>5, AnswerSound
  <2>3. tx[r].phase # "resolving"
    BY <1>1, <1>4, <1>5 DEF IInv, Active, Resolving
  <2>4. /\ doc \in Docs
        /\ need' \in Needs /\ Remembers(need') /\ ~need'.unresolved
        /\ need'.trailing = need.trailing /\ need'.lastRaw = need.lastRaw /\ need'.resolved = doc
        /\ \A f \in Refs : Full(doc, f)
    <3> DEFINE raw == answer.raw
    <3>1. raw \in Raws /\ need.lastRaw = raw
      BY <2>2
    <3> HIDE DEF raw
    <3> QED BY <1>1, <2>1, <3>1, ResolvedSound, SentAndPopulated DEF raw
  <2>5. ASSUME NEW f \in Shown PROVE doc[f].value = tx[r].raw[f]
    <3>1. f \in Fields
      BY DEF Shown, Fields
    <3>2. doc[f] = [value |-> tx[r].raw[f], full |-> TRUE]
      BY <2>2, <3>1, SentAndPopulated
    <3> QED BY ONLY <3>2, SlotParts, Zenon
  <2> HIDE DEF done, doc, answer
  <2> QED BY <1>1, <1>2, <1>4, <1>5, <2>1, <2>3, <2>4, <2>5, ApplyKeeps
<1>6. CASE ~(answer.status = "merged" /\ r = active)
  <2>1. /\ tx' = [tx EXCEPT ![r] = done]
        /\ ledger' = IF answer.status = "unavailable" THEN Shortfall(r, ledger) ELSE ledger
        /\ need' = need /\ buffer' = buffer /\ counted' = counted
    BY <1>6 DEF Refine, StillCurrent, Current
  <2> HIDE DEF done, doc
  <2>2. CASE r # active
    <3>1. ledger' = ledger
      BY <1>1, <2>1, <2>2, ShortfallSound
    <3>2. UNCHANGED <<site, active, retained, mergeVars, buffer, page, displayVars, counted>>
      BY <1>1, <2>1, <3>1 DEF mergeVars, displayVars
    <3> QED BY <1>1, <1>2, <1>3, <2>1, <2>2, <3>2, OtherMoves
  <2>3. CASE r = active
    <3>1. answer.status = "unavailable"
      BY <1>1, <1>4, <1>6, <2>3, AnswerSound DEF Final
    <3> HIDE DEF answer
    <3>2. ledger' \in Entries /\ ledger'.revision = active /\ ledger'.failed
      BY <1>1, <2>1, <2>3, <3>1, ShortfallSound
    <3>3. /\ \A f \in Shown : done.fields[f].value = done.raw[f]
          /\ \A f \in Refs : /\ Full(done.fields, f) => Full(need.resolved, f)
                             /\ ~Handlers /\ Full(page, f) /\ done.phase \in {"resolving", "resolved"}
                                  => Full(done.fields, f)
      BY <1>2, <1>4, <2>3 DEF IInv, Active, Resolving, Referring
    <3>4. done.cancelled => buffer' = Blank
      BY <1>2, <1>4, <2>1, <2>3 DEF IInv, Owned
    <3>5. /\ done.raw = tx[active].raw /\ done.counts = tx[active].counts
          /\ done.completed = tx[active].completed /\ done.request = tx[active].request
          /\ tx[active].cancelled => done.cancelled
          /\ done.phase = "resolving" \/ done.waits => tx[active].phase = "resolving" \/ tx[active].waits
          /\ done.phase = "resolving" => tx[active].phase = "resolving" /\ ~done.waits
          /\ done.phase = "applied" => /\ tx[active].phase = "applied"
                                       /\ tx[active].cancelled \/ ~done.cancelled
      BY <1>2, <2>3
    <3>6. UNCHANGED <<site, active, retained, requests, newest, page, said, counted>>
      BY <1>1, <2>1
    <3>7. tx' = [tx EXCEPT ![active] = done]
      BY <2>1, <2>3
    <3>8. /\ need' \in Needs /\ Remembers(need') /\ need'.trailing = need.trailing
          /\ need'.lastRaw = need.lastRaw /\ buffer' = buffer
          /\ \A f \in Refs : Full(need.resolved, f) => Full(need'.resolved, f)
      BY ONLY <1>1, <2>1
    <3>9. \A f \in Refs : Full(done.fields, f) => Full(need'.resolved, f)
      BY ONLY <3>3, <3>8
    <3>10. active # 0 /\ done \in Transactions
      BY ONLY <1>2, <1>4, <2>3
    <3> QED BY ONLY IInv, <1>3, <3>2, <3>3, <3>4, <3>5, <3>6, <3>7, <3>8, <3>9, <3>10, ActiveMoves
  <2> QED BY <2>2, <2>3
<1> QED BY <1>5, <1>6

\* A flush shows what is buffered, all of it the active revision's, and completes it.
LEMMA FlushKeeps ==
  ASSUME IInv, Flush
  PROVE  IInv'
<1> DEFINE t == [tx[active] EXCEPT !.completed = TRUE]
<1>1. /\ site' = site /\ active' = active /\ retained' = retained /\ need' = need
      /\ requests' = requests /\ newest' = newest /\ said' = said
      /\ buffer # Blank /\ buffer' = Blank
      /\ page' = [f \in Fields |-> IF buffer[f] = None THEN page[f] ELSE buffer[f]]
      /\ tx' = Completed(active) /\ counted' = CountCompleted(active)
      /\ ledger' = RequestSettle(active, ledger)
  BY DEF Flush, mergeVars
<1>2. /\ active # 0 /\ active \in DOMAIN tx /\ tx[active] \in Transactions /\ ~tx[active].cancelled
  BY <1>1, ActiveFacts DEF IInv, Owned
<1>3. tx[active].phase # "resolved" /\ tx[active].phase # "resolving"
  BY <1>1, <1>2 DEF Flush, MicrotasksDone, IInv, Active, Resolving
<1>4. /\ t \in Transactions /\ t.completed
      /\ t.raw = tx[active].raw /\ t.counts = tx[active].counts /\ t.phase = tx[active].phase
      /\ t.request = tx[active].request /\ t.cancelled = tx[active].cancelled
      /\ t.waits = tx[active].waits /\ t.fields = tx[active].fields
  BY <1>2 DEF Transactions
<1>5. tx' = [tx EXCEPT ![active] = t]
  BY <1>1 DEF Completed
<1> HIDE DEF t
<1>6. ~Handlers => t.phase # "gate"
  BY <1>2, <1>4 DEF IInv, Gateless
<1>7. /\ tx' \in Seq(Transactions) /\ Len(tx') = Len(tx) /\ Bounded' /\ Gateless(tx')
      /\ tx'[active] = t
  BY <1>1, <1>2, <1>4, <1>5, <1>6, TxSound
<1>8. Shown' = Shown /\ Refs' = Refs /\ Blank' = Blank /\ Handlers' = Handlers
  BY <1>1, SameSite
<1>9. /\ buffer \in Page /\ page \in Page /\ page' \in Page /\ Blank \in Page /\ site \in Pages
      /\ \A f \in Shown \cup Refs : f \in Fields
      /\ \A f \in Fields : Blank[f] = None
  BY <1>1 DEF IInv, Typed, Page, Blank, Shown, Fields
<1>10. \A f \in Fields : /\ buffer[f] = None => page'[f] = page[f]
                         /\ buffer[f] # None => page'[f] = buffer[f]
  BY <1>1
<1>11. ledger' \in Entries /\ ledger'.revision = active /\ ledger'.failed = ledger.failed
  BY <1>1, SettleRequested DEF IInv, Typed, Owned
<1>12. Asking'
  BY <1>1, <1>4, <1>7 DEF IInv, Active, Asking
<1>13. Resolving'
  BY <1>1, <1>3, <1>4, <1>7, <1>8, <1>11 DEF IInv, Active, Resolving
<1>14. Writing'
  <2>1. ASSUME NEW f \in Shown
        PROVE  /\ buffer'[f] = None
               /\ t.phase = "applied" => page'[f] # None /\ page'[f].value = t.raw[f]
    <3>1. f \in Fields /\ buffer'[f] = None
      BY <1>1, <1>9
    <3>2. CASE buffer[f] = None
      BY <1>2, <1>4, <1>10, <3>1, <3>2 DEF IInv, Active, Writing
    <3>3. CASE buffer[f] # None
      BY <1>2, <1>4, <1>10, <3>1, <3>3 DEF IInv, Active, Writing
    <3> QED BY <3>1, <3>2, <3>3
  <2> QED BY <1>1, <1>7, <1>8, <2>1 DEF Writing
<1>15. Referring'
  <2>1. ASSUME NEW f \in Refs
        PROVE  /\ Full(page', f) => Full(need.resolved, f)
               /\ buffer'[f] = None
    <3>1. f \in Fields /\ buffer'[f] = None /\ buffer # None /\ page # None
      BY <1>1, <1>9, NullIsNothing
    <3>2. Full(page', f) => Full(page, f) \/ Full(buffer, f)
      BY <1>10, <3>1 DEF Full
    <3> QED BY <3>1, <3>2 DEF IInv, Active, Referring
  <2>2. \A f \in Refs : Full(t.fields, f) => Full(need.resolved, f)
    BY <1>2, <1>4 DEF IInv, Active, Referring
  <2>3. \A f \in Refs : ~Full(buffer', f)
    BY <2>1 DEF Full
  <2> QED BY <1>1, <1>3, <1>4, <1>7, <1>8, <2>1, <2>2, <2>3 DEF Referring, Full
<1>16. counted' \in Counters /\ Counted'
  BY <1>1, <1>2, <1>4, <1>7, CompletedCounted
<1>17. Remembers(need') /\ Queues(need', requests')
  BY <1>1 DEF IInv, Remembers, Queues
<1> QED BY <1>1, <1>7, <1>9, <1>11, <1>12, <1>13, <1>14, <1>15, <1>16, <1>17, Together
        DEF IInv, Typed, Active

\* The work of the active revision is called off.
LEMMA CancelActiveSound ==
  ASSUME IInv
  PROVE  /\ CancelActive \in Seq(Transactions) /\ Len(CancelActive) = Len(tx)
         /\ \A reqs : Len(reqs) = Len(requests) => Asked(CancelActive, reqs)
         /\ Gateless(CancelActive)
<1>1. tx \in Seq(Transactions) /\ DOMAIN tx = 1..Len(tx)
  BY SequenceFacts DEF IInv, Typed
<1>2. Asked(tx, requests) /\ Gateless(tx)
  BY DEF IInv, Bounded
<1>3. CASE active = 0
  BY <1>1, <1>2, <1>3 DEF CancelActive, Asked
<1>4. CASE active # 0
  <2> DEFINE t == [tx[active] EXCEPT !.cancelled = TRUE]
  <2>1. active \in DOMAIN tx /\ tx[active] \in Transactions
    BY <1>4, ActiveFacts DEF IInv
  <2>2. t \in Transactions /\ t.request = tx[active].request /\ t.phase = tx[active].phase
        /\ t.waits = tx[active].waits
    BY <2>1 DEF Transactions
  <2>3. CancelActive = [tx EXCEPT ![active] = t]
    BY <1>4 DEF CancelActive
  <2> HIDE DEF t
  <2>4. /\ CancelActive \in Seq(Transactions) /\ Len(CancelActive) = Len(tx)
        /\ \A i \in 1..Len(tx) : CancelActive[i] = IF i = active THEN t ELSE tx[i]
    BY <1>1, <2>1, <2>2, <2>3, ExceptSeq
  <2>5. DOMAIN CancelActive = 1..Len(tx)
    BY <2>4, SequenceFacts
  <2>6. \A i \in 1..Len(tx) : /\ CancelActive[i].request = tx[i].request
                              /\ CancelActive[i].phase = tx[i].phase
                              /\ CancelActive[i].waits = tx[i].waits
    BY <2>2, <2>4
  <2>7. \A reqs : Len(reqs) = Len(requests) => Asked(CancelActive, reqs)
    BY <1>1, <1>2, <2>5, <2>6 DEF Asked
  <2>8. Gateless(CancelActive)
    BY <1>1, <1>2, <2>5, <2>6 DEF Gateless
  <2> QED BY <2>4, <2>7, <2>8
<1> QED BY <1>3, <1>4

\* The merges are closed and what was queued gets its outcome.
LEMMA ClosedSound ==
  ASSUME IInv, NEW last \in Raws \cup {None}, last = need.lastRaw \/ last = None
  PROVE  LET m == [Closed(need) EXCEPT !.lastRaw = last]
             reqs == Supersede(requests, Queued)
         IN  /\ m \in Needs /\ m.resolved = need.resolved /\ m.lastRaw = last
             /\ reqs \in Seq(Requests) /\ Len(reqs) = Len(requests)
             /\ Remembers(m) /\ Queues(m, reqs)
<1> DEFINE m == [Closed(need) EXCEPT !.lastRaw = last]
           reqs == Supersede(requests, Queued)
<1>1. /\ m \in Needs /\ m.resolved = need.resolved /\ m.unresolved = need.unresolved
      /\ m.lastRaw = last /\ m.trailing = 0
  BY DEF IInv, Typed, Needs, Closed
<1>2. /\ requests \in Seq(Requests) /\ DOMAIN requests = 1..Len(requests) /\ Len(requests) \in Nat
      /\ \A i \in DOMAIN requests : requests[i].status = "queued" => need.trailing = i
      /\ Remembers(need)
  BY SequenceFacts DEF IInv, Typed, Queues
<1>3. /\ reqs \in Seq(Requests) /\ Len(reqs) = Len(requests) /\ DOMAIN reqs = DOMAIN requests
      /\ \A i \in DOMAIN requests :
           /\ i \in Queued => reqs[i].status = "superseded"
           /\ i \notin Queued => reqs[i] = requests[i]
  BY <1>2, SupersedeSound
<1> HIDE DEF m, reqs
<1>4. ASSUME NEW i \in DOMAIN reqs PROVE reqs[i].status # "queued"
  <2>1. i \in DOMAIN requests /\ i # 0
    BY <1>2, <1>3
  <2>2. CASE i \in Queued
    BY <1>3, <2>1, <2>2
  <2>3. CASE i \notin Queued
    <3>1. need.trailing # i
      BY <2>1, <2>3 DEF Queued
    <3> QED BY <1>2, <1>3, <2>1, <2>3, <3>1
  <2> QED BY <2>2, <2>3
<1>5. Queues(m, reqs)
  BY <1>1, <1>2, <1>3, <1>4 DEF Queues
<1>6. Remembers(m)
  BY <1>1, <1>2 DEF Remembers
<1> QED BY <1>1, <1>3, <1>5, <1>6 DEF m, reqs

\* The retained document is accepted anew, for a page that shows nothing of it.
LEMMA NavigateKeeps ==
  ASSUME IInv, Navigate
  PROVE  IInv'
<1> DEFINE m == [Closed(need) EXCEPT !.lastRaw = None]
           reqs == Supersede(requests, Queued)
<1>1. /\ site' = site /\ retained' = retained /\ said' = said /\ page' = Blank
      /\ retained \in Raws /\ Len(tx) < MaxRevision
      /\ counted' = [counted EXCEPT !.superseded = @ + SupersededNow]
      /\ Accept(CancelActive, m, reqs, 0, retained, FALSE, FALSE)
  BY DEF Navigate, IInv, Typed
<1>2. /\ m \in Needs /\ reqs \in Seq(Requests) /\ Len(reqs) = Len(requests)
      /\ Remembers(m) /\ Queues(m, reqs)
  BY ClosedSound
<1>3. /\ CancelActive \in Seq(Transactions) /\ Len(CancelActive) = Len(tx)
      /\ Asked(CancelActive, reqs) /\ Gateless(CancelActive)
  BY <1>2, CancelActiveSound
<1> HIDE DEF m, reqs
<1>4. 0 \in 0..Len(reqs) /\ Len(reqs) <= Len(CancelActive)
  BY <1>2, <1>3, SequenceFacts DEF IInv, Bounded
<1>5. Blank \in Page /\ \A f \in Refs : Blank[f] = None
  BY DEF Blank, Page, Fields
<1>6. \A f \in Refs : Full(page, f)' => Full(m.resolved, f)
  BY <1>1, <1>5 DEF Full
<1>7. counted' = [counted EXCEPT !.updates = @ + (IF FALSE THEN 1 ELSE 0),
                                 !.superseded = @ + SupersededNow]
  <2>1. counted \in Counters
    BY DEF IInv, Typed
  <2>2. counted.updates + (IF FALSE THEN 1 ELSE 0) = counted.updates
    BY <2>1 DEF Counters
  <2> QED BY <1>1, <2>1, <2>2 DEF Counters
<1>8. said \in [Revisions -> SUBSET States] /\ page' \in Page
  BY <1>1, <1>5 DEF IInv, Typed
<1> QED BY <1>1, <1>2, <1>3, <1>4, <1>6, <1>7, <1>8, AcceptKeeps

\* After a timeout nobody waits for anything: only the page stays as it is.
LEMMA TimeoutKeeps ==
  ASSUME IInv, HeartbeatTimeout
  PROVE  IInv'
<1> DEFINE m == [Closed(need) EXCEPT !.lastRaw = need.lastRaw]
           reqs == Supersede(requests, Queued)
<1>1. /\ site' = site /\ page' = page /\ said' = said /\ active # 0
      /\ tx' = CancelActive /\ active' = 0 /\ retained' = None
      /\ need' = Closed(need) /\ requests' = reqs /\ newest' = 0
      /\ buffer' = Blank /\ ledger' = NoEntry
      /\ counted' = [counted EXCEPT !.dropped = counted.dropped + SupersededNow]
  BY DEF HeartbeatTimeout
<1>2. Closed(need) = m
  BY DEF Closed, IInv, Typed, Needs
<1>3. /\ m \in Needs /\ m.resolved = need.resolved /\ m.lastRaw = need.lastRaw
      /\ reqs \in Seq(Requests) /\ Len(reqs) = Len(requests)
      /\ Remembers(m) /\ Queues(m, reqs)
  <2>1. need.lastRaw \in Raws \cup {None}
    BY DEF IInv, Typed, Needs
  <2> QED BY <2>1, ClosedSound
<1> HIDE DEF m, reqs
<1>4. /\ CancelActive \in Seq(Transactions) /\ Len(CancelActive) = Len(tx)
      /\ Asked(CancelActive, reqs) /\ Gateless(CancelActive)
  BY <1>3, CancelActiveSound
<1>5. Bounded'
  BY <1>1, <1>3, <1>4 DEF IInv, Bounded
<1>6. Refs' = Refs /\ Blank' = Blank /\ Handlers' = Handlers
  BY <1>1, SameSite
<1>7. Blank \in Page /\ \A f \in Refs : Blank[f] = None
  BY DEF Blank, Page, Fields
<1>8. Active'
  <2>1. Asking' /\ Resolving' /\ Writing'
    BY <1>1 DEF Asking, Resolving, Writing
  <2>2. \A f \in Refs : /\ Full(page, f) => Full(need.resolved, f)
                        /\ ~Full(Blank, f)
    BY <1>7 DEF IInv, Active, Referring, Full
  <2>3. Referring'
    BY <1>1, <1>2, <1>3, <1>6, <1>7, <2>2 DEF Referring, Full
  <2> QED BY <2>1, <2>3 DEF Active
<1>9. counted' \in Counters /\ Counted'
  <2> DEFINE now == SupersededNow
  <2>1. /\ now \in {0, 1} /\ counted \in Counters
        /\ counted.updates = counted.completed + counted.superseded + counted.dropped + now
    BY DEF SupersededNow, IInv, Typed, Counted
  <2>2. counted' = [counted EXCEPT !.dropped = counted.dropped + now] /\ ~Live'
    BY <1>1 DEF Live
  <2> HIDE DEF now
  <2>3. /\ counted.updates \in Nat /\ counted.completed \in Nat
        /\ counted.superseded \in Nat /\ counted.dropped \in Nat
    BY <2>1 DEF Counters
  <2>4. /\ counted' \in Counters /\ counted'.updates = counted.updates
        /\ counted'.completed = counted.completed /\ counted'.superseded = counted.superseded
        /\ counted'.dropped = counted.dropped + now
    BY ONLY <2>1, <2>2, <2>3 DEF Counters
  <2>5. /\ counted'.updates = counted'.completed + counted'.superseded + counted'.dropped
        /\ counted'.completed + counted'.superseded + counted'.dropped \in Nat
    BY ONLY <2>1, <2>3, <2>4
  <2> QED BY <2>2, <2>4, <2>5 DEF Counted
<1>10. NoEntry \in Entries /\ NoEntry.revision = 0
  BY DEF NoEntry, Entries
<1>11. active' \in 0..Len(tx') /\ newest' \in 0..Len(requests')
  BY <1>1, <1>3, <1>4, SequenceFacts
<1> QED BY <1>1, <1>2, <1>3, <1>4, <1>5, <1>6, <1>7, <1>8, <1>9, <1>10, <1>11, Together
        DEF IInv, Typed

\* Every step keeps the invariant.
LEMMA NextKeeps ==
  ASSUME IInv, [Next]_vars
  PROVE  IInv'
<1>1. CASE UNCHANGED vars
  <2>1. /\ site' = site /\ tx' = tx /\ active' = active /\ retained' = retained /\ need' = need
        /\ requests' = requests /\ newest' = newest /\ buffer' = buffer /\ page' = page
        /\ ledger' = ledger /\ said' = said /\ counted' = counted
    BY <1>1 DEF vars, mergeVars, displayVars
  <2>2. Shown' = Shown /\ Refs' = Refs /\ Blank' = Blank /\ Handlers' = Handlers
    BY <2>1, SameSite
  <2>3. Active'
    BY <2>1, <2>2 DEF IInv, Active, Asking, Resolving, Writing, Referring, Full
  <2>4. Counted' /\ Bounded' /\ Gateless(tx') /\ (buffer' # Blank => active' # 0 /\ ~tx'[active'].cancelled)
    BY <2>1 DEF IInv, Counted, Live, Bounded, Asked, Owned, Gateless
  <2>5. Remembers(need') /\ Queues(need', requests')
    BY <2>1 DEF IInv, Remembers, Queues
  <2> QED BY <2>1, <2>3, <2>4, <2>5, Together DEF IInv, Typed, Owned
<1>2. CASE Next
  <2>1. CASE \E raw \in Raws, related \in BOOLEAN : Message(raw, related)
    BY <2>1, MessageKeeps
  <2>2. CASE \E i \in Revisions, ok \in BOOLEAN : Respond(i, ok)
    BY <2>2, RespondKeeps
  <2>3. CASE WindowCloses
    BY <2>3, WindowKeeps
  <2>4. CASE TrailingFires
    BY <2>4, TrailingKeeps
  <2>5. CASE \E r \in Revisions : LeadingAnswered(r)
    BY <2>5, LeadingKeeps
  <2>6. CASE \E r \in Revisions : FieldsResolved(r)
    BY <2>6, FieldsKeep
  <2>7. CASE \E r \in Revisions : Cancel(r)
    BY <2>7, CancelKeeps
  <2>8. CASE \E r \in Revisions : HandlersSettled(r)
    BY <2>8, HandlersKeep
  <2>9. CASE \E r \in Revisions : Refine(r)
    BY <2>9, RefineKeeps
  <2>10. CASE Flush
    BY <2>10, FlushKeeps
  <2>11. CASE Settle
    BY <2>11, SettleKeeps
  <2>12. CASE Navigate
    BY <2>12, NavigateKeeps
  <2>13. CASE HeartbeatTimeout
    BY <2>13, TimeoutKeeps
  <2> QED BY <1>2, <2>1, <2>2, <2>3, <2>4, <2>5, <2>6, <2>7, <2>8, <2>9, <2>10, <2>11, <2>12, <2>13
          DEF Next
<1> QED BY <1>1, <1>2

LEMMA InitHolds ==
  ASSUME Init
  PROVE  IInv
<1>1. /\ site \in Pages /\ tx = <<>> /\ active = 0 /\ retained = None /\ requests = <<>>
      /\ newest = 0 /\ buffer = Blank /\ page = Blank /\ ledger = NoEntry
      /\ need = [resolved |-> None, unresolved |-> TRUE, lastRaw |-> None, open |-> FALSE, trailing |-> 0]
      /\ said = [r \in Revisions |-> {}]
      /\ counted = [updates |-> 0, completed |-> 0, superseded |-> 0, dropped |-> 0]
  BY DEF Init
<1>2. MaxRevision \in Nat
  BY PipelineAssumption
<1>3. Typed
  <2>1. need \in Needs
    BY <1>1 DEF Needs
  <2>2. Blank \in Page
    BY DEF Blank, Page
  <2>3. ledger \in Entries /\ said \in [Revisions -> SUBSET States] /\ counted \in Counters
    BY <1>1 DEF NoEntry, Entries, Counters
  <2> QED BY <1>1, <2>1, <2>2, <2>3 DEF Typed
<1>4. Bounded /\ Owned /\ Gateless(tx)
  BY <1>1, <1>2 DEF Bounded, Asked, Owned, NoEntry, Gateless
<1>5. Counted
  BY <1>1 DEF Counted, Live
<1>6. Remembers(need) /\ Queues(need, requests)
  BY <1>1 DEF Remembers, Queues
<1>7. Active
  <2>1. \A f \in Refs : Blank[f] = None
    BY DEF Blank, Fields
  <2> QED BY <1>1, <2>1 DEF Active, Asking, Resolving, Writing, Referring, Full
<1> QED BY <1>3, <1>4, <1>5, <1>6, <1>7 DEF IInv

(* The invariant: the active revision, its question to the server, the memory of
   the merges, what is buffered and what the page shows agree. *)
THEOREM IInvHolds == Spec => []IInv
<1>1. Init => IInv
  BY InitHolds
<1>2. IInv /\ [Next]_vars => IInv'
  BY NextKeeps
<1> QED BY <1>1, <1>2, PTL DEF Spec

---------------------------------------------------------------------------
(* What follows *)

LEMMA TypesFollow == IInv => TypeOK
<1> SUFFICES ASSUME IInv PROVE TypeOK
  OBVIOUS
<1>1. /\ Typed /\ Queues(need, requests) /\ ledger.revision = active
      /\ Len(tx) \in Nat /\ Len(requests) \in Nat
  BY SequenceFacts DEF IInv, Typed, Owned
<1>2. need \in [resolved : Docs \cup {None}, unresolved : BOOLEAN, lastRaw : Raws \cup {None},
                open : BOOLEAN, trailing : 0..Len(requests)]
  BY <1>1 DEF Typed, Needs, Queues
<1>3. ledger \in [revision : 0..Len(tx), failed : BOOLEAN, queued : BOOLEAN,
                  reported : States \cup {None}]
  BY <1>1 DEF Typed, Entries
<1>4. requests \in Seq([raw : Raws, status : Statuses])
  BY <1>1 DEF Typed, Requests
<1> QED BY <1>1, <1>2, <1>3, <1>4 DEF TypeOK, Typed, Queues, Counters

(* Every variable keeps its type: what is queued is a request that was made, and
   the ledger reports on a revision that was accepted. *)
THEOREM TypeCorrect == Spec => []TypeOK
BY IInvHolds, TypesFollow, PTL

(* updateCount is the sum of the revisions that completed, that were superseded,
   that a timeout dropped, and the one under way: processUpdate, the scheduler's
   flush and the lifecycle count each of them once. *)
THEOREM AllAreAccountedFor == Spec => []RevisionsAreAccountedFor
<1>1. IInv => RevisionsAreAccountedFor
  BY TypesFollow DEF IInv, Counted, RevisionsAreAccountedFor
<1> QED BY <1>1, IInvHolds, PTL

(* MergeNeed neither forgets a question to the server nor throws the current
   answer away, and no queued request is left without an outcome. *)
THEOREM AnswersKept == Spec => []AnswersAreKept
<1>1. ASSUME IInv PROVE AnswersAreKept
  <2>1. PopulationIsNotForgotten
    <3> SUFFICES ASSUME AtRest, ~ledger.failed
                 PROVE  need.resolved = Populated(tx[active].raw)
      BY DEF PopulationIsNotForgotten
    <3>1. /\ active # 0 /\ ~need.unresolved /\ need.lastRaw = tx[active].raw
          /\ tx[active].raw \in Raws
      BY <1>1, ActiveFacts DEF IInv, AtRest, Active, Resolving
    <3>2. need.lastRaw # None
      BY <1>1, <3>1, NullIsNothing DEF IInv, Typed
    <3> QED BY <1>1, <3>1, <3>2 DEF IInv, Remembers
  <2>2. CurrentIsAnswered
    BY <1>1 DEF IInv, Active, Asking, CurrentIsAnswered
  <2>3. NoneIsLeftInTheQueue
    BY <1>1 DEF IInv, Queues, NoneIsLeftInTheQueue
  <2> QED BY <2>1, <2>2, <2>3 DEF AnswersAreKept
<1> QED BY <1>1, IInvHolds, PTL

(* When nothing is left to happen for the active revision, the page shows what
   the editor typed last, as far as the message can show it. *)
THEOREM NewestValuesShown == Spec => []PageShowsNewestValues
<1>1. ASSUME IInv, AtRest, NEW f \in Plain \cup Rich
      PROVE  page[f] # None /\ page[f].value = tx[active].raw[f]
  <2>1. f \in Shown /\ buffer[f] = None
    BY <1>1 DEF Shown, AtRest, Blank, Fields
  <2> QED BY <1>1, <2>1 DEF IInv, AtRest, Active, Writing
<1>2. IInv => PageShowsNewestValues
  BY <1>1 DEF PageShowsNewestValues
<1> QED BY <1>2, IInvHolds, PTL

\* Only a flush and a navigation touch the page.
LEMMA PageChanges ==
  ASSUME Next, page' # page
  PROVE  Flush \/ Navigate
BY DEF Next, Message, Respond, WindowCloses, TrailingFires, LeadingAnswered, FieldsResolved,
       Cancel, HandlersSettled, Refine, Settle, HeartbeatTimeout

(* A revision that a handler cancelled writes nothing: cancel() drops what the
   scheduler holds for it, and neither the end of the handlers nor a shared
   answer schedules anything more. *)
THEOREM CancelledWritesNothing == Spec => CancelledNeverWrites
<1>1. ASSUME IInv, [Next]_vars, page' # page, active' = active
      PROVE  ~tx[active].cancelled
  <2>1. Flush \/ Navigate
    BY <1>1, PageChanges DEF vars
  <2>2. CASE Flush
    BY <1>1, <2>2 DEF IInv, Owned, Flush
  <2>3. CASE Navigate
    <3>1. active' = Len(tx) + 1
      BY <1>1, <2>3, CancelActiveSound DEF Navigate, Accept
    <3>2. active \in 0..Len(tx) /\ Len(tx) \in Nat
      BY <1>1, SequenceFacts DEF IInv, Typed
    <3> QED BY <1>1, <3>1, <3>2
  <2> QED BY <2>1, <2>2, <2>3
<1>2. IInv /\ [Next]_vars => [page' # page /\ active' = active => ~tx[active].cancelled]_vars
  BY <1>1
<1> QED BY <1>2, IInvHolds, PTL DEF Spec, CancelledNeverWrites

(* Without handlers, a relationship that shows the document the server put in its
   place never falls back to a bare id, but for a navigation. *)
THEOREM ReferencesPopulated == Spec => ReferencesStayPopulated
<1> DEFINE Falls == ~Handlers => \A f \in Refs :
                      page[f] # None /\ page'[f] # None /\ page[f].full => page'[f].full
<1>1. ASSUME IInv, [Next]_vars, ~Handlers, NEW f \in Refs,
             page[f] # None, page'[f] # None, page[f].full
      PROVE  page'[f].full
  <2>1. f \in Fields /\ page # None
    BY <1>1, NullIsNothing DEF Fields, IInv, Typed
  <2>2. Full(page, f)
    BY <1>1, <2>1 DEF Full
  <2>3. CASE page' = page
    BY <1>1, <2>3
  <2>4. CASE page' # page
    <3>1. Flush \/ Navigate
      BY <1>1, <2>4, PageChanges DEF vars
    <3>2. CASE Flush
      <4>1. page'[f] = IF buffer[f] = None THEN page[f] ELSE buffer[f]
        BY <2>1, <3>2 DEF Flush
      <4>2. buffer[f] # None => Full(buffer, f)
        BY <1>1, <2>2 DEF IInv, Active, Referring
      <4> QED BY <1>1, <4>1, <4>2 DEF Full
    <3>3. CASE Navigate
      BY <1>1, <2>1, <3>3 DEF Navigate, Blank
    <3> QED BY <3>1, <3>2, <3>3
  <2> QED BY <2>3, <2>4
<1>2. IInv /\ [Next]_vars => [Falls]_vars
  BY <1>1
<1> QED BY <1>2, IInvHolds, PTL DEF Spec, ReferencesStayPopulated
=============================================================================
