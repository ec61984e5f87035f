---------------------------- MODULE Outbox_proofs ----------------------------
(***************************************************************************)
(* Proofs about the outbox, for any number of events, dispatchers and      *)
(* handlers, any batch size and any number of failed runs.                 *)
(***************************************************************************)
EXTENDS Outbox, FiniteSetTheorems, TLAPS

-----------------------------------------------------------------------------
\* What a fetched batch is.
LEMMA FetchResult ==
    ASSUME NEW d \in Dispatchers, Fetch(d)
    PROVE  \E batch \in Seq(Unpublished) :
             /\ Fetched(batch)
             /\ disp' = [disp EXCEPT ![d] = [batch |-> batch, done |-> 0, handler |-> 0]]
<1>1. PICK n \in 1..Limit :
        \E batch \in [1..n -> Unpublished] :
            /\ Fetched(batch)
            /\ disp' = [disp EXCEPT ![d] = [batch |-> batch, done |-> 0, handler |-> 0]]
  BY DEF Fetch
<1>2. PICK batch \in [1..n -> Unpublished] :
        /\ Fetched(batch)
        /\ disp' = [disp EXCEPT ![d] = [batch |-> batch, done |-> 0, handler |-> 0]]
  BY <1>1
<1>3. n \in Nat
  BY LimitAssumption
<1>4. batch \in Seq(Unpublished)
  BY <1>3
<1>5. QED
  BY <1>2, <1>4

LEMMA NoRunIsRun == NoRun \in Runs /\ Len(NoRun.batch) = 0 /\ NoRun.done = 0
BY HandlersAssumption DEF NoRun, Runs

\* A run that has events left is publishing an event of its batch.
LEMMA CurrentEvent ==
    ASSUME TypeOK, NEW d \in Dispatchers, disp[d].done < Len(disp[d].batch)
    PROVE  /\ disp[d].done + 1 \in 1..Len(disp[d].batch)
           /\ Current(d) \in Events
           /\ Current(d) \in InBatch(d)
<1>1. disp[d].batch \in Seq(Events) /\ disp[d].done \in Nat
  BY DEF TypeOK, Runs
<1>2. Len(disp[d].batch) \in Nat
  BY <1>1
<1>3. disp[d].done + 1 \in 1..Len(disp[d].batch)
  BY <1>1, <1>2
<1>4. QED
  BY <1>1, <1>3 DEF Current, InBatch

\* Ending a run leaves the others alone.
LEMMA EndRunType ==
    ASSUME TypeOK, NEW d \in Dispatchers, disp' = [disp EXCEPT ![d] = NoRun]
    PROVE  /\ disp' \in [Dispatchers -> Runs]
           /\ \A c \in Dispatchers : disp'[c].done <= Len(disp'[c].batch)
           /\ disp'[d] = NoRun
           /\ \A c \in Dispatchers : c # d => disp'[c] = disp[c]
BY NoRunIsRun DEF TypeOK

THEOREM TypeCorrect == Spec => []TypeOK
<1>1. Init => TypeOK
  BY NoRunIsRun, BoundsAssumption DEF Init, TypeOK, NotCommitted
<1>2. TypeOK /\ [Next]_vars => TypeOK'
  <2> SUFFICES ASSUME TypeOK, [Next]_vars
               PROVE  TypeOK'
    OBVIOUS
  <2>1. CASE Tick
    BY <2>1 DEF Tick, busVars, TypeOK
  <2>2. ASSUME NEW e \in Events, CreateEvent(e)
        PROVE  TypeOK'
    BY <2>2 DEF CreateEvent, busVars, TypeOK
  <2>3. ASSUME NEW batch \in SUBSET Events, CommitEvents(batch)
        PROVE  TypeOK'
    BY <2>3 DEF CommitEvents, busVars, TypeOK
  <2>4. ASSUME NEW batch \in SUBSET Events, RollBackEvents(batch)
        PROVE  TypeOK'
    BY <2>4 DEF RollBackEvents, busVars, TypeOK
  <2>5. ASSUME NEW d \in Dispatchers, Fetch(d)
        PROVE  TypeOK'
    <3>1. PICK batch \in Seq(Unpublished) :
            disp' = [disp EXCEPT ![d] = [batch |-> batch, done |-> 0, handler |-> 0]]
      BY <2>5, FetchResult
    <3>2. batch \in Seq(Events) /\ Len(batch) \in Nat
      BY DEF Unpublished, Stored
    <3>3. [batch |-> batch, done |-> 0, handler |-> 0] \in Runs
      BY <3>2, HandlersAssumption DEF Runs
    <3>4. /\ disp' \in [Dispatchers -> Runs]
          /\ \A c \in Dispatchers : disp'[c].done <= Len(disp'[c].batch)
      BY <3>1, <3>2, <3>3 DEF TypeOK
    <3>5. QED
      BY <2>5, <3>4 DEF Fetch, tableVars, busVars, TypeOK
  <2>6. ASSUME NEW d \in Dispatchers, CallHandler(d)
        PROVE  TypeOK'
    <3> DEFINE h == disp[d].handler + 1
    <3>1. disp[d] \in Runs /\ disp[d].handler < Handlers
      BY <2>6 DEF CallHandler, TypeOK
    <3>2. h \in 1..Handlers /\ h \in 0..Handlers
      BY <3>1, HandlersAssumption DEF Runs
    <3>3. Current(d) \in Events
      BY <2>6, CurrentEvent DEF CallHandler
    <3>4. disp' = [disp EXCEPT ![d].handler = h]
      BY <2>6 DEF CallHandler
    <3>5. [disp[d] EXCEPT !.handler = h] \in Runs
      <4> HIDE DEF h
      <4>1. QED
        BY <3>1, <3>2 DEF Runs
    <3>6. /\ disp' \in [Dispatchers -> Runs]
          /\ \A c \in Dispatchers : disp'[c].done <= Len(disp'[c].batch)
      <4> HIDE DEF h
      <4>1. QED
        BY <3>1, <3>4, <3>5 DEF TypeOK, Runs
    <3>7. called' \in [Events -> SUBSET (1..Handlers)]
      <4>1. called' = [called EXCEPT ![Current(d)] = @ \cup {h}]
        BY <2>6 DEF CallHandler
      <4> HIDE DEF h
      <4>2. QED
        BY <3>2, <3>3, <4>1 DEF TypeOK
    <3>8. handled' \in [Events -> SUBSET (1..Handlers)]
      <4>1. handled' = [handled EXCEPT ![Current(d)] = @ \cup {h}] \/ handled' = handled
        BY <2>6 DEF CallHandler
      <4> HIDE DEF h
      <4>2. QED
        BY <3>2, <3>3, <4>1 DEF TypeOK
    <3>9. QED
      BY <2>6, <3>6, <3>7, <3>8 DEF CallHandler, tableVars, TypeOK
  <2>7. ASSUME NEW d \in Dispatchers, PublishReturns(d)
        PROVE  TypeOK'
    <3>1. disp[d] \in Runs /\ disp[d].done + 1 \in 1..Len(disp[d].batch) /\ Current(d) \in Events
      BY <2>7, CurrentEvent DEF PublishReturns, TypeOK
    <3> DEFINE more == disp[d].done + 1
               new == [disp[d] EXCEPT !.done = more, !.handler = 0]
    <3>2. /\ new \in Runs
          /\ new.done = more
          /\ new.batch = disp[d].batch
      <4>1. more \in Nat /\ 0 \in 0..Handlers
        BY <3>1, HandlersAssumption DEF Runs
      <4> HIDE DEF more
      <4>2. QED
        BY <3>1, <4>1 DEF Runs
    <3>3. disp' = [disp EXCEPT ![d] = new]
      BY <2>7 DEF PublishReturns, TypeOK
    <3>4. /\ disp' \in [Dispatchers -> Runs]
          /\ \A c \in Dispatchers : disp'[c].done <= Len(disp'[c].batch)
      <4> HIDE DEF new
      <4>1. QED
        BY <3>1, <3>2, <3>3 DEF TypeOK
    <3>5. published' \in [Events -> Nat]
      BY <2>7, <3>1 DEF PublishReturns, TypeOK
    <3>6. QED
      BY <2>7, <3>4, <3>5 DEF PublishReturns, tableVars, TypeOK
  <2>8. ASSUME NEW d \in Dispatchers, MarkPublished(d)
        PROVE  TypeOK'
    <3>1. InBatch(d) \subseteq Events
      BY DEF TypeOK, Runs, InBatch
    <3>2. QED
      BY <2>8, <3>1, EndRunType DEF MarkPublished, tableVars, busVars, TypeOK
  <2>9. ASSUME NEW d \in Dispatchers, RunFails(d)
        PROVE  TypeOK'
    <3>1. failures' \in 0..MaxFailures
      BY <2>9, BoundsAssumption DEF RunFails, TypeOK
    <3>2. QED
      BY <2>9, <3>1, EndRunType DEF RunFails, tableVars, busVars, TypeOK
  <2>10. CASE UNCHANGED vars
    BY <2>10 DEF vars, TypeOK
  <2>11. QED
    BY <2>1, <2>2, <2>3, <2>4, <2>5, <2>6, <2>7, <2>8, <2>9, <2>10 DEF Next, Produce, Dispatch
<1>3. QED
  BY <1>1, <1>2, PTL DEF Spec

-----------------------------------------------------------------------------
(***************************************************************************)
(* The inductive invariant.                                                *)
(***************************************************************************)
\* Commits are numbered, and only a stamped event is written.
CommitInv ==
    \A e \in Events :
        /\ written[e] <= commits
        /\ written[e] # NotCommitted => createdAt[e] > 0

\* A run works on committed events, and has published the first `done` of them.
BatchInv ==
    \A d \in Dispatchers : \A i \in 1..Len(disp[d].batch) :
        /\ disp[d].batch[i] \in Stored
        /\ i <= disp[d].done => published[disp[d].batch[i]] > 0

MarkInv ==
    /\ \A e \in Events : published[e] > 0 => e \in Stored
    /\ \A e \in marked : published[e] > 0

\* What must be published before f.
Before(e, f) == createdAt[e] < createdAt[f] /\ written[e] <= written[f]

\* Whatever must be published before an event of a batch is published, or comes
\* before it in the batch.
OrderInv ==
    \A d \in Dispatchers, e \in Stored : \A j \in 1..Len(disp[d].batch) :
        Before(e, disp[d].batch[j]) =>
            published[e] > 0 \/ \E i \in 1..Len(disp[d].batch) : i < j /\ disp[d].batch[i] = e

OutboxInv == CommitInv /\ BatchInv /\ MarkInv /\ OrderInv /\ OldestFirst

\* A step that leaves the tables and the bus alone, and only ends or keeps runs.
LEMMA RunsKept ==
    ASSUME TypeOK, OutboxInv,
           written' = written, createdAt' = createdAt, commits' = commits,
           published' = published,
           \A e \in marked' : published[e] > 0,
           \A d \in Dispatchers :
               \/ /\ disp'[d].batch = disp[d].batch
                  /\ disp'[d].done = disp[d].done
               \/ disp'[d] = NoRun
    PROVE  OutboxInv'
<1>1. Stored' = Stored
  BY DEF Stored
<1>2. Len(NoRun.batch) = 0
  BY NoRunIsRun
<1>3. \A d \in Dispatchers : disp[d].done \in Nat /\ Len(disp[d].batch) \in Nat
  BY DEF TypeOK, Runs
<1>4. BatchInv'
  BY <1>1, <1>2, <1>3 DEF OutboxInv, BatchInv
<1>5. OrderInv'
  BY <1>1, <1>2, <1>3 DEF OutboxInv, OrderInv, Before
<1>6. QED
  BY <1>1, <1>4, <1>5 DEF OutboxInv, CommitInv, MarkInv, OldestFirst

LEMMA InitOutboxInv == Init => OutboxInv
<1> SUFFICES ASSUME Init
             PROVE  OutboxInv
  OBVIOUS
<1>1. \A d \in Dispatchers : Len(disp[d].batch) = 0
  BY NoRunIsRun DEF Init
<1>2. Stored = {}
  BY DEF Init, Stored, NotCommitted
<1>3. QED
  BY <1>1, <1>2
     DEF Init, NotCommitted, OutboxInv, CommitInv, BatchInv, MarkInv, OrderInv, OldestFirst

LEMMA OutboxInductive == TypeOK /\ OutboxInv /\ [Next]_vars => OutboxInv'
<1> SUFFICES ASSUME TypeOK, OutboxInv, [Next]_vars
             PROVE  OutboxInv'
  OBVIOUS
<1>a. /\ \A e \in Events : /\ createdAt[e] \in Nat
                           /\ published[e] \in Nat
                           /\ written[e] \in Int
      /\ commits \in Nat
      /\ \A d \in Dispatchers : /\ disp[d].batch \in Seq(Events)
                                /\ disp[d].done \in Nat
                                /\ Len(disp[d].batch) \in Nat
  BY DEF TypeOK, Runs, RolledBack
<1>b. \A d \in Dispatchers : \A i \in 1..Len(disp[d].batch) : disp[d].batch[i] \in Events
  BY <1>a
<1>1. CASE Tick
  BY <1>1, RunsKept DEF Tick, busVars, OutboxInv, MarkInv
<1>2. ASSUME NEW e \in Events, CreateEvent(e)
      PROVE  OutboxInv'
  <2>1. /\ createdAt[e] = 0
        /\ createdAt' = [createdAt EXCEPT ![e] = now]
        /\ now > 0
        /\ UNCHANGED <<written, commits, marked, disp, published>>
    BY <1>2 DEF CreateEvent, busVars, TypeOK
  <2>2. Stored' = Stored
    BY <2>1 DEF Stored
  <2>3. ASSUME NEW f \in Stored
        PROVE  createdAt'[f] = createdAt[f] /\ f # e
    <3>1. f \in Events /\ written[f] # NotCommitted
      BY DEF Stored, NotCommitted
    <3>2. createdAt[f] > 0
      BY <3>1 DEF OutboxInv, CommitInv
    <3>3. f # e
      BY <2>1, <3>2
    <3>4. QED
      BY <2>1, <3>1, <3>3 DEF TypeOK
  <2>4. CommitInv'
    BY <1>a, <2>1 DEF OutboxInv, CommitInv, TypeOK
  <2>5. BatchInv' /\ MarkInv'
    BY <2>1, <2>2 DEF OutboxInv, BatchInv, MarkInv
  <2>6. OrderInv'
    BY <2>1, <2>2, <2>3 DEF OutboxInv, OrderInv, BatchInv, Before
  <2>7. OldestFirst'
    BY <2>1, <2>2, <2>3 DEF OutboxInv, OldestFirst
  <2>8. QED
    BY <2>4, <2>5, <2>6, <2>7 DEF OutboxInv
<1>3. ASSUME NEW batch \in SUBSET Events, CommitEvents(batch)
      PROVE  OutboxInv'
  <2>1. /\ \A e \in batch : createdAt[e] > 0 /\ written[e] = 0
        /\ commits' = commits + 1
        /\ written' = [e \in Events |-> IF e \in batch THEN commits + 1 ELSE written[e]]
        /\ UNCHANGED <<createdAt, marked, disp, published>>
    BY <1>3 DEF CommitEvents, busVars, NotCommitted
  <2>2. Stored' = Stored \cup batch
    BY <1>a, <2>1 DEF Stored
  <2>3. /\ \A e \in Stored : written'[e] = written[e] /\ written[e] <= commits
        /\ \A e \in batch : written'[e] = commits + 1 /\ published[e] = 0
    BY <1>a, <2>1 DEF OutboxInv, CommitInv, MarkInv, Stored
  <2>4. CommitInv'
    BY <1>a, <2>1 DEF OutboxInv, CommitInv
  <2>5. BatchInv' /\ MarkInv'
    BY <2>1, <2>2 DEF OutboxInv, BatchInv, MarkInv
  <2>6. \A e \in Stored', f \in Stored : Before(e, f)' => e \in Stored /\ Before(e, f)
    BY <1>a, <2>1, <2>2, <2>3 DEF Before, Stored
  <2>7. OrderInv'
    BY <2>1, <2>2, <2>6 DEF OutboxInv, OrderInv, BatchInv
  <2>8. OldestFirst'
    <3> SUFFICES ASSUME NEW e \in Stored', NEW f \in Stored',
                        Before(e, f)', published[f] > 0
                 PROVE  published[e] > 0
      BY <2>1 DEF OldestFirst, Before
    <3>1. f \in Stored
      BY <2>2, <2>3
    <3>2. e \in Stored /\ Before(e, f)
      BY <2>6, <3>1
    <3>3. QED
      BY <3>1, <3>2 DEF OutboxInv, OldestFirst, Before
  <2>9. QED
    BY <2>4, <2>5, <2>7, <2>8 DEF OutboxInv
<1>4. ASSUME NEW batch \in SUBSET Events, RollBackEvents(batch)
      PROVE  OutboxInv'
  <2>1. /\ \A e \in batch : createdAt[e] > 0 /\ written[e] = 0
        /\ written' = [e \in Events |-> IF e \in batch THEN -1 ELSE written[e]]
        /\ UNCHANGED <<createdAt, commits, marked, disp, published>>
    BY <1>4 DEF RollBackEvents, busVars, NotCommitted, RolledBack
  <2>2. Stored' = Stored /\ \A e \in Stored : written'[e] = written[e]
    BY <1>a, <2>1 DEF Stored
  <2>3. CommitInv'
    BY <1>a, <2>1 DEF OutboxInv, CommitInv
  <2>4. BatchInv' /\ MarkInv'
    BY <2>1, <2>2 DEF OutboxInv, BatchInv, MarkInv
  <2>5. \A e, f \in Stored : Before(e, f)' <=> Before(e, f)
    BY <2>1, <2>2 DEF Before
  <2>6. OrderInv'
    BY <2>1, <2>2, <2>5 DEF OutboxInv, OrderInv, BatchInv
  <2>7. OldestFirst'
    BY <2>1, <2>2 DEF OutboxInv, OldestFirst
  <2>8. QED
    BY <2>3, <2>4, <2>6, <2>7 DEF OutboxInv
<1>5. ASSUME NEW d \in Dispatchers, Fetch(d)
      PROVE  OutboxInv'
  <2>1. PICK batch \in Seq(Unpublished) :
          /\ Fetched(batch)
          /\ disp' = [disp EXCEPT ![d] = [batch |-> batch, done |-> 0, handler |-> 0]]
    BY <1>5, FetchResult
  <2>2. /\ UNCHANGED <<createdAt, written, commits, marked, published>>
        /\ Stored' = Stored
    BY <1>5 DEF Fetch, tableVars, busVars, Stored
  <2>3. /\ disp'[d].batch = batch
        /\ disp'[d].done = 0
        /\ \A c \in Dispatchers : c # d => disp'[c] = disp[c]
    BY <2>1 DEF TypeOK
  <2>4. Len(batch) \in Nat /\ \A i \in 1..Len(batch) : batch[i] \in Stored
    BY DEF Unpublished
  <2>5. BatchInv'
    BY <2>2, <2>3, <2>4 DEF OutboxInv, BatchInv
  <2>6. ASSUME NEW j \in 1..Len(batch), NEW e \in Stored, Before(e, batch[j])
        PROVE  published[e] > 0 \/ \E i \in 1..Len(batch) : i < j /\ batch[i] = e
    <3>1. createdAt[e] < createdAt[batch[j]] /\ createdAt[e] \in Nat /\ createdAt[batch[j]] \in Nat
      BY <1>a, <2>4, <2>6 DEF Before, Stored
    <3>2. CASE e \in marked
      BY <3>2 DEF OutboxInv, MarkInv
    <3>3. CASE e \notin marked
      <4>1. e \in Unpublished
        BY <3>3 DEF Unpublished
      <4>2. PICK i \in 1..Len(batch) : batch[i] = e
        BY <2>1, <3>1, <4>1 DEF Fetched, IsOldest
      <4>3. ~(j < i) /\ i # j
        BY <2>1, <3>1, <4>2 DEF Fetched, IsOrdered
      <4>4. QED
        BY <2>4, <4>2, <4>3
    <3>4. QED
      BY <3>2, <3>3
  <2>7. OrderInv'
    BY <2>2, <2>3, <2>6 DEF OutboxInv, OrderInv, Before
  <2>8. CommitInv' /\ MarkInv' /\ OldestFirst'
    BY <2>2 DEF OutboxInv, CommitInv, MarkInv, OldestFirst
  <2>9. QED
    BY <2>5, <2>7, <2>8 DEF OutboxInv
<1>6. ASSUME NEW d \in Dispatchers, CallHandler(d)
      PROVE  OutboxInv'
  <2>1. \A c \in Dispatchers :
            disp'[c].batch = disp[c].batch /\ disp'[c].done = disp[c].done
    BY <1>6 DEF CallHandler, TypeOK, Runs
  <2>2. QED
    BY <1>6, <2>1, RunsKept DEF CallHandler, tableVars, OutboxInv, MarkInv
<1>7. ASSUME NEW d \in Dispatchers, PublishReturns(d)
      PROVE  OutboxInv'
  <2> DEFINE f == Current(d)
             pos == disp[d].done + 1
  <2>1. /\ pos \in 1..Len(disp[d].batch)
        /\ f = disp[d].batch[pos]
        /\ f \in Stored
        /\ f \in Events
    BY <1>7, CurrentEvent DEF PublishReturns, Current, OutboxInv, BatchInv
  <2>2. /\ UNCHANGED <<createdAt, written, commits, marked>>
        /\ Stored' = Stored
    BY <1>7 DEF PublishReturns, tableVars, Stored
  <2>3. /\ published'[f] > 0
        /\ \A e \in Events : published[e] > 0 => published'[e] > 0
        /\ \A e \in Events : e # f => published'[e] = published[e]
    <3>1. published' = [published EXCEPT ![f] = published[f] + 1]
      BY <1>7 DEF PublishReturns
    <3>2. f \in Events
      BY <2>1
    <3> HIDE DEF f
    <3>3. QED
      BY <1>a, <3>1, <3>2 DEF TypeOK
  <2>4. /\ disp'[d].batch = disp[d].batch
        /\ disp'[d].done = pos
        /\ \A c \in Dispatchers : c # d => disp'[c] = disp[c]
    BY <1>7 DEF PublishReturns, TypeOK, Runs
  <2>5. \A e \in Stored : Before(e, f) => published[e] > 0
    <3> SUFFICES ASSUME NEW e \in Stored, Before(e, f), ~(published[e] > 0)
                 PROVE  FALSE
      OBVIOUS
    <3>1. PICK i \in 1..Len(disp[d].batch) : i < pos /\ disp[d].batch[i] = e
      BY <2>1 DEF OutboxInv, OrderInv
    <3>2. i <= disp[d].done
      BY <1>a, <3>1
    <3>3. QED
      BY <3>1, <3>2 DEF OutboxInv, BatchInv
  <2> HIDE DEF f, pos
  <2>6. BatchInv'
    <3> SUFFICES ASSUME NEW c \in Dispatchers,
                        NEW i \in 1..Len(disp[c].batch)
                 PROVE  /\ disp[c].batch[i] \in Stored
                        /\ i <= disp'[c].done => published'[disp[c].batch[i]] > 0
      BY <2>2, <2>4 DEF BatchInv
    <3>1. disp[c].batch[i] \in Stored /\ disp[c].batch[i] \in Events
      BY <1>b DEF OutboxInv, BatchInv
    <3>2. CASE c = d /\ i = pos
      BY <2>1, <2>3, <3>1, <3>2
    <3>3. CASE ~(c = d /\ i = pos)
      <4>1. i <= disp'[c].done => i <= disp[c].done
        <5>1. CASE c # d
          BY <2>4, <5>1
        <5>2. CASE c = d
          <6>1. disp'[c].done = disp[c].done + 1 /\ i # disp[c].done + 1
            BY <2>4, <3>3, <5>2 DEF pos
          <6>2. QED
            BY <1>a, <6>1
        <5>3. QED
          BY <5>1, <5>2
      <4>2. QED
        BY <2>3, <3>1, <4>1 DEF OutboxInv, BatchInv
    <3>4. QED
      BY <3>2, <3>3
  <2>7. MarkInv'
    BY <2>1, <2>2, <2>3 DEF OutboxInv, MarkInv, TypeOK
  <2>8. OrderInv'
    BY <2>2, <2>3, <2>4 DEF OutboxInv, OrderInv, Before, Stored
  <2>9. OldestFirst'
    BY <2>1, <2>2, <2>3, <2>5 DEF OutboxInv, OldestFirst, Before, Stored
  <2>10. CommitInv'
    BY <2>2 DEF OutboxInv, CommitInv
  <2>11. QED
    BY <2>6, <2>7, <2>8, <2>9, <2>10 DEF OutboxInv
<1>8. ASSUME NEW d \in Dispatchers, MarkPublished(d)
      PROVE  OutboxInv'
  <2>1. \A e \in InBatch(d) : published[e] > 0
    BY <1>8, <1>a DEF MarkPublished, InBatch, OutboxInv, BatchInv
  <2>2. \A e \in marked' : published[e] > 0
    BY <1>8, <2>1 DEF MarkPublished, OutboxInv, MarkInv
  <2>3. \A c \in Dispatchers : disp'[c] = disp[c] \/ disp'[c] = NoRun
    BY <1>8 DEF MarkPublished, TypeOK
  <2>4. QED
    BY <1>8, <2>2, <2>3, RunsKept DEF MarkPublished, tableVars, busVars
<1>9. ASSUME NEW d \in Dispatchers, RunFails(d)
      PROVE  OutboxInv'
  <2>1. \A c \in Dispatchers : disp'[c] = disp[c] \/ disp'[c] = NoRun
    BY <1>9 DEF RunFails, TypeOK
  <2>2. QED
    BY <1>9, <2>1, RunsKept DEF RunFails, tableVars, busVars, OutboxInv, MarkInv
<1>10. CASE UNCHANGED vars
  BY <1>10, RunsKept DEF vars, OutboxInv, MarkInv
<1>11. QED
  BY <1>1, <1>2, <1>3, <1>4, <1>5, <1>6, <1>7, <1>8, <1>9, <1>10 DEF Next, Produce, Dispatch

LEMMA OutboxInvariant == Spec => []OutboxInv
<1>1. QED
  BY InitOutboxInv, OutboxInductive, TypeCorrect, PTL DEF Spec

\* However runs overlap and fail, an event is first published only after the older
\* ones committed no later than it.
THEOREM DeliveredOldestFirst == Spec => []OldestFirst
<1>1. QED
  BY OutboxInvariant, PTL DEF OutboxInv

\* The dispatchers deliver committed events only, and mark delivered events only.
THEOREM Refinement == Spec => ImplementsAtLeastOnce
<1>1. Init => AtLeastOnce!Init
  BY DEF Init, AtLeastOnce!Init, Stored, NotCommitted
<1>2. TypeOK /\ OutboxInv /\ [Next]_vars => [AtLeastOnce!Next]_(AtLeastOnce!vars)
  <2> SUFFICES ASSUME TypeOK, OutboxInv, [Next]_vars
               PROVE  [AtLeastOnce!Next]_(AtLeastOnce!vars)
    OBVIOUS
  <2> DEFINE delivered == {e \in Events : published[e] > 0}
  <2>1. ASSUME NEW batch \in SUBSET Events, CommitEvents(batch)
        PROVE  AtLeastOnce!Commit(batch)
    <3>1. Stored' = Stored \cup batch /\ batch \cap Stored = {}
      BY <2>1 DEF CommitEvents, Stored, NotCommitted, TypeOK
    <3>2. delivered' = delivered /\ marked' = marked
      BY <2>1 DEF CommitEvents, busVars
    <3>3. QED
      BY <3>1, <3>2 DEF AtLeastOnce!Commit
  <2>2. ASSUME NEW d \in Dispatchers, PublishReturns(d)
        PROVE  \E e \in Events : AtLeastOnce!Deliver(e)
    <3>1. Current(d) \in Events /\ Current(d) \in Stored
      BY <2>2, CurrentEvent DEF PublishReturns, Current, OutboxInv, BatchInv
    <3>2. delivered' = delivered \cup {Current(d)}
      BY <2>2, <3>1 DEF PublishReturns, TypeOK
    <3>3. Stored' = Stored /\ marked' = marked
      BY <2>2 DEF PublishReturns, tableVars, Stored
    <3>4. QED
      BY <3>1, <3>2, <3>3 DEF AtLeastOnce!Deliver
  <2>3. ASSUME NEW d \in Dispatchers, MarkPublished(d)
        PROVE  InBatch(d) \in SUBSET Events /\ AtLeastOnce!Retire(InBatch(d))
    <3>1. /\ disp[d].batch \in Seq(Events)
          /\ disp[d].done = Len(disp[d].batch)
      BY <2>3 DEF MarkPublished, TypeOK, Runs
    <3>2. InBatch(d) \subseteq delivered
      BY <3>1 DEF InBatch, OutboxInv, BatchInv
    <3>3. /\ Stored' = Stored
          /\ delivered' = delivered
          /\ marked' = marked \cup InBatch(d)
      BY <2>3 DEF MarkPublished, tableVars, busVars, Stored
    <3>4. QED
      BY <3>2, <3>3 DEF AtLeastOnce!Retire
  <2>4. ASSUME NEW batch \in SUBSET Events, RollBackEvents(batch)
        PROVE  UNCHANGED <<Stored, delivered, marked>>
    <3>1. Stored' = Stored
      BY <2>4 DEF RollBackEvents, Stored, NotCommitted, RolledBack, TypeOK
    <3>2. QED
      BY <2>4, <3>1 DEF RollBackEvents, busVars
  <2>5. CASE UNCHANGED <<written, published, marked>>
    BY <2>5 DEF Stored, AtLeastOnce!vars
  <2>6. QED
    BY <2>1, <2>2, <2>3, <2>4, <2>5
       DEF Next, Produce, Dispatch, vars, AtLeastOnce!Next, AtLeastOnce!vars, tableVars, busVars,
           Tick, CreateEvent, Fetch, CallHandler, RunFails
<1>3. QED
  BY <1>1, <1>2, TypeCorrect, OutboxInvariant, PTL
     DEF Spec, ImplementsAtLeastOnce, AtLeastOnce!Spec

-----------------------------------------------------------------------------
\* The handlers a run has gone through were called with the event it publishes.
CallInv ==
    /\ EverySubscriberCalled
    /\ \A d \in Dispatchers :
          disp[d].handler > 0 =>
              /\ disp[d].done < Len(disp[d].batch)
              /\ 1..disp[d].handler \subseteq called[Current(d)]

\* "One bad subscriber never stops delivery to the others."
THEOREM EverySubscriberIsCalled == Spec => []EverySubscriberCalled
<1>1. Init => CallInv
  BY DEF Init, CallInv, EverySubscriberCalled, NoRun
<1>2. TypeOK /\ CallInv /\ [Next]_vars => CallInv'
  <2> SUFFICES ASSUME TypeOK, CallInv, [Next]_vars
               PROVE  CallInv'
    OBVIOUS
  <2>a. \A d \in Dispatchers : /\ disp[d] \in Runs
                               /\ disp[d].handler \in 0..Handlers
    BY DEF TypeOK, Runs
  <2>1. ASSUME NEW d \in Dispatchers, Fetch(d) \/ MarkPublished(d) \/ RunFails(d)
        PROVE  CallInv'
    <3>1. PICK r \in {disp'[d]} : disp' = [disp EXCEPT ![d] = r] /\ r.handler = 0
      <4>1. CASE Fetch(d)
        BY <4>1, FetchResult DEF TypeOK
      <4>2. CASE MarkPublished(d) \/ RunFails(d)
        BY <4>2 DEF MarkPublished, RunFails, NoRun, TypeOK
      <4>3. QED
        BY <2>1, <4>1, <4>2
    <3>2. disp'[d].handler = 0 /\ \A c \in Dispatchers : c # d => disp'[c] = disp[c]
      BY <3>1 DEF TypeOK
    <3>3. UNCHANGED <<published, called>>
      BY <2>1 DEF Fetch, MarkPublished, RunFails, busVars
    <3>4. QED
      BY <3>2, <3>3 DEF CallInv, EverySubscriberCalled, Current
  <2>2. ASSUME NEW d \in Dispatchers, CallHandler(d)
        PROVE  CallInv'
    <3> DEFINE h == disp[d].handler + 1
    <3>1. /\ disp'[d].handler = h
          /\ disp'[d].batch = disp[d].batch
          /\ disp'[d].done = disp[d].done
          /\ \A c \in Dispatchers : c # d => disp'[c] = disp[c]
      BY <2>2 DEF CallHandler, TypeOK, Runs
    <3>2. /\ disp[d].done < Len(disp[d].batch)
          /\ disp[d].handler < Handlers
          /\ called' = [called EXCEPT ![Current(d)] = @ \cup {h}]
          /\ published' = published
      BY <2>2 DEF CallHandler
    <3>3. Current(d) \in Events
      BY <3>2, CurrentEvent
    <3>4. h \in 1..Handlers /\ 1..h = (1..disp[d].handler) \cup {h}
      BY <2>a, <3>2, HandlersAssumption
    <3>5. 1..disp[d].handler \subseteq called[Current(d)]
      BY <2>a DEF CallInv
    <3> HIDE DEF h
    <3>6. 1..h \subseteq called'[Current(d)]
      BY <3>2, <3>3, <3>4, <3>5 DEF TypeOK
    <3>7. \A e \in Events : called[e] \subseteq called'[e] /\ called'[e] \subseteq called[e] \cup {h}
      BY <3>2, <3>3 DEF TypeOK
    <3>8. EverySubscriberCalled'
      BY <3>2, <3>4, <3>7 DEF CallInv, EverySubscriberCalled
    <3>9. ASSUME NEW c \in Dispatchers, disp'[c].handler > 0
          PROVE  /\ disp'[c].done < Len(disp'[c].batch)
                 /\ 1..disp'[c].handler \subseteq called'[Current(c)']
      <4>1. CASE c = d
        BY <3>1, <3>2, <3>6, <4>1 DEF Current
      <4>2. CASE c # d
        <5>1. Current(c) \in Events /\ disp'[c] = disp[c]
          BY <3>1, <3>9, <4>2, CurrentEvent DEF CallInv
        <5>2. QED
          BY <3>7, <3>9, <5>1 DEF CallInv, Current
      <4>3. QED
        BY <4>1, <4>2
    <3>10. QED
      BY <3>8, <3>9 DEF CallInv
  <2>3. ASSUME NEW d \in Dispatchers, PublishReturns(d)
        PROVE  CallInv'
    <3>1. /\ disp[d].done < Len(disp[d].batch)
          /\ disp[d].handler = Handlers
          /\ called' = called
          /\ published' = [published EXCEPT ![Current(d)] = @ + 1]
      BY <2>3 DEF PublishReturns
    <3>2. Current(d) \in Events
      BY <3>1, CurrentEvent
    <3>3. called[Current(d)] = 1..Handlers
      <4>1. 1..Handlers \subseteq called[Current(d)]
        BY <3>1, HandlersAssumption DEF CallInv
      <4>2. QED
        BY <3>2, <4>1 DEF TypeOK
    <3>4. EverySubscriberCalled'
      BY <3>1, <3>2, <3>3 DEF CallInv, EverySubscriberCalled, TypeOK
    <3>5. disp'[d].handler = 0 /\ \A c \in Dispatchers : c # d => disp'[c] = disp[c]
      BY <2>3, <2>a DEF PublishReturns, TypeOK, Runs
    <3>6. QED
      BY <3>1, <3>4, <3>5 DEF CallInv, Current
  <2>4. CASE UNCHANGED <<disp, published, called>>
    BY <2>4 DEF CallInv, EverySubscriberCalled, Current
  <2>5. QED
    BY <2>1, <2>2, <2>3, <2>4
       DEF Next, Produce, Dispatch, vars, busVars, Tick, CreateEvent, CommitEvents, RollBackEvents
<1>3. CallInv => EverySubscriberCalled
  BY DEF CallInv
<1>4. QED
  BY <1>1, <1>2, <1>3, TypeCorrect, PTL DEF Spec
-----------------------------------------------------------------------------
(***************************************************************************)
(* How often an event is published.  Each publication of an event that is  *)
(* not marked belongs to a run that failed or to one that still has it     *)
(* behind it; once the event is marked, only the runs that have it ahead   *)
(* of them may publish it, and no other ever gets it.                      *)
(***************************************************************************)
Behind(e) ==
    {d \in Dispatchers : \E i \in 1..Len(disp[d].batch) :
        i <= disp[d].done /\ disp[d].batch[i] = e}

Ahead(e) ==
    {d \in Dispatchers : \E i \in 1..Len(disp[d].batch) :
        i > disp[d].done /\ disp[d].batch[i] = e}

\* The runs one publication of e each is put down to.
Counted(e) == IF e \in marked THEN Dispatchers \ Ahead(e) ELSE Behind(e)

CountInv ==
    /\ \A d \in Dispatchers : NoRepeats(disp[d].batch)
    /\ \A e \in Events : published[e] <= failures + Cardinality(Counted(e))

\* The sets the counts range over grow and shrink by at most one run in a step.
LEMMA CountGrows ==
    ASSUME NEW S \in SUBSET Dispatchers, NEW T \in SUBSET Dispatchers
    PROVE  /\ Cardinality(S) \in Nat
           /\ S \subseteq T => Cardinality(S) <= Cardinality(T)
           /\ \A d \in T : d \notin S /\ S \subseteq T => Cardinality(S) + 1 <= Cardinality(T)
           /\ \A d \in Dispatchers : S \subseteq T \cup {d} => Cardinality(S) <= Cardinality(T) + 1
<1>1. IsFiniteSet(S) /\ IsFiniteSet(T)
  BY DispatchersAssumption, FS_Subset
<1>2. Cardinality(S) \in Nat /\ Cardinality(T) \in Nat
  BY <1>1, FS_CardinalityType
<1>3. S \subseteq T => Cardinality(S) <= Cardinality(T)
  BY <1>1, FS_Subset
<1>4. ASSUME NEW d \in T, d \notin S, S \subseteq T
      PROVE  Cardinality(S) + 1 <= Cardinality(T)
  <2>1. IsFiniteSet(S \cup {d}) /\ Cardinality(S \cup {d}) = Cardinality(S) + 1
    BY <1>1, <1>4, FS_AddElement
  <2>2. S \cup {d} \subseteq T
    BY <1>4
  <2>3. Cardinality(S \cup {d}) <= Cardinality(T)
    BY <1>1, <2>2, FS_Subset
  <2>4. QED
    BY <2>1, <2>3
<1>5. ASSUME NEW d \in Dispatchers, S \subseteq T \cup {d}
      PROVE  Cardinality(S) <= Cardinality(T) + 1
  <2>1. /\ IsFiniteSet(T \cup {d})
        /\ Cardinality(T \cup {d}) = Cardinality(T) \/ Cardinality(T \cup {d}) = Cardinality(T) + 1
    BY <1>1, FS_AddElement
  <2>2. Cardinality(S) <= Cardinality(T \cup {d})
    BY <1>5, <2>1, FS_Subset
  <2>3. QED
    BY <1>2, <2>1, <2>2
<1>6. QED
  BY <1>2, <1>3, <1>4, <1>5

\* With an injective batch, an event is not both behind and ahead of a run.
LEMMA BehindNotAhead ==
    ASSUME TypeOK, CountInv, NEW e
    PROVE  Behind(e) \cap Ahead(e) = {}
<1> SUFFICES ASSUME NEW d \in Dispatchers, d \in Behind(e), d \in Ahead(e)
             PROVE  FALSE
  BY DEF Behind
<1>1. PICK i \in 1..Len(disp[d].batch) : i <= disp[d].done /\ disp[d].batch[i] = e
  BY DEF Behind
<1>2. PICK j \in 1..Len(disp[d].batch) : j > disp[d].done /\ disp[d].batch[j] = e
  BY DEF Ahead
<1>3. i = j
  BY <1>1, <1>2 DEF CountInv, NoRepeats
<1>4. disp[d].done \in Nat /\ Len(disp[d].batch) \in Nat
  BY DEF TypeOK, Runs
<1>5. QED
  BY <1>1, <1>2, <1>3, <1>4

\* A run that ends, or has not begun, has nothing behind or ahead of it.
LEMMA NothingInNoRun ==
    ASSUME NEW d \in Dispatchers, disp[d] = NoRun
    PROVE  \A e : d \notin Behind(e) /\ d \notin Ahead(e)
BY NoRunIsRun DEF Behind, Ahead

\* It is enough that an event's count keeps up with its publications.
LEMMA CountInductive == TypeOK /\ OutboxInv /\ CountInv /\ [Next]_vars => CountInv'
<1> SUFFICES ASSUME TypeOK, OutboxInv, CountInv, [Next]_vars
             PROVE  CountInv'
  OBVIOUS
<1>a. /\ \A e \in Events : published[e] \in Nat
      /\ failures \in Nat
      /\ \A d \in Dispatchers : /\ disp[d].batch \in Seq(Events)
                                /\ disp[d].done \in Nat
                                /\ Len(disp[d].batch) \in Nat
  BY BoundsAssumption DEF TypeOK, Runs
<1>b. \A e \in Events : published[e] <= failures + Cardinality(Counted(e))
  BY DEF CountInv
<1>c. Len(NoRun.batch) = 0 /\ NoRepeats(NoRun.batch)
  BY NoRunIsRun DEF NoRepeats
<1>1. ASSUME UNCHANGED <<marked, published, failures>>,
             \A d \in Dispatchers : disp'[d].batch = disp[d].batch /\ disp'[d].done = disp[d].done
      PROVE  CountInv'
  <2>1. \A e \in Events : Behind(e)' = Behind(e) /\ Ahead(e)' = Ahead(e)
    BY <1>1 DEF Behind, Ahead
  <2>2. \A e \in Events : Counted(e)' = Counted(e)
    BY <1>1, <2>1 DEF Counted
  <2>3. QED
    BY <1>1, <2>2 DEF CountInv
<1>2. ASSUME NEW d \in Dispatchers, Fetch(d)
      PROVE  CountInv'
  <2>1. PICK batch \in Seq(Unpublished) :
          /\ Fetched(batch)
          /\ disp' = [disp EXCEPT ![d] = [batch |-> batch, done |-> 0, handler |-> 0]]
    BY <1>2, FetchResult
  <2>2. /\ disp'[d].batch = batch
        /\ disp'[d].done = 0
        /\ \A c \in Dispatchers : c # d => disp'[c] = disp[c]
    BY <2>1 DEF TypeOK
  <2>3. UNCHANGED <<marked, published, failures>> /\ disp[d] = NoRun
    BY <1>2 DEF Fetch, busVars
  <2>4. Len(batch) \in Nat /\ \A i \in 1..Len(batch) : batch[i] \notin marked
    BY DEF Unpublished
  <2>5. ASSUME NEW e \in Events
        PROVE  Counted(e)' = Counted(e)
    <3>1. Behind(e)' = Behind(e)
      <4>1. d \notin Behind(e)
        BY <2>3, NothingInNoRun
      <4>a. d \notin Behind(e)'
        BY <2>2, <2>4 DEF Behind
      <4>2. \A c \in Dispatchers : c # d => (c \in Behind(e)' <=> c \in Behind(e))
        BY <2>2 DEF Behind
      <4>3. QED
        BY <4>1, <4>a, <4>2 DEF Behind
    <3>2. CASE e \in marked
      <4>1. d \notin Ahead(e)
        BY <2>3, NothingInNoRun
      <4>a. d \notin Ahead(e)'
        BY <2>2, <2>4, <3>2 DEF Ahead
      <4>2. \A c \in Dispatchers : c # d => (c \in Ahead(e)' <=> c \in Ahead(e))
        BY <2>2 DEF Ahead
      <4>3. Ahead(e)' = Ahead(e)
        BY <4>1, <4>a, <4>2 DEF Ahead
      <4>4. QED
        BY <2>3, <3>2, <4>3 DEF Counted
    <3>3. CASE e \notin marked
      BY <2>3, <3>1, <3>3 DEF Counted
    <3>4. QED
      BY <3>2, <3>3
  <2>6. \A c \in Dispatchers : NoRepeats(disp'[c].batch)
    <3>1. NoRepeats(batch)
      BY <2>1 DEF Fetched
    <3>a. \A c \in Dispatchers : NoRepeats(disp[c].batch)
      BY DEF CountInv
    <3>2. QED
      BY <2>2, <3>1, <3>a DEF NoRepeats
  <2>7. QED
    BY <2>3, <2>5, <2>6 DEF CountInv
<1>3. ASSUME NEW d \in Dispatchers, PublishReturns(d)
      PROVE  CountInv'
  <2>0. PICK f \in Events, pos \in 1..Len(disp[d].batch) :
            f = Current(d) /\ pos = disp[d].done + 1
    BY <1>3, CurrentEvent DEF PublishReturns
  <2>1. f = disp[d].batch[pos]
    BY <2>0 DEF Current
  <2>2. /\ disp'[d].batch = disp[d].batch
        /\ disp'[d].done = pos
        /\ \A c \in Dispatchers : c # d => disp'[c] = disp[c]
    BY <1>3, <2>0 DEF PublishReturns, TypeOK, Runs
  <2>3. UNCHANGED <<marked, failures>> /\ published' = [published EXCEPT ![f] = published[f] + 1]
    BY <1>3, <2>0 DEF PublishReturns, tableVars
  <2>4. pos > disp[d].done /\ pos \in Nat
    BY <1>a, <2>0
  <2>5. \A i \in 1..Len(disp[d].batch) : disp[d].batch[i] = f => i = pos
    BY <2>1 DEF CountInv, NoRepeats
  <2>6. \A i \in 1..Len(disp[d].batch) : i # pos => (i <= pos <=> i <= disp[d].done)
    BY <1>a, <2>0
  <2>7. \A c \in Dispatchers, e \in Events :
            c # d => /\ c \in Behind(e)' <=> c \in Behind(e)
                     /\ c \in Ahead(e)' <=> c \in Ahead(e)
    BY <2>2 DEF Behind, Ahead
  <2>8. ASSUME NEW e \in Events, e # f
        PROVE  Counted(e)' = Counted(e)
    <3>1. d \in Behind(e)' <=> d \in Behind(e)
      BY <2>1, <2>2, <2>6, <2>8 DEF Behind
    <3>2. d \in Ahead(e)' <=> d \in Ahead(e)
      <4>1. \A i \in 1..Len(disp[d].batch) : i # pos => (i > pos <=> i > disp[d].done)
        BY <1>a, <2>0
      <4>2. QED
        BY <2>1, <2>2, <2>8, <4>1 DEF Ahead
    <3>a. \A c \in Dispatchers : /\ c \in Behind(e)' <=> c \in Behind(e)
                                 /\ c \in Ahead(e)' <=> c \in Ahead(e)
      BY <2>7, <3>1, <3>2
    <3>3. Behind(e)' = Behind(e) /\ Ahead(e)' = Ahead(e)
      BY <3>a DEF Behind, Ahead
    <3>4. QED
      BY <2>3, <3>3 DEF Counted
  <2>a. pos <= pos /\ ~(pos > pos) /\ ~(pos <= disp[d].done)
    BY <1>a, <2>4
  <2>9. d \notin Behind(f) /\ d \in Ahead(f)
    BY <2>1, <2>4, <2>5, <2>a DEF Behind, Ahead
  <2>10. \E i \in 1..Len(disp'[d].batch) : i <= disp'[d].done /\ disp'[d].batch[i] = f
    BY <2>1, <2>2, <2>a
  <2>b. ~ \E i \in 1..Len(disp'[d].batch) : i > disp'[d].done /\ disp'[d].batch[i] = f
    BY <2>2, <2>5, <2>a
  <2>11. d \in Counted(f)' /\ d \notin Counted(f) /\ Counted(f) \subseteq Counted(f)'
    <3>1. d \in Behind(f)' /\ d \notin Ahead(f)'
      BY <2>10, <2>b DEF Behind, Ahead
    <3>2. Behind(f) \subseteq Behind(f)' /\ Ahead(f)' \subseteq Ahead(f)
      BY <2>7, <2>9, <3>1 DEF Behind, Ahead
    <3>3. QED
      BY <2>3, <2>9, <3>1, <3>2 DEF Counted
  <2>12. Cardinality(Counted(f)) + 1 <= Cardinality(Counted(f)')
    <3>1. Counted(f) \in SUBSET Dispatchers /\ Counted(f)' \in SUBSET Dispatchers
      BY DEF Counted, Behind
    <3> HIDE DEF Counted
    <3>2. QED
      BY <2>11, <3>1, CountGrows
  <2>13. \A e \in Events : published'[e] = IF e = f THEN published[e] + 1 ELSE published[e]
    BY <2>1, <2>3 DEF TypeOK
  <2>14. ASSUME NEW e \in Events
         PROVE  published'[e] <= failures + Cardinality(Counted(e)')
    <3>1. CASE e # f
      BY <1>b, <2>8, <2>13, <3>1
    <3>2. CASE e = f
      <4>1. Cardinality(Counted(f)) \in Nat /\ Cardinality(Counted(f)') \in Nat
        <5>1. Counted(f) \in SUBSET Dispatchers /\ Counted(f)' \in SUBSET Dispatchers
          BY DEF Counted, Behind
        <5>2. QED
          BY <5>1, CountGrows
      <4>2. published[f] <= failures + Cardinality(Counted(f))
        BY <1>b, <2>1
      <4>3. published'[f] = published[f] + 1 /\ published[f] \in Nat
        BY <1>a, <2>1, <2>13
      <4>4. QED
        BY <1>a, <2>12, <4>1, <4>2, <4>3, <3>2
    <3>3. QED
      BY <3>1, <3>2
  <2>15. \A c \in Dispatchers : NoRepeats(disp'[c].batch)
    BY <2>2 DEF CountInv
  <2>16. QED
    BY <2>3, <2>14, <2>15 DEF CountInv
<1>4. ASSUME NEW d \in Dispatchers, MarkPublished(d)
      PROVE  CountInv'
  <2>1. /\ disp'[d] = NoRun
        /\ \A c \in Dispatchers : c # d => disp'[c] = disp[c]
        /\ UNCHANGED <<published, failures>>
        /\ marked' = marked \cup InBatch(d)
        /\ disp[d].done = Len(disp[d].batch)
    BY <1>4 DEF MarkPublished, busVars, TypeOK
  <2>2. \A e \in Events : Ahead(e)' \subseteq Ahead(e)
    BY <1>c, <2>1 DEF Ahead
  <2>3. ASSUME NEW e \in Events
        PROVE  Counted(e) \subseteq Counted(e)'
    <3>1. CASE e \in marked
      BY <2>1, <2>2, <3>1 DEF Counted
    <3>2. CASE e \notin marked /\ e \in marked'
      BY <2>2, <3>2, BehindNotAhead DEF Counted, Behind
    <3>3. CASE e \notin marked'
      <4>1. d \notin Behind(e)
        BY <2>1, <3>3 DEF InBatch, Behind
      <4>2. Behind(e) \subseteq Behind(e)'
        BY <2>1, <4>1 DEF Behind
      <4>3. QED
        BY <2>1, <3>3, <4>2 DEF Counted
    <3>4. QED
      BY <3>1, <3>2, <3>3
  <2>4. ASSUME NEW e \in Events
        PROVE  published'[e] <= failures' + Cardinality(Counted(e)')
    <3>1. Counted(e) \in SUBSET Dispatchers /\ Counted(e)' \in SUBSET Dispatchers
      BY DEF Counted, Behind
    <3> HIDE DEF Counted
    <3>2. /\ Cardinality(Counted(e)) <= Cardinality(Counted(e)')
          /\ Cardinality(Counted(e)) \in Nat
          /\ Cardinality(Counted(e)') \in Nat
      BY <2>3, <3>1, CountGrows
    <3>3. QED
      BY <1>a, <1>b, <2>1, <3>2
  <2>5. \A c \in Dispatchers : NoRepeats(disp'[c].batch)
    BY <1>c, <2>1 DEF CountInv
  <2>6. QED
    BY <2>4, <2>5 DEF CountInv
<1>5. ASSUME NEW d \in Dispatchers, RunFails(d)
      PROVE  CountInv'
  <2>1. /\ disp'[d] = NoRun
        /\ \A c \in Dispatchers : c # d => disp'[c] = disp[c]
        /\ UNCHANGED <<published, marked>>
        /\ failures' = failures + 1
    BY <1>5 DEF RunFails, busVars, TypeOK
  <2>2. ASSUME NEW e \in Events
        PROVE  Counted(e) \subseteq Counted(e)' \cup {d}
    <3>1. Ahead(e)' \subseteq Ahead(e)
      BY <1>c, <2>1 DEF Ahead
    <3>2. Behind(e) \subseteq Behind(e)' \cup {d}
      BY <2>1 DEF Behind
    <3>3. QED
      BY <2>1, <3>1, <3>2 DEF Counted
  <2>3. ASSUME NEW e \in Events
        PROVE  published'[e] <= failures' + Cardinality(Counted(e)')
    <3>1. Counted(e) \in SUBSET Dispatchers /\ Counted(e)' \in SUBSET Dispatchers
      BY DEF Counted, Behind
    <3> HIDE DEF Counted
    <3>2. /\ Cardinality(Counted(e)) <= Cardinality(Counted(e)') + 1
          /\ Cardinality(Counted(e)) \in Nat
          /\ Cardinality(Counted(e)') \in Nat
      BY <2>2, <3>1, CountGrows
    <3>3. QED
      BY <1>a, <1>b, <2>1, <3>2
  <2>4. \A c \in Dispatchers : NoRepeats(disp'[c].batch)
    BY <1>c, <2>1 DEF CountInv
  <2>5. QED
    BY <2>3, <2>4 DEF CountInv
<1>6. ASSUME NEW d \in Dispatchers, CallHandler(d)
      PROVE  CountInv'
  <2>1. \A c \in Dispatchers :
            disp'[c].batch = disp[c].batch /\ disp'[c].done = disp[c].done
    BY <1>6 DEF CallHandler, TypeOK, Runs
  <2>2. QED
    BY <1>1, <1>6, <2>1 DEF CallHandler
<1>7. CASE UNCHANGED <<marked, disp, published, failures>>
  BY <1>1, <1>7
<1>8. QED
  BY <1>2, <1>3, <1>4, <1>5, <1>6, <1>7
     DEF Next, Produce, Dispatch, vars, busVars, Tick, CreateEvent, CommitEvents, RollBackEvents

\* An event is published at most once for each run that failed and for each run that
\* overlaps: after markPublished no later run takes it.
THEOREM DuplicatesAreBounded == Spec => []DuplicatesBounded
<1>1. Init => CountInv
  <2> SUFFICES ASSUME Init
               PROVE  CountInv
    OBVIOUS
  <2>1. \A d \in Dispatchers : NoRepeats(disp[d].batch)
    BY NoRunIsRun DEF Init, NoRepeats
  <2>2. ASSUME NEW e \in Events
        PROVE  published[e] <= failures + Cardinality(Counted(e))
    <3>1. published[e] = 0 /\ failures = 0
      BY DEF Init
    <3>2. Counted(e) \in SUBSET Dispatchers
      BY DEF Counted, Behind
    <3>3. Cardinality(Counted(e)) \in Nat
      BY <3>2, CountGrows
    <3>4. QED
      BY <3>1, <3>3
  <2>3. QED
    BY <2>1, <2>2 DEF CountInv
<1>2. TypeOK /\ CountInv => DuplicatesBounded
  <2> SUFFICES ASSUME TypeOK, CountInv, NEW e \in Events
               PROVE  published[e] <= failures + Cardinality(Dispatchers)
    BY DEF DuplicatesBounded
  <2>1. Counted(e) \in SUBSET Dispatchers /\ Dispatchers \in SUBSET Dispatchers
    BY DEF Counted, Behind
  <2>2. published[e] <= failures + Cardinality(Counted(e)) /\ published[e] \in Nat /\ failures \in Nat
    BY BoundsAssumption DEF CountInv, TypeOK
  <2>3. /\ Cardinality(Counted(e)) \in Nat
        /\ Cardinality(Dispatchers) \in Nat
        /\ Cardinality(Counted(e)) <= Cardinality(Dispatchers)
    BY <2>1, CountGrows
  <2>4. QED
    BY <2>2, <2>3
<1>3. QED
  BY <1>1, <1>2, CountInductive, OutboxInvariant, TypeCorrect, PTL DEF Spec
=============================================================================
