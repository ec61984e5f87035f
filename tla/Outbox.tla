-------------------------------- MODULE Outbox --------------------------------
(***************************************************************************)
(* The transactional outbox: events stamped by createEvent, written to the *)
(* events table by the transaction of their state change, fetched by the   *)
(* dispatch-outbox job of a worker (outbox-store.ts), published one by one *)
(* on the in-process bus (outbox.ts, bus.ts) and then marked dispatched.   *)
(*                                                                         *)
(* Several runs of dispatch-outbox may overlap: the cron adds a job each   *)
(* minute whether or not the last one has ended, and a run that failed is  *)
(* retried.                                                                *)
(***************************************************************************)
EXTENDS Integers, Sequences, FiniteSets

CONSTANTS
    Events,       \* the event ids
    Dispatchers,  \* the slots that may run dispatch-outbox at the same time
    Limit,        \* the batch size (500 in worker.ts)
    Handlers,     \* number of handlers subscribed to the bus
    MaxTime,      \* bound: milliseconds in which events are created
    MaxFailures   \* bound: runs of dispatch-outbox that fail

ASSUME LimitAssumption    == Limit \in Nat \ {0}
ASSUME HandlersAssumption == Handlers \in Nat
ASSUME DispatchersAssumption == IsFiniteSet(Dispatchers)
ASSUME BoundsAssumption   == MaxTime \in Nat /\ MaxFailures \in Nat

VARIABLES
    now,        \* the clock createEvent reads
    createdAt,  \* created_at of each event
    written,    \* the commit that wrote each event: 0 none, -1 rolled back
    commits,    \* number of commits
    marked,     \* the events with a dispatched_at
    disp,       \* each dispatcher's run: its batch and how far it is
    published,  \* history: how often publish(event) returned
    called,     \* history: the handlers that were called with each event
    handled,    \* history: the handlers that returned from each event
    failures    \* number of runs that failed

vars == <<now, createdAt, written, commits, marked, disp, published, called, handled, failures>>

tableVars == <<now, createdAt, written, commits>>
busVars   == <<published, called, handled>>

NotCommitted == 0
RolledBack   == -1

Stored == {e \in Events : written[e] > 0}

NoRun == [batch |-> <<>>, done |-> 0, handler |-> 0]

InBatch(d) == {disp[d].batch[i] : i \in 1..Len(disp[d].batch)}

\* The event a run is publishing.
Current(d) == disp[d].batch[disp[d].done + 1]

-----------------------------------------------------------------------------
Init ==
    /\ now = 1
    /\ createdAt = [e \in Events |-> 0]
    /\ written = [e \in Events |-> NotCommitted]
    /\ commits = 0
    /\ marked = {}
    /\ disp = [d \in Dispatchers |-> NoRun]
    /\ published = [e \in Events |-> 0]
    /\ called = [e \in Events |-> {}]
    /\ handled = [e \in Events |-> {}]
    /\ failures = 0

Tick ==
    /\ now < MaxTime
    /\ now' = now + 1
    /\ UNCHANGED <<createdAt, written, commits, marked, disp, busVars, failures>>

\* createEvent: the event gets its time, before its transaction commits.
CreateEvent(e) ==
    /\ createdAt[e] = 0
    /\ createdAt' = [createdAt EXCEPT ![e] = now]
    /\ UNCHANGED <<now, written, commits, marked, disp, busVars, failures>>

\* The events of one state change are inserted by one transaction, all or none.
CommitEvents(batch) ==
    /\ batch # {}
    /\ \A e \in batch : createdAt[e] > 0 /\ written[e] = NotCommitted
    /\ commits' = commits + 1
    /\ written' = [e \in Events |-> IF e \in batch THEN commits' ELSE written[e]]
    /\ UNCHANGED <<now, createdAt, marked, disp, busVars, failures>>

RollBackEvents(batch) ==
    /\ batch # {}
    /\ \A e \in batch : createdAt[e] > 0 /\ written[e] = NotCommitted
    /\ written' = [e \in Events |-> IF e \in batch THEN RolledBack ELSE written[e]]
    /\ UNCHANGED <<now, createdAt, commits, marked, disp, busVars, failures>>

-----------------------------------------------------------------------------
(***************************************************************************)
(* fetchUnpublished: where dispatched_at is null, order by created_at,     *)
(* limit.  Events of the same millisecond come in any order.               *)
(***************************************************************************)
\* Mutant of Unpublished: without `where dispatched_at is null`.
StoredAtAll == Stored

\* Mutant of Unpublished: a cursor on created_at in place of the null marker.
PastTheCursor ==
    {e \in Stored \ marked : \A f \in marked : createdAt[f] < createdAt[e]}

Unpublished == Stored \ marked

IsOrdered(batch) ==
    \A i, j \in 1..Len(batch) : i < j => createdAt[batch[i]] <= createdAt[batch[j]]

NoRepeats(batch) ==
    \A i, j \in 1..Len(batch) : batch[i] = batch[j] => i = j

\* No event left out is older than an event taken.
IsOldest(batch) ==
    \A i \in 1..Len(batch), e \in Unpublished :
        (\A j \in 1..Len(batch) : batch[j] # e) => createdAt[batch[i]] <= createdAt[e]

\* Mutant of Fetched: without the `order by`.
FetchedAnyhow(batch) == NoRepeats(batch)

Fetched(batch) ==
    /\ NoRepeats(batch)
    /\ IsOrdered(batch)
    /\ IsOldest(batch)

Fetch(d) ==
    /\ disp[d] = NoRun
    /\ Unpublished # {}
    /\ \E n \in 1..Limit :
          /\ n = Limit \/ n = Cardinality(Unpublished)
          /\ \E batch \in [1..n -> Unpublished] :
                /\ Fetched(batch)
                /\ disp' = [disp EXCEPT ![d] = [batch |-> batch, done |-> 0, handler |-> 0]]
    /\ UNCHANGED <<tableVars, marked, busVars, failures>>

\* Mutant of CallHandler: one call too many.
CallOnceMore(d) ==
    /\ disp[d].done < Len(disp[d].batch)
    /\ disp[d].handler <= Handlers
    /\ disp' = [disp EXCEPT ![d].handler = @ + 1]
    /\ UNCHANGED <<tableVars, marked, busVars, failures>>

\* Mutant of CallHandler: a handler that throws ends the loop over the handlers.
StopAtError(d) ==
    /\ disp[d].done < Len(disp[d].batch)
    /\ disp[d].handler < Handlers
    /\ \E next \in {disp[d].handler + 1, Handlers} :
          disp' = [disp EXCEPT ![d].handler = next]
    /\ called' = [called EXCEPT ![Current(d)] = @ \cup {disp[d].handler + 1}]
    /\ UNCHANGED <<tableVars, marked, published, handled, failures>>

(***************************************************************************)
(* InMemoryEventBus.publish: the handlers are awaited one after the other, *)
(* and an error of one of them is swallowed.                               *)
(***************************************************************************)
CallHandler(d) ==
    /\ disp[d].done < Len(disp[d].batch)
    /\ disp[d].handler < Handlers
    /\ LET h == disp[d].handler + 1 IN
       /\ disp' = [disp EXCEPT ![d].handler = h]
       /\ called' = [called EXCEPT ![Current(d)] = @ \cup {h}]
       /\ \/ handled' = [handled EXCEPT ![Current(d)] = @ \cup {h}]
          \/ handled' = handled
    /\ UNCHANGED <<tableVars, marked, published, failures>>

\* publish returned: the id goes to `delivered`, and the loop to the next event.
PublishReturns(d) ==
    /\ disp[d].done < Len(disp[d].batch)
    /\ disp[d].handler = Handlers
    /\ published' = [published EXCEPT ![Current(d)] = @ + 1]
    /\ disp' = [disp EXCEPT ![d].done = @ + 1, ![d].handler = 0]
    /\ UNCHANGED <<tableVars, marked, called, handled, failures>>

\* Mutant of MarkPublished: the batch is marked before it is published.
MarkEarly(d) ==
    /\ disp[d] # NoRun
    /\ marked' = marked \cup InBatch(d)
    /\ disp' = [disp EXCEPT ![d] = NoRun]
    /\ UNCHANGED <<tableVars, busVars, failures>>

\* markPublished(delivered): one UPDATE for the whole batch.
MarkPublished(d) ==
    /\ disp[d] # NoRun
    /\ disp[d].done = Len(disp[d].batch)
    /\ marked' = marked \cup InBatch(d)
    /\ disp' = [disp EXCEPT ![d] = NoRun]
    /\ UNCHANGED <<tableVars, busVars, failures>>

(***************************************************************************)
(* A bus whose publish rejects, a database error in markPublished, or a    *)
(* crash: the run ends, and none of its events is marked.                  *)
(***************************************************************************)
RunFails(d) ==
    /\ disp[d] # NoRun
    /\ failures < MaxFailures
    /\ failures' = failures + 1
    /\ disp' = [disp EXCEPT ![d] = NoRun]
    /\ UNCHANGED <<tableVars, marked, busVars>>

-----------------------------------------------------------------------------
Produce ==
    \/ Tick
    \/ \E e \in Events : CreateEvent(e)
    \/ \E batch \in SUBSET Events : CommitEvents(batch) \/ RollBackEvents(batch)

Dispatch(d) == Fetch(d) \/ CallHandler(d) \/ PublishReturns(d) \/ MarkPublished(d)

Next ==
    \/ Produce
    \/ \E d \in Dispatchers : Dispatch(d) \/ RunFails(d)

Spec == Init /\ [][Next]_vars

\* The cron starts a run every minute, and a run that does not fail goes on.
FairSpec == Spec /\ \A d \in Dispatchers : WF_vars(Dispatch(d))

-----------------------------------------------------------------------------
Runs == [batch : Seq(Events), done : Nat, handler : 0..Handlers]

TypeOK ==
    /\ now \in Nat \ {0}
    /\ createdAt \in [Events -> Nat]
    /\ written \in [Events -> Nat \cup {RolledBack}]
    /\ commits \in Nat
    /\ marked \subseteq Events
    /\ disp \in [Dispatchers -> Runs]
    /\ \A d \in Dispatchers : disp[d].done <= Len(disp[d].batch)
    /\ published \in [Events -> Nat]
    /\ called \in [Events -> SUBSET (1..Handlers)]
    /\ handled \in [Events -> SUBSET (1..Handlers)]
    /\ failures \in 0..MaxFailures

(***************************************************************************)
(* "Events not yet delivered to the bus, oldest first": although runs      *)
(* overlap and fail, an event is first published only after every older    *)
(* event that was committed no later than it.                              *)
(***************************************************************************)
OldestFirst ==
    \A e, f \in Stored :
        createdAt[e] < createdAt[f] /\ written[e] <= written[f] /\ published[f] > 0
            => published[e] > 0

\* An event is published again only because a run failed or runs overlapped:
\* once it is marked, no later run takes it.
DuplicatesBounded ==
    \A e \in Events : published[e] <= failures + Cardinality(Dispatchers)

\* "One bad subscriber never stops delivery to the others": when publish has
\* returned, every handler was called.
EverySubscriberCalled ==
    \A e \in Events : published[e] > 0 => called[e] = 1..Handlers

\* The dispatchers implement at-least-once delivery of committed events.
AtLeastOnce ==
    INSTANCE AtLeastOnceDelivery
    WITH committed <- Stored,
         delivered <- {e \in Events : published[e] > 0},
         retired   <- marked

ImplementsAtLeastOnce == AtLeastOnce!Spec

\* Every committed event is delivered, and in the end retired.
EveryEventRetired == \A e \in Events : e \in Stored ~> e \in marked

-----------------------------------------------------------------------------
(***************************************************************************)
(* "An event is marked published only after it is successfully delivered,  *)
(* so a delivery failure leaves it to be retried" (outbox.ts): an event is *)
(* marked only after every handler has dealt with it.                      *)
(***************************************************************************)
MarkedWasHandled == \A e \in marked : handled[e] = 1..Handlers
=============================================================================
