---------------------------- MODULE TaskExecution ----------------------------
(***************************************************************************)
(* The durable execution of tasks: the dispatcher of the control plane     *)
(* (task-dispatcher.ts), the graphile-worker queue both processes share,   *)
(* the execute-work-order job handler (worker.ts) and the transaction that *)
(* commits its outcome (task-state.ts).                                    *)
(*                                                                         *)
(* A worker slot moves through the stages of one job:                      *)
(*                                                                         *)
(*   idle -> picked -> executed -> locked -> committed -> idle             *)
(*                                                                         *)
(* It may throw, or crash, at every stage; a crash loses everything the    *)
(* slot held in memory (the buffered trace, the orchestrator's result) but *)
(* nothing an adapter already did to the outside world.                    *)
(***************************************************************************)
EXTENDS TaskStateMachine

CONSTANTS
    Tasks,        \* the task ids
    Workers,      \* the job slots of all worker processes (concurrency: 4 each)
    NoTask,       \* a value that is not a task: what an idle slot works on
    NoWorker,     \* a value that is not a worker: the holder of no live job
    MaxRetries,   \* maxRetries of a new task (3 in newTask)
    MaxAttempts,  \* graphile-worker's max_attempts of a job (25 by default)
    MaxCrashes,   \* bound: crashes of a slot
    MaxExpiries   \* bound: leases that expire under a live slot

ASSUME RetriesAssumption  == MaxRetries \in Nat
ASSUME AttemptsAssumption == MaxAttempts \in Nat \ {0}
ASSUME BoundsAssumption   == MaxCrashes \in Nat /\ MaxExpiries \in Nat
ASSUME NoTaskAssumption   == NoTask \notin Tasks
ASSUME NoWorkerAssumption == NoWorker \notin Workers

VARIABLES
    row,      \* the tasks table: status and retry_count of each row
    log,      \* the events table: the types of each task's events, in order
    jobs,     \* graphile_worker.jobs: for each task, the jobs ever added for it
    valid,    \* whether the task's payload gets through parseWorkOrder
    run,      \* what each worker slot is doing
    effects,  \* history: successful adapter executions for each task
    crashes,  \* number of crashes so far
    expiries  \* number of leases lost by a live slot so far

vars == <<row, log, jobs, valid, run, effects, crashes, expiries>>

Abstract == INSTANCE DurableTask

-----------------------------------------------------------------------------
(***************************************************************************)
(* The queue.  Job number n of a task is the row inserted by the add_job   *)
(* call made when the task had been retried n times.                       *)
(***************************************************************************)
JobNumbers == 0..MaxRetries

Job == [state    : {"absent", "queued", "held", "gone"},
        keyed    : BOOLEAN,               \* job_key is still the task id
        attempts : 0..MaxAttempts,
        holder   : Workers \cup {NoWorker}]

Blank(state) == [state |-> state, keyed |-> FALSE, attempts |-> 0, holder |-> NoWorker]

NewJob == [state |-> "queued", keyed |-> TRUE, attempts |-> 0, holder |-> NoWorker]

\* Mutant of IsAvailable: attempts are not limited.
IsQueued(job) == job.state = "queued"

IsAvailable(job) == job.state = "queued" /\ job.attempts < MaxAttempts

(***************************************************************************)
(* add_job with job_key = task id: a keyed job that cannot be replaced (it *)
(* is being run, or is out of attempts) loses its key and its remaining    *)
(* attempts, a keyed job still waiting is replaced in place, and otherwise *)
(* a new job is inserted.                                                  *)
(***************************************************************************)
Unkeyed(job) ==
    IF job.keyed /\ ~IsAvailable(job)
    THEN [job EXCEPT !.keyed = FALSE, !.attempts = MaxAttempts]
    ELSE job

\* Mutant of AddJob: add_job is called without a job_key.
AddUnkeyedJob(js, number) == [js EXCEPT ![number] = NewJob]

AddJob(js, number) ==
    LET kept == [n \in JobNumbers |-> Unkeyed(js[n])]
    IN  IF \E n \in JobNumbers : kept[n].keyed
        THEN [n \in JobNumbers |->
                 IF kept[n].keyed THEN [kept[n] EXCEPT !.attempts = 0] ELSE kept[n]]
        ELSE [kept EXCEPT ![number] = NewJob]

\* Mutant of FailJob: the job is queued anew, with all its attempts.
QueueAnew(js, n, w) == [js EXCEPT ![n] = NewJob]

\* fail_job: the job goes back to the queue, if the slot still holds it.
FailJob(js, n, w) ==
    IF js[n].holder = w
    THEN [js EXCEPT ![n].state = "queued", ![n].holder = NoWorker]
    ELSE js

\* complete_job: the job is deleted by its id.
CompleteJob(js, n) == [js EXCEPT ![n] = Blank("gone")]

-----------------------------------------------------------------------------
(***************************************************************************)
(* A worker slot.  `result` is the status executeWorkOrder returned and    *)
(* `retryable` whether the last adapter error was of a retryable class     *)
(* (health.ts); `seen` is the retry_count the transaction selected.        *)
(***************************************************************************)
Stages == {"idle", "picked", "executed", "locked", "committed"}

Run == [stage     : Stages,
        task      : Tasks \cup {NoTask},
        job       : JobNumbers,
        result    : WorkOrderStatuses,
        retryable : BOOLEAN,
        seen      : Nat]

IdleRun == [stage |-> "idle", task |-> NoTask, job |-> 0,
            result |-> "failed", retryable |-> FALSE, seen |-> 0]

Results == {r \in [status : WorkOrderStatuses, retryable : BOOLEAN] :
                r.retryable => r.status = "failed"}

\* Mutant of RowLocked: a SELECT without FOR UPDATE.
NeverLocked(t) == FALSE

\* FOR UPDATE: the row is locked by a transaction that has not ended.
RowLocked(t) == \E w \in Workers : run[w].stage = "locked" /\ run[w].task = t

-----------------------------------------------------------------------------
Init ==
    /\ row = [t \in Tasks |-> Abstract!NoRow]
    /\ log = [t \in Tasks |-> <<>>]
    /\ jobs = [t \in Tasks |-> [n \in JobNumbers |-> Blank("absent")]]
    /\ valid = [t \in Tasks |-> TRUE]
    /\ run = [w \in Workers |-> IdleRun]
    /\ effects = [t \in Tasks |-> 0]
    /\ crashes = 0
    /\ expiries = 0

(***************************************************************************)
(* DrizzleTaskDispatcher.dispatch: the row, task.created and the job, in   *)
(* one transaction.  The route does not check the optional fields of the   *)
(* body, so the payload may be one that parseWorkOrder rejects.            *)
(***************************************************************************)
Dispatch(t) ==
    /\ row[t] = Abstract!NoRow
    /\ row' = [row EXCEPT ![t] = [status |-> "pending", retryCount |-> 0]]
    /\ log' = [log EXCEPT ![t] = <<"task.created">>]
    /\ jobs' = [jobs EXCEPT ![t] = AddJob(@, 0)]
    /\ \E ok \in BOOLEAN : valid' = [valid EXCEPT ![t] = ok]
    /\ UNCHANGED <<run, effects, crashes, expiries>>

\* The runner gives an available job to an idle slot; the attempt is counted now.
PickJob(w) ==
    /\ run[w].stage = "idle"
    /\ \E t \in Tasks, n \in JobNumbers :
          /\ IsAvailable(jobs[t][n])
          /\ jobs' = [jobs EXCEPT ![t][n].state = "held",
                                  ![t][n].attempts = @ + 1,
                                  ![t][n].holder = w]
          /\ run' = [run EXCEPT ![w] = [IdleRun EXCEPT !.stage = "picked",
                                                       !.task = t,
                                                       !.job = n]]
    /\ UNCHANGED <<row, log, valid, effects, crashes, expiries>>

(***************************************************************************)
(* executeWorkOrder over a fresh BufferingEventBus.  A completed order has *)
(* executed an adapter successfully; nothing is written to the database.   *)
(***************************************************************************)
Execute(w) ==
    /\ run[w].stage = "picked"
    /\ valid[run[w].task]
    /\ \E result \in Results :
          /\ run' = [run EXCEPT ![w].stage = "executed",
                                ![w].result = result.status,
                                ![w].retryable = result.retryable]
          /\ effects' = [effects EXCEPT ![run[w].task] =
                            IF result.status = "completed" THEN @ + 1 ELSE @]
    /\ UNCHANGED <<row, log, jobs, valid, crashes, expiries>>

(***************************************************************************)
(* commitOutcome, up to the SELECT ... FOR UPDATE that finds the row       *)
(* pending.  It waits for a transaction that holds the row.                *)
(***************************************************************************)
LockRow(w) ==
    LET t == run[w].task IN
    /\ run[w].stage = "executed"
    /\ ~RowLocked(t)
    /\ row[t].status = "pending"
    /\ run' = [run EXCEPT ![w].stage = "locked", ![w].seen = row[t].retryCount]
    /\ UNCHANGED <<row, log, jobs, valid, effects, crashes, expiries>>

\* The early returns already_terminal and not_pending: nothing is written.
SkipOutcome(w) ==
    LET t == run[w].task IN
    /\ run[w].stage = "executed"
    /\ ~RowLocked(t)
    /\ IsTerminal(row[t].status) \/ row[t].status # "pending"
    /\ run' = [run EXCEPT ![w].stage = "committed"]
    /\ UNCHANGED <<row, log, jobs, valid, effects, crashes, expiries>>

\* Mutant of WillRetry: retryCount <= row.maxRetries.
WillRetryOnceMore(w) ==
    /\ TargetStatusForResult(run[w].result) = "failed"
    /\ run[w].seen <= MaxRetries

\* target === 'failed' && retryCount < row.maxRetries, whatever made it fail.
WillRetry(w) ==
    /\ TargetStatusForResult(run[w].result) = "failed"
    /\ run[w].seen < MaxRetries

\* Mutant of OutcomeRow: the retry is not counted.
UncountedRow(w) ==
    [status     |-> IF WillRetry(w) THEN "pending"
                    ELSE EndOfWalk(TargetStatusForResult(run[w].result)),
     retryCount |-> run[w].seen]

\* What the transaction writes to the row of the slot's task.
OutcomeRow(w) ==
    IF WillRetry(w)
    THEN [status |-> "pending", retryCount |-> run[w].seen + 1]
    ELSE [status     |-> EndOfWalk(TargetStatusForResult(run[w].result)),
          retryCount |-> run[w].seen]

\* Mutant of OutcomeLog: task.retried is not recorded.
SilentLog(w, events) ==
    Append(events, Abstract!ClosingEvent(TargetStatusForResult(run[w].result)))

\* The buffered trace, then task.retried if the attempt is retried.
OutcomeLog(w, events) ==
    LET closed == Append(events, Abstract!ClosingEvent(TargetStatusForResult(run[w].result)))
    IN  IF WillRetry(w) THEN Append(closed, "task.retried") ELSE closed

\* Mutant of OutcomeJobs: a retry is not enqueued.
NoJob(w, js) == js

OutcomeJobs(w, js) == IF WillRetry(w) THEN AddJob(js, run[w].seen + 1) ELSE js

WritesAreLegal(w) ==
    LET target == TargetStatusForResult(run[w].result) IN
    /\ WalkIsLegal("pending", target)
    /\ WillRetry(w) => CanTransition(EndOfWalk(target), "pending")

(***************************************************************************)
(* The rest of commitOutcome: the writes and the COMMIT.  When the         *)
(* acknowledgement of the COMMIT is lost the handler throws, although the  *)
(* outcome is durable, and graphile-worker fails the job.                  *)
(***************************************************************************)
CommitOutcome(w) ==
    LET t == run[w].task IN
    /\ run[w].stage = "locked"
    /\ WritesAreLegal(w)
    /\ row' = [row EXCEPT ![t] = OutcomeRow(w)]
    /\ log' = [log EXCEPT ![t] = OutcomeLog(w, @)]
    /\ \/ /\ jobs' = [jobs EXCEPT ![t] = OutcomeJobs(w, @)]
          /\ run' = [run EXCEPT ![w].stage = "committed"]
       \/ /\ jobs' = [jobs EXCEPT ![t] = FailJob(OutcomeJobs(w, @), run[w].job, w)]
          /\ run' = [run EXCEPT ![w] = IdleRun]
    /\ UNCHANGED <<valid, effects, crashes, expiries>>

\* The handler returned: the job is done.
FinishJob(w) ==
    LET t == run[w].task IN
    /\ run[w].stage = "committed"
    /\ jobs' = [jobs EXCEPT ![t] = CompleteJob(@, run[w].job)]
    /\ run' = [run EXCEPT ![w] = IdleRun]
    /\ UNCHANGED <<row, log, valid, effects, crashes, expiries>>

\* The handler throws: an open transaction rolls back and the job is retried.
Throw(w) ==
    /\ jobs' = [jobs EXCEPT ![run[w].task] = FailJob(@, run[w].job, w)]
    /\ run' = [run EXCEPT ![w] = IdleRun]
    /\ UNCHANGED <<row, log, valid, effects, crashes, expiries>>

\* parseWorkOrder throws InvalidWorkOrderError.
RejectPayload(w) ==
    /\ run[w].stage = "picked"
    /\ ~valid[run[w].task]
    /\ Throw(w)

\* A database error in commitOutcome, or an adapter whose estimate() rejects.
HandlerFails(w) ==
    /\ \/ run[w].stage = "picked" /\ valid[run[w].task]
       \/ run[w].stage \in {"executed", "locked"}
    /\ Throw(w)

(***************************************************************************)
(* The process dies with the slot: its transaction rolls back, its memory  *)
(* is gone, and its job stays locked by nobody alive.                      *)
(***************************************************************************)
Crash(w) ==
    LET t == run[w].task IN
    /\ run[w].stage # "idle"
    /\ crashes < MaxCrashes
    /\ crashes' = crashes + 1
    /\ jobs' = [jobs EXCEPT ![t] = [n \in JobNumbers |->
                   IF @[n].holder = w THEN [@[n] EXCEPT !.holder = NoWorker] ELSE @[n]]]
    /\ run' = [run EXCEPT ![w] = IdleRun]
    /\ UNCHANGED <<row, log, valid, effects, expiries>>

\* The lease of a job whose slot died runs out: it is available again.
ReclaimJob ==
    \E t \in Tasks, n \in JobNumbers :
        /\ jobs[t][n].state = "held"
        /\ jobs[t][n].holder = NoWorker
        /\ jobs' = [jobs EXCEPT ![t][n].state = "queued"]
        /\ UNCHANGED <<row, log, valid, run, effects, crashes, expiries>>

\* The lease of a job runs out although its slot is alive (stalled, suspended).
LeaseExpires ==
    \E t \in Tasks, n \in JobNumbers :
        /\ jobs[t][n].holder # NoWorker
        /\ expiries < MaxExpiries
        /\ expiries' = expiries + 1
        /\ jobs' = [jobs EXCEPT ![t][n].state = "queued", ![t][n].holder = NoWorker]
        /\ UNCHANGED <<row, log, valid, run, effects, crashes>>

-----------------------------------------------------------------------------
\* The steps a live worker process always takes.
Progress(w) ==
    \/ PickJob(w)
    \/ RejectPayload(w)
    \/ Execute(w)
    \/ LockRow(w)
    \/ SkipOutcome(w)
    \/ CommitOutcome(w)
    \/ FinishJob(w)

Next ==
    \/ \E t \in Tasks : Dispatch(t)
    \/ \E w \in Workers : Progress(w)
    \/ \E w \in Workers : HandlerFails(w) \/ Crash(w)
    \/ ReclaimJob
    \/ LeaseExpires

Spec == Init /\ [][Next]_vars

(***************************************************************************)
(* A slot that is up keeps going, and expired leases are collected (the    *)
(* runner polls for both); nothing forces a dispatch, a failure or a       *)
(* crash.                                                                  *)
(***************************************************************************)
FairSpec ==
    /\ Spec
    /\ \A w \in Workers : WF_vars(Progress(w))
    /\ WF_vars(ReclaimJob)

-----------------------------------------------------------------------------
TypeOK ==
    /\ row \in [Tasks -> Abstract!Rows]
    /\ log \in [Tasks -> Seq(Abstract!EventTypes)]
    /\ jobs \in [Tasks -> [JobNumbers -> Job]]
    /\ valid \in [Tasks -> BOOLEAN]
    /\ run \in [Workers -> Run]
    /\ \A w \in Workers : run[w].stage = "idle" <=> run[w].task = NoTask
    /\ effects \in [Tasks -> Nat]
    /\ crashes \in 0..MaxCrashes
    /\ expiries \in 0..MaxExpiries

(***************************************************************************)
(* add_job is keyed by the task id "so it replaces rather than duplicates" *)
(* (task-state.ts): however crashes, redeliveries and retries interleave,  *)
(* at most one job of a task can ever be picked.                           *)
(***************************************************************************)
OneRunnableJob ==
    \A t \in Tasks, m, n \in JobNumbers :
        IsAvailable(jobs[t][m]) /\ IsAvailable(jobs[t][n]) => m = n

(***************************************************************************)
(* As long as no lease was lost by a live slot, no task is worked on by    *)
(* two slots before either has committed.                                  *)
(***************************************************************************)
Working(w, t) == run[w].task = t /\ run[w].stage # "committed"

OneRunPerTask ==
    expiries = 0 =>
        \A t \in Tasks, v, w \in Workers : Working(v, t) /\ Working(w, t) => v = w

(***************************************************************************)
(* "a task never exists without its job" (task-dispatcher.ts): a pending   *)
(* task has a job in the queue or in the hands of a slot, also after a     *)
(* crash, a lost acknowledgement or a retry; again as long as no lease was *)
(* lost by a live slot.                                                    *)
(***************************************************************************)
HasJob(t) == \E n \in JobNumbers : jobs[t][n].keyed

PendingHasJob ==
    expiries = 0 => \A t \in Tasks : row[t].status = "pending" => HasJob(t)

(***************************************************************************)
(* No phantom completion: a row is completed only if an adapter has        *)
(* executed the task successfully.                                         *)
(***************************************************************************)
CompletedWasExecuted ==
    \A t \in Tasks : row[t].status = "completed" => effects[t] > 0

\* Rows and events change as DurableTask says, whatever the queue does.
ImplementsDurableTask == Abstract!Spec

RowMatchesTrace == Abstract!RowMatchesTrace

RetryBudget == Abstract!RetryBudget

SettledIsFinal == Abstract!SettledIsFinal

(***************************************************************************)
(* Every dispatched task leaves pending, unless its job ran out of         *)
(* attempts.                                                               *)
(***************************************************************************)
OutOfAttempts(t) ==
    \E n \in JobNumbers :
        jobs[t][n].keyed /\ jobs[t][n].state = "queued" /\ ~IsAvailable(jobs[t][n])

EveryTaskSettles ==
    \A t \in Tasks :
        row[t].status = "pending" ~> (row[t].status # "pending" \/ OutOfAttempts(t))

\* Retries and redeliveries come to an end: eventually every slot is idle for good.
RetriesEnd == <>[](\A w \in Workers : run[w].stage = "idle")

-----------------------------------------------------------------------------
(***************************************************************************)
(* What the documents say of retries, and the code does not do.            *)
(***************************************************************************)
\* "Adapters that touch the outside world must honor it, so retries never
\* duplicate": no task has its effect twice.
EffectAtMostOnce == \A t \in Tasks : effects[t] <= 1
=============================================================================
