------------------------- MODULE TaskExecution_proofs -------------------------
(***************************************************************************)
(* Proofs about the execution of tasks, for any number of tasks, slots,    *)
(* retries, attempts, crashes and lost leases.                             *)
(***************************************************************************)
EXTENDS TaskExecution, TLAPS

-----------------------------------------------------------------------------
(***************************************************************************)
(* The queue operators keep the type of a task's jobs.                     *)
(***************************************************************************)
LEMMA BlankIsJob ==
    ASSUME NEW state \in {"absent", "queued", "held", "gone"}
    PROVE  Blank(state) \in Job
BY AttemptsAssumption DEF Blank, Job

LEMMA NewJobIsJob == NewJob \in Job
BY AttemptsAssumption DEF NewJob, Job

LEMMA UnkeyedIsJob ==
    ASSUME NEW job \in Job
    PROVE  Unkeyed(job) \in Job
<1>1. [job EXCEPT !.keyed = FALSE] \in Job
  BY DEF Job
<1>2. \A j \in Job : [j EXCEPT !.attempts = MaxAttempts] \in Job
  BY AttemptsAssumption DEF Job
<1>3. [job EXCEPT !.keyed = FALSE, !.attempts = MaxAttempts]
        = [[job EXCEPT !.keyed = FALSE] EXCEPT !.attempts = MaxAttempts]
  OBVIOUS
<1>4. QED
  BY <1>1, <1>2, <1>3 DEF Unkeyed

LEMMA AddJobType ==
    ASSUME NEW js \in [JobNumbers -> Job], NEW number \in JobNumbers
    PROVE  AddJob(js, number) \in [JobNumbers -> Job]
<1> DEFINE kept == [n \in JobNumbers |-> Unkeyed(js[n])]
<1>1. kept \in [JobNumbers -> Job]
  BY UnkeyedIsJob
<1>2. ASSUME NEW job \in Job
      PROVE  [job EXCEPT !.attempts = 0] \in Job
  BY AttemptsAssumption DEF Job
<1>3. [n \in JobNumbers |-> IF kept[n].keyed THEN [kept[n] EXCEPT !.attempts = 0] ELSE kept[n]]
        \in [JobNumbers -> Job]
  <2> HIDE DEF kept
  <2>1. \A n \in JobNumbers : kept[n] \in Job
    BY <1>1
  <2>2. QED
    BY <1>2, <2>1
<1>4. [kept EXCEPT ![number] = NewJob] \in [JobNumbers -> Job]
  <2> HIDE DEF kept
  <2>1. QED
    BY <1>1, NewJobIsJob
<1>5. QED
  BY <1>3, <1>4 DEF AddJob

LEMMA FailJobType ==
    ASSUME NEW js \in [JobNumbers -> Job], NEW n \in JobNumbers, NEW w
    PROVE  FailJob(js, n, w) \in [JobNumbers -> Job]
<1>1. [js[n] EXCEPT !.state = "queued", !.holder = NoWorker] \in Job
  <2>1. js[n] \in Job
    OBVIOUS
  <2>2. QED
    BY <2>1 DEF Job
<1>2. QED
  BY <1>1 DEF FailJob

LEMMA CompleteJobType ==
    ASSUME NEW js \in [JobNumbers -> Job], NEW n \in JobNumbers
    PROVE  CompleteJob(js, n) \in [JobNumbers -> Job]
BY BlankIsJob DEF CompleteJob
-----------------------------------------------------------------------------
(***************************************************************************)
(* Type correctness.                                                       *)
(***************************************************************************)
LEMMA TargetsAreStatuses ==
    ASSUME NEW result \in WorkOrderStatuses
    PROVE  /\ TargetStatusForResult(result) \in TargetStatuses
           /\ EndOfWalk(TargetStatusForResult(result)) = TargetStatusForResult(result)
           /\ TargetStatusForResult(result) \in TaskStatuses
           /\ TargetStatusForResult(result) \notin {"absent", "pending"}
           /\ Abstract!ClosingEvent(TargetStatusForResult(result)) \in Abstract!EventTypes
<1>1. TargetStatusForResult(result) \in TargetStatuses
  BY DEF WorkOrderStatuses, TargetStatusForResult, TargetStatuses
<1>2. ASSUME NEW target \in TargetStatuses
      PROVE  /\ target \in TaskStatuses
             /\ target \notin {"absent", "pending"}
             /\ Abstract!ClosingEvent(target) \in Abstract!EventTypes
  BY DEF TargetStatuses, TaskStatuses, Abstract!ClosingEvent, Abstract!EventTypes
<1>3. ASSUME NEW target \in TargetStatuses
      PROVE  EndOfWalk(target) = target
  <2>1. CASE target = "blocked"
    <3>1. PathToTarget[target] = <<"planned", "blocked">>
      BY <2>1 DEF PathToTarget
    <3>2. Len(PathToTarget[target]) = 2
      BY <3>1
    <3>3. QED
      BY <2>1, <3>1, <3>2 DEF EndOfWalk
  <2>2. CASE target # "blocked"
    <3>1. PathToTarget[target] = <<"planned", "assigned", "running", target>>
      BY <2>2 DEF PathToTarget, TargetStatuses
    <3>2. Len(PathToTarget[target]) = 4
      BY <3>1
    <3>3. QED
      BY <3>1, <3>2 DEF EndOfWalk
  <2>3. QED
    BY <2>1, <2>2
<1>4. QED
  BY <1>1, <1>2, <1>3

\* A record of a status and a retry count is a row.
LEMMA RowType ==
    ASSUME NEW status \in TaskStatuses, NEW count \in Nat
    PROVE  /\ [status |-> status, retryCount |-> count] \in Abstract!Rows
           /\ "pending" \in TaskStatuses
<1>1. "pending" \in TaskStatuses
  BY DEF TaskStatuses
<1>2. Abstract!TaskStatuses = TaskStatuses
  BY DEF TaskStatuses, Abstract!TaskStatuses
<1>3. QED
  BY <1>1, <1>2 DEF Abstract!Rows

LEMMA IdleRunIsRun == IdleRun \in Run
BY RetriesAssumption DEF IdleRun, Run, Stages, WorkOrderStatuses, JobNumbers

\* Moving a busy slot to another stage keeps its type.
LEMMA StageType ==
    ASSUME NEW r \in Run, NEW stage \in Stages
    PROVE  [r EXCEPT !.stage = stage] \in Run
BY DEF Run

LEMMA InitTypeOK == Init => TypeOK
<1> SUFFICES ASSUME Init
             PROVE  TypeOK
  OBVIOUS
<1>1. row \in [Tasks -> Abstract!Rows]
  BY DEF Init, Abstract!NoRow, Abstract!Rows
<1>2. log \in [Tasks -> Seq(Abstract!EventTypes)]
  BY DEF Init
<1>3. jobs \in [Tasks -> [JobNumbers -> Job]]
  BY BlankIsJob DEF Init
<1>4. /\ run \in [Workers -> Run]
      /\ \A w \in Workers : run[w].stage = "idle" <=> run[w].task = NoTask
  <2>1. IdleRun.stage = "idle" /\ IdleRun.task = NoTask
    BY DEF IdleRun
  <2>2. QED
    BY <2>1, IdleRunIsRun DEF Init
<1>5. QED
  BY <1>1, <1>2, <1>3, <1>4, BoundsAssumption DEF Init, TypeOK

\* What every action that ends a job early (throw or crash) does to the slots.
LEMMA IdleSlotType ==
    ASSUME TypeOK, NEW w \in Workers, run' = [run EXCEPT ![w] = IdleRun]
    PROVE  /\ run' \in [Workers -> Run]
           /\ \A v \in Workers : run'[v].stage = "idle" <=> run'[v].task = NoTask
<1>1. IdleRun.stage = "idle" /\ IdleRun.task = NoTask
  BY DEF IdleRun
<1>2. QED
  BY <1>1, IdleRunIsRun DEF TypeOK

\* What every action that moves a busy slot to another busy stage does to the slots.
LEMMA StageSlotType ==
    ASSUME TypeOK, NEW w \in Workers, NEW stage \in Stages \ {"idle"},
           run[w].stage # "idle",
           run' = [run EXCEPT ![w].stage = stage]
    PROVE  /\ run' \in [Workers -> Run]
           /\ \A v \in Workers : run'[v].stage = "idle" <=> run'[v].task = NoTask
<1>1. run[w] \in Run
  BY DEF TypeOK
<1>2. [run[w] EXCEPT !.stage = stage] \in Run
  BY <1>1, StageType
<1>3. run' \in [Workers -> Run]
  BY <1>2 DEF TypeOK
<1>4. run'[w].stage = stage /\ run'[w].task = run[w].task
  BY <1>1 DEF TypeOK, Run
<1>5. \A v \in Workers : v # w => run'[v] = run[v]
  BY DEF TypeOK
<1>6. QED
  BY <1>3, <1>4, <1>5 DEF TypeOK

\* A busy slot works on a task.
LEMMA BusySlot ==
    ASSUME TypeOK, NEW w \in Workers, run[w].stage # "idle"
    PROVE  /\ run[w].task \in Tasks
           /\ run[w].job \in JobNumbers
           /\ run[w].result \in WorkOrderStatuses
           /\ run[w].seen \in Nat
BY DEF TypeOK, Run

LEMMA NextTypeOK == TypeOK /\ [Next]_vars => TypeOK'
<1> SUFFICES ASSUME TypeOK, [Next]_vars
             PROVE  TypeOK'
  OBVIOUS
<1>1. ASSUME NEW t \in Tasks, Dispatch(t)
      PROVE  TypeOK'
  <2>1. row' \in [Tasks -> Abstract!Rows]
    <3>1. [status |-> "pending", retryCount |-> 0] \in Abstract!Rows
      <4>1. "pending" \in TaskStatuses
        BY DEF TaskStatuses
      <4>2. QED
        BY <4>1, RowType
    <3>2. QED
      BY <1>1, <3>1 DEF Dispatch, TypeOK
  <2>2. log' \in [Tasks -> Seq(Abstract!EventTypes)]
    BY <1>1 DEF Dispatch, TypeOK, Abstract!EventTypes
  <2>3. jobs' \in [Tasks -> [JobNumbers -> Job]]
    <3>1. 0 \in JobNumbers
      BY RetriesAssumption DEF JobNumbers
    <3>2. AddJob(jobs[t], 0) \in [JobNumbers -> Job]
      BY <3>1, AddJobType DEF TypeOK
    <3>3. QED
      BY <1>1, <3>2 DEF Dispatch, TypeOK
  <2>4. valid' \in [Tasks -> BOOLEAN]
    BY <1>1 DEF Dispatch, TypeOK
  <2>5. QED
    BY <1>1, <2>1, <2>2, <2>3, <2>4 DEF Dispatch, TypeOK
<1>2. ASSUME NEW w \in Workers, PickJob(w)
      PROVE  TypeOK'
  <2>1. PICK t \in Tasks, n \in JobNumbers :
          /\ IsAvailable(jobs[t][n])
          /\ jobs' = [jobs EXCEPT ![t][n].state = "held",
                                  ![t][n].attempts = @ + 1,
                                  ![t][n].holder = w]
          /\ run' = [run EXCEPT ![w] = [IdleRun EXCEPT !.stage = "picked",
                                                       !.task = t,
                                                       !.job = n]]
    BY <1>2 DEF PickJob
  <2>2. jobs' \in [Tasks -> [JobNumbers -> Job]]
    <3> DEFINE job == jobs[t][n]
    <3>1. job \in Job /\ job.attempts < MaxAttempts
      BY <2>1 DEF TypeOK, IsAvailable
    <3>2. job.attempts + 1 \in 0..MaxAttempts
      BY <3>1, AttemptsAssumption DEF Job
    <3>3. [job EXCEPT !.state = "held", !.attempts = job.attempts + 1, !.holder = w] \in Job
      <4> HIDE DEF job
      <4>1. QED
        BY <3>1, <3>2 DEF Job
    <3>4. jobs' = [jobs EXCEPT ![t] = [jobs[t] EXCEPT ![n] =
             [job EXCEPT !.state = "held", !.attempts = job.attempts + 1, !.holder = w]]]
      BY <2>1 DEF TypeOK
    <3> HIDE DEF job
    <3>5. QED
      BY <3>3, <3>4 DEF TypeOK
  <2>3. [IdleRun EXCEPT !.stage = "picked", !.task = t, !.job = n] \in Run
    BY IdleRunIsRun DEF Run, Stages
  <2>4. /\ run' \in [Workers -> Run]
        /\ \A v \in Workers : run'[v].stage = "idle" <=> run'[v].task = NoTask
    <3>1. t # NoTask
      BY NoTaskAssumption
    <3>2. run'[w].stage = "picked" /\ run'[w].task = t
      BY <2>1, IdleRunIsRun DEF TypeOK, Run
    <3>3. \A v \in Workers : v # w => run'[v] = run[v]
      BY <2>1 DEF TypeOK
    <3>4. run' \in [Workers -> Run]
      BY <2>1, <2>3 DEF TypeOK
    <3>5. QED
      BY <3>1, <3>2, <3>3, <3>4 DEF TypeOK
  <2>5. QED
    BY <1>2, <2>2, <2>4 DEF PickJob, TypeOK
<1>3. ASSUME NEW w \in Workers, Execute(w)
      PROVE  TypeOK'
  <2>1. PICK result \in Results :
          /\ run' = [run EXCEPT ![w].stage = "executed",
                                ![w].result = result.status,
                                ![w].retryable = result.retryable]
          /\ effects' = [effects EXCEPT ![run[w].task] =
                            IF result.status = "completed" THEN @ + 1 ELSE @]
    BY <1>3 DEF Execute
  <2>2. run[w].stage # "idle" /\ run[w] \in Run
    BY <1>3 DEF Execute, TypeOK
  <2>3. result.status \in WorkOrderStatuses /\ result.retryable \in BOOLEAN
    BY DEF Results
  <2>4. /\ run' \in [Workers -> Run]
        /\ \A v \in Workers : run'[v].stage = "idle" <=> run'[v].task = NoTask
    <3> DEFINE new == [run[w] EXCEPT !.stage = "executed", !.result = result.status,
                                     !.retryable = result.retryable]
    <3>1. new \in Run
      <4>1. [run[w] EXCEPT !.stage = "executed", !.result = result.status] \in Run
        BY <2>2, <2>3 DEF Run, Stages
      <4>2. \A r \in Run : [r EXCEPT !.retryable = result.retryable] \in Run
        BY <2>3 DEF Run
      <4>3. new = [[run[w] EXCEPT !.stage = "executed", !.result = result.status]
                      EXCEPT !.retryable = result.retryable]
        OBVIOUS
      <4>4. QED
        BY <4>1, <4>2, <4>3
    <3>2. new.stage = "executed" /\ new.task = run[w].task
      BY <2>2 DEF Run
    <3>3. run' = [run EXCEPT ![w] = new]
      BY <2>1 DEF TypeOK
    <3> HIDE DEF new
    <3>4. QED
      BY <2>2, <3>1, <3>2, <3>3 DEF TypeOK
  <2>5. effects' \in [Tasks -> Nat]
    BY <2>1, <2>2, BusySlot DEF TypeOK
  <2>6. QED
    BY <1>3, <2>4, <2>5 DEF Execute, TypeOK
<1>4. ASSUME NEW w \in Workers, LockRow(w)
      PROVE  TypeOK'
  <2>1. run[w] \in Run /\ run[w].stage # "idle" /\ row[run[w].task].retryCount \in Nat
    BY <1>4, BusySlot DEF LockRow, TypeOK, Abstract!Rows
  <2> DEFINE new == [run[w] EXCEPT !.stage = "locked", !.seen = row[run[w].task].retryCount]
  <2>2. new \in Run
    BY <2>1 DEF Run, Stages
  <2>3. new.stage = "locked" /\ new.task = run[w].task
    BY <2>1 DEF Run
  <2>4. run' = [run EXCEPT ![w] = new]
    BY <1>4 DEF LockRow, TypeOK
  <2>5. /\ run' \in [Workers -> Run]
        /\ \A v \in Workers : run'[v].stage = "idle" <=> run'[v].task = NoTask
    <3> HIDE DEF new
    <3>1. QED
      BY <2>1, <2>2, <2>3, <2>4 DEF TypeOK
  <2>6. QED
    BY <1>4, <2>5 DEF LockRow, TypeOK
<1>5. ASSUME NEW w \in Workers, SkipOutcome(w)
      PROVE  TypeOK'
  <2>1. /\ run' \in [Workers -> Run]
        /\ \A v \in Workers : run'[v].stage = "idle" <=> run'[v].task = NoTask
    BY <1>5, StageSlotType DEF SkipOutcome, Stages
  <2>2. QED
    BY <1>5, <2>1 DEF SkipOutcome, TypeOK
<1>6. ASSUME NEW w \in Workers, CommitOutcome(w)
      PROVE  TypeOK'
  <2> DEFINE t == run[w].task
             target == TargetStatusForResult(run[w].result)
  <2>1. /\ t \in Tasks
        /\ run[w].job \in JobNumbers
        /\ run[w].seen \in Nat
        /\ run[w].stage # "idle"
    BY <1>6, BusySlot DEF CommitOutcome
  <2>2. /\ target \in TaskStatuses
        /\ EndOfWalk(target) = target
        /\ Abstract!ClosingEvent(target) \in Abstract!EventTypes
    BY <1>6, BusySlot, TargetsAreStatuses DEF CommitOutcome
  <2>3. OutcomeRow(w) \in Abstract!Rows
    <3>1. CASE WillRetry(w)
      <4>1. run[w].seen + 1 \in Nat
        BY <2>1
      <4>2. QED
        BY <3>1, <4>1, <2>2, RowType DEF OutcomeRow
    <3>2. CASE ~WillRetry(w)
      <4>1. EndOfWalk(target) \in TaskStatuses
        BY <2>2
      <4>2. QED
        BY <2>1, <3>2, <4>1, RowType DEF OutcomeRow
    <3>3. QED
      BY <3>1, <3>2
  <2>4. row' \in [Tasks -> Abstract!Rows]
    BY <1>6, <2>1, <2>3 DEF CommitOutcome, TypeOK
  <2>5. ASSUME NEW events \in Seq(Abstract!EventTypes)
        PROVE  OutcomeLog(w, events) \in Seq(Abstract!EventTypes)
    <3> DEFINE closed == Append(events, Abstract!ClosingEvent(target))
    <3>1. closed \in Seq(Abstract!EventTypes)
      BY <2>2
    <3>2. "task.retried" \in Abstract!EventTypes
      BY DEF Abstract!EventTypes
    <3>3. Append(closed, "task.retried") \in Seq(Abstract!EventTypes)
      BY <3>1, <3>2
    <3>4. QED
      BY <3>1, <3>3 DEF OutcomeLog
  <2>6. log' \in [Tasks -> Seq(Abstract!EventTypes)]
    BY <1>6, <2>1, <2>5 DEF CommitOutcome, TypeOK
  <2>7. ASSUME NEW js \in [JobNumbers -> Job]
        PROVE  OutcomeJobs(w, js) \in [JobNumbers -> Job]
    <3>1. CASE WillRetry(w)
      <4>1. run[w].seen + 1 \in JobNumbers
        BY <2>1, <3>1, RetriesAssumption DEF WillRetry, JobNumbers
      <4>2. QED
        BY <3>1, <4>1, AddJobType DEF OutcomeJobs
    <3>2. CASE ~WillRetry(w)
      BY <3>2 DEF OutcomeJobs
    <3>3. QED
      BY <3>1, <3>2
  <2>8. jobs' \in [Tasks -> [JobNumbers -> Job]]
    <3> DEFINE js == OutcomeJobs(w, jobs[t])
    <3>1. js \in [JobNumbers -> Job]
      BY <2>1, <2>7 DEF TypeOK
    <3>2. FailJob(js, run[w].job, w) \in [JobNumbers -> Job]
      <4> HIDE DEF js
      <4>1. QED
        BY <2>1, <3>1, FailJobType
    <3>3. \/ jobs' = [jobs EXCEPT ![t] = js]
          \/ jobs' = [jobs EXCEPT ![t] = FailJob(js, run[w].job, w)]
      BY <1>6 DEF CommitOutcome
    <3> HIDE DEF js
    <3>4. QED
      BY <2>1, <3>1, <3>2, <3>3 DEF TypeOK
  <2>9. /\ run' \in [Workers -> Run]
        /\ \A v \in Workers : run'[v].stage = "idle" <=> run'[v].task = NoTask
    <3>1. CASE run' = [run EXCEPT ![w] = IdleRun]
      BY <3>1, IdleSlotType
    <3>2. CASE run' = [run EXCEPT ![w].stage = "committed"]
      BY <2>1, <3>2, StageSlotType DEF Stages
    <3>3. QED
      BY <1>6, <3>1, <3>2 DEF CommitOutcome
  <2>10. QED
    BY <1>6, <2>4, <2>6, <2>8, <2>9 DEF CommitOutcome, TypeOK
<1>7. ASSUME NEW w \in Workers, FinishJob(w)
      PROVE  TypeOK'
  <2>1. /\ run[w].task \in Tasks
        /\ run[w].job \in JobNumbers
    BY <1>7, BusySlot DEF FinishJob
  <2>2. CompleteJob(jobs[run[w].task], run[w].job) \in [JobNumbers -> Job]
    BY <2>1, CompleteJobType DEF TypeOK
  <2>3. QED
    BY <1>7, <2>1, <2>2, IdleSlotType DEF FinishJob, TypeOK
<1>8. ASSUME NEW w \in Workers, RejectPayload(w) \/ HandlerFails(w)
      PROVE  TypeOK'
  <2>1. run[w].stage # "idle" /\ Throw(w)
    BY <1>8 DEF RejectPayload, HandlerFails
  <2>2. /\ run[w].task \in Tasks
        /\ run[w].job \in JobNumbers
    BY <2>1, BusySlot
  <2>3. FailJob(jobs[run[w].task], run[w].job, w) \in [JobNumbers -> Job]
    BY <2>2, FailJobType DEF TypeOK
  <2>4. QED
    BY <2>1, <2>2, <2>3, IdleSlotType DEF Throw, TypeOK
<1>9. ASSUME NEW w \in Workers, Crash(w)
      PROVE  TypeOK'
  <2> DEFINE t == run[w].task
             js == jobs[t]
             freed == [n \in JobNumbers |->
                          IF js[n].holder = w THEN [js[n] EXCEPT !.holder = NoWorker] ELSE js[n]]
  <2>1. t \in Tasks
    BY <1>9, BusySlot DEF Crash
  <2>2. js \in [JobNumbers -> Job]
    BY <2>1 DEF TypeOK
  <2>3. freed \in [JobNumbers -> Job]
    <3> HIDE DEF js
    <3>1. \A job \in Job : [job EXCEPT !.holder = NoWorker] \in Job
      BY DEF Job
    <3>2. QED
      BY <2>2, <3>1
  <2>4. jobs' \in [Tasks -> [JobNumbers -> Job]]
    <3>1. jobs' = [jobs EXCEPT ![t] = freed]
      BY <1>9 DEF Crash
    <3> HIDE DEF freed
    <3>2. QED
      BY <2>1, <2>3, <3>1 DEF TypeOK
  <2>5. crashes' \in 0..MaxCrashes
    BY <1>9, BoundsAssumption DEF Crash, TypeOK
  <2>6. QED
    BY <1>9, <2>4, <2>5, IdleSlotType DEF Crash, TypeOK
<1>10. ASSUME ReclaimJob
       PROVE  TypeOK'
  <2>1. PICK t \in Tasks, n \in JobNumbers :
          jobs' = [jobs EXCEPT ![t][n].state = "queued"]
    BY <1>10 DEF ReclaimJob
  <2>2. [jobs[t][n] EXCEPT !.state = "queued"] \in Job
    <3>1. jobs[t][n] \in Job
      BY DEF TypeOK
    <3>2. QED
      BY <3>1 DEF Job
  <2>3. jobs' \in [Tasks -> [JobNumbers -> Job]]
    BY <2>1, <2>2 DEF TypeOK
  <2>4. QED
    BY <1>10, <2>3 DEF ReclaimJob, TypeOK
<1>11. ASSUME LeaseExpires
       PROVE  TypeOK'
  <2>1. PICK t \in Tasks, n \in JobNumbers :
          /\ expiries < MaxExpiries
          /\ expiries' = expiries + 1
          /\ jobs' = [jobs EXCEPT ![t][n].state = "queued", ![t][n].holder = NoWorker]
    BY <1>11 DEF LeaseExpires
  <2>2. [jobs[t][n] EXCEPT !.state = "queued", !.holder = NoWorker] \in Job
    <3>1. jobs[t][n] \in Job
      BY DEF TypeOK
    <3>2. QED
      BY <3>1 DEF Job
  <2>3. jobs' = [jobs EXCEPT ![t] = [jobs[t] EXCEPT ![n] =
                    [jobs[t][n] EXCEPT !.state = "queued", !.holder = NoWorker]]]
    BY <2>1 DEF TypeOK
  <2>4. jobs' \in [Tasks -> [JobNumbers -> Job]]
    BY <2>2, <2>3 DEF TypeOK
  <2>5. expiries' \in 0..MaxExpiries
    BY <2>1, BoundsAssumption DEF TypeOK
  <2>6. QED
    BY <1>11, <2>4, <2>5 DEF LeaseExpires, TypeOK
<1>12. CASE UNCHANGED vars
  BY <1>12 DEF vars, TypeOK
<1>13. QED
  BY <1>1, <1>2, <1>3, <1>4, <1>5, <1>6, <1>7, <1>8, <1>9, <1>10, <1>11, <1>12
     DEF Next, Progress

\* Every variable keeps its type, whatever the bounds.
THEOREM TypeCorrect == Spec => []TypeOK
<1>1. QED
  BY InitTypeOK, NextTypeOK, PTL DEF Spec

-----------------------------------------------------------------------------
(***************************************************************************)
(* The row lock.  While a slot holds the row of its task, the row is still *)
(* what the slot selected, and no other slot holds it: this is what makes  *)
(* the read and the writes of commitOutcome one step of the abstract task. *)
(***************************************************************************)
LockInv ==
    \A w \in Workers :
        run[w].stage = "locked" =>
            /\ row[run[w].task].status = "pending"
            /\ row[run[w].task].retryCount = run[w].seen
            /\ run[w].seen <= MaxRetries
            /\ \A v \in Workers :
                  run[v].stage = "locked" /\ run[v].task = run[w].task => v = w

\* The rows stay within their budget: needed for a count read by LockRow.
CountInv == \A t \in Tasks : row[t].retryCount <= MaxRetries

\* A step that moves no row and takes no lock keeps the lock invariant.
LEMMA LockInvKept ==
    ASSUME TypeOK, LockInv, NEW u \in Workers,
           row' = row,
           \A w \in Workers : w # u => run'[w] = run[w],
           run'[u].stage # "locked"
    PROVE  LockInv'
BY DEF LockInv

LEMMA CommitChanges ==
    ASSUME TypeOK, LockInv, CountInv, NEW w \in Workers, CommitOutcome(w)
    PROVE  LET t == run[w].task
               target == TargetStatusForResult(run[w].result)
           IN  /\ t \in Tasks
               /\ row[t].status = "pending"
               /\ row[t].retryCount = run[w].seen
               /\ run[w].seen \in Nat
               /\ run[w].seen <= MaxRetries
               /\ target \in TargetStatuses
               /\ target \notin {"absent", "pending"}
               /\ \/ /\ target = "failed"
                     /\ run[w].seen < MaxRetries
                     /\ WillRetry(w)
                     /\ OutcomeRow(w) = [status |-> "pending", retryCount |-> run[w].seen + 1]
                     /\ OutcomeRow(w).retryCount = run[w].seen + 1
                  \/ /\ target = "failed" => run[w].seen = MaxRetries
                     /\ ~WillRetry(w)
                     /\ OutcomeRow(w) = [status |-> target, retryCount |-> run[w].seen]
                     /\ OutcomeRow(w).retryCount = run[w].seen
<1> DEFINE t == run[w].task
           target == TargetStatusForResult(run[w].result)
<1>1. /\ t \in Tasks
      /\ run[w].seen \in Nat
      /\ target \in TargetStatuses
      /\ target \notin {"absent", "pending"}
      /\ EndOfWalk(target) = target
  BY BusySlot, TargetsAreStatuses DEF CommitOutcome
<1>2. /\ row[t].status = "pending"
      /\ row[t].retryCount = run[w].seen
      /\ run[w].seen <= MaxRetries
  BY DEF LockInv, CommitOutcome
<1>3. CASE WillRetry(w)
  BY <1>1, <1>2, <1>3 DEF WillRetry, OutcomeRow
<1>4. CASE ~WillRetry(w)
  BY <1>1, <1>2, <1>4, RetriesAssumption DEF WillRetry, OutcomeRow
<1>5. QED
  BY <1>3, <1>4

LEMMA LockInvInductive ==
    TypeOK /\ LockInv /\ CountInv /\ [Next]_vars => LockInv' /\ CountInv'
<1> SUFFICES ASSUME TypeOK, LockInv, CountInv, [Next]_vars
             PROVE  LockInv' /\ CountInv'
  OBVIOUS
<1>1. ASSUME NEW t \in Tasks, Dispatch(t)
      PROVE  LockInv' /\ CountInv'
  <2>1. \A w \in Workers : run[w].stage = "locked" => run[w].task # t
    <3>1. row[t].status = "absent"
      BY <1>1 DEF Dispatch, Abstract!NoRow
    <3>2. \A w \in Workers : run[w].stage = "locked" => row[run[w].task].status = "pending"
      BY DEF LockInv
    <3>3. QED
      BY <3>1, <3>2
  <2>2. /\ run' = run
        /\ \A u \in Tasks : u # t => row'[u] = row[u]
        /\ row'[t].retryCount = 0
    BY <1>1 DEF Dispatch, TypeOK
  <2>3. \A w \in Workers : run[w].stage = "locked" => run[w].task \in Tasks
    BY BusySlot
  <2>4. LockInv'
    BY <2>1, <2>2, <2>3 DEF LockInv
  <2>5. CountInv'
    BY <2>2, RetriesAssumption DEF CountInv
  <2>6. QED
    BY <2>4, <2>5
<1>2. ASSUME NEW w \in Workers, PickJob(w)
      PROVE  LockInv' /\ CountInv'
  <2>1. PICK t \in Tasks, n \in JobNumbers :
          run' = [run EXCEPT ![w] = [IdleRun EXCEPT !.stage = "picked", !.task = t, !.job = n]]
    BY <1>2 DEF PickJob
  <2>2. run'[w].stage = "picked"
    BY <2>1 DEF TypeOK, IdleRun
  <2>3. QED
    BY <1>2, <2>1, <2>2, LockInvKept DEF PickJob, TypeOK, CountInv
<1>3. ASSUME NEW w \in Workers, Execute(w)
      PROVE  LockInv' /\ CountInv'
  <2>1. PICK result \in Results :
          run' = [run EXCEPT ![w].stage = "executed",
                             ![w].result = result.status,
                             ![w].retryable = result.retryable]
    BY <1>3 DEF Execute
  <2>2. run'[w].stage = "executed"
    BY <2>1 DEF TypeOK, Run
  <2>3. QED
    BY <1>3, <2>1, <2>2, LockInvKept DEF Execute, TypeOK, CountInv
<1>4. ASSUME NEW w \in Workers, LockRow(w)
      PROVE  LockInv' /\ CountInv'
  <2> DEFINE t == run[w].task
  <2>1. /\ t \in Tasks
        /\ row[t].status = "pending"
        /\ row[t].retryCount <= MaxRetries
    BY <1>4, BusySlot DEF LockRow, CountInv
  <2>2. /\ run'[w].stage = "locked"
        /\ run'[w].task = t
        /\ run'[w].seen = row[t].retryCount
        /\ \A v \in Workers : v # w => run'[v] = run[v]
    BY <1>4 DEF LockRow, TypeOK, Run
  <2>3. \A v \in Workers : run[v].stage = "locked" => run[v].task # t
    BY <1>4 DEF LockRow, RowLocked
  <2>4. row' = row
    BY <1>4 DEF LockRow
  <2>5. LockInv'
    BY <2>1, <2>2, <2>3, <2>4 DEF LockInv
  <2>6. QED
    BY <2>4, <2>5 DEF CountInv
<1>5. ASSUME NEW w \in Workers, SkipOutcome(w)
      PROVE  LockInv' /\ CountInv'
  <2>1. run'[w].stage = "committed"
    BY <1>5 DEF SkipOutcome, TypeOK, Run
  <2>2. QED
    BY <1>5, <2>1, LockInvKept DEF SkipOutcome, TypeOK, CountInv
<1>6. ASSUME NEW w \in Workers, CommitOutcome(w)
      PROVE  LockInv' /\ CountInv'
  <2> DEFINE t == run[w].task
  <2>1. /\ t \in Tasks
        /\ row'[t] = OutcomeRow(w)
        /\ OutcomeRow(w).retryCount <= MaxRetries
        /\ \A u \in Tasks : u # t => row'[u] = row[u]
    <3>1. t \in Tasks /\ OutcomeRow(w).retryCount <= MaxRetries
      BY <1>6, CommitChanges, RetriesAssumption
    <3>2. row' = [row EXCEPT ![t] = OutcomeRow(w)]
      BY <1>6 DEF CommitOutcome
    <3>3. QED
      BY <3>1, <3>2 DEF TypeOK
  <2>2. /\ run'[w].stage # "locked"
        /\ \A v \in Workers : v # w => run'[v] = run[v]
    BY <1>6 DEF CommitOutcome, TypeOK, Run, IdleRun
  <2>3. \A v \in Workers : v # w /\ run[v].stage = "locked" => run[v].task \in Tasks \ {t}
    BY <1>6, BusySlot DEF LockInv, CommitOutcome
  <2>4. LockInv'
    BY <2>1, <2>2, <2>3 DEF LockInv
  <2>5. QED
    BY <2>1, <2>4 DEF CountInv
<1>7. ASSUME NEW w \in Workers, run' = [run EXCEPT ![w] = IdleRun], row' = row
      PROVE  LockInv' /\ CountInv'
  <2>1. run'[w].stage = "idle"
    BY <1>7 DEF TypeOK, IdleRun
  <2>2. QED
    BY <1>7, <2>1, LockInvKept DEF TypeOK, CountInv
<1>8. ASSUME UNCHANGED <<row, run>>
      PROVE  LockInv' /\ CountInv'
  BY <1>8 DEF LockInv, CountInv
<1>9. QED
  BY <1>1, <1>2, <1>3, <1>4, <1>5, <1>6, <1>7, <1>8
     DEF Next, Progress, vars, RejectPayload, HandlerFails, Throw, FinishJob, Crash,
         ReclaimJob, LeaseExpires

LEMMA InitLockInv == Init => LockInv /\ CountInv
<1> SUFFICES ASSUME Init
             PROVE  LockInv /\ CountInv
  OBVIOUS
<1>1. \A w \in Workers : run[w].stage = "idle"
  BY DEF Init, IdleRun
<1>2. \A t \in Tasks : row[t].retryCount = 0
  BY DEF Init, Abstract!NoRow
<1>3. QED
  BY <1>1, <1>2, RetriesAssumption DEF LockInv, CountInv

LEMMA LockInvariant == Spec => [](LockInv /\ CountInv)
<1>1. QED
  BY InitLockInv, LockInvInductive, TypeCorrect, PTL DEF Spec

-----------------------------------------------------------------------------
(***************************************************************************)
(* Refinement of the abstract task.                                        *)
(***************************************************************************)
LEMMA StepRefines ==
    TypeOK /\ LockInv /\ CountInv /\ [Next]_vars => [Abstract!Next]_(Abstract!vars)
<1> SUFFICES ASSUME TypeOK, LockInv, CountInv, [Next]_vars
             PROVE  Abstract!Next \/ (row' = row /\ log' = log)
  BY DEF Abstract!vars
<1>1. ASSUME NEW t \in Tasks, Dispatch(t)
      PROVE  Abstract!Create(t)
  BY <1>1 DEF Dispatch, Abstract!Create
<1>2. ASSUME NEW w \in Workers, CommitOutcome(w)
      PROVE  \E t \in Tasks :
                \/ Abstract!Retry(t)
                \/ \E target \in TargetStatuses : Abstract!Settle(t, target)
  <2> DEFINE t == run[w].task
             target == TargetStatusForResult(run[w].result)
  <2>1. /\ t \in Tasks
        /\ target \in TargetStatuses
        /\ row[t].status = "pending"
        /\ row[t].retryCount = run[w].seen
        /\ row[t] \in Abstract!Rows
        /\ row' = [row EXCEPT ![t] = OutcomeRow(w)]
        /\ log' = [log EXCEPT ![t] = OutcomeLog(w, log[t])]
    BY <1>2, CommitChanges DEF CommitOutcome, TypeOK
  <2>2. CASE WillRetry(w)
    <3>1. /\ target = "failed"
          /\ run[w].seen < MaxRetries
          /\ OutcomeRow(w) = [status |-> "pending", retryCount |-> run[w].seen + 1]
      BY <1>2, <2>2, CommitChanges
    <3>2. OutcomeRow(w) = [row[t] EXCEPT !.retryCount = @ + 1]
      BY <2>1, <3>1 DEF Abstract!Rows
    <3>3. OutcomeLog(w, log[t]) = Append(Append(log[t], "task.failed"), "task.retried")
      BY <2>2, <3>1 DEF OutcomeLog, Abstract!ClosingEvent
    <3>4. Abstract!Retry(t)
      <4> HIDE DEF t
      <4>1. row' = [row EXCEPT ![t] = [row[t] EXCEPT !.retryCount = @ + 1]]
        BY <2>1, <3>2
      <4>2. QED
        BY <2>1, <3>1, <3>3, <4>1 DEF Abstract!Retry, TypeOK
    <3>5. QED
      BY <2>1, <3>4
  <2>3. CASE ~WillRetry(w)
    <3>1. /\ target = "failed" => run[w].seen = MaxRetries
          /\ OutcomeRow(w) = [status |-> target, retryCount |-> run[w].seen]
      BY <1>2, <2>3, CommitChanges
    <3>2. OutcomeRow(w) = [row[t] EXCEPT !.status = target]
      BY <2>1, <3>1 DEF Abstract!Rows
    <3>3. OutcomeLog(w, log[t]) = Append(log[t], Abstract!ClosingEvent(target))
      BY <2>3 DEF OutcomeLog
    <3>4. Abstract!Settle(t, target)
      <4> HIDE DEF t, target
      <4>1. row' = [row EXCEPT ![t] = [row[t] EXCEPT !.status = target]]
        BY <2>1, <3>2
      <4>2. QED
        BY <2>1, <3>1, <3>3, <4>1 DEF Abstract!Settle, TypeOK
    <3>5. QED
      BY <2>1, <3>4
  <2>4. QED
    BY <2>2, <2>3
<1>3. Abstract!TargetStatuses = TargetStatuses
  BY DEF TargetStatuses, Abstract!TargetStatuses
<1>4. CASE UNCHANGED <<row, log>>
  BY <1>4
<1>5. QED
  BY <1>1, <1>2, <1>3, <1>4
     DEF Abstract!Next, Next, Progress, vars, PickJob, Execute, LockRow, SkipOutcome,
         RejectPayload, HandlerFails, Throw, FinishJob, Crash, ReclaimJob, LeaseExpires

\* The queue, the slots and the transactions implement the abstract task.
THEOREM Refinement == Spec => ImplementsDurableTask
<1>1. Init => Abstract!Init
  BY DEF Init, Abstract!Init
<1>2. QED
  BY <1>1, StepRefines, LockInvariant, TypeCorrect, PTL
     DEF Spec, ImplementsDurableTask, Abstract!Spec

AbstractProofs == INSTANCE DurableTask_proofs

\* The abstract specification the proofs are about is the one that is implemented.
LEMMA SameAbstraction == Abstract!Spec => AbstractProofs!Spec
<1>1. Abstract!Init => AbstractProofs!Init
  BY DEF Abstract!Init, AbstractProofs!Init, Abstract!NoRow, AbstractProofs!NoRow
<1>2. [Abstract!Next]_(Abstract!vars) => [AbstractProofs!Next]_(AbstractProofs!vars)
  BY DEF Abstract!Next, AbstractProofs!Next, Abstract!vars, AbstractProofs!vars,
         Abstract!Create, AbstractProofs!Create, Abstract!Retry, AbstractProofs!Retry,
         Abstract!Settle, AbstractProofs!Settle, Abstract!NoRow, AbstractProofs!NoRow,
         Abstract!TargetStatuses, AbstractProofs!TargetStatuses,
         Abstract!ClosingEvent, AbstractProofs!ClosingEvent
<1>3. QED
  BY <1>1, <1>2, PTL DEF Abstract!Spec, AbstractProofs!Spec

\* However deliveries, crashes and retries interleave, the events of a task are
\* exactly those its row accounts for.
THEOREM RowsMatchTraces == Spec => []RowMatchesTrace
<1>1. AbstractProofs!Spec => []AbstractProofs!RowMatchesTrace
  BY AbstractProofs!TraceMatches
<1>2. AbstractProofs!RowMatchesTrace => RowMatchesTrace
  BY DEF RowMatchesTrace, Abstract!RowMatchesTrace, AbstractProofs!RowMatchesTrace,
         Abstract!TraceOf, AbstractProofs!TraceOf,
         Abstract!ClosingEvent, AbstractProofs!ClosingEvent
<1>3. QED
  BY <1>1, <1>2, SameAbstraction, Refinement, PTL DEF ImplementsDurableTask

\* Redeliveries and concurrent slots never take a task beyond its retry budget, nor
\* give it up before the budget is spent.
THEOREM BudgetKept == Spec => []RetryBudget
<1>1. AbstractProofs!Spec => []AbstractProofs!RetryBudget
  BY AbstractProofs!BudgetRespected, RetriesAssumption
<1>2. AbstractProofs!RetryBudget => RetryBudget
  BY DEF RetryBudget, Abstract!RetryBudget, AbstractProofs!RetryBudget
<1>3. QED
  BY <1>1, <1>2, SameAbstraction, Refinement, PTL DEF ImplementsDurableTask

\* A slot that comes late with a stale result never changes a settled task.
THEOREM SettledTasksStay == Spec => SettledIsFinal
<1>1. AbstractProofs!Spec => AbstractProofs!SettledIsFinal
  BY AbstractProofs!SettledStays
<1>2. AbstractProofs!SettledIsFinal => SettledIsFinal
  BY PTL DEF SettledIsFinal, Abstract!SettledIsFinal, AbstractProofs!SettledIsFinal,
             Abstract!vars, AbstractProofs!vars
<1>3. QED
  BY <1>1, <1>2, SameAbstraction, Refinement, PTL DEF ImplementsDurableTask

-----------------------------------------------------------------------------
(***************************************************************************)
(* The queue.  A task has at most one keyed job, a job without its key has *)
(* no attempts left, and only a held job has a holder.                     *)
(***************************************************************************)
KeyedOnce(js) ==
    \A m, n \in JobNumbers : js[m].keyed /\ js[n].keyed => m = n

Spent(js) ==
    \A n \in JobNumbers :
        /\ js[n].state \in {"queued", "held"} /\ ~js[n].keyed => js[n].attempts = MaxAttempts
        /\ js[n].state \in {"absent", "gone"} => ~js[n].keyed
        /\ js[n].holder # NoWorker => js[n].state = "held"

QueueOK(js) == KeyedOnce(js) /\ Spent(js)

QueueInv == \A t \in Tasks : QueueOK(jobs[t])

LEMMA JobFields ==
    ASSUME NEW js \in [JobNumbers -> Job], NEW n \in JobNumbers
    PROVE  /\ js[n] \in Job
           /\ js[n].state \in {"absent", "queued", "held", "gone"}
           /\ js[n].keyed \in BOOLEAN
           /\ js[n].attempts \in 0..MaxAttempts
           /\ js[n].holder \in Workers \cup {NoWorker}
BY DEF Job

\* What add_job leaves: the jobs that lost their key, and one keyed job.
LEMMA AddJobResult ==
    ASSUME NEW js \in [JobNumbers -> Job], QueueOK(js), NEW number \in JobNumbers,
           js[number].state = "absent"
    PROVE  /\ \A n \in JobNumbers : n # number =>
                 /\ AddJob(js, number)[n].state = js[n].state
                 /\ AddJob(js, number)[n].holder = js[n].holder
                 /\ AddJob(js, number)[n].keyed <=> (js[n].keyed /\ IsAvailable(js[n]))
                 /\ ~AddJob(js, number)[n].keyed /\ js[n].state \in {"queued", "held"}
                        => AddJob(js, number)[n].attempts = MaxAttempts
           /\ \/ /\ AddJob(js, number)[number] = NewJob
                 /\ \A n \in JobNumbers : n # number => ~AddJob(js, number)[n].keyed
              \/ /\ AddJob(js, number)[number].state = "absent"
                 /\ AddJob(js, number)[number].holder = NoWorker
                 /\ ~AddJob(js, number)[number].keyed
                 /\ \E n \in JobNumbers : AddJob(js, number)[n].keyed
           /\ QueueOK(AddJob(js, number))
<1> DEFINE kept == [n \in JobNumbers |-> Unkeyed(js[n])]
           added == AddJob(js, number)
<1>1. \A n \in JobNumbers :
        /\ kept[n].state = js[n].state
        /\ kept[n].holder = js[n].holder
        /\ kept[n].keyed <=> (js[n].keyed /\ IsAvailable(js[n]))
        /\ ~kept[n].keyed /\ js[n].state \in {"queued", "held"} => kept[n].attempts = MaxAttempts
  <2> SUFFICES ASSUME NEW n \in JobNumbers
               PROVE  /\ Unkeyed(js[n]).state = js[n].state
                      /\ Unkeyed(js[n]).holder = js[n].holder
                      /\ Unkeyed(js[n]).keyed <=> (js[n].keyed /\ IsAvailable(js[n]))
                      /\ ~Unkeyed(js[n]).keyed /\ js[n].state \in {"queued", "held"}
                            => Unkeyed(js[n]).attempts = MaxAttempts
    OBVIOUS
  <2>1. js[n] \in Job
    OBVIOUS
  <2>2. CASE js[n].keyed /\ ~IsAvailable(js[n])
    <3>1. Unkeyed(js[n]) = [js[n] EXCEPT !.keyed = FALSE, !.attempts = MaxAttempts]
      BY <2>2 DEF Unkeyed
    <3>2. QED
      BY <2>1, <2>2, <3>1 DEF Job
  <2>3. CASE ~(js[n].keyed /\ ~IsAvailable(js[n]))
    <3>1. Unkeyed(js[n]) = js[n]
      BY <2>3 DEF Unkeyed
    <3>2. QED
      BY <2>3, <3>1 DEF QueueOK, Spent
  <2>4. QED
    BY <2>2, <2>3
<1>2. kept \in [JobNumbers -> Job]
  BY UnkeyedIsJob
<1>3. CASE \E n \in JobNumbers : kept[n].keyed
  <2>1. added = [n \in JobNumbers |->
                    IF kept[n].keyed THEN [kept[n] EXCEPT !.attempts = 0] ELSE kept[n]]
    BY <1>3 DEF AddJob
  <2>2. \A n \in JobNumbers :
          /\ added[n].state = kept[n].state
          /\ added[n].holder = kept[n].holder
          /\ added[n].keyed <=> kept[n].keyed
          /\ ~kept[n].keyed => added[n].attempts = kept[n].attempts
    <3> HIDE DEF kept, added
    <3>1. QED
      BY <1>2, <2>1 DEF Job
  <2>3. ~kept[number].keyed /\ js[number].holder = NoWorker
    BY <1>1 DEF QueueOK, Spent
  <2> HIDE DEF kept, added
  <2>4. QueueOK(added)
    <3>1. KeyedOnce(added)
      BY <1>1, <2>2 DEF QueueOK, KeyedOnce
    <3>2. Spent(added)
      BY <1>1, <2>2 DEF QueueOK, Spent
    <3>3. QED
      BY <3>1, <3>2 DEF QueueOK
  <2>5. QED
    BY <1>1, <1>3, <2>2, <2>3, <2>4 DEF added
<1>4. CASE ~\E n \in JobNumbers : kept[n].keyed
  <2>1. added = [kept EXCEPT ![number] = NewJob]
    BY <1>4 DEF AddJob
  <2>2. /\ \A n \in JobNumbers : n # number => added[n] = kept[n]
        /\ added[number] = NewJob
    <3> HIDE DEF kept, added
    <3>1. QED
      BY <1>2, <2>1
  <2>3. NewJob.state = "queued" /\ NewJob.keyed /\ NewJob.holder = NoWorker
    BY DEF NewJob
  <2> HIDE DEF kept, added
  <2>4. QueueOK(added)
    <3>1. KeyedOnce(added)
      BY <1>4, <2>2 DEF KeyedOnce
    <3>2. Spent(added)
      BY <1>1, <2>2, <2>3 DEF QueueOK, Spent
    <3>3. QED
      BY <3>1, <3>2 DEF QueueOK
  <2>5. QED
    BY <1>1, <1>4, <2>2, <2>4 DEF added
<1>5. QED
  BY <1>3, <1>4

\* Giving a job back to the queue changes nothing but its state and its holder.
LEMMA GiveBackResult ==
    ASSUME NEW js \in [JobNumbers -> Job], QueueOK(js), NEW n \in JobNumbers,
           js[n].state # "absent", js[n].state # "gone"
    PROVE  LET ks == [js EXCEPT ![n].state = "queued", ![n].holder = NoWorker]
           IN  /\ QueueOK(ks)
               /\ ks[n].holder = NoWorker
               /\ ks[n].state = "queued"
               /\ ks[n].keyed <=> js[n].keyed
               /\ \A m \in JobNumbers : m # n => ks[m] = js[m]
<1> DEFINE ks == [js EXCEPT ![n].state = "queued", ![n].holder = NoWorker]
<1>1. /\ ks[n].holder = NoWorker
      /\ ks[n].state = "queued"
      /\ ks[n].keyed <=> js[n].keyed
      /\ ks[n].attempts = js[n].attempts
      /\ \A m \in JobNumbers : m # n => ks[m] = js[m]
  <2>1. js[n] \in Job
    OBVIOUS
  <2>2. QED
    BY <2>1 DEF Job
<1> HIDE DEF ks
<1>2. KeyedOnce(ks)
  BY <1>1 DEF QueueOK, KeyedOnce
<1>3. Spent(ks)
  <2>1. js[n].state \in {"queued", "held"}
    BY JobFields
  <2>2. QED
    BY <1>1, <2>1 DEF QueueOK, Spent
<1>4. QED
  BY <1>1, <1>2, <1>3 DEF QueueOK, ks

LEMMA FailJobResult ==
    ASSUME NEW js \in [JobNumbers -> Job], QueueOK(js), NEW n \in JobNumbers,
           NEW w \in Workers
    PROVE  LET ks == FailJob(js, n, w)
           IN  /\ QueueOK(ks)
               /\ \A m \in JobNumbers :
                     /\ ks[m].keyed <=> js[m].keyed
                     /\ ks[m].state = "absent" <=> js[m].state = "absent"
                     /\ m # n \/ js[m].holder # w => ks[m].holder = js[m].holder
<1> DEFINE ks == FailJob(js, n, w)
<1>1. CASE js[n].holder = w
  <2>1. js[n].state = "held"
    BY <1>1, NoWorkerAssumption DEF QueueOK, Spent
  <2>2. ks = [js EXCEPT ![n].state = "queued", ![n].holder = NoWorker]
    BY <1>1 DEF FailJob
  <2> HIDE DEF ks
  <2>3. /\ QueueOK(ks)
        /\ ks[n].holder = NoWorker
        /\ ks[n].state = "queued"
        /\ ks[n].keyed <=> js[n].keyed
        /\ \A m \in JobNumbers : m # n => ks[m] = js[m]
    BY <2>1, <2>2, GiveBackResult
  <2>4. QED
    BY <1>1, <2>1, <2>3 DEF ks
<1>2. CASE js[n].holder # w
  BY <1>2 DEF FailJob
<1>3. QED
  BY <1>1, <1>2

LEMMA CompleteJobResult ==
    ASSUME NEW js \in [JobNumbers -> Job], QueueOK(js), NEW n \in JobNumbers
    PROVE  LET ks == CompleteJob(js, n)
           IN  /\ QueueOK(ks)
               /\ ks[n].state = "gone"
               /\ ~ks[n].keyed
               /\ ks[n].holder = NoWorker
               /\ \A m \in JobNumbers : m # n => ks[m] = js[m]
<1> DEFINE ks == CompleteJob(js, n)
<1>1. /\ ks[n].state = "gone"
      /\ ~ks[n].keyed
      /\ ks[n].holder = NoWorker
      /\ \A m \in JobNumbers : m # n => ks[m] = js[m]
  <2>1. ks = [js EXCEPT ![n] = Blank("gone")]
    BY DEF CompleteJob
  <2>2. ks[n] = Blank("gone") /\ \A m \in JobNumbers : m # n => ks[m] = js[m]
    BY <2>1
  <2>3. QED
    BY <2>2 DEF Blank
<1> HIDE DEF ks
<1>2. KeyedOnce(ks)
  BY <1>1 DEF QueueOK, KeyedOnce
<1>3. Spent(ks)
  BY <1>1 DEF QueueOK, Spent
<1>4. QED
  BY <1>1, <1>2, <1>3 DEF QueueOK, ks

LEMMA PickResult ==
    ASSUME TypeOK, QueueInv, NEW w \in Workers, PickJob(w)
    PROVE  \E t \in Tasks, n \in JobNumbers :
             /\ jobs[t][n].state = "queued"
             /\ jobs[t][n].keyed
             /\ QueueOK(jobs'[t])
             /\ jobs'[t][n].state = "held"
             /\ jobs'[t][n].holder = w
             /\ jobs'[t][n].keyed
             /\ \A m \in JobNumbers : m # n => jobs'[t][m] = jobs[t][m]
             /\ \A u \in Tasks : u # t => jobs'[u] = jobs[u]
             /\ run'[w].stage = "picked"
             /\ run'[w].task = t
             /\ run'[w].job = n
             /\ \A v \in Workers : v # w => run'[v] = run[v]
<1>1. PICK t \in Tasks, n \in JobNumbers :
        /\ IsAvailable(jobs[t][n])
        /\ jobs' = [jobs EXCEPT ![t][n].state = "held",
                                ![t][n].attempts = @ + 1,
                                ![t][n].holder = w]
        /\ run' = [run EXCEPT ![w] = [IdleRun EXCEPT !.stage = "picked",
                                                     !.task = t,
                                                     !.job = n]]
  BY DEF PickJob
<1> DEFINE js == jobs[t]
           ks == jobs'[t]
<1>2. js \in [JobNumbers -> Job] /\ QueueOK(js)
  BY DEF TypeOK, QueueInv
<1>3. js[n].state = "queued" /\ js[n].keyed
  <2>1. js[n].attempts < MaxAttempts /\ js[n].state = "queued"
    BY <1>1 DEF IsAvailable
  <2>2. js[n].attempts \in 0..MaxAttempts
    BY <1>2, JobFields
  <2>3. QED
    BY <1>2, <2>1, <2>2, AttemptsAssumption DEF QueueOK, Spent
<1>4. ks = [js EXCEPT ![n].state = "held", ![n].attempts = @ + 1, ![n].holder = w]
  BY <1>1 DEF TypeOK
<1>5. /\ ks[n].state = "held"
      /\ ks[n].holder = w
      /\ ks[n].keyed <=> js[n].keyed
      /\ \A m \in JobNumbers : m # n => ks[m] = js[m]
  <2>1. js[n] \in Job
    BY <1>2
  <2> HIDE DEF js, ks
  <2>2. QED
    BY <1>2, <1>4, <2>1 DEF Job
<1>6. /\ run'[w].stage = "picked"
      /\ run'[w].task = t
      /\ run'[w].job = n
      /\ \A v \in Workers : v # w => run'[v] = run[v]
  <2>1. run' = [run EXCEPT ![w] = [IdleRun EXCEPT !.stage = "picked", !.task = t, !.job = n]]
    BY <1>1
  <2>2. QED
    BY <2>1 DEF TypeOK, IdleRun
<1>7. \A u \in Tasks : u # t => jobs'[u] = jobs[u]
  BY <1>1 DEF TypeOK
<1> HIDE DEF js, ks
<1>8. QueueOK(ks)
  <2>1. KeyedOnce(ks)
    BY <1>2, <1>5 DEF QueueOK, KeyedOnce
  <2>2. Spent(ks)
    BY <1>2, <1>3, <1>5 DEF QueueOK, Spent
  <2>3. QED
    BY <2>1, <2>2 DEF QueueOK
<1>9. QED
  BY <1>3, <1>5, <1>6, <1>7, <1>8 DEF js, ks

(***************************************************************************)
(* Job numbers follow the retry count: a number that has not been reached  *)
(* is not used, and a slot works on a job that was added for its task.     *)
(***************************************************************************)
NumberInv ==
    /\ \A t \in Tasks, n \in JobNumbers :
          row[t].status = "absent" \/ n > row[t].retryCount => jobs[t][n].state = "absent"
    /\ \A w \in Workers :
          run[w].stage # "idle" =>
              /\ row[run[w].task].status # "absent"
              /\ run[w].job <= row[run[w].task].retryCount

\* What CommitOutcome does to the jobs of the task.
LEMMA CommitJobs ==
    ASSUME TypeOK, LockInv, CountInv, QueueInv, NumberInv,
           NEW w \in Workers, CommitOutcome(w)
    PROVE  LET t == run[w].task
               job == run[w].job
           IN  /\ t \in Tasks
               /\ job \in JobNumbers
               /\ row[t].status = "pending"
               /\ row'[t] = OutcomeRow(w)
               /\ row'[t].status # "absent"
               /\ row[t].retryCount <= row'[t].retryCount
               /\ ~WillRetry(w) => row'[t].status # "pending"
               /\ \A u \in Tasks : u # t => row'[u] = row[u] /\ jobs'[u] = jobs[u]
               /\ \A v \in Workers : v # w => run'[v] = run[v]
               /\ run'[w].stage \in {"idle", "committed"}
               /\ run'[w].stage # "idle" => run'[w].task = t /\ run'[w].job = job
               /\ QueueOK(jobs'[t])
               /\ \A n \in JobNumbers : n > row'[t].retryCount => jobs'[t][n].state = "absent"
               /\ WillRetry(w) => \E n \in JobNumbers : jobs'[t][n].keyed
               /\ \A n \in JobNumbers :
                     n <= row[t].retryCount =>
                         /\ n # job \/ run'[w].stage = "committed"
                               => jobs'[t][n].holder = jobs[t][n].holder
                         /\ jobs'[t][n].keyed => jobs[t][n].keyed
                         /\ WillRetry(w) /\ jobs[t][n].state = "held" => ~jobs'[t][n].keyed
<1> DEFINE t == run[w].task
           job == run[w].job
           js == jobs[t]
           ks == OutcomeJobs(w, js)
           ls == jobs'[t]
<1>1. /\ t \in Tasks
      /\ job \in JobNumbers
      /\ run[w] \in Run
      /\ run[w].stage = "locked"
      /\ row[t].retryCount = run[w].seen
      /\ run[w].seen \in Nat
      /\ row[t].status = "pending"
      /\ job <= row[t].retryCount
  <2>1. run[w].stage = "locked"
    BY DEF CommitOutcome
  <2>2. /\ row[t].retryCount = run[w].seen
        /\ row[t].status = "pending"
    BY <2>1 DEF LockInv
  <2>3. job <= row[t].retryCount
    BY <2>1 DEF NumberInv
  <2>4. QED
    BY <2>1, <2>2, <2>3, BusySlot DEF TypeOK
<1>2. js \in [JobNumbers -> Job] /\ QueueOK(js)
  BY <1>1 DEF TypeOK, QueueInv
<1>3. \A n \in JobNumbers : n > run[w].seen => js[n].state = "absent"
  BY <1>1 DEF NumberInv
<1>4. /\ row'[t] = OutcomeRow(w)
      /\ \A u \in Tasks : u # t => row'[u] = row[u] /\ jobs'[u] = jobs[u]
  BY <1>1 DEF CommitOutcome, TypeOK
<1>5. /\ WillRetry(w) => /\ run[w].seen < MaxRetries
                         /\ row'[t].retryCount = run[w].seen + 1
                         /\ row'[t].status = "pending"
      /\ ~WillRetry(w) => /\ row'[t].retryCount = run[w].seen
                          /\ row'[t].status \notin {"absent", "pending"}
  <2> DEFINE target == TargetStatusForResult(run[w].result)
  <2>1. CASE WillRetry(w)
    <3>1. OutcomeRow(w) = [status |-> "pending", retryCount |-> run[w].seen + 1]
      BY <2>1 DEF OutcomeRow
    <3>2. QED
      BY <1>4, <2>1, <3>1 DEF WillRetry
  <2>2. CASE ~WillRetry(w)
    <3>1. OutcomeRow(w) = [status |-> EndOfWalk(target), retryCount |-> run[w].seen]
      BY <2>2 DEF OutcomeRow
    <3>2. EndOfWalk(target) \notin {"absent", "pending"}
      BY <1>1, BusySlot, TargetsAreStatuses
    <3>3. QED
      BY <1>4, <2>2, <3>1, <3>2
  <2>3. QED
    BY <2>1, <2>2
<1>6. /\ ks \in [JobNumbers -> Job]
      /\ QueueOK(ks)
      /\ \A n \in JobNumbers : n > row'[t].retryCount => ks[n].state = "absent"
      /\ WillRetry(w) => \E n \in JobNumbers : ks[n].keyed
      /\ \A n \in JobNumbers :
            n <= row[t].retryCount =>
                /\ ks[n].holder = js[n].holder
                /\ ks[n].keyed => js[n].keyed
                /\ WillRetry(w) /\ js[n].state = "held" => ~ks[n].keyed
  <2>1. CASE WillRetry(w)
    <3> DEFINE number == run[w].seen + 1
    <3>1. number \in JobNumbers
      BY <1>1, <1>5, <2>1, RetriesAssumption DEF JobNumbers
    <3>2. ks = AddJob(js, number)
      BY <2>1 DEF OutcomeJobs
    <3>3. js[number].state = "absent"
      BY <1>1, <1>3, <3>1
    <3>4. \A n \in JobNumbers : n <= row[t].retryCount => n # number
      BY <1>1 DEF JobNumbers
    <3>5. \A n \in JobNumbers : n > row'[t].retryCount => n # number /\ n > run[w].seen
      BY <1>1, <1>5, <2>1 DEF JobNumbers
    <3> HIDE DEF js, ks, number
    <3>6. ks \in [JobNumbers -> Job]
      BY <1>2, <3>1, <3>2, AddJobType
    <3>7. /\ \A n \in JobNumbers : n # number =>
                 /\ ks[n].state = js[n].state
                 /\ ks[n].holder = js[n].holder
                 /\ ks[n].keyed <=> (js[n].keyed /\ IsAvailable(js[n]))
          /\ \/ ks[number] = NewJob
             \/ \E n \in JobNumbers : ks[n].keyed
          /\ QueueOK(ks)
      BY <1>2, <3>1, <3>2, <3>3, AddJobResult
    <3>8. NewJob.keyed
      BY DEF NewJob
    <3>9. \A n \in JobNumbers : js[n].state = "held" => ~IsAvailable(js[n])
      BY DEF IsAvailable
    <3>10. QED
      BY <1>3, <2>1, <3>1, <3>4, <3>5, <3>6, <3>7, <3>8, <3>9
  <2>2. CASE ~WillRetry(w)
    <3>1. ks = js
      BY <2>2 DEF OutcomeJobs
    <3> HIDE DEF ks, js
    <3>2. QED
      BY <1>1, <1>2, <1>3, <1>5, <2>2, <3>1
  <2>3. QED
    BY <2>1, <2>2
<1>7. /\ run'[w].stage \in {"idle", "committed"}
      /\ run'[w].stage # "idle" => run'[w].task = t /\ run'[w].job = job
      /\ \A v \in Workers : v # w => run'[v] = run[v]
      /\ \/ ls = ks /\ run'[w].stage = "committed"
         \/ ls = FailJob(ks, job, w) /\ run'[w].stage = "idle"
  <2>1. CASE /\ jobs' = [jobs EXCEPT ![t] = ks]
             /\ run' = [run EXCEPT ![w].stage = "committed"]
    BY <1>1, <2>1 DEF TypeOK, Run
  <2>2. CASE /\ jobs' = [jobs EXCEPT ![t] = FailJob(ks, job, w)]
             /\ run' = [run EXCEPT ![w] = IdleRun]
    BY <1>1, <2>2 DEF TypeOK, IdleRun
  <2>3. QED
    BY <2>1, <2>2 DEF CommitOutcome
<1> HIDE DEF js, ks, ls
<1>8. /\ QueueOK(ls)
      /\ \A n \in JobNumbers :
            /\ ls[n].keyed <=> ks[n].keyed
            /\ ls[n].state = "absent" <=> ks[n].state = "absent"
            /\ n # job \/ run'[w].stage = "committed" => ls[n].holder = ks[n].holder
  <2>1. CASE ls = ks
    BY <1>6, <2>1
  <2>2. CASE ls = FailJob(ks, job, w) /\ run'[w].stage = "idle"
    <3>1. /\ QueueOK(ls)
          /\ \A n \in JobNumbers :
                /\ ls[n].keyed <=> ks[n].keyed
                /\ ls[n].state = "absent" <=> ks[n].state = "absent"
                /\ n # job => ls[n].holder = ks[n].holder
      BY <1>1, <1>6, <2>2, FailJobResult
    <3>2. QED
      BY <2>2, <3>1
  <2>3. QED
    BY <1>7, <2>1, <2>2
<1>9. row[t].retryCount <= row'[t].retryCount
  BY <1>1, <1>5
<1>10. QED
  BY <1>1, <1>4, <1>5, <1>6, <1>7, <1>8, <1>9 DEF js, ls

-----------------------------------------------------------------------------
(***************************************************************************)
(* What the other actions do to the queue and to the slots.                *)
(***************************************************************************)
\* Dispatch: the task had no jobs and no slot, and gets a keyed job.
LEMMA DispatchJobs ==
    ASSUME TypeOK, QueueInv, NumberInv, NEW t \in Tasks, Dispatch(t)
    PROVE  /\ row[t].status = "absent"
           /\ row'[t].status = "pending"
           /\ row'[t].retryCount = 0
           /\ QueueOK(jobs'[t])
           /\ \A n \in JobNumbers : n > 0 => jobs'[t][n].state = "absent"
           /\ \E n \in JobNumbers : jobs'[t][n].keyed
           /\ \A u \in Tasks : u # t => row'[u] = row[u] /\ jobs'[u] = jobs[u]
           /\ \A v \in Workers : run[v].task # t
           /\ run' = run
<1>1. row[t].status = "absent"
  BY DEF Dispatch, Abstract!NoRow
<1>2. /\ row'[t].status = "pending"
      /\ row'[t].retryCount = 0
      /\ jobs'[t] = AddJob(jobs[t], 0)
      /\ \A u \in Tasks : u # t => row'[u] = row[u] /\ jobs'[u] = jobs[u]
      /\ run' = run
  BY DEF Dispatch, TypeOK
<1>3. 0 \in JobNumbers /\ \A n \in JobNumbers : n > 0 => n # 0
  BY RetriesAssumption DEF JobNumbers
<1> DEFINE js == jobs[t]
<1>4. js \in [JobNumbers -> Job] /\ QueueOK(js) /\ \A n \in JobNumbers : js[n].state = "absent"
  BY <1>1 DEF TypeOK, QueueInv, NumberInv
<1> HIDE DEF js
<1>5. /\ \A n \in JobNumbers : n # 0 => AddJob(js, 0)[n].state = js[n].state
      /\ AddJob(js, 0)[0] = NewJob \/ \E n \in JobNumbers : AddJob(js, 0)[n].keyed
      /\ QueueOK(AddJob(js, 0))
  BY <1>3, <1>4, AddJobResult
<1>6. NewJob.keyed
  BY DEF NewJob
<1>7. \A v \in Workers : run[v].task # t
  <2>1. \A v \in Workers : run[v].stage = "idle" => run[v].task = NoTask
    BY DEF TypeOK
  <2>2. QED
    BY <1>1, <2>1, NoTaskAssumption DEF NumberInv
<1>8. QED
  BY <1>1, <1>2, <1>3, <1>4, <1>5, <1>6, <1>7 DEF js

\* A step of one slot from busy to busy changes neither the queue nor what it works on.
LEMMA StageStep ==
    ASSUME TypeOK, NEW w \in Workers, Execute(w) \/ LockRow(w) \/ SkipOutcome(w)
    PROVE  /\ row' = row
           /\ jobs' = jobs
           /\ expiries' = expiries
           /\ run[w].stage \notin {"idle", "committed"}
           /\ run'[w].stage # "idle"
           /\ run'[w].task = run[w].task
           /\ run'[w].job = run[w].job
           /\ run'[w].stage = "committed" => row[run[w].task].status # "pending"
           /\ \A v \in Workers : v # w => run'[v] = run[v]
<1>1. run[w] \in Run
  BY DEF TypeOK
<1>2. CASE Execute(w)
  <2>1. PICK result \in Results :
          run' = [run EXCEPT ![w].stage = "executed",
                             ![w].result = result.status,
                             ![w].retryable = result.retryable]
    BY <1>2 DEF Execute
  <2>2. /\ run'[w].stage = "executed"
        /\ run'[w].task = run[w].task
        /\ run'[w].job = run[w].job
        /\ \A v \in Workers : v # w => run'[v] = run[v]
    BY <1>1, <2>1 DEF TypeOK, Run
  <2>3. QED
    BY <1>2, <2>2 DEF Execute
<1>3. CASE LockRow(w)
  <2>1. /\ run'[w].stage = "locked"
        /\ run'[w].task = run[w].task
        /\ run'[w].job = run[w].job
        /\ \A v \in Workers : v # w => run'[v] = run[v]
    BY <1>1, <1>3 DEF LockRow, TypeOK, Run
  <2>2. QED
    BY <1>3, <2>1 DEF LockRow
<1>4. CASE SkipOutcome(w)
  <2>1. /\ run'[w].stage = "committed"
        /\ run'[w].task = run[w].task
        /\ run'[w].job = run[w].job
        /\ \A v \in Workers : v # w => run'[v] = run[v]
    BY <1>1, <1>4 DEF SkipOutcome, TypeOK, Run
  <2>2. row[run[w].task].status # "pending"
    BY <1>4 DEF SkipOutcome, IsTerminal, TerminalStatuses
  <2>3. QED
    BY <1>4, <2>1, <2>2 DEF SkipOutcome
<1>5. QED
  BY <1>2, <1>3, <1>4

\* A handler that throws keeps every key; it gives back the job it holds.
LEMMA ThrowJobs ==
    ASSUME TypeOK, QueueInv, NEW w \in Workers, RejectPayload(w) \/ HandlerFails(w)
    PROVE  LET t == run[w].task
           IN  /\ t \in Tasks
               /\ row' = row
               /\ expiries' = expiries
               /\ run[w].stage # "idle"
               /\ run'[w].stage = "idle"
               /\ \A v \in Workers : v # w => run'[v] = run[v]
               /\ \A u \in Tasks : u # t => jobs'[u] = jobs[u]
               /\ QueueOK(jobs'[t])
               /\ \A m \in JobNumbers :
                     /\ jobs'[t][m].keyed <=> jobs[t][m].keyed
                     /\ jobs'[t][m].state = "absent" <=> jobs[t][m].state = "absent"
                     /\ m # run[w].job \/ jobs[t][m].holder # w
                           => jobs'[t][m].holder = jobs[t][m].holder
<1>1. Throw(w) /\ run[w].stage # "idle"
  BY DEF RejectPayload, HandlerFails
<1> DEFINE t == run[w].task
           js == jobs[t]
<1>2. t \in Tasks /\ run[w].job \in JobNumbers
  BY <1>1, BusySlot
<1>3. js \in [JobNumbers -> Job] /\ QueueOK(js)
  BY <1>2 DEF TypeOK, QueueInv
<1>4. /\ jobs'[t] = FailJob(js, run[w].job, w)
      /\ \A u \in Tasks : u # t => jobs'[u] = jobs[u]
      /\ run'[w].stage = "idle"
      /\ \A v \in Workers : v # w => run'[v] = run[v]
      /\ row' = row
      /\ expiries' = expiries
  BY <1>1, <1>2 DEF Throw, TypeOK, IdleRun
<1> HIDE DEF js
<1>5. LET ks == FailJob(js, run[w].job, w)
      IN  /\ QueueOK(ks)
          /\ \A m \in JobNumbers :
                /\ ks[m].keyed <=> js[m].keyed
                /\ ks[m].state = "absent" <=> js[m].state = "absent"
                /\ m # run[w].job \/ js[m].holder # w => ks[m].holder = js[m].holder
  BY <1>2, <1>3, FailJobResult
<1>6. QED
  BY <1>1, <1>2, <1>4, <1>5 DEF js

\* A handler that returned: its job is deleted, whoever holds it.
LEMMA FinishJobs ==
    ASSUME TypeOK, QueueInv, NEW w \in Workers, FinishJob(w)
    PROVE  LET t == run[w].task
               job == run[w].job
           IN  /\ t \in Tasks
               /\ job \in JobNumbers
               /\ row' = row
               /\ expiries' = expiries
               /\ run[w].stage = "committed"
               /\ run'[w].stage = "idle"
               /\ \A v \in Workers : v # w => run'[v] = run[v]
               /\ \A u \in Tasks : u # t => jobs'[u] = jobs[u]
               /\ QueueOK(jobs'[t])
               /\ jobs'[t][job].state = "gone"
               /\ \A m \in JobNumbers : m # job => jobs'[t][m] = jobs[t][m]
<1> DEFINE t == run[w].task
           js == jobs[t]
<1>1. run[w].stage = "committed" /\ t \in Tasks /\ run[w].job \in JobNumbers
  BY BusySlot DEF FinishJob
<1>2. js \in [JobNumbers -> Job] /\ QueueOK(js)
  BY <1>1 DEF TypeOK, QueueInv
<1>3. /\ jobs'[t] = CompleteJob(js, run[w].job)
      /\ \A u \in Tasks : u # t => jobs'[u] = jobs[u]
      /\ run'[w].stage = "idle"
      /\ \A v \in Workers : v # w => run'[v] = run[v]
      /\ row' = row
      /\ expiries' = expiries
  BY <1>1 DEF FinishJob, TypeOK, IdleRun
<1> HIDE DEF js
<1>4. LET ks == CompleteJob(js, run[w].job)
      IN  /\ QueueOK(ks)
          /\ ks[run[w].job].state = "gone"
          /\ \A m \in JobNumbers : m # run[w].job => ks[m] = js[m]
  BY <1>1, <1>2, CompleteJobResult
<1>5. QED
  BY <1>1, <1>3, <1>4 DEF js

\* A crash takes the slot off the jobs it holds, and changes nothing else of them.
LEMMA CrashJobs ==
    ASSUME TypeOK, QueueInv, NEW w \in Workers, Crash(w)
    PROVE  LET t == run[w].task
           IN  /\ t \in Tasks
               /\ row' = row
               /\ expiries' = expiries
               /\ run'[w].stage = "idle"
               /\ \A v \in Workers : v # w => run'[v] = run[v]
               /\ \A u \in Tasks : u # t => jobs'[u] = jobs[u]
               /\ QueueOK(jobs'[t])
               /\ \A m \in JobNumbers :
                     /\ jobs'[t][m].keyed <=> jobs[t][m].keyed
                     /\ jobs'[t][m].state = jobs[t][m].state
                     /\ jobs[t][m].holder # w => jobs'[t][m].holder = jobs[t][m].holder
<1> DEFINE t == run[w].task
           js == jobs[t]
           ks == jobs'[t]
<1>1. t \in Tasks
  BY BusySlot DEF Crash
<1>2. js \in [JobNumbers -> Job] /\ QueueOK(js)
  BY <1>1 DEF TypeOK, QueueInv
<1>3. /\ ks = [n \in JobNumbers |->
                  IF js[n].holder = w THEN [js[n] EXCEPT !.holder = NoWorker] ELSE js[n]]
      /\ \A u \in Tasks : u # t => jobs'[u] = jobs[u]
      /\ run'[w].stage = "idle"
      /\ \A v \in Workers : v # w => run'[v] = run[v]
      /\ row' = row
      /\ expiries' = expiries
  BY <1>1 DEF Crash, TypeOK, IdleRun
<1> HIDE DEF js, ks
<1>4. \A m \in JobNumbers :
        /\ ks[m].keyed <=> js[m].keyed
        /\ ks[m].state = js[m].state
        /\ ks[m].attempts = js[m].attempts
        /\ js[m].holder # w => ks[m].holder = js[m].holder
        /\ js[m].holder = w => ks[m].holder = NoWorker
  BY <1>2, <1>3 DEF Job
<1>5. KeyedOnce(ks)
  BY <1>2, <1>4 DEF QueueOK, KeyedOnce
<1>6. Spent(ks)
  BY <1>2, <1>4 DEF QueueOK, Spent
<1>7. QED
  BY <1>1, <1>3, <1>4, <1>5, <1>6 DEF QueueOK, js, ks

\* Collecting the job of a dead slot makes it available again.
LEMMA ReclaimJobs ==
    ASSUME TypeOK, QueueInv, ReclaimJob
    PROVE  /\ row' = row
           /\ run' = run
           /\ expiries' = expiries
           /\ QueueInv'
           /\ \A t \in Tasks, m \in JobNumbers :
                 /\ jobs'[t][m].keyed <=> jobs[t][m].keyed
                 /\ jobs'[t][m].state = "absent" <=> jobs[t][m].state = "absent"
                 /\ jobs'[t][m].holder = jobs[t][m].holder
<1>1. PICK t \in Tasks, n \in JobNumbers :
        /\ jobs[t][n].state = "held"
        /\ jobs[t][n].holder = NoWorker
        /\ jobs' = [jobs EXCEPT ![t][n].state = "queued"]
        /\ UNCHANGED <<row, log, valid, run, effects, crashes, expiries>>
  BY DEF ReclaimJob
<1> DEFINE js == jobs[t]
           ks == jobs'[t]
<1>2. js \in [JobNumbers -> Job] /\ QueueOK(js)
  BY DEF TypeOK, QueueInv
<1>3. /\ ks = [js EXCEPT ![n].state = "queued"]
      /\ \A u \in Tasks : u # t => jobs'[u] = jobs[u]
  BY <1>1 DEF TypeOK
<1>4. js[n].state = "held" /\ js[n].holder = NoWorker
  BY <1>1
<1> HIDE DEF js, ks
<1>5. /\ ks[n].state = "queued"
      /\ ks[n].holder = js[n].holder
      /\ ks[n].keyed <=> js[n].keyed
      /\ ks[n].attempts = js[n].attempts
      /\ \A m \in JobNumbers : m # n => ks[m] = js[m]
  BY <1>2, <1>3 DEF Job
<1>6. KeyedOnce(ks)
  BY <1>2, <1>5 DEF QueueOK, KeyedOnce
<1>7. Spent(ks)
  BY <1>2, <1>4, <1>5 DEF QueueOK, Spent
<1>8. QueueInv'
  <2>1. \A u \in Tasks : QueueOK(jobs'[u])
    BY <1>3, <1>6, <1>7 DEF QueueOK, QueueInv, ks
  <2>2. QED
    BY <2>1 DEF QueueInv, QueueOK, KeyedOnce, Spent
<1>9. QED
  BY <1>1, <1>3, <1>4, <1>5, <1>8 DEF js, ks

\* A lost lease takes the live slot off the job, and makes it available again.
LEMMA ExpireJobs ==
    ASSUME TypeOK, QueueInv, LeaseExpires
    PROVE  /\ row' = row
           /\ run' = run
           /\ expiries' # 0
           /\ QueueInv'
           /\ \A t \in Tasks, m \in JobNumbers :
                 jobs'[t][m].state = "absent" <=> jobs[t][m].state = "absent"
<1>1. PICK t \in Tasks, n \in JobNumbers :
        /\ jobs[t][n].holder # NoWorker
        /\ expiries' = expiries + 1
        /\ jobs' = [jobs EXCEPT ![t][n].state = "queued", ![t][n].holder = NoWorker]
        /\ UNCHANGED <<row, log, valid, run, effects, crashes>>
  BY DEF LeaseExpires
<1> DEFINE js == jobs[t]
           ks == jobs'[t]
<1>2. js \in [JobNumbers -> Job] /\ QueueOK(js)
  BY DEF TypeOK, QueueInv
<1>3. /\ ks = [js EXCEPT ![n].state = "queued", ![n].holder = NoWorker]
      /\ \A u \in Tasks : u # t => jobs'[u] = jobs[u]
  BY <1>1 DEF TypeOK
<1>4. js[n].state = "held"
  BY <1>1, <1>2 DEF QueueOK, Spent
<1> HIDE DEF js, ks
<1>5. /\ QueueOK(ks)
      /\ ks[n].state = "queued"
      /\ \A m \in JobNumbers : m # n => ks[m] = js[m]
  BY <1>2, <1>3, <1>4, GiveBackResult
<1>6. QueueInv'
  <2>1. \A u \in Tasks : QueueOK(jobs'[u])
    BY <1>3, <1>5 DEF QueueInv, ks
  <2>2. QED
    BY <2>1 DEF QueueInv, QueueOK, KeyedOnce, Spent
<1>7. expiries' # 0
  BY <1>1, BoundsAssumption DEF TypeOK
<1>8. QED
  BY <1>1, <1>3, <1>4, <1>5, <1>6, <1>7 DEF js, ks

-----------------------------------------------------------------------------
(***************************************************************************)
(* The queue invariant is inductive.                                       *)
(***************************************************************************)
LEMMA InitQueueInv == Init => QueueInv /\ NumberInv
<1> SUFFICES ASSUME Init
             PROVE  QueueInv /\ NumberInv
  OBVIOUS
<1>1. \A t \in Tasks, n \in JobNumbers :
        /\ jobs[t][n].state = "absent"
        /\ ~jobs[t][n].keyed
        /\ jobs[t][n].holder = NoWorker
  BY DEF Init, Blank
<1>2. \A w \in Workers : run[w].stage = "idle"
  BY DEF Init, IdleRun
<1>3. QED
  BY <1>1, <1>2 DEF QueueInv, QueueOK, KeyedOnce, Spent, NumberInv

\* The two invariants, of the state a step leads to.
QueueKept ==
    /\ \A t \in Tasks : QueueOK(jobs'[t])
    /\ \A t \in Tasks, n \in JobNumbers :
          row'[t].status = "absent" \/ n > row'[t].retryCount
              => jobs'[t][n].state = "absent"
    /\ \A w \in Workers :
          run'[w].stage # "idle" =>
              /\ row'[run'[w].task].status # "absent"
              /\ run'[w].job <= row'[run'[w].task].retryCount

LEMMA QueueInductive ==
    TypeOK /\ LockInv /\ CountInv /\ QueueInv /\ NumberInv /\ [Next]_vars
        => QueueInv' /\ NumberInv'
<1> SUFFICES ASSUME TypeOK, LockInv, CountInv, QueueInv, NumberInv, [Next]_vars
             PROVE  QueueInv' /\ NumberInv'
  OBVIOUS
<1> SUFFICES QueueKept
  BY DEF QueueKept, QueueInv, QueueOK, KeyedOnce, Spent, NumberInv
<1>0. /\ \A t \in Tasks : QueueOK(jobs[t]) /\ row[t].retryCount \in Nat
      /\ \A v \in Workers : run[v].stage # "idle" => run[v].task \in Tasks
      /\ \A v \in Workers : run[v].job \in JobNumbers
      /\ \A n \in JobNumbers : n \in Nat
  BY BusySlot, RetriesAssumption DEF QueueInv, TypeOK, Run, JobNumbers, Abstract!Rows
<1>1. ASSUME NEW t \in Tasks, Dispatch(t)
      PROVE  QueueKept
  BY <1>0, <1>1, DispatchJobs DEF QueueKept, NumberInv
<1>2. ASSUME NEW w \in Workers, PickJob(w)
      PROVE  QueueKept
  <2>1. PICK t \in Tasks, n \in JobNumbers :
             /\ jobs[t][n].state = "queued"
             /\ QueueOK(jobs'[t])
             /\ \A m \in JobNumbers : m # n => jobs'[t][m] = jobs[t][m]
             /\ \A u \in Tasks : u # t => jobs'[u] = jobs[u]
             /\ run'[w].task = t
             /\ run'[w].job = n
             /\ \A v \in Workers : v # w => run'[v] = run[v]
    BY <1>2, PickResult
  <2>2. row' = row
    BY <1>2 DEF PickJob
  <2>3. row[t].status # "absent" /\ n <= row[t].retryCount
    BY <1>0, <2>1 DEF NumberInv
  <2>4. QED
    BY <1>0, <2>1, <2>2, <2>3 DEF QueueKept, NumberInv
<1>3. ASSUME NEW w \in Workers, Execute(w) \/ LockRow(w) \/ SkipOutcome(w)
      PROVE  QueueKept
  BY <1>0, <1>3, StageStep DEF QueueKept, NumberInv
<1>4. ASSUME NEW w \in Workers, CommitOutcome(w)
      PROVE  QueueKept
  <2> DEFINE t == run[w].task
  <2>1. /\ t \in Tasks
        /\ row[t].status = "pending"
        /\ row'[t].status # "absent"
        /\ row[t].retryCount <= row'[t].retryCount
        /\ \A u \in Tasks : u # t => row'[u] = row[u] /\ jobs'[u] = jobs[u]
        /\ \A v \in Workers : v # w => run'[v] = run[v]
        /\ run'[w].stage # "idle" => run'[w].task = t /\ run'[w].job = run[w].job
        /\ QueueOK(jobs'[t])
        /\ \A n \in JobNumbers : n > row'[t].retryCount => jobs'[t][n].state = "absent"
    BY <1>4, CommitJobs
  <2>2. row'[t].retryCount \in Nat
    BY <2>1, NextTypeOK DEF TypeOK, Abstract!Rows
  <2>3. run[w].job <= row[t].retryCount
    BY <1>4 DEF NumberInv, CommitOutcome
  <2>4. \A v \in Workers : run[v].stage # "idle" => run[v].job <= row[run[v].task].retryCount
    BY DEF NumberInv
  <2>5. ASSUME NEW v \in Workers, run'[v].stage # "idle"
        PROVE  /\ row'[run'[v].task].status # "absent"
               /\ run'[v].job <= row'[run'[v].task].retryCount
    <3>1. /\ run'[v].task = run[v].task
          /\ run'[v].job = run[v].job
          /\ run[v].task \in Tasks
          /\ run[v].job <= row[run[v].task].retryCount
          /\ row[run[v].task].status # "absent"
      BY <1>0, <2>1, <2>3, <2>4, <2>5 DEF NumberInv
    <3>2. CASE run[v].task = t
      BY <1>0, <2>1, <2>2, <3>1, <3>2
    <3>3. CASE run[v].task # t
      BY <2>1, <3>1, <3>3
    <3>4. QED
      BY <3>2, <3>3
  <2> HIDE DEF t
  <2>6. QED
    BY <1>0, <2>1, <2>5 DEF QueueKept, NumberInv
<1>5. ASSUME NEW w \in Workers, FinishJob(w)
      PROVE  QueueKept
  <2>1. /\ row[run[w].task].status # "absent"
        /\ run[w].job <= row[run[w].task].retryCount
    BY <1>5 DEF NumberInv, FinishJob
  <2>2. QED
    BY <1>0, <1>5, <2>1, FinishJobs DEF QueueKept, NumberInv
<1>6. ASSUME NEW w \in Workers, RejectPayload(w) \/ HandlerFails(w)
      PROVE  QueueKept
  BY <1>0, <1>6, ThrowJobs DEF QueueKept, NumberInv
<1>7. ASSUME NEW w \in Workers, Crash(w)
      PROVE  QueueKept
  BY <1>0, <1>7, CrashJobs DEF QueueKept, NumberInv
<1>8. CASE ReclaimJob
  BY <1>8, ReclaimJobs DEF QueueKept, NumberInv, QueueInv, QueueOK, KeyedOnce, Spent
<1>9. CASE LeaseExpires
  BY <1>9, ExpireJobs DEF QueueKept, NumberInv, QueueInv, QueueOK, KeyedOnce, Spent
<1>10. CASE UNCHANGED vars
  BY <1>0, <1>10 DEF QueueKept, vars, NumberInv
<1>11. QED
  BY <1>1, <1>2, <1>3, <1>4, <1>5, <1>6, <1>7, <1>8, <1>9, <1>10 DEF Next, Progress

THEOREM QueueInvariant == Spec => [](QueueInv /\ NumberInv)
<1>1. Init => QueueInv /\ NumberInv
  BY InitQueueInv
<1>2. QED
  BY <1>1, QueueInductive, TypeCorrect, LockInvariant, PTL DEF Spec

\* However redeliveries, crashes, retries and lost leases interleave, at most one
\* job of a task can be picked: add_job's key does what task-state.ts says of it.
THEOREM NeverTwoRunnableJobs == Spec => []OneRunnableJob
<1>1. TypeOK /\ QueueInv => OneRunnableJob
  <2> SUFFICES ASSUME TypeOK, QueueInv,
                      NEW t \in Tasks, NEW m \in JobNumbers, NEW n \in JobNumbers,
                      IsAvailable(jobs[t][m]), IsAvailable(jobs[t][n])
               PROVE  m = n
    BY DEF OneRunnableJob
  <2>1. ASSUME NEW i \in JobNumbers, IsAvailable(jobs[t][i])
        PROVE  jobs[t][i].keyed
    <3>1. jobs[t][i].state = "queued" /\ jobs[t][i].attempts < MaxAttempts
      BY <2>1 DEF IsAvailable
    <3>2. jobs[t][i].attempts \in 0..MaxAttempts
      BY JobFields DEF TypeOK
    <3>3. QED
      BY <3>1, <3>2, AttemptsAssumption DEF QueueInv, QueueOK, Spent
  <2>2. QED
    BY <2>1 DEF QueueInv, QueueOK, KeyedOnce
<1>2. QED
  BY <1>1, QueueInvariant, TypeCorrect, PTL

-----------------------------------------------------------------------------
(***************************************************************************)
(* Who works on what.  Unless a lease was lost, a busy slot holds its job; *)
(* the job has its key until the slot is done, and if the task is pending  *)
(* again by then, the key has moved to the job of the retry.               *)
(***************************************************************************)
SlotHolds(w) ==
    run[w].stage # "idle" =>
        LET t == run[w].task
            job == run[w].job
        IN  /\ jobs[t][job].holder = w
            /\ run[w].stage # "committed" => jobs[t][job].keyed
            /\ run[w].stage = "committed" => row[t].status # "pending" \/ ~jobs[t][job].keyed

HoldInv ==
    expiries = 0 =>
        /\ \A w \in Workers : SlotHolds(w)
        /\ \A t \in Tasks : row[t].status = "pending" => HasJob(t)

\* A slot whose task, row and job a step leaves alone still holds its job.
LEMMA HoldKept ==
    ASSUME NEW w \in Workers, SlotHolds(w), run'[w] = run[w],
           run[w].stage # "idle" =>
               LET t == run[w].task
                   job == run[w].job
               IN  /\ row'[t].status = "pending" => row[t].status = "pending"
                   /\ jobs'[t][job].holder = jobs[t][job].holder
                   /\ jobs'[t][job].keyed <=> jobs[t][job].keyed
    PROVE  SlotHolds(w)'
BY DEF SlotHolds

LEMMA HoldInductive ==
    TypeOK /\ LockInv /\ CountInv /\ QueueInv /\ NumberInv /\ HoldInv /\ [Next]_vars
        => HoldInv'
<1> SUFFICES ASSUME TypeOK, LockInv, CountInv, QueueInv, NumberInv, HoldInv, [Next]_vars,
                    expiries' = 0
             PROVE  /\ \A w \in Workers : SlotHolds(w)'
                    /\ \A t \in Tasks : row'[t].status = "pending" => HasJob(t)'
  BY DEF HoldInv
<1> DEFINE Kept == /\ \A w \in Workers : SlotHolds(w)'
                   /\ \A t \in Tasks : row'[t].status = "pending" => HasJob(t)'
<1>0. expiries = 0
  <2>1. ~LeaseExpires
    BY ExpireJobs
  <2>2. expiries' = expiries
    BY <2>1
       DEF Next, Progress, vars, Dispatch, PickJob, Execute, LockRow, SkipOutcome, CommitOutcome,
           RejectPayload, HandlerFails, Throw, FinishJob, Crash, ReclaimJob
  <2>3. QED
    BY <2>2
<1>a. /\ \A w \in Workers : SlotHolds(w)
      /\ \A t \in Tasks : row[t].status = "pending" => HasJob(t)
      /\ \A w \in Workers : run[w].job \in JobNumbers
      /\ \A w \in Workers : run[w].stage # "idle" => run[w].task \in Tasks
  BY <1>0, BusySlot DEF HoldInv, TypeOK, Run
<1>b. \* Two slots never work on the same job.
      \A v, w \in Workers :
          /\ run[v].stage # "idle" /\ run[w].stage # "idle"
          /\ run[v].task = run[w].task /\ run[v].job = run[w].job
          => v = w
  BY <1>a DEF SlotHolds
<1>1. ASSUME NEW t \in Tasks, Dispatch(t)
      PROVE  Kept
  <2>1. \A w \in Workers : SlotHolds(w)'
    BY <1>a, <1>1, DispatchJobs, HoldKept
  <2>2. \A u \in Tasks : row'[u].status = "pending" => HasJob(u)'
    BY <1>a, <1>1, DispatchJobs DEF HasJob
  <2>3. QED
    BY <2>1, <2>2
<1>2. ASSUME NEW w \in Workers, PickJob(w)
      PROVE  Kept
  <2>1. PICK t \in Tasks, n \in JobNumbers :
             /\ jobs[t][n].state = "queued"
             /\ jobs'[t][n].holder = w
             /\ jobs'[t][n].keyed
             /\ jobs[t][n].keyed
             /\ \A m \in JobNumbers : m # n => jobs'[t][m] = jobs[t][m]
             /\ \A u \in Tasks : u # t => jobs'[u] = jobs[u]
             /\ run'[w].stage = "picked"
             /\ run'[w].task = t
             /\ run'[w].job = n
             /\ \A v \in Workers : v # w => run'[v] = run[v]
    BY <1>2, PickResult
  <2>2. row' = row
    BY <1>2 DEF PickJob
  <2>3. SlotHolds(w)'
    BY <2>1 DEF SlotHolds
  <2>4. ASSUME NEW v \in Workers, v # w
        PROVE  SlotHolds(v)'
    <3>1. CASE run[v].stage = "idle"
      BY <2>1, <2>4, <3>1 DEF SlotHolds
    <3>2. CASE run[v].stage # "idle"
      <4>1. jobs[run[v].task][run[v].job].holder = v
        BY <1>a, <3>2 DEF SlotHolds
      <4>2. jobs[t][n].holder = NoWorker
        BY <2>1 DEF QueueInv, QueueOK, Spent
      <4>3. run[v].task # t \/ run[v].job # n
        BY <4>1, <4>2, NoWorkerAssumption
      <4>4. jobs'[run[v].task][run[v].job] = jobs[run[v].task][run[v].job]
        BY <1>a, <2>1, <3>2, <4>3
      <4>5. QED
        BY <1>a, <2>1, <2>2, <2>4, <4>4, HoldKept
    <3>3. QED
      BY <3>1, <3>2
  <2>5. \A u \in Tasks : row'[u].status = "pending" => HasJob(u)'
    BY <1>a, <2>1, <2>2 DEF HasJob
  <2>6. QED
    BY <2>3, <2>4, <2>5
<1>3. ASSUME NEW w \in Workers, Execute(w) \/ LockRow(w) \/ SkipOutcome(w)
      PROVE  Kept
  <2>1. SlotHolds(w)'
    BY <1>a, <1>3, StageStep DEF SlotHolds
  <2>2. \A v \in Workers : v # w => SlotHolds(v)'
    BY <1>a, <1>3, StageStep, HoldKept
  <2>3. \A u \in Tasks : row'[u].status = "pending" => HasJob(u)'
    BY <1>a, <1>3, StageStep DEF HasJob
  <2>4. QED
    BY <2>1, <2>2, <2>3
<1>4. ASSUME NEW w \in Workers, CommitOutcome(w)
      PROVE  Kept
  <2> DEFINE t == run[w].task
             job == run[w].job
  <2>1. /\ t \in Tasks
        /\ job \in JobNumbers
        /\ row[t].status = "pending"
        /\ ~WillRetry(w) => row'[t].status # "pending"
        /\ \A u \in Tasks : u # t => row'[u] = row[u] /\ jobs'[u] = jobs[u]
        /\ \A v \in Workers : v # w => run'[v] = run[v]
        /\ run'[w].stage \in {"idle", "committed"}
        /\ run'[w].stage # "idle" => run'[w].task = t /\ run'[w].job = job
        /\ WillRetry(w) => \E n \in JobNumbers : jobs'[t][n].keyed
        /\ \A n \in JobNumbers :
              n <= row[t].retryCount =>
                  /\ n # job \/ run'[w].stage = "committed"
                        => jobs'[t][n].holder = jobs[t][n].holder
                  /\ jobs'[t][n].keyed => jobs[t][n].keyed
                  /\ WillRetry(w) /\ jobs[t][n].state = "held" => ~jobs'[t][n].keyed
    BY <1>4, CommitJobs
  <2>2. run[w].stage = "locked"
    BY <1>4 DEF CommitOutcome
  <2>3. jobs[t][job].holder = w /\ jobs[t][job].keyed
    BY <1>a, <2>2 DEF SlotHolds
  <2>4. jobs[t][job].state = "held"
    BY <2>1, <2>3, NoWorkerAssumption DEF QueueInv, QueueOK, Spent
  <2>5. job <= row[t].retryCount
    BY <2>2 DEF NumberInv
  <2>6. SlotHolds(w)'
    BY <2>1, <2>3, <2>4, <2>5 DEF SlotHolds
  <2>7. ASSUME NEW v \in Workers, v # w
        PROVE  SlotHolds(v)'
    <3>1. CASE run[v].stage = "idle"
      BY <2>1, <2>7, <3>1 DEF SlotHolds
    <3>2. CASE run[v].stage # "idle" /\ run[v].task # t
      BY <1>a, <2>1, <2>7, <3>2, HoldKept
    <3>3. CASE run[v].stage # "idle" /\ run[v].task = t
      <4> DEFINE n == run[v].job
      <4>1. n \in JobNumbers /\ n # job
        BY <1>a, <1>b, <2>2, <2>7, <3>3
      <4>2. n <= row[t].retryCount
        BY <3>3 DEF NumberInv
      <4>3. run[v].stage = "committed"
        <5>1. jobs[t][n].keyed => n = job
          BY <2>1, <2>3, <4>1 DEF QueueInv, QueueOK, KeyedOnce
        <5>2. QED
          BY <1>a, <3>3, <4>1, <5>1 DEF SlotHolds
      <4>4. jobs[t][n].holder = v /\ ~jobs[t][n].keyed
        BY <1>a, <2>1, <3>3, <4>3 DEF SlotHolds
      <4>5. jobs'[t][n].holder = v /\ ~jobs'[t][n].keyed
        BY <2>1, <4>1, <4>2, <4>4
      <4>6. QED
        BY <2>1, <2>7, <3>3, <4>3, <4>5 DEF SlotHolds
    <3>4. QED
      BY <3>1, <3>2, <3>3
  <2>8. ASSUME NEW u \in Tasks, row'[u].status = "pending"
        PROVE  HasJob(u)'
    <3>1. CASE u = t
      BY <2>1, <2>8, <3>1 DEF HasJob
    <3>2. CASE u # t
      BY <1>a, <2>1, <2>8, <3>2 DEF HasJob
    <3>3. QED
      BY <3>1, <3>2
  <2>9. QED
    BY <2>6, <2>7, <2>8
<1>5. ASSUME NEW w \in Workers, FinishJob(w)
      PROVE  Kept
  <2> DEFINE t == run[w].task
             job == run[w].job
  <2>1. /\ t \in Tasks
        /\ job \in JobNumbers
        /\ row' = row
        /\ run[w].stage = "committed"
        /\ run'[w].stage = "idle"
        /\ \A v \in Workers : v # w => run'[v] = run[v]
        /\ \A u \in Tasks : u # t => jobs'[u] = jobs[u]
        /\ \A m \in JobNumbers : m # job => jobs'[t][m] = jobs[t][m]
    BY <1>5, FinishJobs
  <2>2. row[t].status # "pending" \/ ~jobs[t][job].keyed
    BY <1>a, <2>1 DEF SlotHolds
  <2>3. SlotHolds(w)'
    BY <2>1 DEF SlotHolds
  <2>4. ASSUME NEW v \in Workers, v # w
        PROVE  SlotHolds(v)'
    <3>1. run[v].stage # "idle" /\ run[v].task = t => run[v].job # job
      BY <1>b, <2>1, <2>4
    <3>2. run[v].stage # "idle" =>
              jobs'[run[v].task][run[v].job] = jobs[run[v].task][run[v].job]
      BY <1>a, <2>1, <3>1
    <3>3. QED
      BY <1>a, <2>1, <2>4, <3>2, HoldKept
  <2>5. ASSUME NEW u \in Tasks, row'[u].status = "pending"
        PROVE  HasJob(u)'
    <3>1. PICK n \in JobNumbers : jobs[u][n].keyed
      BY <1>a, <2>1, <2>5 DEF HasJob
    <3>2. u = t => n # job
      BY <2>1, <2>2, <2>5, <3>1
    <3>3. jobs'[u][n].keyed
      BY <2>1, <3>1, <3>2
    <3>4. QED
      BY <3>3 DEF HasJob
  <2>6. QED
    BY <2>3, <2>4, <2>5
<1>6. ASSUME NEW w \in Workers, RejectPayload(w) \/ HandlerFails(w)
      PROVE  Kept
  <2> DEFINE t == run[w].task
  <2>1. /\ t \in Tasks
        /\ row' = row
        /\ run[w].stage # "idle"
        /\ run'[w].stage = "idle"
        /\ \A v \in Workers : v # w => run'[v] = run[v]
        /\ \A u \in Tasks : u # t => jobs'[u] = jobs[u]
        /\ \A m \in JobNumbers :
              /\ jobs'[t][m].keyed <=> jobs[t][m].keyed
              /\ m # run[w].job \/ jobs[t][m].holder # w
                    => jobs'[t][m].holder = jobs[t][m].holder
    BY <1>6, ThrowJobs
  <2>2. SlotHolds(w)'
    BY <2>1 DEF SlotHolds
  <2>3. ASSUME NEW v \in Workers, v # w
        PROVE  SlotHolds(v)'
    <3>1. CASE run[v].stage # "idle" /\ run[v].task = t
      <4>1. jobs[t][run[v].job].holder = v
        BY <1>a, <3>1 DEF SlotHolds
      <4>2. QED
        BY <1>a, <2>1, <2>3, <3>1, <4>1, HoldKept
    <3>2. CASE ~(run[v].stage # "idle" /\ run[v].task = t)
      BY <1>a, <2>1, <2>3, <3>2, HoldKept
    <3>3. QED
      BY <3>1, <3>2
  <2>4. \A u \in Tasks : row'[u].status = "pending" => HasJob(u)'
    BY <1>a, <2>1 DEF HasJob
  <2>5. QED
    BY <2>2, <2>3, <2>4
<1>7. ASSUME NEW w \in Workers, Crash(w)
      PROVE  Kept
  <2> DEFINE t == run[w].task
  <2>1. /\ t \in Tasks
        /\ row' = row
        /\ run'[w].stage = "idle"
        /\ \A v \in Workers : v # w => run'[v] = run[v]
        /\ \A u \in Tasks : u # t => jobs'[u] = jobs[u]
        /\ \A m \in JobNumbers :
              /\ jobs'[t][m].keyed <=> jobs[t][m].keyed
              /\ jobs[t][m].holder # w => jobs'[t][m].holder = jobs[t][m].holder
    BY <1>7, CrashJobs
  <2>2. SlotHolds(w)'
    BY <2>1 DEF SlotHolds
  <2>3. ASSUME NEW v \in Workers, v # w
        PROVE  SlotHolds(v)'
    <3>1. CASE run[v].stage # "idle" /\ run[v].task = t
      <4>1. jobs[t][run[v].job].holder = v
        BY <1>a, <3>1 DEF SlotHolds
      <4>2. QED
        BY <1>a, <2>1, <2>3, <3>1, <4>1, HoldKept
    <3>2. CASE ~(run[v].stage # "idle" /\ run[v].task = t)
      BY <1>a, <2>1, <2>3, <3>2, HoldKept
    <3>3. QED
      BY <3>1, <3>2
  <2>4. \A u \in Tasks : row'[u].status = "pending" => HasJob(u)'
    BY <1>a, <2>1 DEF HasJob
  <2>5. QED
    BY <2>2, <2>3, <2>4
<1>8. CASE ReclaimJob
  <2>1. /\ row' = row
        /\ run' = run
        /\ \A t \in Tasks, m \in JobNumbers :
              /\ jobs'[t][m].keyed <=> jobs[t][m].keyed
              /\ jobs'[t][m].holder = jobs[t][m].holder
    BY <1>8, ReclaimJobs
  <2>2. \A w \in Workers : SlotHolds(w)'
    BY <1>a, <2>1, HoldKept
  <2>3. \A u \in Tasks : row'[u].status = "pending" => HasJob(u)'
    BY <1>a, <2>1 DEF HasJob
  <2>4. QED
    BY <2>2, <2>3
<1>9. CASE LeaseExpires
  BY <1>9, ExpireJobs
<1>10. CASE UNCHANGED vars
  BY <1>a, <1>10 DEF vars, SlotHolds, HasJob
<1>11. QED
  BY <1>1, <1>2, <1>3, <1>4, <1>5, <1>6, <1>7, <1>8, <1>9, <1>10 DEF Next, Progress

LEMMA InitHoldInv == Init => HoldInv
<1> SUFFICES ASSUME Init
             PROVE  HoldInv
  OBVIOUS
<1>1. \A w \in Workers : run[w].stage = "idle"
  BY DEF Init, IdleRun
<1>2. \A t \in Tasks : row[t].status # "pending"
  BY DEF Init, Abstract!NoRow
<1>3. QED
  BY <1>1, <1>2 DEF HoldInv, SlotHolds

LEMMA HoldInvariant == Spec => []HoldInv
<1>1. QED
  BY InitHoldInv, HoldInductive, TypeCorrect, LockInvariant, QueueInvariant, PTL DEF Spec

\* "A task never exists without its job": after any crashes, lost acknowledgements and
\* retries, a pending task still has a job, as long as no live slot lost its lease.
THEOREM PendingTasksHaveJobs == Spec => []PendingHasJob
<1>1. HoldInv => PendingHasJob
  BY DEF HoldInv, PendingHasJob
<1>2. QED
  BY <1>1, HoldInvariant, PTL

\* No task is worked on by two slots, as long as no live slot lost its lease.
THEOREM NeverTwoRuns == Spec => []OneRunPerTask
<1>1. TypeOK /\ QueueInv /\ HoldInv => OneRunPerTask
  <2> SUFFICES ASSUME TypeOK, QueueInv, HoldInv, expiries = 0,
                      NEW t \in Tasks, NEW v \in Workers, NEW w \in Workers,
                      Working(v, t), Working(w, t)
               PROVE  v = w
    BY DEF OneRunPerTask
  <2>1. ASSUME NEW u \in Workers, Working(u, t)
        PROVE  /\ run[u].job \in JobNumbers
               /\ jobs[t][run[u].job].holder = u
               /\ jobs[t][run[u].job].keyed
    <3>1. run[u].stage \notin {"idle", "committed"} /\ run[u].task = t
      BY <2>1, NoTaskAssumption DEF Working, TypeOK
    <3>2. QED
      BY <3>1, BusySlot DEF HoldInv, SlotHolds
  <2>2. run[v].job = run[w].job
    BY <2>1 DEF QueueInv, QueueOK, KeyedOnce
  <2>3. QED
    BY <2>1, <2>2
<1>2. QED
  BY <1>1, HoldInvariant, QueueInvariant, TypeCorrect, PTL

-----------------------------------------------------------------------------
(***************************************************************************)
(* No phantom completion.  A slot that is about to commit a completion has *)
(* seen the adapter succeed.                                               *)
(***************************************************************************)
DoneInv ==
    /\ CompletedWasExecuted
    /\ \A w \in Workers :
          run[w].stage \in {"executed", "locked"} /\ run[w].result = "completed"
              => effects[run[w].task] > 0

\* Effects are never forgotten, and a slot that did not move says what it said.
LEMMA DoneKept ==
    ASSUME TypeOK, DoneInv, NEW w \in Workers,
           effects' = effects,
           \A v \in Workers : v # w => run'[v] = run[v],
           \/ run'[w].stage \notin {"executed", "locked"}
           \/ /\ run[w].stage \in {"executed", "locked"}
              /\ run'[w].result = run[w].result
              /\ run'[w].task = run[w].task,
           \A t \in Tasks : row'[t].status = "completed" =>
               row[t].status = "completed" \/ effects[t] > 0
    PROVE  DoneInv'
BY DEF DoneInv, CompletedWasExecuted

LEMMA DoneInductive == TypeOK /\ DoneInv /\ [Next]_vars => DoneInv'
<1> SUFFICES ASSUME TypeOK, DoneInv, [Next]_vars
             PROVE  DoneInv'
  OBVIOUS
<1>1. ASSUME NEW t \in Tasks, Dispatch(t)
      PROVE  DoneInv'
  <2>1. row' = [row EXCEPT ![t] = [status |-> "pending", retryCount |-> 0]]
    BY <1>1 DEF Dispatch
  <2>2. run' = run /\ effects' = effects
    BY <1>1 DEF Dispatch
  <2>3. \A u \in Tasks : row'[u].status = "completed" => row[u].status = "completed"
    BY <2>1 DEF TypeOK
  <2>4. QED
    BY <2>2, <2>3 DEF DoneInv, CompletedWasExecuted
<1>2. ASSUME NEW w \in Workers, PickJob(w)
      PROVE  DoneInv'
  <2>1. PICK t \in Tasks, n \in JobNumbers :
          run' = [run EXCEPT ![w] = [IdleRun EXCEPT !.stage = "picked", !.task = t, !.job = n]]
    BY <1>2 DEF PickJob
  <2>2. [IdleRun EXCEPT !.stage = "picked", !.task = t, !.job = n].stage = "picked"
    BY DEF IdleRun
  <2>3. run'[w].stage = "picked" /\ \A v \in Workers : v # w => run'[v] = run[v]
    BY <2>1, <2>2 DEF TypeOK
  <2>4. row' = row /\ effects' = effects
    BY <1>2 DEF PickJob
  <2>5. QED
    BY <2>3, <2>4, DoneKept
<1>3. ASSUME NEW w \in Workers, Execute(w)
      PROVE  DoneInv'
  <2>1. PICK result \in Results :
          /\ run' = [run EXCEPT ![w].stage = "executed",
                                ![w].result = result.status,
                                ![w].retryable = result.retryable]
          /\ effects' = [effects EXCEPT ![run[w].task] =
                            IF result.status = "completed" THEN @ + 1 ELSE @]
    BY <1>3 DEF Execute
  <2> DEFINE t == run[w].task
  <2>2. t \in Tasks /\ row' = row
    BY <1>3, BusySlot DEF Execute
  <2>3. /\ \A u \in Tasks : effects[u] > 0 => effects'[u] > 0
        /\ result.status = "completed" => effects'[t] > 0
    BY <2>1, <2>2 DEF TypeOK
  <2>4. run'[w].task = t /\ run'[w].result = result.status
    BY <2>1 DEF TypeOK, Run
  <2>5. \A v \in Workers : v # w => run'[v] = run[v]
    BY <2>1 DEF TypeOK
  <2>6. \A v \in Workers : run[v].stage # "idle" => run[v].task \in Tasks
    BY BusySlot
  <2>7. QED
    BY <2>2, <2>3, <2>4, <2>5, <2>6 DEF DoneInv, CompletedWasExecuted
<1>4. ASSUME NEW w \in Workers, LockRow(w)
      PROVE  DoneInv'
  <2>1. /\ run'[w].result = run[w].result
        /\ run'[w].task = run[w].task
        /\ \A v \in Workers : v # w => run'[v] = run[v]
    BY <1>4 DEF LockRow, TypeOK, Run
  <2>2. QED
    BY <1>4, <2>1, DoneKept DEF LockRow
<1>5. ASSUME NEW w \in Workers, SkipOutcome(w)
      PROVE  DoneInv'
  <2>1. /\ run'[w].stage = "committed"
        /\ \A v \in Workers : v # w => run'[v] = run[v]
    BY <1>5 DEF SkipOutcome, TypeOK, Run
  <2>2. QED
    BY <1>5, <2>1, DoneKept DEF SkipOutcome
<1>6. ASSUME NEW w \in Workers, CommitOutcome(w)
      PROVE  DoneInv'
  <2> DEFINE t == run[w].task
             target == TargetStatusForResult(run[w].result)
  <2>1. /\ t \in Tasks
        /\ run[w].stage = "locked"
        /\ run[w].result \in WorkOrderStatuses
        /\ effects' = effects
    BY <1>6, BusySlot DEF CommitOutcome
  <2>2. /\ run'[w].stage \notin {"executed", "locked"}
        /\ \A v \in Workers : v # w => run'[v] = run[v]
    <3>1. IdleRun.stage = "idle"
      BY DEF IdleRun
    <3>2. CASE run' = [run EXCEPT ![w].stage = "committed"]
      BY <3>2 DEF TypeOK, Run
    <3>3. CASE run' = [run EXCEPT ![w] = IdleRun]
      BY <3>1, <3>3 DEF TypeOK
    <3>4. QED
      BY <1>6, <3>2, <3>3 DEF CommitOutcome
  <2>3. OutcomeRow(w).status = "completed" => run[w].result = "completed"
    <3>1. CASE WillRetry(w)
      BY <3>1 DEF OutcomeRow
    <3>2. CASE ~WillRetry(w)
      <4>1. OutcomeRow(w).status = target
        BY <2>1, <3>2, TargetsAreStatuses DEF OutcomeRow
      <4>2. target = "completed" => run[w].result = "completed"
        BY <2>1 DEF TargetStatusForResult, WorkOrderStatuses
      <4>3. QED
        BY <4>1, <4>2
    <3>3. QED
      BY <3>1, <3>2
  <2>4. row' = [row EXCEPT ![t] = OutcomeRow(w)]
    BY <1>6 DEF CommitOutcome
  <2>5. \A u \in Tasks : row'[u].status = "completed" =>
            row[u].status = "completed" \/ effects[u] > 0
    BY <2>1, <2>3, <2>4 DEF DoneInv, TypeOK
  <2>6. QED
    BY <2>1, <2>2, <2>5, DoneKept
<1>7. ASSUME NEW w \in Workers, RejectPayload(w) \/ HandlerFails(w) \/ FinishJob(w) \/ Crash(w)
      PROVE  DoneInv'
  <2>1. run' = [run EXCEPT ![w] = IdleRun] /\ row' = row /\ effects' = effects
    BY <1>7 DEF RejectPayload, HandlerFails, Throw, FinishJob, Crash
  <2>2. run'[w].stage = "idle" /\ \A v \in Workers : v # w => run'[v] = run[v]
    BY <2>1 DEF TypeOK, IdleRun
  <2>3. QED
    BY <2>1, <2>2, DoneKept
<1>8. CASE ReclaimJob \/ LeaseExpires
  BY <1>8 DEF ReclaimJob, LeaseExpires, DoneInv, CompletedWasExecuted
<1>9. CASE UNCHANGED vars
  BY <1>9 DEF vars, DoneInv, CompletedWasExecuted
<1>10. QED
  BY <1>1, <1>2, <1>3, <1>4, <1>5, <1>6, <1>7, <1>8, <1>9 DEF Next, Progress

\* A row reads completed only if an adapter has succeeded for the task.
THEOREM NoPhantomCompletion == Spec => []CompletedWasExecuted
<1>1. Init => DoneInv
  BY DEF Init, IdleRun, Abstract!NoRow, DoneInv, CompletedWasExecuted
<1>2. DoneInv => CompletedWasExecuted
  BY DEF DoneInv
<1>3. QED
  BY <1>1, <1>2, DoneInductive, TypeCorrect, PTL DEF Spec
=============================================================================
