----------------------------- MODULE DurableTask -----------------------------
(***************************************************************************)
(* What the control plane and the worker together promise about a task:    *)
(* the abstract specification of SEC-4 (docs/security-hardening-plan.md),  *)
(* with no queue, no worker and no transaction in it.                      *)
(*                                                                         *)
(* A task is a row and the events committed about it.  It is created       *)
(* pending; each attempt then either settles it, or - a failed attempt     *)
(* with retry budget left - counts a retry and leaves it pending.  A row   *)
(* and its events change in one step, and a settled task never changes.    *)
(***************************************************************************)
EXTENDS TaskStateMachine

CONSTANTS
    Tasks,      \* the task ids
    MaxRetries  \* the retry budget every row is created with

VARIABLES
    row,  \* the tasks table: status and retry_count of each row
    log   \* the events table: the types of the events of each task, in order

vars == <<row, log>>

NoRow == [status |-> "absent", retryCount |-> 0]

Rows == [status : TaskStatuses \cup {"absent"}, retryCount : Nat]

EventTypes ==
    {"task.created", "task.completed", "task.failed", "task.blocked",
     "approval.requested", "task.retried"}

-----------------------------------------------------------------------------
Init ==
    /\ row = [t \in Tasks |-> NoRow]
    /\ log = [t \in Tasks |-> <<>>]

Create(t) ==
    /\ row[t] = NoRow
    /\ row' = [row EXCEPT ![t] = [status |-> "pending", retryCount |-> 0]]
    /\ log' = [log EXCEPT ![t] = <<"task.created">>]

\* A failed attempt with budget left.
Retry(t) ==
    /\ row[t].status = "pending"
    /\ row[t].retryCount < MaxRetries
    /\ row' = [row EXCEPT ![t].retryCount = @ + 1]
    /\ log' = [log EXCEPT ![t] = Append(Append(@, "task.failed"), "task.retried")]

\* An attempt that ends the task's life in the worker.
Settle(t, target) ==
    /\ row[t].status = "pending"
    /\ target = "failed" => row[t].retryCount = MaxRetries
    /\ row' = [row EXCEPT ![t].status = target]
    /\ log' = [log EXCEPT ![t] = Append(@, ClosingEvent(target))]

Next ==
    \E t \in Tasks :
        \/ Create(t)
        \/ Retry(t)
        \/ \E target \in TargetStatuses : Settle(t, target)

Spec == Init /\ [][Next]_vars

-----------------------------------------------------------------------------
TypeOK ==
    /\ row \in [Tasks -> Rows]
    /\ log \in [Tasks -> Seq(EventTypes)]

(***************************************************************************)
(* The row and its events never disagree: the events of a task are exactly *)
(* its creation, one failed/retried pair for each retry the row counts,    *)
(* and, once the row is settled, the closing event of the status it has.   *)
(***************************************************************************)
TraceOf(t) ==
    /\ Len(log[t]) = 1 + 2 * row[t].retryCount
                       + (IF row[t].status = "pending" THEN 0 ELSE 1)
    /\ log[t][1] = "task.created"
    /\ \A i \in 1..row[t].retryCount :
           /\ log[t][2 * i] = "task.failed"
           /\ log[t][2 * i + 1] = "task.retried"
    /\ row[t].status # "pending" =>
           log[t][Len(log[t])] = ClosingEvent(row[t].status)

RowMatchesTrace ==
    \A t \in Tasks :
        IF row[t].status = "absent" THEN log[t] = <<>> ELSE TraceOf(t)

\* No attempt is made beyond the budget, and a task is given up as failed only
\* when the whole budget is spent.
RetryBudget ==
    \A t \in Tasks :
        /\ row[t].retryCount <= MaxRetries
        /\ row[t].status = "failed" => row[t].retryCount = MaxRetries

\* A row that left pending is final in the worker, and so are its events.
SettledIsFinal ==
    [][\A t \in Tasks :
          row[t].status \notin {"absent", "pending"} =>
              row'[t] = row[t] /\ log'[t] = log[t]]_vars
=============================================================================
