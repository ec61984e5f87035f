-------------------------- MODULE TaskStateMachine --------------------------
(***************************************************************************)
(* The durable task lifecycle of @donna/core-domain (task.ts,              *)
(* task-state-machine.ts) and the part of the worker that maps what the    *)
(* orchestrator reports onto it (task-state.ts): constant-level operators  *)
(* only, shared by every module that touches a task row.                   *)
(***************************************************************************)
EXTENDS Naturals, Sequences

(***************************************************************************)
(* task.ts                                                                 *)
(***************************************************************************)
TaskStatuses ==
    {"pending", "planned", "assigned", "running", "blocked",
     "awaiting_approval", "checking", "completed", "failed", "cancelled"}

TerminalStatuses == {"completed", "cancelled"}

IsTerminal(status) == status \in TerminalStatuses

(***************************************************************************)
(* task-state-machine.ts                                                   *)
(***************************************************************************)
AllowedTransitions ==
    [pending           |-> {"planned", "cancelled"},
     planned           |-> {"assigned", "blocked", "cancelled"},
     assigned          |-> {"running", "blocked", "cancelled"},
     running           |-> {"checking", "awaiting_approval", "blocked",
                            "completed", "failed", "cancelled"},
     blocked           |-> {"assigned", "running", "failed", "cancelled"},
     awaiting_approval |-> {"running", "failed", "cancelled"},
     checking          |-> {"completed", "running", "failed"},
     completed         |-> {},
     failed            |-> {"pending", "cancelled"},
     cancelled         |-> {}]

CanTransition(from, to) == to \in AllowedTransitions[from]

(***************************************************************************)
(* What executeWorkOrder may report (work-order.ts), and the status of the *)
(* row it resolves to, before retry accounting (task-state.ts).            *)
(***************************************************************************)
WorkOrderStatuses ==
    {"completed", "failed", "approval_required", "denied", "blocked",
     "budget_exceeded", "awaiting_human"}

TargetStatuses == {"completed", "failed", "awaiting_approval", "blocked"}

\* Mutant of TargetStatusForResult: a parked order counts as done.
ParkedIsDone(result) == IF result = "failed" THEN "failed" ELSE "completed"

TargetStatusForResult(result) ==
    [completed         |-> "completed",
     failed            |-> "failed",
     approval_required |-> "awaiting_approval",
     denied            |-> "blocked",
     blocked           |-> "blocked",
     budget_exceeded   |-> "blocked",
     awaiting_human    |-> "blocked"][result]

\* The last event of the trace of an attempt, by the status it resolves to.
ClosingEvent(target) ==
    [completed         |-> "task.completed",
     failed            |-> "task.failed",
     awaiting_approval |-> "approval.requested",
     blocked           |-> "task.blocked"][target]

PathToTarget ==
    [completed         |-> <<"planned", "assigned", "running", "completed">>,
     failed            |-> <<"planned", "assigned", "running", "failed">>,
     awaiting_approval |-> <<"planned", "assigned", "running", "awaiting_approval">>,
     blocked           |-> <<"planned", "blocked">>]

(***************************************************************************)
(* The loop of commitOutcome: every step of the path is a legal transition *)
(* (otherwise it throws and the transaction rolls back), and the walk ends *)
(* in the status that is persisted.                                        *)
(***************************************************************************)
WalkFrom(status, target) == <<status>> \o PathToTarget[target]

WalkIsLegal(status, target) ==
    LET walk == WalkFrom(status, target)
    IN  \A i \in 1..(Len(walk) - 1) : CanTransition(walk[i], walk[i + 1])

EndOfWalk(target) == PathToTarget[target][Len(PathToTarget[target])]
=============================================================================
