----------------------------- MODULE AdapterCalls -----------------------------
(***************************************************************************)
(* The worker's concurrent jobs and one capability adapter they share: a   *)
(* job waits for one of the pool's slots, its call is sent under a timer,  *)
(* which is cleared when the headers arrive, and the body is read without  *)
(* one.  The adapter remembers the usage of its last call; the job that    *)
(* made the call asks for it a microtask later, when another call may have *)
(* ended in between.                                                       *)
(*                                                                         *)
(* A call stands for the job that makes it.  What the job does with a      *)
(* failed call, and that it may make another, is Orchestrator.             *)
(***************************************************************************)
EXTENDS Naturals, FiniteSets

CONSTANTS
    Orders,    \* the execute-work-order jobs, each of which calls the adapter
    Sweeps,    \* the dispatch-outbox jobs, which call no adapter
    Slots,     \* the concurrency of the pool
    Trickling, \* the orders whose response may have a body that never ends
    NoUsage

Jobs == Orders \cup Sweeps

ASSUME OrdersAssumption == Orders \cap Sweeps = {} /\ NoUsage \notin Orders
ASSUME SlotsAssumption == Slots \in Nat \ {0}
ASSUME TricklingAssumption ==
    /\ Trickling \subseteq Orders /\ IsFiniteSet(Trickling)
    /\ Cardinality(Trickling) < Slots

VARIABLES
    job,       \* where each job is
    timers,    \* the calls whose timer is set
    lastUsage, \* the adapter's lastUsage: the call it is of
    ledger,    \* the usage recorded, each record with the job and the call
    ends,      \* history: how many calls had their response read
    endOf      \* history: the place of a call among these, 0 if it is not one

vars == <<job, timers, lastUsage, ledger, ends, endOf>>

Running == {j \in Jobs : job[j] \notin {"queued", "done"}}

Init ==
    /\ job = [j \in Jobs |-> "queued"]
    /\ timers = {}
    /\ lastUsage = NoUsage
    /\ ledger = {}
    /\ ends = 0
    /\ endOf = [j \in Orders |-> 0]

Move(j, place) == job' = [job EXCEPT ![j] = place]

Start(j) ==
    /\ job[j] = "queued"
    /\ Cardinality(Running) < Slots
    /\ Move(j, IF j \in Orders THEN "started" ELSE "dispatching")
    /\ UNCHANGED <<timers, lastUsage, ledger, ends, endOf>>

\* A batch comes to its end.
EndSweep(j) ==
    /\ job[j] = "dispatching"
    /\ Move(j, "done")
    /\ UNCHANGED <<timers, lastUsage, ledger, ends, endOf>>

\* Mutant of Send: no timer is set.
SendUntimed(j) ==
    /\ job[j] = "started"
    /\ Move(j, "sent")
    /\ UNCHANGED <<timers, lastUsage, ledger, ends, endOf>>

\* The timer is set and the request goes out.
Send(j) ==
    /\ job[j] = "started"
    /\ Move(j, "sent")
    /\ timers' = timers \cup {j}
    /\ UNCHANGED <<lastUsage, ledger, ends, endOf>>

\* The target or the input is refused, before a timer is set.
Refuse(j) ==
    /\ job[j] = "started"
    /\ Move(j, "threw")
    /\ UNCHANGED <<timers, lastUsage, ledger, ends, endOf>>

\* fetch resolves, or rejects because the connection is lost or the timer fired.
HeadersArrive(j) ==
    /\ job[j] = "sent"
    /\ Move(j, "reading")
    /\ timers' = timers \ {j}
    /\ UNCHANGED <<lastUsage, ledger, ends, endOf>>

Abort(j) ==
    /\ job[j] = "sent" /\ j \in timers
    /\ Move(j, "threw")
    /\ timers' = timers \ {j}
    /\ UNCHANGED <<lastUsage, ledger, ends, endOf>>

Reset(j) ==
    /\ job[j] \in {"sent", "reading"}
    /\ Move(j, "threw")
    /\ timers' = timers \ {j}
    /\ UNCHANGED <<lastUsage, ledger, ends, endOf>>

\* Mutant of ReadBody: the usage is remembered once.
ReadFirstBody(j) ==
    /\ job[j] = "reading"
    /\ \E place \in {"returned", "threw"} : Move(j, place)
    /\ lastUsage' = IF lastUsage = NoUsage THEN j ELSE lastUsage
    /\ ends' = ends + 1
    /\ endOf' = [endOf EXCEPT ![j] = ends + 1]
    /\ UNCHANGED <<timers, ledger>>

\* The usage is remembered whatever the status is, then a refusal is thrown.
ReadBody(j) ==
    /\ job[j] = "reading"
    /\ \E place \in {"returned", "threw"} : Move(j, place)
    /\ lastUsage' = j
    /\ ends' = ends + 1
    /\ endOf' = [endOf EXCEPT ![j] = ends + 1]
    /\ UNCHANGED <<timers, ledger>>

\* The orchestrator goes on: it reports the adapter's usage as the job's.
Bill(j) ==
    /\ job[j] = "returned"
    /\ ledger' = ledger \cup {[job |-> j, call |-> lastUsage]}
    /\ Move(j, "done")
    /\ UNCHANGED <<timers, lastUsage, ends, endOf>>

\* classifyError, and the job ends otherwise.
GiveUp(j) ==
    /\ job[j] = "threw"
    /\ Move(j, "done")
    /\ UNCHANGED <<timers, lastUsage, ledger, ends, endOf>>

-----------------------------------------------------------------------------
Next ==
    \/ \E j \in Jobs : Start(j)
    \/ \E j \in Sweeps : EndSweep(j)
    \/ \E j \in Orders :
          \/ Send(j) \/ Refuse(j)
          \/ HeadersArrive(j) \/ Abort(j) \/ Reset(j)
          \/ ReadBody(j) \/ Bill(j) \/ GiveUp(j)

Spec == Init /\ [][Next]_vars

(***************************************************************************)
(* Timers fire, a body that is not trickling is read or cut short (the     *)
(* platform's fetch gives up on a silent connection), and what needs no    *)
(* service comes to pass.  No service has to answer.                       *)
(***************************************************************************)
Fairness ==
    /\ WF_vars(\E j \in Jobs : Start(j))
    /\ \A j \in Sweeps : WF_vars(EndSweep(j))
    /\ \A j \in Orders :
          /\ WF_vars(Send(j) \/ Refuse(j))
          /\ WF_vars(Abort(j))
          /\ WF_vars(Bill(j))
          /\ WF_vars(GiveUp(j))
    /\ \A j \in Orders \ Trickling :
          WF_vars(ReadBody(j) \/ (job[j] = "reading" /\ Reset(j)))

FairSpec == Spec /\ Fairness
-----------------------------------------------------------------------------
Places == {"queued", "started", "dispatching", "sent", "reading", "returned", "threw", "done"}

TypeOK ==
    /\ job \in [Jobs -> Places]
    /\ timers \subseteq Orders
    /\ lastUsage \in Orders \cup {NoUsage}
    /\ ledger \subseteq [job : Orders, call : Orders \cup {NoUsage}]
    /\ ends \in Nat
    /\ endOf \in [Orders -> Nat]

(***************************************************************************)
(* The usage a job is billed may be that of another job's call, which may  *)
(* even have failed, but of none that ended before the job's own call.     *)
(* The adapter's price is a constant, so the cost is the job's own all     *)
(* the same.                                                               *)
(***************************************************************************)
BilledUsageIsCurrent ==
    \A entry \in ledger :
        /\ entry.call # NoUsage
        /\ 0 < endOf[entry.job] /\ endOf[entry.job] <= endOf[entry.call]

(***************************************************************************)
(* Services that do not answer, and fewer trickling bodies than slots,     *)
(* hold up no other job: the jobs and the outbox are served in the end.    *)
(***************************************************************************)
EveryJobRuns == \A j \in Jobs \ Trickling : <>(job[j] = "done")
=============================================================================
