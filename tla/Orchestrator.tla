----------------------------- MODULE Orchestrator -----------------------------
(***************************************************************************)
(* executeWorkOrder (packages/orchestrator): one work order goes through   *)
(* the policy gate and the Work Router, then through the loop over the     *)
(* capability adapters and, if that is where it is routed or escalates to, *)
(* the loop over the models of the Model Router's decision.                *)
(*                                                                         *)
(* What an adapter estimates, answers and makes of a failure is Adapters.  *)
(***************************************************************************)
EXTENDS TaskStateMachine, WorkRouter, ModelRouter, Adapters, FiniteSets

CONSTANTS
    Payloads,          \* the payloads the queue may hold, a set of Order records
    Orders,            \* the orders executeWorkOrder may be called with besides
    CapabilityTables,  \* what the capability registry may hold
    ModelTable,        \* the model registry
    Environments,      \* the environments of the worker, a set of Environment records
    InputErrors        \* by how much a service may count more input tokens than
                       \* a quarter of the characters

Order == [policy          : {"none", "allow", "deny", "requires_approval"},
          required        : SUBSET STRING,
          prefersHuman    : BOOLEAN,
          needsReasoning  : BOOLEAN,
          hasModelRequest : BOOLEAN,
          model           : [tier : Nat, needsTools : BOOLEAN, needsVision : BOOLEAN,
                             requireLocal : BOOLEAN, minContext : Nat],
          request         : [chars : Nat, maxOutput : Nat],
          input           : Inputs,
          budgeted        : BOOLEAN,
          limit           : Nat,
          spent           : Nat]

Capability == [class    : ExecutionClasses \ {"local_ai", "cloud_ai"},
               health   : {"healthy", "degraded", "offline"},
               provides : SUBSET STRING,
               kind     : CapabilityKinds,
               price    : Nat]

ASSUME InputErrorsAssumption == InputErrors \subseteq Nat
ASSUME OrdersAssumption == Orders \subseteq Order /\ Payloads \subseteq Order
ASSUME EnvironmentsAssumption == Environments \subseteq Environment
ASSUME TablesAssumption ==
    \A table \in CapabilityTables :
        /\ DOMAIN table \subseteq Nat
        /\ \A c \in DOMAIN table :
              /\ table[c].class \in ExecutionClasses \ {"local_ai", "cloud_ai"}
              /\ table[c].health \in {"healthy", "degraded", "offline"}
              /\ table[c].kind \in CapabilityKinds /\ table[c].price \in Nat
ASSUME ModelTableAssumption ==
    /\ DOMAIN ModelTable \subseteq Nat
    /\ \A m \in DOMAIN ModelTable :
          /\ ModelTable[m].provider \in ModelKinds
          /\ ModelTable[m].inputCost \in Nat /\ ModelTable[m].outputCost \in Nat

VARIABLES
    order,   \* the work order
    table,   \* the capability registry
    env,     \* the environment the worker's resolvers are built from
    pc,      \* where executeWorkOrder is
    loop,    \* which of the two loops it is in: "capability" or "model"
    left,    \* the candidates (the models) the loop has not come to
    current, \* the candidate whose adapter is being called
    trace,   \* the events emitted on the bus, in order
    calls,   \* history: the adapter calls that were answered, in order
    ledger,  \* the usage records, in order
    result   \* the status returned, "none" before

given == <<order, table, env>>
vars == <<order, table, env, pc, loop, left, current, trace, calls, ledger, result>>

\* A dispatched task's order: the routing hints, without gate, budget or input.
BuildWorkOrder(hints) ==
    [required |-> hints.required, prefersHuman |-> hints.prefersHuman,
     needsReasoning |-> hints.needsReasoning, hasModelRequest |-> hints.hasModelRequest,
     model |-> hints.model, request |-> hints.request,
     policy |-> "none", budgeted |-> FALSE, limit |-> 0, spent |-> 0, input |-> NoInput]

\* What the worker reads of a payload: everything but the capability input.
ParseWorkOrder(payload) == [payload EXCEPT !.input = NoInput]

AdapterKind(id) == IF loop = "capability" THEN table[id].kind ELSE ModelTable[id].provider

\* estimate(): fixed for a capability adapter, by the request for a model.
Estimate(id) ==
    IF loop = "capability" THEN table[id].price ELSE ModelEstimate(ModelTable[id], order.request)

\* checkBudget, against the spending the order was created with.
Affordable(id) == order.budgeted => Estimate(id) <= order.limit - order.spent

\* Mutant of First: the index is one too far.
FirstPlusOne(set) ==
    1 + (IF loop = "capability" THEN FirstCandidate(table, set)
                                ELSE FirstModel(ModelTable, set))

First(set) ==
    IF loop = "capability" THEN FirstCandidate(table, set)
                           ELSE FirstModel(ModelTable, set)

Adapter(id) == [kind |-> loop, id |-> id]

Bound(kind) ==
    IF kind = "capability" THEN BoundCapabilities(table, env) ELSE BoundModels(ModelTable, env)

Resolves(id) == id \in Bound(loop)

\* The model decision and the requests of the order.
DecisionModels == Pool(order.model, ModelTable)

-----------------------------------------------------------------------------
Init ==
    /\ order \in Orders \cup {ParseWorkOrder(payload) : payload \in Payloads}
    /\ table \in CapabilityTables
    /\ env \in Environments
    /\ pc = "gate"
    /\ loop = "capability"
    /\ left = {}
    /\ current = 0
    /\ trace = <<>>
    /\ calls = <<>>
    /\ ledger = <<>>
    /\ result = "none"

\* emit(event) and return a result.
Return(status, event) ==
    /\ pc' = "done"
    /\ trace' = Append(trace, event)
    /\ result' = status
    /\ UNCHANGED <<given, loop, left, current>>

PolicyStops ==
    /\ pc = "gate"
    /\ \/ order.policy = "deny" /\ Return("denied", "task.blocked")
       \/ order.policy = "requires_approval"
              /\ Return("approval_required", "approval.requested")
    /\ UNCHANGED <<calls, ledger>>

Route ==
    LET class == RouteWork(order, table) IN
    /\ pc = "gate"
    /\ order.policy \in {"none", "allow"}
    /\ trace' = Append(trace, "task.planned")
    /\ pc' = IF class = "human" THEN "human" ELSE IF IsAi(class) THEN "ai" ELSE "loop"
    /\ left' = CandidateCapabilities(order, table)
    /\ UNCHANGED <<given, loop, current, calls, ledger, result>>

ParkForHuman ==
    /\ pc = "human"
    /\ Return("awaiting_human", "task.blocked")
    /\ UNCHANGED <<calls, ledger>>

-----------------------------------------------------------------------------
(***************************************************************************)
(* One iteration of either loop; they differ in the adapters they try and  *)
(* in the order they try them in.                                          *)
(***************************************************************************)
\* Mutant of SkipUnresolved: the loop does not advance.
StayUnresolved ==
    /\ pc = "loop" /\ left # {}
    /\ ~Resolves(First(left))
    /\ UNCHANGED vars

SkipUnresolved ==
    /\ pc = "loop" /\ left # {}
    /\ ~Resolves(First(left))
    /\ left' = left \ {First(left)}
    /\ UNCHANGED <<given, pc, loop, current, trace, calls, ledger, result>>

\* Mutant of BlockForBudget: the event of a failure.
FailForBudget ==
    /\ pc = "loop" /\ left # {}
    /\ Resolves(First(left))
    /\ ~Affordable(First(left))
    /\ Return("budget_exceeded", "task.failed")
    /\ UNCHANGED <<calls, ledger>>

BlockForBudget ==
    /\ pc = "loop" /\ left # {}
    /\ Resolves(First(left))
    /\ ~Affordable(First(left))
    /\ Return("budget_exceeded", "task.blocked")
    /\ UNCHANGED <<calls, ledger>>

StartCall ==
    /\ pc = "loop" /\ left # {}
    /\ Resolves(First(left))
    /\ Affordable(First(left))
    /\ current' = First(left)
    /\ pc' = "calling"
    /\ trace' = trace \o <<"worker.started", "tool.called">>
    /\ UNCHANGED <<given, loop, left, calls, ledger, result>>

(***************************************************************************)
(* executeWorkOrder rejects: nothing outside the try around execute() is   *)
(* caught, neither a policy or budget the parser let through unchecked,    *)
(* nor a model adapter that cannot be constructed or cannot estimate.      *)
(***************************************************************************)
Throws ==
    /\ \/ pc = "gate" /\ order.policy # "none"
       \/ pc = "loop" /\ left # {} /\ loop = "capability"
              /\ order.budgeted /\ Resolves(First(left))
       \/ pc = "loop" /\ left # {} /\ loop = "model"
    /\ pc' = "thrown"
    /\ UNCHANGED <<given, loop, left, current, trace, calls, ledger, result>>

\* Whether a failure may pass by itself, whatever an adapter makes of it.
MayPass(failure) ==
    \/ failure.cause = "connection"
    \/ failure.cause = "status" /\ (failure.status \in {408, 409, 429} \/ failure.status >= 500)

Outcome(failure) ==
    IF MayPass(failure) THEN "passing" ELSE IF failure.cause = "error" THEN "broken" ELSE "lasting"

Answered(outcome) == Append(calls, [adapter |-> Adapter(current), outcome |-> outcome])

\* The usage record of a successful call: a capability's constant, a model's tokens.
Usages ==
    {[adapter |-> Adapter(current), costUsd |-> cost] :
        cost \in IF loop = "capability" THEN {table[current].price}
                 ELSE ModelCosts(ModelTable[current], order.request, InputErrors)}

FailuresOf(id) == Failures(AdapterKind(id), order.input, env)

\* Mutant of CallSucceeds: the usage is recorded when the call fails as well.
CallIsBilled ==
    /\ pc = "calling"
    /\ \E outcome \in {"ok", "lasting"} :
          /\ calls' = Answered(outcome)
          /\ Return(IF outcome = "ok" THEN "completed" ELSE "failed",
                    IF outcome = "ok" THEN "task.completed" ELSE "task.failed")
    /\ \E usage \in Usages : ledger' = Append(ledger, usage)

CallSucceeds ==
    /\ pc = "calling"
    /\ MaySucceed(AdapterKind(current), order.input, env)
    /\ calls' = Answered("ok")
    /\ \E usage \in Usages : ledger' = Append(ledger, usage)
    /\ Return("completed", "task.completed")

CallFails ==
    /\ pc = "calling"
    /\ \E failure \in FailuresOf(current) :
          /\ ~IsRetryable(ClassifyError(AdapterKind(current), failure))
          /\ calls' = Answered(Outcome(failure))
    /\ Return("failed", "task.failed")
    /\ UNCHANGED ledger

\* The next candidate is tried.
CallFailsRetryably ==
    /\ pc = "calling"
    /\ \E failure \in FailuresOf(current) :
          /\ IsRetryable(ClassifyError(AdapterKind(current), failure))
          /\ calls' = Answered(Outcome(failure))
    /\ pc' = "loop"
    /\ left' = left \ {current}
    /\ UNCHANGED <<given, loop, current, trace, ledger, result>>

-----------------------------------------------------------------------------
\* No candidate is left: `attempted` is whether any adapter was resolved.
CapabilitiesExhausted ==
    /\ pc = "loop" /\ loop = "capability" /\ left = {}
    /\ \/ calls = <<>> /\ Return("blocked", "task.blocked")
       \/ calls # <<>> /\ ~order.needsReasoning /\ Return("failed", "task.failed")
    /\ UNCHANGED <<calls, ledger>>

\* Mutant of EscalateToAi: whether or not the order allows reasoning.
EscalateAnyway ==
    /\ pc = "loop" /\ loop = "capability" /\ left = {}
    /\ calls # <<>>
    /\ pc' = "ai"
    /\ UNCHANGED <<given, loop, left, current, trace, calls, ledger, result>>

EscalateToAi ==
    /\ pc = "loop" /\ loop = "capability" /\ left = {}
    /\ calls # <<>> /\ order.needsReasoning
    /\ pc' = "ai"
    /\ UNCHANGED <<given, loop, left, current, trace, calls, ledger, result>>

\* missing_model_request, no_eligible_model.
NoModel ==
    /\ pc = "ai"
    /\ ~order.hasModelRequest \/ DecisionModels = {}
    /\ Return("failed", "task.failed")
    /\ UNCHANGED <<calls, ledger>>

RouteModel ==
    /\ pc = "ai"
    /\ order.hasModelRequest /\ DecisionModels # {}
    /\ pc' = "loop"
    /\ loop' = "model"
    /\ left' = DecisionModels
    /\ UNCHANGED <<given, current, trace, calls, ledger, result>>

ModelsExhausted ==
    /\ pc = "loop" /\ loop = "model" /\ left = {}
    /\ Return("failed", "task.failed")
    /\ UNCHANGED <<calls, ledger>>

-----------------------------------------------------------------------------
Next ==
    \/ PolicyStops
    \/ Route
    \/ ParkForHuman
    \/ SkipUnresolved
    \/ BlockForBudget
    \/ StartCall
    \/ Throws
    \/ CallSucceeds
    \/ CallFails
    \/ CallFailsRetryably
    \/ CapabilitiesExhausted
    \/ EscalateToAi
    \/ NoModel
    \/ RouteModel
    \/ ModelsExhausted

Spec == Init /\ [][Next]_vars

\* An adapter that is called answers; everything else the process does itself.
FairSpec == Spec /\ WF_vars(Next)
-----------------------------------------------------------------------------
Statuses == WorkOrderStatuses \cup {"none"}

Called(kind) == {calls[i].adapter.id : i \in {j \in 1..Len(calls) : calls[j].adapter.kind = kind}}

AdapterIds == [kind : {"capability", "model"}, id : Nat]

TypeOK ==
    /\ order \in Order /\ table \in CapabilityTables /\ env \in Environments
    /\ pc \in {"gate", "human", "ai", "loop", "calling", "done", "thrown"}
    /\ loop \in {"capability", "model"}
    /\ left \subseteq IF loop = "capability" THEN DOMAIN table ELSE DOMAIN ModelTable
    /\ pc = "calling" => current \in left
    /\ calls \in Seq([adapter : AdapterIds, outcome : {"ok", "passing", "broken", "lasting"}])
    /\ ledger \in Seq([adapter : AdapterIds, costUsd : Nat])
    /\ result \in Statuses
    /\ result # "none" <=> pc = "done"

(***************************************************************************)
(* The trace and the result never disagree: exactly one closing event, at  *)
(* the end, the one of the status the task row will get, and one worker    *)
(* started for each call.  Task execution builds on it.                    *)
(***************************************************************************)
ClosingEvents == {ClosingEvent(target) : target \in TargetStatuses}

Started == {i \in 1..Len(trace) : trace[i] = "worker.started"}

TraceAgrees ==
    /\ \A i \in 1..Len(trace) :
          trace[i] \in ClosingEvents => i = Len(trace) /\ pc = "done"
    /\ pc = "done" => trace[Len(trace)] = ClosingEvent(TargetStatusForResult(result))
    /\ Cardinality(Started) = Len(calls) + (IF pc = "calling" THEN 1 ELSE 0)

\* An order is completed if and only if an adapter succeeded, exactly one did,
\* and the ledger holds its usage and no other.
CompletedIffExecuted ==
    /\ \A i \in 1..Len(ledger) : ledger[i].adapter = calls[Len(calls)].adapter
    /\ Len(ledger) = Cardinality({i \in 1..Len(calls) : calls[i].outcome = "ok"})
    /\ Len(ledger) = IF result = "completed" THEN 1 ELSE 0

(***************************************************************************)
(* "Deterministic and auth failures are not retried blindly" (health.ts):  *)
(* across the classifications of all adapters, the next candidate is tried *)
(* only after a failure that may pass by itself.  The exception is an      *)
(* error of the HTTP adapter's own, such as an input that is missing,      *)
(* which its classification takes for a transport failure.                 *)
(***************************************************************************)
FallbackOnlyIfItMayPass ==
    \A i \in 1..(Len(calls) - 1) :
        \/ calls[i].outcome = "passing"
        \/ /\ calls[i].outcome = "broken" /\ calls[i].adapter.kind = "capability"
           /\ table[calls[i].adapter.id].kind \in {"http", "ghl"}

(***************************************************************************)
(* What an order with a budget is billed stays within the budget and what  *)
(* was spent of it, but for the input tokens a model's service counts      *)
(* beyond the estimate: the estimate prices the output that the request    *)
(* then allows.                                                            *)
(***************************************************************************)
SpendWithinBudget ==
    order.budgeted => \A i \in 1..Len(ledger) :
        LET remaining == order.limit - order.spent
            cost == ledger[i].costUsd
        IN  \/ cost <= remaining
            \/ /\ loop = "model"
               /\ \E error \in InputErrors :
                     cost <= remaining + error * ModelTable[ledger[i].adapter.id].inputCost

(***************************************************************************)
(* The least complex path first: no candidate of a preferred class, and no *)
(* cheaper model of the decision, whose adapter resolves was skipped, and  *)
(* no adapter is called twice.                                             *)
(***************************************************************************)
NoneIsSkipped ==
    /\ \A c \in Called("capability"), d \in CandidateCapabilities(order, table) :
          ClassRank[table[d].class] < ClassRank[table[c].class] /\ d \in Bound("capability")
              => d \in Called("capability")
    /\ \A m \in Called("model"), n \in DecisionModels :
          ModelTable[n].outputCost < ModelTable[m].outputCost /\ n \in Bound("model")
              => n \in Called("model")
    /\ \A i, j \in 1..Len(calls) : calls[i].adapter = calls[j].adapter => i = j

(***************************************************************************)
(* "Never invoke an LLM when deterministic software or an existing         *)
(* automation is sufficient": a model is called only for an order that     *)
(* allows reasoning, and after every capability that could do it failed.   *)
(***************************************************************************)
AiIsTheLastResort ==
    Called("model") # {} \/ (pc = "calling" /\ loop = "model") =>
        /\ order.needsReasoning /\ ~order.prefersHuman
        /\ CandidateCapabilities(order, table) \cap Bound("capability") = Called("capability")

\* Both loops come to an end, and a result or an error is returned.
Ends == <>(pc \in {"done", "thrown"})

=============================================================================
