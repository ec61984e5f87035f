-------------------------- MODULE Orchestrator_proofs --------------------------
(***************************************************************************)
(* Orchestrator for any work order, any registries, any environment and    *)
(* any error of the input estimate.                                        *)
(***************************************************************************)
EXTENDS Orchestrator, FiniteSetTheorems, WellFoundedInduction, TLAPS

-----------------------------------------------------------------------------
(***************************************************************************)
(* The candidates are naturals, so each loop has a first one: what comes   *)
(* first by rank, and by position among those of one rank.                 *)
(***************************************************************************)
LEMMA LeastNatural ==
    ASSUME NEW S, S \subseteq Nat, S # {}
    PROVE  \E n \in S : \A m \in S : n <= m
<1> DEFINE R == OpToRel(<, Nat)
<1>1. \E n \in S : \A m \in S : <<m, n>> \notin R
  <2> HIDE DEF R
  <2>1. IsWellFoundedOn(R, Nat)
    BY NatLessThanWellFounded DEF R
  <2> QED
    BY <2>1, WFMin
<1>2. \A m, n \in Nat : <<m, n>> \notin R => n <= m
  BY DEF OpToRel
<1> QED
  BY <1>1, <1>2

\* The elements of a set with the least value of a function.
LEMMA LeastValue ==
    ASSUME NEW S, S # {}, NEW f, \A x \in S : f[x] \in Nat
    PROVE  \E x \in S : \A y \in S : f[x] <= f[y]
<1> DEFINE V == {f[x] : x \in S}
<1>1. V \subseteq Nat /\ V # {}
  OBVIOUS
<1> HIDE DEF V
<1>2. PICK n \in V : \A m \in V : n <= m
  BY <1>1, LeastNatural
<1> QED
  BY <1>2 DEF V

\* Any set of healthy providers has a first candidate, of a least class.
LEMMA FirstCandidateIsFirst ==
    ASSUME NEW registry \in CapabilityTables, NEW S, S \subseteq DOMAIN registry, S # {}
    PROVE  /\ FirstCandidate(registry, S) \in S
           /\ \A d \in S : ClassRank[registry[FirstCandidate(registry, S)].class]
                               <= ClassRank[registry[d].class]
<1> DEFINE rank == [c \in S |-> ClassRank[registry[c].class]]
<1>1. \A c \in S : c \in Nat /\ rank[c] \in Nat /\ rank[c] = ClassRank[registry[c].class]
  BY TablesAssumption DEF ExecutionClasses, ClassRank
<1>2. PICK x \in S : \A y \in S : rank[x] <= rank[y]
  <2> HIDE DEF rank
  <2> QED
    BY <1>1, LeastValue
<1> DEFINE T == {c \in S : rank[c] = rank[x]}
<1>3. T \subseteq Nat /\ T # {}
  BY <1>1, <1>2
<1>4. PICK c \in T : \A d \in T : c <= d
  <2> HIDE DEF T
  <2> QED
    BY <1>3, LeastNatural
<1> HIDE DEF rank
<1>5. \A d \in S \ {c} : Before(registry, c, d)
  BY <1>1, <1>2, <1>4 DEF Before
<1>6. /\ FirstCandidate(registry, S) \in S
      /\ \A d \in S \ {FirstCandidate(registry, S)} :
             Before(registry, FirstCandidate(registry, S), d)
  BY <1>5 DEF FirstCandidate
<1> QED
  BY <1>1, <1>6 DEF Before

\* Any set of models has a first one, of a least output cost.
LEMMA FirstModelIsFirst ==
    ASSUME NEW S, S \subseteq DOMAIN ModelTable, S # {}
    PROVE  /\ FirstModel(ModelTable, S) \in S
           /\ \A n \in S : ModelTable[FirstModel(ModelTable, S)].outputCost
                               <= ModelTable[n].outputCost
<1> DEFINE out == [m \in S |-> ModelTable[m].outputCost]
           in == [m \in S |-> ModelTable[m].inputCost]
<1>1. \A m \in S : /\ m \in Nat
                   /\ out[m] \in Nat /\ out[m] = ModelTable[m].outputCost
                   /\ in[m] \in Nat /\ in[m] = ModelTable[m].inputCost
  BY ModelTableAssumption
<1> HIDE DEF out, in
<1>2. PICK x \in S : \A y \in S : out[x] <= out[y]
  BY <1>1, LeastValue
<1> DEFINE T == {m \in S : out[m] = out[x]}
<1>3. T \subseteq S /\ T # {} /\ \A m \in T : in[m] \in Nat
  BY <1>1, <1>2
<1>4. PICK y \in T : \A n \in T : in[y] <= in[n]
  <2> HIDE DEF T
  <2> QED
    BY <1>3, LeastValue
<1> DEFINE U == {m \in T : in[m] = in[y]}
<1>5. U \subseteq Nat /\ U # {}
  BY <1>1, <1>4
<1>6. PICK m \in U : \A n \in U : m <= n
  <2> HIDE DEF U
  <2> QED
    BY <1>5, LeastNatural
<1>7. \A n \in S \ {m} : Cheaper(ModelTable, m, n)
  <2> SUFFICES ASSUME NEW n \in S \ {m} PROVE Cheaper(ModelTable, m, n)
    OBVIOUS
  <2>1. CASE n \notin T
    BY <1>1, <1>2, <1>6, <2>1 DEF Cheaper
  <2>2. CASE n \in T /\ n \notin U
    BY <1>1, <1>4, <1>6, <2>2 DEF Cheaper
  <2>3. CASE n \in U
    BY <1>1, <1>6, <2>3 DEF Cheaper
  <2> QED
    BY <2>1, <2>2, <2>3
<1>8. /\ FirstModel(ModelTable, S) \in S
      /\ \A n \in S \ {FirstModel(ModelTable, S)} :
             Cheaper(ModelTable, FirstModel(ModelTable, S), n)
  BY <1>7 DEF FirstModel
<1> QED
  BY <1>1, <1>8 DEF Cheaper

-----------------------------------------------------------------------------
(***************************************************************************)
(* The invariant.                                                          *)
(***************************************************************************)
Capabilities == CandidateCapabilities(order, table)

\* What the loop it is in may try, and by what it prefers one to another.
Candidates == IF loop = "capability" THEN Capabilities ELSE DecisionModels
Rank(id) == IF loop = "capability" THEN ClassRank[table[id].class]
                                   ELSE ModelTable[id].outputCost

\* Before the loops there are no calls, and no model is called before the second.
PhaseInv ==
    /\ pc \in {"gate", "human", "ai"} => loop = "capability"
    /\ pc \in {"gate", "human"} => calls = <<>>
    /\ loop = "capability" => Called("model") = {}

\* What is left of a loop comes after what was called, and whatever resolves is
\* either left or was called.
LoopInv ==
    pc \in {"loop", "calling"} =>
        /\ left \subseteq Candidates
        /\ Candidates \cap Bound(loop) \subseteq left \cup Called(loop)
        /\ \A c \in Called(loop), d \in left : c # d /\ Rank(c) <= Rank(d)

\* What is being called is the first of what is left, resolved and affordable.
CurrentInv ==
    pc = "calling" =>
        /\ current \in Bound(loop)
        /\ \A d \in left : Rank(current) <= Rank(d)
        /\ Affordable(current)

\* Only what may be called was called; once a model may be, the capabilities that
\* resolve have all been, and the order allows it.
CalledInv ==
    /\ Called("capability") \subseteq Capabilities \cap Bound("capability")
    /\ Called("model") \subseteq DecisionModels \cap Bound("model")
    /\ pc \in {"loop", "calling"} => ~order.prefersHuman
    /\ pc = "ai" \/ loop = "model" =>
           /\ order.needsReasoning /\ ~order.prefersHuman
           /\ Capabilities \cap Bound("capability") \subseteq Called("capability")

\* A call that succeeded is the last, and the ledger has its usage and no other.
ResultInv ==
    /\ \A i \in 1..Len(calls) :
           calls[i].outcome = "ok" => i = Len(calls) /\ result = "completed"
    /\ IF result = "completed"
       THEN /\ calls # <<>> /\ calls[Len(calls)].outcome = "ok"
            /\ Len(ledger) = 1 /\ ledger[1].adapter = calls[Len(calls)].adapter
       ELSE ledger = <<>>

\* As long as there is a next candidate to come, each call may have passed.
MayHavePassed(i) ==
    \/ calls[i].outcome = "passing"
    \/ /\ calls[i].outcome = "broken" /\ calls[i].adapter.kind = "capability"
       /\ table[calls[i].adapter.id].kind \in {"http", "ghl"}

FallbackInv ==
    \A i \in 1..Len(calls) : i < Len(calls) \/ pc # "done" => MayHavePassed(i)

Emitted == ClosingEvents \cup {"task.planned", "worker.started", "tool.called"}

TraceInv == trace \in Seq(Emitted) /\ TraceAgrees

IInv ==
    /\ TypeOK
    /\ TraceInv
    /\ PhaseInv /\ LoopInv /\ CurrentInv /\ CalledInv /\ NoneIsSkipped
    /\ ResultInv
    /\ FallbackInv
    /\ SpendWithinBudget

-----------------------------------------------------------------------------
(***************************************************************************)
(* What the steps do to the trace and to the calls.                        *)
(***************************************************************************)
LEMMA ClosingEventsAre ==
    ClosingEvents = {"task.completed", "task.failed", "approval.requested", "task.blocked"}
BY DEF ClosingEvents, ClosingEvent, TargetStatuses

LEMMA StartedIsFinite ==
    ASSUME trace \in Seq(Emitted)
    PROVE  IsFiniteSet(Started) /\ Cardinality(Started) \in Nat
<1>1. Started \in SUBSET (1..Len(trace)) /\ Len(trace) \in Int
  BY DEF Started
<1>2. IsFiniteSet(1..Len(trace))
  BY <1>1, FS_Interval
<1>3. IsFiniteSet(Started)
  BY <1>1, <1>2, FS_Subset
<1> QED
  BY <1>3, FS_CardinalityType

\* An event that starts no worker.
LEMMA EmitKeepsStarted ==
    ASSUME trace \in Seq(Emitted), NEW event \in Emitted, event # "worker.started",
           trace' = Append(trace, event)
    PROVE  Started' = Started
<1>1. /\ Len(trace') = Len(trace) + 1 /\ Len(trace) \in Nat
      /\ \A i \in 1..Len(trace) : trace'[i] = trace[i]
      /\ trace'[Len(trace) + 1] = event
  OBVIOUS
<1> QED
  BY <1>1 DEF Started

\* The events of a call: one more worker is started.
LEMMA StartingAddsOne ==
    ASSUME trace \in Seq(Emitted), trace' = trace \o <<"worker.started", "tool.called">>
    PROVE  Cardinality(Started') = Cardinality(Started) + 1
<1>1. /\ Len(trace') = Len(trace) + 2 /\ Len(trace) \in Nat
      /\ \A i \in 1..Len(trace) : trace'[i] = trace[i]
      /\ trace'[Len(trace) + 1] = "worker.started"
      /\ trace'[Len(trace) + 2] = "tool.called"
  OBVIOUS
<1>2. Started' = Started \cup {Len(trace) + 1} /\ Len(trace) + 1 \notin Started
  BY <1>1 DEF Started
<1> QED
  BY <1>2, StartedIsFinite, FS_AddElement

\* A call that is answered adds its adapter to those called.
LEMMA AnswerAddsCall ==
    ASSUME TypeOK, NEW outcome, calls' = Answered(outcome), NEW kind
    PROVE  Called(kind)' = Called(kind) \cup (IF kind = loop THEN {current} ELSE {})
<1> DEFINE call == [adapter |-> Adapter(current), outcome |-> outcome]
<1>1. /\ Len(calls') = Len(calls) + 1 /\ Len(calls) \in Nat
      /\ \A i \in 1..Len(calls) : calls'[i] = calls[i]
      /\ calls'[Len(calls) + 1] = call
  BY DEF TypeOK, Answered
<1>2. call.adapter.kind = loop /\ call.adapter.id = current
  BY DEF Adapter
<1> HIDE DEF call
<1> QED
  BY <1>1, <1>2 DEF Called

\* The first candidate that is left, in either loop.
LEMMA FirstIsFirst ==
    ASSUME TypeOK, left # {}
    PROVE  First(left) \in left /\ \A d \in left : Rank(First(left)) <= Rank(d)
<1>1. table \in CapabilityTables
  BY DEF TypeOK
<1>2. CASE loop = "capability"
  <2>1. left \subseteq DOMAIN table
    BY <1>2 DEF TypeOK
  <2> QED
    BY <1>1, <1>2, <2>1, FirstCandidateIsFirst DEF First, Rank
<1>3. CASE loop = "model"
  <2>1. left \subseteq DOMAIN ModelTable
    BY <1>3 DEF TypeOK
  <2> QED
    BY <1>3, <2>1, FirstModelIsFirst DEF First, Rank
<1> QED
  BY <1>2, <1>3 DEF TypeOK

LEMMA CandidatesAreRegistered ==
    /\ Capabilities \subseteq DOMAIN table
    /\ DecisionModels \subseteq DOMAIN ModelTable
BY DEF Capabilities, CandidateCapabilities, HealthyProviding, DecisionModels, Pool,
       CoversTier, CapableOfTier, Eligible

-----------------------------------------------------------------------------
(***************************************************************************)
(* Costs and failures.                                                     *)
(***************************************************************************)
LEMMA Products ==
    /\ \A a, b \in Nat : a * b \in Nat
    /\ \A a, b, c \in Nat : (a + b) * c = a * c + b * c
OBVIOUS

\* What an answer of a model costs, and by how much that may exceed the estimate.
LEMMA CostsOfModel ==
    ASSUME NEW m \in DOMAIN ModelTable,
           NEW request, request.chars \in Nat, request.maxOutput \in Nat,
           NEW cost \in ModelCosts(ModelTable[m], request, InputErrors)
    PROVE  /\ cost \in Nat
           /\ ModelEstimate(ModelTable[m], request) \in Nat
           /\ \E error \in InputErrors :
                  /\ error * ModelTable[m].inputCost \in Nat
                  /\ cost <= ModelEstimate(ModelTable[m], request)
                                 + error * ModelTable[m].inputCost
<1> DEFINE in == ModelTable[m].inputCost
           out == ModelTable[m].outputCost
           tokens == ApproxTokens(request.chars)
           limit == MaxOutputTokens(request)
<1>1. in \in Nat /\ out \in Nat
  BY ModelTableAssumption
<1>2. tokens \in Nat /\ limit \in Nat
  BY DEF ApproxTokens, MaxOutputTokens
<1>3. PICK error \in InputErrors, output \in {0, limit} :
          cost = (tokens + error) * in + output * out
  BY DEF ModelCosts, EstimateCostUsd
<1>4. error \in Nat /\ output \in Nat
  BY <1>2, InputErrorsAssumption
<1>5. ModelEstimate(ModelTable[m], request) = tokens * in + limit * out
  BY DEF ModelEstimate, EstimateCostUsd
<1> HIDE DEF in, out, tokens, limit
<1>6. (tokens + error) * in = tokens * in + error * in
  BY <1>1, <1>2, <1>4, Products
<1>7. /\ tokens * in \in Nat /\ error * in \in Nat
      /\ output * out \in Nat /\ limit * out \in Nat
  BY <1>1, <1>2, <1>4, Products
<1>8. output * out <= limit * out
  BY <1>1, <1>2, <1>3, <1>7
<1>9. cost \in Nat /\ cost <= tokens * in + limit * out + error * in
  BY <1>3, <1>6, <1>7, <1>8
<1> QED
  BY <1>5, <1>7, <1>9 DEF in

\* What a service refused is gone on after only if the status says it may pass.
LEMMA RetryableRefusal ==
    ASSUME NEW failure, failure.cause = "status",
           NEW status \in HttpStatuses, failure.status = status
    PROVE  /\ IsRetryable(HttpClass(failure)) => MayPass(failure)
           /\ IsRetryable(AnthropicClass(failure)) => MayPass(failure)
           /\ IsRetryable(OpenAiClass(failure)) => MayPass(failure)
<1>1. IsRetryable(HttpClass(failure)) => MayPass(failure)
  BY DEF HttpClass, IsRetryable, MayPass, HttpStatuses
<1>2. IsRetryable(AnthropicClass(failure)) => MayPass(failure)
  BY DEF AnthropicClass, IsRetryable, MayPass, HttpStatuses
<1>3. IsRetryable(OpenAiClass(failure)) => MayPass(failure)
  BY DEF OpenAiClass, IsRetryable, MayPass, HttpStatuses
<1> QED
  BY <1>1, <1>2, <1>3

\* Whatever adapter classes a failure as one to go on after, the failure may pass
\* by itself, but for an error of the HTTP adapter's own.
LEMMA RetryableMayPass ==
    ASSUME NEW kind \in CapabilityKinds \cup ModelKinds, NEW input, NEW where,
           NEW failure \in Failures(kind, input, where),
           IsRetryable(ClassifyError(kind, failure))
    PROVE  MayPass(failure) \/ (failure.cause = "error" /\ kind \in {"http", "ghl"})
<1>1. /\ \A cause : Thrown(cause).cause = cause /\ Thrown(cause).status = 0
      /\ \A status : Refused(status).cause = "status" /\ Refused(status).status = status
  BY DEF Thrown, Refused
<1>2. \A f \in ServiceFailures :
          \/ f.cause = "connection"
          \/ f.cause = "status" /\ f.status \in HttpStatuses
  BY <1>1 DEF ServiceFailures, Unanswered
<1>3. CASE failure.cause = "connection"
  BY <1>3 DEF MayPass
<1>4. CASE failure.cause = "status" /\ failure.status \in HttpStatuses
  <2>1. PICK status \in HttpStatuses : failure.status = status
    BY <1>4
  <2>2. \/ ClassifyError(kind, failure) = "deterministic"
        \/ ClassifyError(kind, failure) = HttpClass(failure)
        \/ ClassifyError(kind, failure) = AnthropicClass(failure)
        \/ ClassifyError(kind, failure) = OpenAiClass(failure)
    BY <1>4 DEF ClassifyError, GhlClass, CapabilityKinds, ModelKinds
  <2>3. ~IsRetryable("deterministic")
    BY DEF IsRetryable
  <2> QED
    BY <1>4, <2>1, <2>2, <2>3, RetryableRefusal
<1>5. CASE kind = "function"
  BY <1>5 DEF ClassifyError, IsRetryable
<1>6. CASE kind = "http" /\ failure \notin ServiceFailures
  <2>1. failure.cause \in {"error", "target"} /\ failure.status = 0
    BY <1>1, <1>6 DEF Failures, HttpFailures
  <2> QED
    BY <1>6, <2>1 DEF ClassifyError, HttpClass, IsRetryable
<1>7. CASE kind = "ghl" /\ failure \notin ServiceFailures
  <2>1. failure.cause \in {"error", "target", "config"} /\ failure.status = 0
    BY <1>1, <1>7 DEF Failures, GhlFailures, HttpFailures
  <2> QED
    BY <1>7, <2>1 DEF ClassifyError, GhlClass, HttpClass, IsRetryable
<1>8. CASE kind \in ModelKinds /\ failure \notin ServiceFailures
  <2>1. failure.cause = "error" /\ failure.status = 0
    BY <1>1, <1>8 DEF Failures, ModelKinds
  <2>2. AnthropicClass(failure) = "unknown" /\ OpenAiClass(failure) = "unknown"
    BY <2>1 DEF AnthropicClass, OpenAiClass
  <2>3. ClassifyError(kind, failure) = "unknown"
    BY <1>8, <2>2 DEF ClassifyError, ModelKinds
  <2> QED
    BY <2>3 DEF IsRetryable
<1> QED
  BY <1>2, <1>3, <1>4, <1>5, <1>6, <1>7, <1>8 DEF CapabilityKinds

-----------------------------------------------------------------------------
(***************************************************************************)
(* The invariant holds at first, and every step keeps it.                  *)
(***************************************************************************)
LEMMA InitInvariant == Init => IInv
<1> SUFFICES ASSUME Init PROVE IInv
  OBVIOUS
<1>1. order \in Order
  <2>1. CASE order \in Orders
    BY <2>1, OrdersAssumption
  <2>2. ASSUME NEW payload \in Payloads, order = ParseWorkOrder(payload) PROVE order \in Order
    <3>1. payload \in Order /\ NoInput \in Inputs
      BY OrdersAssumption DEF Inputs
    <3> QED
      BY <2>2, <3>1 DEF ParseWorkOrder, Order
  <2> QED
    BY <2>1, <2>2 DEF Init
<1>2. TypeOK
  BY <1>1, EnvironmentsAssumption DEF Init, TypeOK, Statuses, WorkOrderStatuses
<1>3. Started = {} /\ \A kind : Called(kind) = {}
  BY DEF Init, Started, Called
<1>4. TraceInv
  BY <1>3, FS_EmptySet DEF Init, TraceInv, TraceAgrees
<1>5. PhaseInv /\ LoopInv /\ CurrentInv /\ CalledInv /\ NoneIsSkipped
  BY <1>3 DEF Init, PhaseInv, LoopInv, CurrentInv, CalledInv, NoneIsSkipped
<1>6. ResultInv /\ FallbackInv /\ SpendWithinBudget
  BY DEF Init, ResultInv, FallbackInv, SpendWithinBudget
<1> QED
  BY <1>2, <1>4, <1>5, <1>6 DEF IInv

\* The order, the registries and what is bound stay what they are.
LEMMA GivenStays ==
    ASSUME UNCHANGED given
    PROVE  /\ Capabilities' = Capabilities /\ DecisionModels' = DecisionModels
           /\ \A kind : Bound(kind)' = Bound(kind)
           /\ order' = order /\ table' = table /\ env' = env
BY DEF given, Capabilities, DecisionModels, Bound

LEMMA CallsStay ==
    ASSUME UNCHANGED <<given, calls>>
    PROVE  /\ \A kind : Called(kind)' = Called(kind)
           /\ NoneIsSkipped' <=> NoneIsSkipped
<1>1. \A kind : Called(kind)' = Called(kind)
  BY DEF Called
<1> QED
  BY <1>1, GivenStays DEF NoneIsSkipped, given

LEMMA ClosingEventOfStatus ==
    ASSUME NEW status \in WorkOrderStatuses
    PROVE  /\ ClosingEvent(TargetStatusForResult(status)) \in ClosingEvents
           /\ ClosingEvent(TargetStatusForResult(status)) \in Emitted \ {"worker.started"}
<1>1. TargetStatusForResult(status) \in TargetStatuses
  BY DEF WorkOrderStatuses, TargetStatuses, TargetStatusForResult
<1>2. ClosingEvent(TargetStatusForResult(status)) \in ClosingEvents
  BY <1>1 DEF ClosingEvents
<1> QED
  BY <1>2, ClosingEventsAre DEF Emitted

\* Returning a status that is not `completed`, when no call is under way.
LEMMA ReturnInvariant ==
    ASSUME IInv, pc \in {"gate", "human", "loop", "ai"},
           NEW status \in WorkOrderStatuses \ {"completed"}, NEW event,
           event = ClosingEvent(TargetStatusForResult(status)),
           Return(status, event), UNCHANGED <<calls, ledger>>
    PROVE  IInv'
<1>1. /\ UNCHANGED <<given, loop, left, current, calls, ledger>>
      /\ pc' = "done" /\ result' = status /\ trace' = Append(trace, event)
  BY DEF Return
<1>2. result = "none"
  BY DEF IInv, TypeOK
<1>3. TypeOK'
  BY <1>1, GivenStays DEF IInv, TypeOK, Statuses, WorkOrderStatuses
<1>4. TraceInv'
  <2>1. event \in ClosingEvents /\ event \in Emitted \ {"worker.started"}
    BY ClosingEventOfStatus
  <2>2. Started' = Started
    BY <1>1, <2>1, EmitKeepsStarted DEF IInv, TraceInv
  <2>3. /\ trace' \in Seq(Emitted) /\ Len(trace') = Len(trace) + 1 /\ Len(trace) \in Nat
        /\ \A i \in 1..Len(trace) : trace'[i] = trace[i]
        /\ trace'[Len(trace')] = event
    BY <1>1, <2>1 DEF IInv, TraceInv
  <2>4. \A i \in 1..Len(trace) : trace'[i] \notin ClosingEvents
    BY <2>3 DEF IInv, TraceInv, TraceAgrees
  <2> QED
    BY <1>1, <2>2, <2>3, <2>4 DEF IInv, TraceInv, TraceAgrees, ClosingEvents
<1>5. PhaseInv' /\ LoopInv' /\ CurrentInv' /\ CalledInv' /\ NoneIsSkipped'
  BY <1>1, GivenStays, CallsStay
     DEF IInv, PhaseInv, LoopInv, CurrentInv, CalledInv
<1>6. ResultInv'
  BY <1>1, <1>2 DEF IInv, ResultInv
<1>7. FallbackInv'
  BY <1>1, GivenStays DEF IInv, FallbackInv, MayHavePassed
<1>8. SpendWithinBudget'
  BY <1>1, GivenStays DEF IInv, SpendWithinBudget
<1> QED
  BY <1>3, <1>4, <1>5, <1>6, <1>7, <1>8 DEF IInv

\* A step that emits nothing that closes and answers no call: the parts about the
\* loop remain to be shown.
LEMMA QuietInvariant ==
    ASSUME IInv, UNCHANGED <<given, calls, ledger, result>>,
           pc # "done", pc' # "done",
           TypeOK', TraceInv', PhaseInv', LoopInv', CurrentInv', CalledInv',
           loop' = loop \/ ledger = <<>>
    PROVE  IInv'
<1>1. NoneIsSkipped'
  BY CallsStay DEF IInv
<1>2. ResultInv' /\ FallbackInv'
  BY GivenStays DEF IInv, ResultInv, FallbackInv, MayHavePassed
<1>3. SpendWithinBudget'
  BY GivenStays DEF IInv, SpendWithinBudget
<1> QED
  BY <1>1, <1>2, <1>3 DEF IInv

\* An event that neither closes nor starts a worker, or none.
LEMMA QuietTrace ==
    ASSUME IInv, pc \notin {"done", "calling"}, pc' \notin {"done", "calling"},
           UNCHANGED calls,
           trace' = trace \/ trace' = Append(trace, "task.planned")
    PROVE  TraceInv'
<1>1. CASE trace' = trace
  BY <1>1 DEF IInv, TraceInv, TraceAgrees, Started, ClosingEvents
<1>2. CASE trace' = Append(trace, "task.planned")
  <2> DEFINE event == "task.planned"
  <2>a. event \in Emitted \ {"worker.started"} /\ trace' = Append(trace, event)
    BY <1>2 DEF Emitted
  <2> HIDE DEF event
  <2>1. Started' = Started
    BY <2>a, EmitKeepsStarted DEF IInv, TraceInv
  <2>2. /\ trace' \in Seq(Emitted) /\ Len(trace') = Len(trace) + 1 /\ Len(trace) \in Nat
        /\ \A i \in 1..Len(trace) : trace'[i] = trace[i]
        /\ trace'[Len(trace')] = event
    BY <2>a DEF IInv, TraceInv
  <2>3. event \notin ClosingEvents
    BY ClosingEventsAre DEF event
  <2> QED
    BY <2>1, <2>2, <2>3 DEF IInv, TraceInv, TraceAgrees, ClosingEvents
<1> QED
  BY <1>1, <1>2

\* The steps that return without a call under way.
LEMMA ReturnsInvariant ==
    ASSUME IInv,
           \/ PolicyStops \/ ParkForHuman \/ BlockForBudget \/ CapabilitiesExhausted
           \/ NoModel \/ ModelsExhausted
    PROVE  IInv'
<1>1. \A status \in WorkOrderStatuses \ {"completed"} :
          \A event : event = ClosingEvent(TargetStatusForResult(status))
                     /\ pc \in {"gate", "human", "loop", "ai"}
                     /\ Return(status, event) /\ UNCHANGED <<calls, ledger>>
              => IInv'
  BY ReturnInvariant
<1>2. /\ {"failed", "approval_required", "denied", "blocked", "budget_exceeded", "awaiting_human"}
             \subseteq WorkOrderStatuses \ {"completed"}
      /\ ClosingEvent(TargetStatusForResult("failed")) = "task.failed"
      /\ ClosingEvent(TargetStatusForResult("approval_required")) = "approval.requested"
      /\ ClosingEvent(TargetStatusForResult("denied")) = "task.blocked"
      /\ ClosingEvent(TargetStatusForResult("blocked")) = "task.blocked"
      /\ ClosingEvent(TargetStatusForResult("budget_exceeded")) = "task.blocked"
      /\ ClosingEvent(TargetStatusForResult("awaiting_human")) = "task.blocked"
  BY DEF WorkOrderStatuses, ClosingEvent, TargetStatusForResult
<1>3. CASE PolicyStops
  BY <1>1, <1>2, <1>3 DEF PolicyStops
<1>4. CASE ParkForHuman
  BY <1>1, <1>2, <1>4 DEF ParkForHuman
<1>5. CASE BlockForBudget
  BY <1>1, <1>2, <1>5 DEF BlockForBudget
<1>6. CASE CapabilitiesExhausted
  BY <1>1, <1>2, <1>6 DEF CapabilitiesExhausted
<1>7. CASE NoModel
  BY <1>1, <1>2, <1>7 DEF NoModel
<1>8. CASE ModelsExhausted
  BY <1>1, <1>2, <1>8 DEF ModelsExhausted
<1> QED
  BY <1>3, <1>4, <1>5, <1>6, <1>7, <1>8

\* No registered capability is an AI's: an order is routed to one only if nothing
\* can do it and reasoning is allowed.
LEMMA RoutedToAi ==
    ASSUME TypeOK, IsAi(RouteWork(order, table))
    PROVE  Capabilities = {} /\ order.needsReasoning /\ ~order.prefersHuman
<1>1. CASE ~order.prefersHuman /\ Capabilities # {}
  <2>1. RouteWork(order, table) = table[FirstCandidate(table, Capabilities)].class
    BY <1>1 DEF RouteWork, Capabilities
  <2>2. FirstCandidate(table, Capabilities) \in Capabilities
    BY <1>1, CandidatesAreRegistered, FirstCandidateIsFirst DEF TypeOK
  <2>3. table[FirstCandidate(table, Capabilities)].class \notin {"local_ai", "cloud_ai"}
    BY <2>2, CandidatesAreRegistered, TablesAssumption DEF TypeOK
  <2> QED
    BY <2>1, <2>3 DEF IsAi
<1>2. order.prefersHuman => RouteWork(order, table) = "human"
  BY DEF RouteWork
<1>3. CASE ~order.prefersHuman /\ Capabilities = {}
  BY <1>3 DEF RouteWork, IsAi, Capabilities
<1> QED
  BY <1>1, <1>2, <1>3 DEF IsAi

LEMMA RouteInvariant ==
    ASSUME IInv, Route
    PROVE  IInv'
<1>1. /\ pc = "gate" /\ trace' = Append(trace, "task.planned")
      /\ left' = Capabilities
      /\ UNCHANGED <<given, loop, current, calls, ledger, result>>
      /\ pc' = IF RouteWork(order, table) = "human" THEN "human"
               ELSE IF IsAi(RouteWork(order, table)) THEN "ai" ELSE "loop"
  BY DEF Route, Capabilities
<1>2. loop = "capability" /\ calls = <<>>
  BY <1>1 DEF IInv, PhaseInv
<1>3. \A kind : Called(kind) = {}
  BY <1>2 DEF Called
<1>4. pc' = "ai" => Capabilities = {} /\ order.needsReasoning /\ ~order.prefersHuman
  BY <1>1, RoutedToAi DEF IInv
<1>5. pc' = "loop" => ~order.prefersHuman
  BY <1>1 DEF RouteWork
<1>6. TypeOK'
  BY <1>1, <1>2, GivenStays, CandidatesAreRegistered DEF IInv, TypeOK
<1>7. TraceInv'
  BY <1>1, QuietTrace
<1>8. PhaseInv' /\ LoopInv' /\ CurrentInv'
  BY <1>1, <1>2, <1>3, GivenStays, CallsStay
     DEF PhaseInv, LoopInv, CurrentInv, Candidates
<1>9. CalledInv'
  BY <1>1, <1>2, <1>3, <1>4, <1>5, GivenStays, CallsStay DEF CalledInv
<1> QED
  BY <1>1, <1>6, <1>7, <1>8, <1>9, QuietInvariant

LEMMA SkipInvariant ==
    ASSUME IInv, SkipUnresolved
    PROVE  IInv'
<1>1. /\ pc = "loop" /\ left # {} /\ First(left) \notin Bound(loop)
      /\ left' = left \ {First(left)}
      /\ UNCHANGED <<given, pc, loop, current, trace, calls, ledger, result>>
  BY DEF SkipUnresolved, Resolves
<1>2. TypeOK'
  BY <1>1, GivenStays DEF IInv, TypeOK
<1>3. TraceInv'
  BY <1>1, QuietTrace
<1>4. PhaseInv' /\ CurrentInv' /\ CalledInv'
  BY <1>1, GivenStays, CallsStay DEF IInv, PhaseInv, CurrentInv, CalledInv
<1>5. /\ Candidates' = Candidates
      /\ \A id : Rank(id)' = Rank(id)
      /\ Bound(loop)' = Bound(loop) /\ Called(loop)' = Called(loop)
  BY <1>1, GivenStays, CallsStay DEF Candidates, Rank
<1>6. LoopInv'
  BY <1>1, <1>5 DEF IInv, LoopInv
<1> QED
  BY <1>1, <1>2, <1>3, <1>4, <1>6, QuietInvariant

LEMMA StartInvariant ==
    ASSUME IInv, StartCall
    PROVE  IInv'
<1>1. /\ pc = "loop" /\ left # {} /\ First(left) \in Bound(loop) /\ Affordable(First(left))
      /\ current' = First(left) /\ pc' = "calling"
      /\ trace' = trace \o <<"worker.started", "tool.called">>
      /\ UNCHANGED <<given, loop, left, calls, ledger, result>>
  BY DEF StartCall, Resolves
<1>2. First(left) \in left /\ \A d \in left : Rank(First(left)) <= Rank(d)
  BY <1>1, FirstIsFirst DEF IInv
<1>3. TypeOK'
  BY <1>1, <1>2, GivenStays DEF IInv, TypeOK
<1>4. TraceInv'
  <2>1. Cardinality(Started') = Cardinality(Started) + 1
    BY <1>1, StartingAddsOne DEF IInv, TraceInv
  <2>2. /\ trace' \in Seq(Emitted) /\ Len(trace') = Len(trace) + 2 /\ Len(trace) \in Nat
        /\ \A i \in 1..Len(trace) : trace'[i] = trace[i]
        /\ trace'[Len(trace) + 1] = "worker.started"
        /\ trace'[Len(trace) + 2] = "tool.called"
    BY <1>1 DEF IInv, TraceInv, Emitted
  <2>3. "worker.started" \notin ClosingEvents /\ "tool.called" \notin ClosingEvents
    BY ClosingEventsAre
  <2>4. Len(calls) \in Nat /\ Cardinality(Started) = Len(calls)
    BY <1>1 DEF IInv, TypeOK, TraceInv, TraceAgrees
  <2> QED
    BY <1>1, <2>1, <2>2, <2>3, <2>4 DEF IInv, TraceInv, TraceAgrees, ClosingEvents
<1>5. PhaseInv' /\ CalledInv'
  BY <1>1, GivenStays, CallsStay DEF IInv, PhaseInv, CalledInv
<1>6. /\ Candidates' = Candidates
      /\ \A id : Rank(id)' = Rank(id)
      /\ \A id : Affordable(id)' <=> Affordable(id)
      /\ Bound(loop)' = Bound(loop) /\ Called(loop)' = Called(loop)
  BY <1>1, GivenStays, CallsStay DEF Candidates, Rank, Affordable, Estimate
<1>7. LoopInv'
  BY <1>1, <1>6 DEF IInv, LoopInv
<1>8. CurrentInv'
  BY <1>1, <1>2, <1>6 DEF CurrentInv
<1> QED
  BY <1>1, <1>3, <1>4, <1>5, <1>7, <1>8, QuietInvariant

LEMMA ThrowInvariant ==
    ASSUME IInv, Throws
    PROVE  IInv'
<1>1. /\ pc \in {"gate", "loop"} /\ pc' = "thrown"
      /\ UNCHANGED <<given, loop, left, current, trace, calls, ledger, result>>
  BY DEF Throws
<1>2. TypeOK'
  BY <1>1, GivenStays DEF IInv, TypeOK
<1>3. TraceInv'
  BY <1>1, QuietTrace
<1>4. PhaseInv' /\ LoopInv' /\ CurrentInv' /\ CalledInv'
  BY <1>1, GivenStays, CallsStay DEF IInv, PhaseInv, LoopInv, CurrentInv, CalledInv
<1> QED
  BY <1>1, <1>2, <1>3, <1>4, QuietInvariant

LEMMA EscalateInvariant ==
    ASSUME IInv, EscalateToAi
    PROVE  IInv'
<1>1. /\ pc = "loop" /\ loop = "capability" /\ left = {} /\ order.needsReasoning
      /\ pc' = "ai"
      /\ UNCHANGED <<given, loop, left, current, trace, calls, ledger, result>>
  BY DEF EscalateToAi
<1>2. TypeOK'
  BY <1>1, GivenStays DEF IInv, TypeOK
<1>3. TraceInv'
  BY <1>1, QuietTrace
<1>4. PhaseInv' /\ LoopInv' /\ CurrentInv'
  BY <1>1, GivenStays, CallsStay DEF IInv, PhaseInv, LoopInv, CurrentInv
<1>5. Capabilities \cap Bound("capability") \subseteq Called("capability")
  BY <1>1 DEF IInv, LoopInv, Candidates
<1>6. CalledInv'
  BY <1>1, <1>5, GivenStays, CallsStay DEF IInv, CalledInv
<1> QED
  BY <1>1, <1>2, <1>3, <1>4, <1>6, QuietInvariant

LEMMA RouteModelInvariant ==
    ASSUME IInv, RouteModel
    PROVE  IInv'
<1>1. /\ pc = "ai" /\ pc' = "loop" /\ loop' = "model" /\ left' = DecisionModels
      /\ UNCHANGED <<given, current, trace, calls, ledger, result>>
  BY DEF RouteModel
<1>2. loop = "capability" /\ Called("model") = {} /\ result = "none"
  BY <1>1 DEF IInv, PhaseInv, TypeOK
<1>3. TypeOK'
  BY <1>1, GivenStays, CandidatesAreRegistered DEF IInv, TypeOK
<1>4. TraceInv'
  BY <1>1, QuietTrace
<1>5. PhaseInv' /\ CurrentInv'
  BY <1>1 DEF PhaseInv, CurrentInv
<1>6. LoopInv'
  BY <1>1, <1>2, GivenStays, CallsStay DEF LoopInv, Candidates
<1>7. CalledInv'
  BY <1>1, GivenStays, CallsStay DEF IInv, CalledInv
<1>8. ledger = <<>>
  BY <1>2 DEF IInv, ResultInv
<1> QED
  BY <1>1, <1>3, <1>4, <1>5, <1>6, <1>7, <1>8, QuietInvariant

\* What every answer of a call does to the part of the invariant about the loops.
LEMMA AnswerKeepsOrder ==
    ASSUME IInv, pc = "calling", NEW outcome, calls' = Answered(outcome),
           pc' \notin {"gate", "human", "ai"}, UNCHANGED <<given, loop>>
    PROVE  PhaseInv' /\ CalledInv' /\ NoneIsSkipped'
<1> DEFINE call == [adapter |-> Adapter(current), outcome |-> outcome]
<1>1. \A kind : Called(kind)' = Called(kind) \cup (IF kind = loop THEN {current} ELSE {})
  BY AnswerAddsCall DEF IInv
<1>2. loop \in {"capability", "model"} /\ current \in left /\ current \in Bound(loop)
  BY DEF IInv, TypeOK, CurrentInv
<1>3. /\ left \subseteq Candidates
      /\ Candidates \cap Bound(loop) \subseteq left \cup Called(loop)
      /\ \A d \in left : Rank(current) <= Rank(d)
      /\ current \notin Called(loop)
  BY <1>2 DEF IInv, LoopInv, CurrentInv
<1>4. PhaseInv'
  BY <1>1 DEF IInv, PhaseInv
<1>5. CalledInv'
  <2>1. current \in Candidates
    BY <1>2, <1>3
  <2> QED
    BY <1>1, <1>2, <2>1, GivenStays DEF IInv, CalledInv, Candidates
<1>6. \A c \in Called("capability")', d \in Capabilities :
          ClassRank[table[d].class] < ClassRank[table[c].class] /\ d \in Bound("capability")
              => d \in Called("capability")'
  <2> SUFFICES ASSUME NEW c \in Called("capability")', NEW d \in Capabilities,
                      ClassRank[table[d].class] < ClassRank[table[c].class],
                      d \in Bound("capability")
               PROVE  d \in Called("capability")'
    OBVIOUS
  <2>1. CASE c \in Called("capability")
    BY <1>1, <2>1 DEF IInv, NoneIsSkipped, Capabilities
  <2>2. CASE c \notin Called("capability")
    <3>1. loop = "capability" /\ c = current
      BY <1>1, <2>2
    <3>2. d \in left \/ d \in Called("capability")
      BY <1>3, <3>1 DEF Candidates
    <3>3. CASE d \in left
      <4>1. Rank(current) <= Rank(d)
        BY <1>3, <3>3
      <4>2. ClassRank[table[current].class] <= ClassRank[table[d].class]
        BY <3>1, <4>1 DEF Rank
      <4>3. \A e \in Capabilities : ClassRank[table[e].class] \in Nat
        BY CandidatesAreRegistered, TablesAssumption
           DEF IInv, TypeOK, ExecutionClasses, ClassRank
      <4>4. current \in Capabilities
        BY <1>2, <1>3, <3>1 DEF Candidates
      <4> QED
        BY <3>1, <4>2, <4>3, <4>4
    <3> QED
      BY <1>1, <3>2, <3>3
  <2> QED
    BY <2>1, <2>2
<1>7. \A m \in Called("model")', n \in DecisionModels :
          ModelTable[n].outputCost < ModelTable[m].outputCost /\ n \in Bound("model")
              => n \in Called("model")'
  <2> SUFFICES ASSUME NEW m \in Called("model")', NEW n \in DecisionModels,
                      ModelTable[n].outputCost < ModelTable[m].outputCost,
                      n \in Bound("model")
               PROVE  n \in Called("model")'
    OBVIOUS
  <2>1. CASE m \in Called("model")
    BY <1>1, <2>1 DEF IInv, NoneIsSkipped
  <2>2. CASE m \notin Called("model")
    <3>1. loop = "model" /\ m = current
      BY <1>1, <2>2
    <3>2. n \in left \/ n \in Called("model")
      BY <1>3, <3>1 DEF Candidates
    <3>3. CASE n \in left
      <4>1. ModelTable[current].outputCost <= ModelTable[n].outputCost
        BY <1>3, <3>1, <3>3 DEF Rank
      <4>2. current \in DecisionModels
        BY <1>2, <1>3, <3>1 DEF Candidates
      <4>3. ModelTable[current].outputCost \in Nat /\ ModelTable[n].outputCost \in Nat
        BY <4>2, CandidatesAreRegistered, ModelTableAssumption
      <4> QED
        BY <3>1, <4>1, <4>3
    <3> QED
      BY <1>1, <3>2, <3>3
  <2> QED
    BY <2>1, <2>2
<1>8. \A i, j \in 1..Len(calls') : calls'[i].adapter = calls'[j].adapter => i = j
  <2>1. /\ Len(calls') = Len(calls) + 1 /\ Len(calls) \in Nat
        /\ \A i \in 1..Len(calls) : calls'[i] = calls[i]
        /\ calls'[Len(calls) + 1] = call
    BY DEF IInv, TypeOK, Answered
  <2>2. call.adapter.kind = loop /\ call.adapter.id = current /\ call.adapter = Adapter(current)
    BY DEF Adapter
  <2> HIDE DEF call
  <2>3. \A i \in 1..Len(calls) : calls[i].adapter # call.adapter
    BY <1>3, <2>2 DEF Called
  <2>4. \A i, j \in 1..Len(calls) : calls[i].adapter = calls[j].adapter => i = j
    BY DEF IInv, NoneIsSkipped
  <2> QED
    BY <2>1, <2>3, <2>4
<1>9. NoneIsSkipped'
  BY <1>6, <1>7, <1>8, GivenStays DEF NoneIsSkipped, Capabilities
<1> QED
  BY <1>4, <1>5, <1>9

\* The closing event of an answer: the number of calls catches up with that of the
\* workers started.
LEMMA AnswerTrace ==
    ASSUME IInv, pc = "calling", Len(calls') = Len(calls) + 1,
           NEW status \in {"completed", "failed"}, NEW event,
           event = ClosingEvent(TargetStatusForResult(status)),
           Return(status, event)
    PROVE  TraceInv'
<1>1. trace' = Append(trace, event) /\ pc' = "done" /\ result' = status
  BY DEF Return
<1>2. event \in ClosingEvents /\ event \in Emitted \ {"worker.started"}
  BY ClosingEventOfStatus DEF WorkOrderStatuses
<1>3. Started' = Started
  BY <1>1, <1>2, EmitKeepsStarted DEF IInv, TraceInv
<1>4. /\ trace' \in Seq(Emitted) /\ Len(trace') = Len(trace) + 1 /\ Len(trace) \in Nat
      /\ \A i \in 1..Len(trace) : trace'[i] = trace[i]
      /\ trace'[Len(trace')] = event
  BY <1>1, <1>2 DEF IInv, TraceInv
<1>5. Cardinality(Started) = Len(calls) + 1 /\ Len(calls) \in Nat
  BY DEF IInv, TypeOK, TraceInv, TraceAgrees
<1>6. \A i \in 1..Len(trace) : trace'[i] \notin ClosingEvents
  BY <1>4 DEF IInv, TraceInv, TraceAgrees
<1> QED
  BY <1>1, <1>3, <1>4, <1>5, <1>6 DEF TraceInv, TraceAgrees, ClosingEvents

\* The adapter of a call is one of those registered; so is what it answers.
LEMMA AnswerType ==
    ASSUME IInv, pc = "calling", NEW outcome \in {"ok", "passing", "broken", "lasting"},
           calls' = Answered(outcome)
    PROVE  /\ calls' \in Seq([adapter : AdapterIds, outcome : {"ok", "passing", "broken", "lasting"}])
           /\ Len(calls') = Len(calls) + 1 /\ Len(calls) \in Nat
           /\ \A i \in 1..Len(calls) : calls'[i] = calls[i]
           /\ calls'[Len(calls')].adapter = Adapter(current)
           /\ calls'[Len(calls')].outcome = outcome
           /\ Adapter(current) \in AdapterIds
           /\ calls' # <<>>
<1>1. current \in Nat /\ loop \in {"capability", "model"}
  BY TablesAssumption, ModelTableAssumption DEF IInv, TypeOK
<1>2. Adapter(current) \in AdapterIds
  BY <1>1 DEF Adapter, AdapterIds
<1> QED
  BY <1>2 DEF IInv, TypeOK, Answered

LEMMA SuccessInvariant ==
    ASSUME IInv, CallSucceeds
    PROVE  IInv'
<1>1. /\ pc = "calling" /\ calls' = Answered("ok")
      /\ pc' = "done" /\ result' = "completed" /\ Return("completed", "task.completed")
      /\ UNCHANGED <<given, loop, left, current>>
  BY DEF CallSucceeds, Return
<1>2. PICK usage \in Usages : ledger' = Append(ledger, usage)
  BY DEF CallSucceeds
<1>3. result = "none" /\ ledger = <<>>
  BY <1>1 DEF IInv, TypeOK, ResultInv
<1>4. PICK cost \in IF loop = "capability" THEN {table[current].price}
                    ELSE ModelCosts(ModelTable[current], order.request, InputErrors) :
          usage = [adapter |-> Adapter(current), costUsd |-> cost]
  BY <1>2 DEF Usages
<1> DEFINE remaining == order.limit - order.spent
<1>5. /\ cost \in Nat
      /\ order.budgeted =>
             \/ cost <= remaining
             \/ /\ loop = "model"
                /\ \E error \in InputErrors :
                       cost <= remaining + error * ModelTable[current].inputCost
  <2>1. remaining \in Int /\ order.request.chars \in Nat /\ order.request.maxOutput \in Nat
    BY DEF IInv, TypeOK, Order
  <2>2. order.budgeted => Estimate(current) <= remaining
    BY <1>1 DEF IInv, CurrentInv, Affordable
  <2> HIDE DEF remaining
  <2>3. CASE loop = "capability"
    <3>1. cost = table[current].price /\ cost \in Nat /\ Estimate(current) = cost
      BY <1>1, <1>4, <2>3, TablesAssumption DEF IInv, TypeOK, Estimate
    <3> QED
      BY <2>2, <3>1
  <2>4. CASE loop = "model"
    <3>1. /\ current \in DOMAIN ModelTable
          /\ cost \in ModelCosts(ModelTable[current], order.request, InputErrors)
          /\ Estimate(current) = ModelEstimate(ModelTable[current], order.request)
      BY <1>1, <1>4, <2>4 DEF IInv, TypeOK, Estimate
    <3>2. /\ cost \in Nat /\ Estimate(current) \in Nat
          /\ \E error \in InputErrors :
                 /\ error * ModelTable[current].inputCost \in Nat
                 /\ cost <= Estimate(current) + error * ModelTable[current].inputCost
      BY <2>1, <3>1, CostsOfModel
    <3> QED
      BY <2>1, <2>2, <2>4, <3>2
  <2> QED
    BY <2>3, <2>4 DEF IInv, TypeOK
<1>6. /\ Len(ledger') = 1 /\ ledger'[1] = usage
      /\ usage.adapter = Adapter(current) /\ usage.costUsd = cost
  BY <1>2, <1>3, <1>4
<1>7. Adapter(current) \in AdapterIds /\ Adapter(current).id = current
  BY <1>1, AnswerType DEF Adapter
<1>8. /\ calls' \in Seq([adapter : AdapterIds, outcome : {"ok", "passing", "broken", "lasting"}])
      /\ Len(calls') = Len(calls) + 1 /\ Len(calls) \in Nat
      /\ \A i \in 1..Len(calls) : calls'[i] = calls[i]
      /\ calls'[Len(calls')].adapter = Adapter(current)
      /\ calls'[Len(calls')].outcome = "ok"
      /\ calls' # <<>>
  BY <1>1, AnswerType
<1>9. TypeOK'
  <2>1. ledger' \in Seq([adapter : AdapterIds, costUsd : Nat])
    BY <1>2, <1>3, <1>4, <1>5, <1>7 DEF IInv, TypeOK
  <2> QED
    BY <1>1, <1>8, <2>1, GivenStays DEF IInv, TypeOK, Statuses, WorkOrderStatuses
<1>10. TraceInv'
  <2>1. "task.completed" = ClosingEvent(TargetStatusForResult("completed"))
    BY DEF ClosingEvent, TargetStatusForResult
  <2> QED
    BY <1>1, <1>8, <2>1, AnswerTrace
<1>11. PhaseInv' /\ CalledInv' /\ NoneIsSkipped'
  BY <1>1, AnswerKeepsOrder
<1>12. LoopInv' /\ CurrentInv'
  BY <1>1 DEF LoopInv, CurrentInv
<1>13. ResultInv'
  BY <1>1, <1>3, <1>6, <1>8 DEF IInv, ResultInv
<1>14. FallbackInv'
  <2>1. \A i \in 1..Len(calls) : MayHavePassed(i)
    BY <1>1 DEF IInv, FallbackInv
  <2> QED
    BY <1>1, <1>8, <2>1, GivenStays DEF FallbackInv, MayHavePassed
<1>15. SpendWithinBudget'
  BY <1>1, <1>5, <1>6, <1>7, GivenStays DEF SpendWithinBudget
<1> QED
  BY <1>9, <1>10, <1>11, <1>12, <1>13, <1>14, <1>15 DEF IInv

\* A call that fails for good: the order is failed and nothing is billed.
LEMMA FailureInvariant ==
    ASSUME IInv, CallFails
    PROVE  IInv'
<1>1. PICK failure \in FailuresOf(current) : calls' = Answered(Outcome(failure))
  BY DEF CallFails
<1>2. /\ pc = "calling" /\ pc' = "done" /\ result' = "failed"
      /\ Return("failed", "task.failed")
      /\ UNCHANGED <<given, loop, left, current, ledger>>
  BY DEF CallFails, Return
<1>3. Outcome(failure) \in {"passing", "broken", "lasting"}
  BY DEF Outcome
<1>4. /\ calls' \in Seq([adapter : AdapterIds, outcome : {"ok", "passing", "broken", "lasting"}])
      /\ Len(calls') = Len(calls) + 1 /\ Len(calls) \in Nat
      /\ \A i \in 1..Len(calls) : calls'[i] = calls[i]
      /\ calls'[Len(calls')].outcome = Outcome(failure)
  BY <1>1, <1>2, <1>3, AnswerType
<1>5. result = "none" /\ ledger = <<>>
  BY <1>2 DEF IInv, TypeOK, ResultInv
<1>6. TypeOK'
  BY <1>2, <1>4, GivenStays DEF IInv, TypeOK, Statuses, WorkOrderStatuses
<1>7. TraceInv'
  <2>1. "task.failed" = ClosingEvent(TargetStatusForResult("failed"))
    BY DEF ClosingEvent, TargetStatusForResult
  <2> QED
    BY <1>2, <1>4, <2>1, AnswerTrace
<1>8. PhaseInv' /\ CalledInv' /\ NoneIsSkipped'
  BY <1>1, <1>2, AnswerKeepsOrder
<1>9. LoopInv' /\ CurrentInv'
  BY <1>2 DEF LoopInv, CurrentInv
<1>10. ResultInv'
  BY <1>2, <1>3, <1>4, <1>5 DEF IInv, ResultInv
<1>11. FallbackInv'
  <2>1. \A i \in 1..Len(calls) : MayHavePassed(i)
    BY <1>2 DEF IInv, FallbackInv
  <2> QED
    BY <1>2, <1>4, <2>1, GivenStays DEF FallbackInv, MayHavePassed
<1>12. SpendWithinBudget'
  BY <1>2, <1>5 DEF SpendWithinBudget
<1> QED
  BY <1>6, <1>7, <1>8, <1>9, <1>10, <1>11, <1>12 DEF IInv

\* A call that fails and may be followed by another.
LEMMA RetryInvariant ==
    ASSUME IInv, CallFailsRetryably
    PROVE  IInv'
<1>1. PICK failure \in FailuresOf(current) :
          /\ IsRetryable(ClassifyError(AdapterKind(current), failure))
          /\ calls' = Answered(Outcome(failure))
  BY DEF CallFailsRetryably
<1>2. /\ pc = "calling" /\ pc' = "loop" /\ left' = left \ {current}
      /\ UNCHANGED <<given, loop, current, trace, ledger, result>>
  BY DEF CallFailsRetryably
<1>3. Outcome(failure) \in {"passing", "broken", "lasting"}
  BY DEF Outcome
<1>4. /\ calls' \in Seq([adapter : AdapterIds, outcome : {"ok", "passing", "broken", "lasting"}])
      /\ Len(calls') = Len(calls) + 1 /\ Len(calls) \in Nat
      /\ \A i \in 1..Len(calls) : calls'[i] = calls[i]
      /\ calls'[Len(calls')].adapter = Adapter(current)
      /\ calls'[Len(calls')].outcome = Outcome(failure)
  BY <1>1, <1>2, <1>3, AnswerType
<1>5. result = "none" /\ ledger = <<>>
  BY <1>2 DEF IInv, TypeOK, ResultInv
<1>6. TypeOK'
  BY <1>2, <1>4, GivenStays DEF IInv, TypeOK
<1>7. TraceInv'
  BY <1>2, <1>4 DEF IInv, TypeOK, TraceInv, TraceAgrees, Started, ClosingEvents
<1>8. PhaseInv' /\ CalledInv' /\ NoneIsSkipped'
  BY <1>1, <1>2, AnswerKeepsOrder
<1>9. LoopInv'
  <2>1. Called(loop)' = Called(loop) \cup {current}
    <3>1. \A kind : Called(kind)' = Called(kind) \cup (IF kind = loop THEN {current} ELSE {})
      BY <1>1, AnswerAddsCall DEF IInv
    <3>2. loop' = loop
      BY <1>2
    <3> QED
      BY <3>1, <3>2
  <2>2. /\ Candidates' = Candidates /\ Bound(loop)' = Bound(loop)
        /\ \A id : Rank(id)' = Rank(id)
    BY <1>2, GivenStays DEF Candidates, Rank
  <2>3. /\ left \subseteq Candidates
        /\ Candidates \cap Bound(loop) \subseteq left \cup Called(loop)
        /\ \A c \in Called(loop), d \in left : c # d /\ Rank(c) <= Rank(d)
        /\ \A d \in left : Rank(current) <= Rank(d)
    BY <1>2 DEF IInv, LoopInv, CurrentInv
  <2>4. loop' = loop /\ left' = left \ {current}
    BY <1>2
  <2> QED
    BY <2>1, <2>2, <2>3, <2>4 DEF LoopInv
<1>10. CurrentInv'
  BY <1>2 DEF CurrentInv
<1>11. ResultInv'
  BY <1>2, <1>3, <1>4, <1>5 DEF IInv, ResultInv
<1>12. FallbackInv'
  <2>1. \A i \in 1..Len(calls) : MayHavePassed(i)
    BY <1>2 DEF IInv, FallbackInv
  <2>2. AdapterKind(current) \in CapabilityKinds \cup ModelKinds
    BY <1>2, TablesAssumption, ModelTableAssumption DEF IInv, TypeOK, AdapterKind
  <2>3. MayPass(failure) \/ (failure.cause = "error" /\ AdapterKind(current) \in {"http", "ghl"})
    BY <1>1, <2>2, RetryableMayPass DEF FailuresOf
  <2>4. \/ Outcome(failure) = "passing"
        \/ Outcome(failure) = "broken" /\ AdapterKind(current) \in {"http", "ghl"}
    BY <2>3 DEF Outcome
  <2>5. AdapterKind(current) \in {"http", "ghl"} =>
            loop = "capability" /\ table[current].kind \in {"http", "ghl"}
    BY <1>2, ModelTableAssumption DEF IInv, TypeOK, AdapterKind, ModelKinds
  <2>6. Adapter(current).kind = loop /\ Adapter(current).id = current
    BY DEF Adapter
  <2> QED
    BY <1>2, <1>4, <2>1, <2>4, <2>5, <2>6, GivenStays DEF FallbackInv, MayHavePassed
<1>13. SpendWithinBudget'
  BY <1>2, <1>5 DEF SpendWithinBudget
<1> QED
  BY <1>6, <1>7, <1>8, <1>9, <1>10, <1>11, <1>12, <1>13 DEF IInv

\* Every step keeps the invariant.
LEMMA NextInvariant == IInv /\ [Next]_vars => IInv'
<1> SUFFICES ASSUME IInv, [Next]_vars PROVE IInv'
  OBVIOUS
<1>1. CASE \/ PolicyStops \/ ParkForHuman \/ BlockForBudget \/ CapabilitiesExhausted
           \/ NoModel \/ ModelsExhausted
  BY <1>1, ReturnsInvariant
<1>2. CASE Route
  BY <1>2, RouteInvariant
<1>3. CASE SkipUnresolved
  BY <1>3, SkipInvariant
<1>4. CASE StartCall
  BY <1>4, StartInvariant
<1>5. CASE Throws
  BY <1>5, ThrowInvariant
<1>6. CASE CallSucceeds
  BY <1>6, SuccessInvariant
<1>7. CASE CallFails
  BY <1>7, FailureInvariant
<1>8. CASE CallFailsRetryably
  BY <1>8, RetryInvariant
<1>9. CASE EscalateToAi
  BY <1>9, EscalateInvariant
<1>10. CASE RouteModel
  BY <1>10, RouteModelInvariant
<1>11. CASE UNCHANGED vars
  <2>1. UNCHANGED <<order, table, env, pc, loop, left, current, trace, calls, ledger, result>>
    BY <1>11 DEF vars
  <2>2. TypeOK' /\ TraceInv'
    BY <2>1 DEF IInv, TypeOK, TraceInv, TraceAgrees, Started, ClosingEvents
  <2>3. PhaseInv' /\ CalledInv' /\ NoneIsSkipped'
    BY <2>1, GivenStays, CallsStay DEF IInv, PhaseInv, CalledInv, given
  <2>4. LoopInv' /\ CurrentInv'
    BY <2>1, GivenStays, CallsStay
       DEF IInv, LoopInv, CurrentInv, given, Candidates, Rank, Affordable, Estimate
  <2>5. ResultInv' /\ FallbackInv' /\ SpendWithinBudget'
    BY <2>1 DEF IInv, ResultInv, FallbackInv, MayHavePassed, SpendWithinBudget
  <2> QED
    BY <2>2, <2>3, <2>4, <2>5 DEF IInv
<1> QED
  BY <1>1, <1>2, <1>3, <1>4, <1>5, <1>6, <1>7, <1>8, <1>9, <1>10, <1>11 DEF Next

\* The invariant holds throughout.
LEMMA Invariance == Spec => []IInv
BY InitInvariant, NextInvariant, PTL DEF Spec

-----------------------------------------------------------------------------
(***************************************************************************)
(* The theorems.                                                           *)
(***************************************************************************)
\* Every variable of executeWorkOrder has its type, and a status is returned
\* exactly when it is done.
THEOREM TypeCorrect == Spec => []TypeOK
<1>1. IInv => TypeOK
  BY DEF IInv
<1> QED
  BY <1>1, Invariance, PTL

\* Whatever the path through the gate, the routers and the two loops, the trace has
\* one closing event, the last, of the status returned, and a worker for each call.
THEOREM TraceAndResultAgree == Spec => []TraceAgrees
<1>1. IInv => TraceAgrees
  BY DEF IInv, TraceInv
<1> QED
  BY <1>1, Invariance, PTL

\* An order is completed if and only if one adapter succeeded, the last called, and
\* the ledger then has its usage and nothing else.
THEOREM NothingBilledUnlessDone == Spec => []CompletedIffExecuted
<1>1. ASSUME IInv PROVE CompletedIffExecuted
  <2> DEFINE succeeded == {i \in 1..Len(calls) : calls[i].outcome = "ok"}
  <2>1. Len(calls) \in Nat
    BY <1>1 DEF IInv, TypeOK
  <2>2. CASE result = "completed"
    <3>1. succeeded = {Len(calls)}
      BY <1>1, <2>1, <2>2 DEF IInv, TypeOK, ResultInv
    <3>2. Cardinality(succeeded) = 1
      BY <3>1, FS_Singleton
    <3>3. Len(ledger) = 1 /\ ledger[1].adapter = calls[Len(calls)].adapter
      BY <1>1, <2>2 DEF IInv, ResultInv
    <3> HIDE DEF succeeded
    <3>4. /\ \A i \in 1..Len(ledger) : ledger[i].adapter = calls[Len(calls)].adapter
          /\ Len(ledger) = Cardinality(succeeded)
          /\ Len(ledger) = IF result = "completed" THEN 1 ELSE 0
      BY <2>2, <3>2, <3>3
    <3> QED
      BY <3>4, Zenon DEF CompletedIffExecuted, succeeded
  <2>3. CASE result # "completed"
    <3>1. succeeded = {}
      BY <1>1, <2>3 DEF IInv, ResultInv
    <3>2. Cardinality(succeeded) = 0
      BY <3>1, FS_EmptySet
    <3>3. Len(ledger) = 0
      BY <1>1, <2>3 DEF IInv, ResultInv
    <3> HIDE DEF succeeded
    <3>4. /\ \A i \in 1..Len(ledger) : ledger[i].adapter = calls[Len(calls)].adapter
          /\ Len(ledger) = Cardinality(succeeded)
          /\ Len(ledger) = IF result = "completed" THEN 1 ELSE 0
      BY <2>3, <3>2, <3>3
    <3> QED
      BY <3>4, Zenon DEF CompletedIffExecuted, succeeded
  <2> QED
    BY <2>2, <2>3
<1> QED
  BY <1>1, Invariance, PTL

\* Across the classifications of all adapters, the next candidate is tried only
\* after a failure that may pass by itself, or an error of the HTTP adapter's own.
THEOREM FallbackMayPass == Spec => []FallbackOnlyIfItMayPass
<1>1. ASSUME IInv PROVE FallbackOnlyIfItMayPass
  BY <1>1 DEF IInv, TypeOK, FallbackInv, MayHavePassed, FallbackOnlyIfItMayPass
<1> QED
  BY <1>1, Invariance, PTL

\* In either loop, what is preferred and resolves is tried before what is not
\* preferred to it, and no adapter is called twice.
THEOREM InOrderOfPreference == Spec => []NoneIsSkipped
<1>1. IInv => NoneIsSkipped
  BY DEF IInv
<1> QED
  BY <1>1, Invariance, PTL

\* A model is called only for an order that allows reasoning, and after every
\* capability that could do it was called and failed.
THEOREM ModelsComeLast == Spec => []AiIsTheLastResort
<1>1. ASSUME IInv PROVE AiIsTheLastResort
  <2> SUFFICES ASSUME Called("model") # {} \/ (pc = "calling" /\ loop = "model")
               PROVE  /\ order.needsReasoning /\ ~order.prefersHuman
                      /\ CandidateCapabilities(order, table) \cap Bound("capability")
                             = Called("capability")
    BY DEF AiIsTheLastResort
  <2>1. loop = "model"
    BY <1>1 DEF IInv, TypeOK, PhaseInv
  <2> QED
    BY <1>1, <2>1 DEF IInv, CalledInv, Capabilities
<1> QED
  BY <1>1, Invariance, PTL

\* What an order is billed stays within what its budget had left, but for the input
\* tokens a model's service counts beyond the estimate.
THEOREM BudgetIsKept == Spec => []SpendWithinBudget
<1>1. IInv => SpendWithinBudget
  BY DEF IInv
<1> QED
  BY <1>1, Invariance, PTL
=============================================================================
