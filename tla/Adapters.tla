------------------------------- MODULE Adapters -------------------------------
(***************************************************************************)
(* The capability and model adapters (packages/adapters) as the            *)
(* orchestrator sees them: what an adapter of each kind estimates, what    *)
(* execute() may answer to an input, how the adapter classifies a failure, *)
(* and which adapters a worker's environment binds (apps/worker).          *)
(*                                                                         *)
(* A failure is what execute() throws: its cause and, if a service         *)
(* answered, the HTTP status.  Money is in millionths of a US dollar.      *)
(***************************************************************************)
EXTENDS Naturals

CapabilityKinds == {"function", "http", "ghl"}
ModelKinds == {"anthropic", "openai", "local"}

ErrorClasses ==
    {"transient", "rate_limit", "unavailable", "auth", "deterministic", "unknown"}

IsRetryable(class) == class \in {"transient", "rate_limit", "unavailable"}

-----------------------------------------------------------------------------
(* What a capability adapter is given: nothing, a request of the HTTP adapter, *)
(* or an operation of the GHL adapter, which may name a location.              *)
NoInput == [form |-> "none"]

GhlOperations == {"contact.upsert", "contact.get", "contact.search", "message.send"}

Inputs ==
    {NoInput} \cup [form : {"http"}, withinOrigin : BOOLEAN]
              \cup [form : {"ghl"}, op : GhlOperations, located : BOOLEAN]

Thrown(cause) == [cause |-> cause, status |-> 0]
Refused(status) == [cause |-> "status", status |-> status]

\* The refusing statuses that the classifications tell apart.
HttpStatuses == {400, 401, 403, 404, 408, 409, 422, 429, 500, 503}

\* No answer, or none that can be read: a reset, a timeout, a body cut short.
Unanswered == Thrown("connection")

ServiceFailures == {Unanswered} \cup {Refused(status) : status \in HttpStatuses}

\* HttpCapabilityAdapter.execute: resolveUrl refuses a target outside the origin;
\* an input that is not there throws before anything is sent.
HttpFailures(input) ==
    IF input = NoInput THEN {Thrown("error")}
    ELSE IF input.form = "http" /\ ~input.withinOrigin THEN {Thrown("target")}
    ELSE ServiceFailures

\* toHttpRequest: which operations need a location, of their own or the default.
NeedsLocation(op) == op \in {"contact.upsert", "contact.search"}

\* GhlCapabilityAdapter.execute: what is no operation becomes no request.
GhlFailures(input, hasLocation) ==
    IF input.form # "ghl" THEN HttpFailures(NoInput)
    ELSE IF NeedsLocation(input.op) /\ ~input.located /\ ~hasLocation
         THEN {Thrown("config")}
    ELSE ServiceFailures

\* A model's SDK throws what the service refused, a lost connection, or an error
\* of its own (no API key).
Failures(kind, input, env) ==
    CASE kind = "function" -> {Thrown("handler")}
      [] kind = "http"     -> HttpFailures(input)
      [] kind = "ghl"      -> GhlFailures(input, env.location)
      [] OTHER             -> ServiceFailures \cup {Thrown("error")}

\* Only what reached the service, or the handler, can have been done.
IsSent(failure) == failure.cause \in {"status", "connection", "handler"}

MaySucceed(kind, input, env) ==
    \E failure \in Failures(kind, input, env) : IsSent(failure)

-----------------------------------------------------------------------------
\* Mutant of HttpClass: a refused credential is taken for an error that may pass.
HttpClassWithoutAuth(failure) ==
    CASE failure.cause = "target"                       -> "deterministic"
      [] failure.cause \notin {"target", "status"}      -> "transient"
      [] failure.status = 429                           -> "rate_limit"
      [] failure.status >= 500                          -> "unavailable"
      [] failure.status \in {401, 403, 408}             -> "transient"
      [] OTHER                                          -> "deterministic"

\* HttpCapabilityAdapter.classifyError: any error that is not its own is transient.
HttpClass(failure) ==
    CASE failure.cause = "target"                       -> "deterministic"
      [] failure.cause \notin {"target", "status"}      -> "transient"
      [] failure.status = 429                           -> "rate_limit"
      [] failure.status \in {401, 403}                  -> "auth"
      [] failure.status >= 500                          -> "unavailable"
      [] failure.status = 408                           -> "transient"
      [] OTHER                                          -> "deterministic"

GhlClass(failure) ==
    IF failure.cause = "config" THEN "deterministic" ELSE HttpClass(failure)

\* The SDK has an error class for each of 400, 401, 403, 404, 422, 429 and 5xx.
AnthropicClass(failure) ==
    CASE failure.cause = "connection"                   -> "transient"
      [] failure.cause \notin {"connection", "status"}  -> "unknown"
      [] failure.status = 429                           -> "rate_limit"
      [] failure.status \in {401, 403}                  -> "auth"
      [] failure.status >= 500                          -> "unavailable"
      [] OTHER                                          -> "deterministic"

\* An APIError without a status is a lost connection.
OpenAiClass(failure) ==
    CASE failure.cause = "connection"                   -> "transient"
      [] failure.cause \notin {"connection", "status"}  -> "unknown"
      [] failure.status = 429                           -> "rate_limit"
      [] failure.status \in {401, 403}                  -> "auth"
      [] failure.status >= 500                          -> "unavailable"
      [] failure.status \in 400..499 \ {401, 403, 429} -> "deterministic"
      [] OTHER                                          -> "transient"

\* LocalModelAdapter delegates to an OpenAI adapter.
ClassifyError(kind, failure) ==
    CASE kind = "function"             -> "deterministic"
      [] kind = "http"                 -> HttpClass(failure)
      [] kind = "ghl"                  -> GhlClass(failure)
      [] kind = "anthropic"            -> AnthropicClass(failure)
      [] kind \in {"openai", "local"}  -> OpenAiClass(failure)

-----------------------------------------------------------------------------
(* Costs.  A request is its number of characters and its limit on the output, *)
(* 0 if it has none; a model entry has prices per million tokens.             *)
ApproxTokens(chars) == (chars + 3) \div 4

MaxOutputTokens(request) == IF request.maxOutput = 0 THEN 16000 ELSE request.maxOutput

\* estimateCostUsd.  No input is read from a cache: that it costs less is left out.
EstimateCostUsd(model, inputTokens, outputTokens) ==
    inputTokens * model.inputCost + outputTokens * model.outputCost

\* Mutant of ModelEstimate: a request without a limit is taken to answer nothing.
ModelEstimateOfLimit(model, request) ==
    EstimateCostUsd(model, ApproxTokens(request.chars), request.maxOutput)

ModelEstimate(model, request) ==
    EstimateCostUsd(model, ApproxTokens(request.chars), MaxOutputTokens(request))

\* The costs a model may report: the service counts the input itself, `error`
\* tokens off the estimate, and generates no more than max_tokens.
ModelCosts(model, request, errors) ==
    {EstimateCostUsd(model, ApproxTokens(request.chars) + error, output) :
        error \in errors, output \in {0, MaxOutputTokens(request)}}

-----------------------------------------------------------------------------
(* The worker's environment: whether a capability catalog is configured, the  *)
(* providers whose variables are set, and whether GHL has a default location. *)
Environment ==
    [catalogued : BOOLEAN, openai : BOOLEAN, local : BOOLEAN, location : BOOLEAN]

\* createModelAdapterResolver.
ProviderIsBound(provider, env) ==
    CASE provider = "anthropic" -> TRUE
      [] provider = "openai"    -> env.openai
      [] provider = "local"     -> env.local

\* The catalog feeds the registry and the resolver; a registry without a catalog
\* has no resolver.
BoundCapabilities(registry, env) == IF env.catalogued THEN DOMAIN registry ELSE {}
BoundModels(registry, env) ==
    {m \in DOMAIN registry : ProviderIsBound(registry[m].provider, env)}
=============================================================================
