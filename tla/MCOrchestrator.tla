---------------------------- MODULE MCOrchestrator ----------------------------
(* Orchestrator with the worker's model registry, the placeholders of which are *)
(* taken to be available, and every pair of capability providers.               *)
EXTENDS Orchestrator

Names == {"crm"}

Registry == [m \in DOMAIN ModelRegistry |-> [ModelRegistry[m] EXCEPT !.available = TRUE]]

Request(tier, context) ==
    [tier |-> tier, needsTools |-> FALSE, needsVision |-> FALSE,
     requireLocal |-> FALSE, minContext |-> context]

Text(maxOutput) == [chars |-> 4000, maxOutput |-> maxOutput]

\* The default tier, which one model covers, one that three of two providers cover,
\* and one that none covers with so much context, so that the router escalates.
Models ==
    {[hasModelRequest |-> TRUE, model |-> Request(5, 0)],
     [hasModelRequest |-> TRUE, model |-> Request(7, 0)],
     [hasModelRequest |-> TRUE, model |-> Request(1, 500)],
     [hasModelRequest |-> TRUE, model |-> [Request(2, 0) EXCEPT !.requireLocal = TRUE]],
     [hasModelRequest |-> FALSE, model |-> Request(5, 0)]}

Hints(required, human, reasoning, hint, maxOutput) ==
    [required |-> required, prefersHuman |-> human, needsReasoning |-> reasoning,
     hasModelRequest |-> hint.hasModelRequest, model |-> hint.model,
     request |-> Text(maxOutput)]

Default ==
    BuildWorkOrder(Hints(Names, FALSE, TRUE,
                         [hasModelRequest |-> TRUE, model |-> Request(7, 0)], 0))

\* Dispatched by the control plane, or enqueued with a gate.
MCPayloads ==
    {BuildWorkOrder(Hints(required, human, reasoning, hint, 0)) :
         required \in SUBSET Names, human \in BOOLEAN, reasoning \in BOOLEAN, hint \in Models}
    \cup {[Default EXCEPT !.policy = p, !.input = [form |-> "http", withinOrigin |-> TRUE]] :
             p \in {"allow", "deny", "requires_approval"}}

\* Called with an input, or with a budget: ample, enough for short answers only,
\* and overspent.
MCOrders ==
    {[Default EXCEPT !.input = input, !.needsReasoning = reasoning] :
        input \in {[form |-> "http", withinOrigin |-> w] : w \in BOOLEAN}
             \cup {[form |-> "ghl", op |-> op, located |-> FALSE] :
                      op \in {"contact.get", "contact.upsert"}},
        reasoning \in BOOLEAN}
    \cup {[Default EXCEPT !.budgeted = TRUE, !.limit = 500000, !.spent = spent,
                          !.request = Text(maxOutput),
                          !.input = [form |-> "http", withinOrigin |-> TRUE]] :
             spent \in {0, 400000, 500001}, maxOutput \in {0, 1000}}

\* The catalog the worker builds with GHL's token; none; and pairs of providers.
GhlCapability == [class |-> "automation", health |-> "healthy", provides |-> Names,
                  kind |-> "ghl", price |-> 0]

OtherCapabilities ==
    [class : {"deterministic"}, health : {"healthy", "degraded"}, provides : {Names},
     kind : {"function"}, price : {0}]
    \cup [class : {"automation"}, health : {"healthy"}, provides : {{}, Names},
          kind : {"http"}, price : {0, 200000}]
    \cup [class : {"human"}, health : {"healthy"}, provides : {Names},
          kind : {"function"}, price : {0}]

MCCapabilityTables ==
    {<<>>, <<GhlCapability>>} \cup [1..2 -> OtherCapabilities \cup {GhlCapability}]

MCEnvironments ==
    [catalogued : BOOLEAN, openai : BOOLEAN, local : {FALSE}, location : {FALSE}]
    \cup [catalogued : {TRUE}, openai : {TRUE}, local : {TRUE}, location : {TRUE}]

MCInputErrors == {0, 500}
=============================================================================
