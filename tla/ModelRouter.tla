----------------------------- MODULE ModelRouter -----------------------------
(***************************************************************************)
(* The Model Router (packages/model-router): which models of a registry    *)
(* may serve a request, and the order in which they are tried.  A registry *)
(* maps a model's position in MODEL_REGISTRY to its entry; costs are in    *)
(* US dollars per million tokens and context windows in thousands.         *)
(***************************************************************************)
EXTENDS Naturals

Entry(provider, context, in, out, tools, vision, low, high, privacy, available) ==
    [provider |-> provider, contextTokens |-> context,
     inputCost |-> in, outputCost |-> out, tools |-> tools, vision |-> vision,
     low |-> low, high |-> high, privacy |-> privacy, available |-> available]

\* The registry the worker runs with: haiku, sonnet, opus, fable and two
\* placeholders that are not available.
ModelRegistry ==
    <<Entry("anthropic",  200,  1,  5, TRUE,  TRUE,  0,  4, "cloud", TRUE),
      Entry("anthropic", 1000,  2, 10, TRUE,  TRUE,  3,  7, "cloud", TRUE),
      Entry("anthropic", 1000,  5, 25, TRUE,  TRUE,  6,  9, "cloud", TRUE),
      Entry("anthropic", 1000, 10, 50, TRUE,  TRUE,  8, 10, "cloud", TRUE),
      Entry("openai",     400,  5, 20, TRUE,  TRUE,  6,  9, "cloud", FALSE),
      Entry("local",       32,  0,  0, FALSE, FALSE, 0,  3, "local", FALSE)>>

IsEligible(model, request) ==
    /\ model.available
    /\ request.needsTools => model.tools
    /\ request.needsVision => model.vision
    /\ request.requireLocal => model.privacy = "local"
    /\ model.contextTokens >= request.minContext

Eligible(request, registry) == {m \in DOMAIN registry : IsEligible(registry[m], request)}

CoversTier(request, registry) ==
    {m \in Eligible(request, registry) :
        registry[m].low <= request.tier /\ request.tier <= registry[m].high}

CapableOfTier(request, registry) ==
    {m \in Eligible(request, registry) : registry[m].high >= request.tier}

\* The models of the decision, its fallbacks included; none if it is null.
Pool(request, registry) ==
    IF CoversTier(request, registry) # {}
    THEN CoversTier(request, registry)
    ELSE CapableOfTier(request, registry)

\* byCost; ties stay in the order of the registry.
Cheaper(registry, a, b) ==
    LET x == registry[a]
        y == registry[b]
    IN  \/ x.outputCost < y.outputCost
        \/ x.outputCost = y.outputCost /\ x.inputCost < y.inputCost
        \/ x.outputCost = y.outputCost /\ x.inputCost = y.inputCost /\ a < b

FirstModel(registry, models) ==
    CHOOSE m \in models : \A n \in models \ {m} : Cheaper(registry, m, n)
=============================================================================
