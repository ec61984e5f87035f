------------------------------ MODULE WorkRouter ------------------------------
(***************************************************************************)
(* The Work Router (packages/work-router): which registered capability     *)
(* providers can do an order, in which order they are tried, and the       *)
(* execution class an order is routed to.  A registry maps the position    *)
(* at which a provider was registered to what is known of it.              *)
(***************************************************************************)
EXTENDS Naturals

ExecutionClasses ==
    {"deterministic", "automation", "human", "browser", "coding_agent",
     "local_ai", "cloud_ai"}

IsAi(class) == class \in {"local_ai", "cloud_ai"}

\* CLASS_PREFERENCE: the least complex reliable path first.
ClassRank ==
    [deterministic |-> 1, automation |-> 2, human |-> 3, browser |-> 4,
     coding_agent |-> 5, local_ai |-> 6, cloud_ai |-> 7]

\* Mutant of Before: in the order of registration.
RegisteredBefore(registry, a, b) == a < b

\* byPreference; Array.prototype.sort is stable.
Before(registry, a, b) ==
    LET rankA == ClassRank[registry[a].class]
        rankB == ClassRank[registry[b].class]
    IN  rankA < rankB \/ (rankA = rankB /\ a < b)

HealthyProviding(registry, required) ==
    {c \in DOMAIN registry :
        registry[c].health = "healthy" /\ required \subseteq registry[c].provides}

CandidateCapabilities(order, registry) ==
    IF order.prefersHuman THEN {} ELSE HealthyProviding(registry, order.required)

\* The candidate the sorted list starts with.
FirstCandidate(registry, candidates) ==
    CHOOSE c \in candidates :
        \A d \in candidates \ {c} : Before(registry, c, d)

RouteWork(order, registry) ==
    LET candidates == CandidateCapabilities(order, registry)
    IN  IF order.prefersHuman THEN "human"
        ELSE IF candidates # {}
             THEN registry[FirstCandidate(registry, candidates)].class
        ELSE IF order.needsReasoning THEN "cloud_ai"
        ELSE "human"
=============================================================================
