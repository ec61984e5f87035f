\* Three orders of which one may trickle, and one dispatch of the outbox, on two slots.
SPECIFICATION FairSpec
CONSTANTS
    Orders = {o1, o2, o3}
    Sweeps = {s1}
    Trickling = {o1}
    Slots = 2
    NoUsage = NoUsage
INVARIANTS
    BilledUsageIsCurrent
PROPERTIES
    EveryJobRuns
CHECK_DEADLOCK FALSE
