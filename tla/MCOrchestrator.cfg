\* Every path of an order through the gate, the routers, the adapters and the two loops.
SPECIFICATION FairSpec
CONSTANTS
    Payloads <- MCPayloads
    Orders <- MCOrders
    CapabilityTables <- MCCapabilityTables
    ModelTable <- Registry
    Environments <- MCEnvironments
    InputErrors <- MCInputErrors
INVARIANTS
    TypeOK
    TraceAgrees
    CompletedIffExecuted
    FallbackOnlyIfItMayPass
    NoneIsSkipped
    AiIsTheLastResort
    SpendWithinBudget
PROPERTIES
    Ends
CHECK_DEADLOCK FALSE
