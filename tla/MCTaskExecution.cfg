\* One task whose jobs two slots may run: every interleaving of two retries, one
\* crash and one lease that expires under a live slot.
SPECIFICATION Spec
CONSTANTS
    Tasks = {t1}
    Workers = {w1, w2}
    NoTask = NoTask
    NoWorker = NoWorker
    MaxRetries = 2
    MaxAttempts = 3
    MaxCrashes = 1
    MaxExpiries = 1
SYMMETRY Symmetry
INVARIANTS
    TypeOK
    OneRunnableJob
    OneRunPerTask
    PendingHasJob
    CompletedWasExecuted
    RowMatchesTrace
    RetryBudget
PROPERTIES
    SettledIsFinal
    ImplementsDurableTask
CHECK_DEADLOCK FALSE
