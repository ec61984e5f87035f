\* One task and two slots, two crashes: whatever is retried, redelivered or
\* crashed, the task settles or runs out of attempts, and the retries end.
SPECIFICATION FairSpec
CONSTANTS
    Tasks = {t1}
    Workers = {w1, w2}
    NoTask = NoTask
    NoWorker = NoWorker
    MaxRetries = 1
    MaxAttempts = 3
    MaxCrashes = 2
    MaxExpiries = 0
PROPERTIES
    EveryTaskSettles
    RetriesEnd
CHECK_DEADLOCK FALSE
