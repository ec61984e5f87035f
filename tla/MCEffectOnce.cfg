\* One slot, one crash: the job of a task whose effect happened is redelivered.
SPECIFICATION Spec
CONSTANTS
    Tasks = {t1}
    Workers = {w1}
    NoTask = NoTask
    NoWorker = NoWorker
    MaxRetries = 1
    MaxAttempts = 2
    MaxCrashes = 1
    MaxExpiries = 0
INVARIANT
    EffectAtMostOnce
CHECK_DEADLOCK FALSE
