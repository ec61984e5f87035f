\* One event and one handler that throws.
SPECIFICATION Spec
CONSTANTS
    Events = {e1}
    Dispatchers = {d1}
    Limit = 1
    Handlers = 1
    MaxTime = 1
    MaxFailures = 0
INVARIANTS
    MarkedWasHandled
CHECK_DEADLOCK FALSE
