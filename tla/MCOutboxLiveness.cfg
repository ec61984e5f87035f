\* Two events, batches of one, two handlers of which any call may fail, and one
\* failed run: every committed event is delivered to every handler and retired.
SPECIFICATION FairSpec
CONSTANTS
    Events = {e1, e2}
    Dispatchers = {d1, d2}
    Limit = 1
    Handlers = 2
    MaxTime = 2
    MaxFailures = 1
INVARIANTS
    EverySubscriberCalled
PROPERTIES
    EveryEventRetired
CHECK_DEADLOCK FALSE
