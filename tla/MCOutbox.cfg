\* Three events, two overlapping dispatchers and batches of two, so that a batch
\* may leave events out; one failed run; two milliseconds, so that events tie.
SPECIFICATION Spec
CONSTANTS
    Events = {e1, e2, e3}
    Dispatchers = {d1, d2}
    Limit = 2
    Handlers = 1
    MaxTime = 2
    MaxFailures = 1
SYMMETRY Symmetry
INVARIANTS
    TypeOK
    OldestFirst
    DuplicatesBounded
PROPERTIES
    ImplementsAtLeastOnce
CHECK_DEADLOCK FALSE
