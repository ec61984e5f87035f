\* Three concurrent sessions, three versions and three approvals: two approves
\* that overlap, and one that saw what they left.
SPECIFICATION Spec
CONSTANTS
    Sessions = {s1, s2, s3}
    NoSession = NoSession
    MaxVersion = 3
    MaxApprovals = 3
SYMMETRY Symmetry
INVARIANTS
    TypeOK
    NoGaps
    OnceActiveAlwaysActive
    SeenIsSuperseded
CHECK_DEADLOCK FALSE
