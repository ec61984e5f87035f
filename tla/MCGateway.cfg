\* Two accounts that may have one email after the other, two organizations, three
\* messages, each tried twice, and two objectives or tasks.
SPECIFICATION Spec
CONSTANTS
    Environments <- MCEnvironments
    Requests <- MCRequests
    Orgs = {o1, o2}
    Subjects = {s1, s2}
    Emails = {e1}
    MaxMessages = 3
    MaxTries = 2
    MaxItems = 2
    None = None
SYMMETRY Symmetry
INVARIANTS
    ProductionNeedsProof
    CreatedIsKept
    AgreesWhenQuiet
CHECK_DEADLOCK FALSE
