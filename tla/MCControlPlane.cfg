\* One subject, two organizations, any three events delivered in any order, and two
\* requests, of which one may create what the other asks for.
SPECIFICATION SpecAPI
CONSTANTS
    Orgs = {o1, o2}
    Subjects = {s1}
    Deliveries = {d0, d1, d2}
    Earlier = {d0}
    Requests = {r1, r2}
    Teams = {t1}
    Projects = {p1}
    t1 = t1
    p1 = p1
    Bodies <- OneBodyPerScope
    TeamsOf <- EveryTeam
    ProjectsOf <- EveryProject
    None = None
SYMMETRY Symmetry
INVARIANTS
    APITypeOK
    OneMembership
    TenantsAgree
    AdmittedHadAccess
    CreatorMayRead
PROPERTIES
    ImplementsDirectory
CHECK_DEADLOCK FALSE
