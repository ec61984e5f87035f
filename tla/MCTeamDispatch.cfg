\* One sync and two requests: a TEAM objective is created and asked for.
SPECIFICATION SpecAPI
CONSTANTS
    Orgs = {o1, o2}
    Subjects = {s1}
    Deliveries = {d1}
    Earlier = {}
    Requests = {r1, r2}
    Teams = {t1}
    Projects = {p1}
    t1 = t1
    p1 = p1
    Bodies <- OneBodyPerScope
    TeamsOf <- EveryTeam
    ProjectsOf <- EveryProject
    None = None
SYMMETRY Symmetry
INVARIANTS
    InsidersMayDispatch
CHECK_DEADLOCK FALSE
