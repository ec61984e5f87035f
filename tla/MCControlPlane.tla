----------------------------- MODULE MCControlPlane -----------------------------
(* ControlPlane over interchangeable deliveries, organizations and requests, whose *)
(* subjects belong to every team and project.                                      *)
EXTENDS ControlPlane, TLC

CONSTANTS t1, p1

\* One body for each scope; a reference the scope does not use may be there too.
OneBodyPerScope ==
    {[scope |-> "PRIVATE", teamId |-> t1, projectId |-> None],
     [scope |-> "TEAM", teamId |-> t1, projectId |-> None],
     [scope |-> "PROJECT", teamId |-> None, projectId |-> p1],
     [scope |-> "ORGANIZATION", teamId |-> None, projectId |-> p1]}

EveryTeam == [s \in Subjects |-> Teams]
EveryProject == [s \in Subjects |-> Projects]

Symmetry ==
    Permutations(Deliveries \ Earlier) \cup Permutations(Orgs) \cup Permutations(Requests)
=============================================================================
