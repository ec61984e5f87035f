------------------------------ MODULE ControlPlane ------------------------------
(***************************************************************************)
(* The control plane's API (apps/control-plane/src/server.ts) beside the   *)
(* webhook: a request's token names a subject, DrizzlePrincipalResolver    *)
(* turns it into a principal by separate reads of the tables Provisioning  *)
(* changes, the policy engine decides, and the objective is stored, shown, *)
(* or given a task.  What a dispatched task then goes through is           *)
(* TaskExecution.                                                          *)
(*                                                                         *)
(* Left out: the verification of the token, the validation of a body, and  *)
(* what an objective asks for.  No code writes the rows of teams and       *)
(* projects: the teams and projects of a subject are constants.            *)
(***************************************************************************)
EXTENDS Provisioning

CONSTANTS
    Requests,     \* bound: the requests; each names the objective it may create
    Teams,
    Projects,
    Bodies,       \* bound: what the requests that create an objective ask for
    TeamsOf,      \* for each subject, the teams it belongs to
    ProjectsOf    \* for each subject, the projects it belongs to

ASSUME BodiesAssumption ==
    \A body \in Bodies : /\ body.scope \in {"PRIVATE", "PROJECT", "TEAM", "ORGANIZATION"}
                         /\ body.teamId \in Teams \cup {None}
                         /\ body.projectId \in Projects \cup {None}

ASSUME MembersAssumption ==
    /\ TeamsOf \in [Subjects -> SUBSET Teams]
    /\ ProjectsOf \in [Subjects -> SUBSET Projects]

VARIABLE request    \* for each request, how far it has been served

INSTANCE Policy

allVars == <<vars, request>>

Grants == [org : Orgs, role : GrantedRoles]

\* had is history: the access the subject had at some time since the request came.
NoRequest == [stage |-> "idle", subject |-> None, user |-> None,
              org |-> None, principal |-> None, had |-> {}]

Access == [s \in Subjects |-> AccessOf(s)]

OBJECTIVE_CREATE_ACTION ==
    [authorityLevel |-> PREPARE, sideEffecting |-> FALSE, capability |-> None]
OBJECTIVE_READ_ACTION ==
    [authorityLevel |-> OBSERVE, sideEffecting |-> FALSE, capability |-> None]
TASK_DISPATCH_ACTION ==
    [authorityLevel |-> PREPARE, sideEffecting |-> FALSE, capability |-> None]

Resource(org, scope, owner, teamId, projectId) ==
    [organizationId |-> org, scope |-> scope, ownerUserId |-> owner,
     teamId |-> teamId, projectId |-> projectId]

\* Mutant of ObjectiveToRow: the team is not stored.
ObjectiveWithoutTeam(id, principal, body) ==
    [id |-> id, org |-> principal.organizationId, owner |-> principal.userId,
     scope |-> body.scope, scopeRef |-> None, projectId |-> body.projectId]

\* objectiveToRow: the team goes to scope_ref.
ObjectiveToRow(id, principal, body) ==
    [id |-> id, org |-> principal.organizationId, owner |-> principal.userId,
     scope |-> body.scope, scopeRef |-> body.teamId, projectId |-> body.projectId]

\* rowToObjective: scope_ref is a team only for an objective of TEAM scope.
TeamId(row) == IF row.scope = "TEAM" THEN row.scopeRef ELSE None

CreateDecision(principal, body) ==
    Evaluate(principal, OBJECTIVE_CREATE_ACTION,
             Resource(principal.organizationId, body.scope, principal.userId,
                      body.teamId, body.projectId), NoKillSwitches)

ReadDecision(principal, row) ==
    Evaluate(principal, OBJECTIVE_READ_ACTION,
             Resource(principal.organizationId, row.scope, row.owner,
                      TeamId(row), row.projectId), NoKillSwitches)

\* The resource of a dispatch carries no team.
DispatchDecision(principal, row) ==
    Evaluate(principal, TASK_DISPATCH_ACTION,
             Resource(principal.organizationId, row.scope, row.owner,
                      None, row.projectId), NoKillSwitches)

InitAPI == Init /\ request = [r \in Requests |-> NoRequest]

\* An answered request is forgotten, but for the principal that created something.
Answer(r, answer) ==
    request' = [request EXCEPT ![r] = [NoRequest EXCEPT !.stage = answer,
        !.principal = IF answer = "created" THEN request[r].principal ELSE None]]
Answers == {"no_account", "created", "denied", "approval_required", "shown",
            "not_found", "queued", "failed"}

\* A request comes with the token of a subject; its body is read when it is served.
Come(r, s) ==
    /\ request[r].stage = "idle"
    /\ request' = [request EXCEPT ![r] =
           [NoRequest EXCEPT !.stage = "user", !.subject = s, !.had = AccessOf(s)]]
    /\ UNCHANGED vars

\* resolve: the user, by the subject of the token.
ReadUser(r) ==
    LET found == UserOf(request[r].subject) IN
    /\ request[r].stage = "user"
    /\ \/ found = {} /\ Answer(r, "no_account")
       \/ \E u \in found :
             request' = [request EXCEPT ![r].stage = "memberships",
                                        ![r].user = u, ![r].org = users[u].org]
    /\ UNCHANGED vars

\* The role the memberships found give.
PrincipalOf(r, m) ==
    [userId |-> request[r].user, organizationId |-> request[r].org,
     role |-> memberships[m].role, actorKind |-> "human",
     teamIds |-> TeamsOf[request[r].subject], projectIds |-> ProjectsOf[request[r].subject]]

\* Mutant of ReadMemberships: without a membership, the column's default role.
ReadMembershipsOrDefault(r) ==
    LET found == MembershipsOf(request[r].user, request[r].org) IN
    /\ request[r].stage = "memberships"
    /\ \/ /\ found = {}
          /\ request' = [request EXCEPT ![r].stage = "serve",
                 ![r].principal = [userId |-> request[r].user, organizationId |-> request[r].org,
                     role |-> "team_member", actorKind |-> "human",
                     teamIds |-> TeamsOf[request[r].subject],
                     projectIds |-> ProjectsOf[request[r].subject]]]
       \/ \E m \in found :
             request' = [request EXCEPT ![r].stage = "serve", ![r].principal = PrincipalOf(r, m)]
    /\ UNCHANGED vars

\* resolve: the memberships of that user in the organization read with it.
ReadMemberships(r) ==
    LET found == MembershipsOf(request[r].user, request[r].org) IN
    /\ request[r].stage = "memberships"
    /\ \/ found = {} /\ Answer(r, "no_account")
       \/ \E m \in found :
             request' = [request EXCEPT ![r].stage = "serve", ![r].principal = PrincipalOf(r, m)]
    /\ UNCHANGED vars

\* POST /objectives.  The insert refers to (organization, owner): it waits for a
\* transaction that moves the owner, and fails if the owner has been moved.
Moving(u) == \E d \in HolderOfUser(u) : d # u /\ delivery[d].event.org # users[u].org

CreateObjective(r, body) ==
    LET principal == request[r].principal
        effect == CreateDecision(principal, body) IN
    /\ request[r].stage = "serve"
    /\ \/ /\ effect # "allow"
          /\ Answer(r, IF effect = "deny" THEN "denied" ELSE "approval_required")
          /\ UNCHANGED objectives
       \/ /\ effect = "allow"
          /\ ~ Moving(principal.userId)
          /\ IF users[principal.userId].org = principal.organizationId
             THEN /\ objectives' = objectives \cup {ObjectiveToRow(r, principal, body)}
                  /\ Answer(r, "created")
             ELSE Answer(r, "failed") /\ UNCHANGED objectives
    /\ UNCHANGED <<organizations, users, memberships, delivery>>

\* get: the objective with an id, in the organization of the principal.
Objective(id, org) == {row \in objectives : row.id = id /\ row.org = org}

\* GET /objectives/:id: what the principal may not read is not found.
ReadObjective(r, id) ==
    LET principal == request[r].principal
        found == Objective(id, principal.organizationId) IN
    /\ request[r].stage = "serve"
    /\ IF \E row \in found : ReadDecision(principal, row) = "allow"
       THEN Answer(r, "shown") ELSE Answer(r, "not_found")
    /\ UNCHANGED vars

\* POST /objectives/:id/tasks: the decision, then the dispatcher's transaction.
DispatchTask(r, id) ==
    LET principal == request[r].principal
        found == Objective(id, principal.organizationId) IN
    /\ request[r].stage = "serve"
    /\ \/ found = {} /\ Answer(r, "not_found")
       \/ \E row \in found :
             LET effect == DispatchDecision(principal, row) IN
             Answer(r, CASE effect = "deny" -> "denied"
                         [] effect = "requires_approval" -> "approval_required"
                         [] OTHER -> "queued")
    /\ UNCHANGED vars

\* A statement fails or the connection is lost.
FailRequest(r) ==
    /\ request[r].stage \in {"user", "memberships", "serve"}
    /\ Answer(r, "failed")
    /\ UNCHANGED vars

Serve(r) ==
    \/ \E s \in Subjects : Come(r, s)
    \/ ReadUser(r) \/ ReadMemberships(r)
    \/ \E body \in Bodies : CreateObjective(r, body)
    \/ \E id \in Requests : ReadObjective(r, id) \/ DispatchTask(r, id)
    \/ FailRequest(r)

\* A step of a delivery, and what it gives the subjects of the requests that wait
\* for their principal.
Provision ==
    /\ Next
    /\ request' = [r \in Requests |->
           IF request[r].stage \in {"user", "memberships"}
           THEN [request[r] EXCEPT !.had = @ \cup Access'[request[r].subject]]
           ELSE request[r]]

NextAPI == Provision \/ \E r \in Requests : Serve(r)

SpecAPI == InitAPI /\ [][NextAPI]_allVars

-----------------------------------------------------------------------------
Principals ==
    [userId : Deliveries, organizationId : Orgs, role : GrantedRoles,
     actorKind : {"human"}, teamIds : SUBSET Teams, projectIds : SUBSET Projects]

RequestRecords ==
    [stage : {"idle", "user", "memberships", "serve"} \cup Answers,
     subject : Subjects \cup {None}, user : Deliveries \cup {None},
     org : Orgs \cup {None}, principal : Principals \cup {None}, had : SUBSET Grants]

\* Every request is at some point of its route and every objective has a creator.
APITypeOK ==
    /\ TypeOK
    /\ objectives \subseteq
          [id : Requests, org : Orgs, owner : Deliveries, scope : Scopes,
           scopeRef : Teams \cup {None}, projectId : Projects \cup {None}]
    /\ request \in [Requests -> RequestRecords]

\* A request is served with a role in an organization that its subject had at some
\* moment since the request came, although user and membership are read one after
\* the other while deliveries change them; or the subject has been revoked since.
\* (A sync that read the user's id before the revocation may still give the revoked
\* row a membership, which a request that read the row before it then finds.)
AdmittedHadAccess ==
    \A r \in Requests :
        LET principal == request[r].principal IN
        request[r].stage = "serve" =>
            \/ [org |-> principal.organizationId, role |-> principal.role] \in request[r].had
            \/ users[principal.userId].subject = None

\* Whoever created an objective may read it afterwards, whatever its scope and the
\* creator's role by then: the scope's reference survives the way through the row.
CreatorMayRead ==
    \A row \in objectives, role \in GrantedRoles :
        ReadDecision([request[row.id].principal EXCEPT !.role = role], row) = "allow"

\* server.ts:208: a dispatch is gated "against the objective's own scope/ownership
\* so a task under a team- or project-scoped objective inherits that boundary":
\* who is inside it, as the creator is, may dispatch a task.
InsidersMayDispatch ==
    \A row \in objectives : DispatchDecision(request[row.id].principal, row) = "allow"
=============================================================================
