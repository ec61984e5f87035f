------------------------------ MODULE Provisioning ------------------------------
(***************************************************************************)
(* DrizzleProvisioningService (apps/control-plane/src/webhooks): the       *)
(* identity provider's events, delivered to the webhook at least once and  *)
(* in any order, change the tables organizations, users and memberships.   *)
(* Deliveries are handled concurrently.  A membership sync is a            *)
(* transaction of selects and writes at READ COMMITTED: a select sees what *)
(* was committed when it began and what its own transaction wrote, a write *)
(* waits for a row another transaction holds and then works on what that   *)
(* transaction left.  The other events are handled statement by statement. *)
(*                                                                         *)
(* Left out: names, slugs, emails and times.  user.created and             *)
(* user.updated change nothing else; a conflict of two slugs or of two     *)
(* emails makes a write fail, which is one of the failures of Fail.  The   *)
(* rows of teams and projects, written by no code, are left out too.       *)
(***************************************************************************)
EXTENDS Naturals, FiniteSets

CONSTANTS
    Orgs,         \* organizations, by their id at the identity provider
    Subjects,     \* users, by their id at the identity provider
    Deliveries,   \* bound: the deliveries of events; each names the user and
                  \* the membership row it may insert
    Earlier,      \* bound: of these, what has been delivered before
    None

ASSUME EarlierAssumption == Earlier \subseteq Deliveries

VARIABLES
    organizations,   \* the organizations that have a row
    users,           \* committed rows: subject (external_auth_id) and organization
    memberships,     \* committed rows of organization members: user, org, role
    objectives,      \* committed rows of objectives; here only their references
                     \* to (organization, user) matter
    delivery         \* for each delivery, how far it has been handled

tables == <<organizations, users, memberships, objectives>>
vars == <<organizations, users, memberships, objectives, delivery>>

ClerkRoles == {"org:admin", "org:member"}
GrantedRoles == {"admin", "team_member"}

\* Mutant of MapClerkRole: an event could make an owner.
MapOwner(clerkRole) == IF clerkRole = "org:admin" THEN "owner" ELSE "team_member"

\* owner is never given by an event.
MapClerkRole(clerkRole) == IF clerkRole = "org:admin" THEN "admin" ELSE "team_member"

Events ==
    [type : {"membership"}, org : Orgs, subject : Subjects, role : ClerkRoles]
        \cup [type : {"membershipDeleted"}, org : Orgs, subject : Subjects]
        \cup [type : {"userDeleted"}, subject : Subjects]
        \cup [type : {"organization"}, org : Orgs]

UserRows == [subject : Subjects \cup {None}, org : Orgs]
MembershipRows == [user : Deliveries, org : Orgs, role : GrantedRoles]

ASSUME NoneAssumption ==
    None \notin Orgs \cup Subjects \cup Deliveries \cup Events \cup UserRows \cup MembershipRows

NoDelivery == [stage |-> "idle", event |-> None, found |-> FALSE,
               user |-> None, member |-> None]

\* What a select by external id, or by user and organization, may find.
UserOf(s) == {u \in Deliveries : users[u] # None /\ users[u].subject = s}
MembershipsOf(u, o) ==
    {m \in Deliveries : memberships[m] # None /\ memberships[m].user = u
                                              /\ memberships[m].org = o}

IsSync(d) == delivery[d].event # None /\ delivery[d].event.type = "membership"

\* Mutant of InTransaction: the statements use the pool instead of the transaction
\* they are given, and hold no row.
Autocommitted(d) == FALSE

\* syncMembership's statements belong to one transaction, which keeps every row
\* it has written until it ends: the organization's, the user's, the membership's.
InTransaction(d) == IsSync(d)
HolderOfOrg(o) ==
    {d \in Deliveries : /\ InTransaction(d)
                        /\ delivery[d].event.org = o
                        /\ delivery[d].stage \in {"selectUser", "writeUser", "selectMember",
                                                  "writeMember", "commit"}}
HoldsUser(d) ==
    InTransaction(d) /\ delivery[d].stage \in {"selectMember", "writeMember", "commit"}
HolderOfUser(u) == {d \in Deliveries : HoldsUser(d) /\ delivery[d].user = u}
InsertsSubject(s) ==
    {d \in Deliveries : HoldsUser(d) /\ delivery[d].user = d /\ delivery[d].event.subject = s}
HolderOfMembership(m) ==
    {d \in Deliveries : InTransaction(d) /\ delivery[d].stage = "commit"
                                         /\ delivery[d].member = m}

\* What an earlier delivery has left: nothing, a member, a user whose membership
\* has been deleted, or a user who has been revoked, with or without a membership.
Init ==
    /\ users \in {rows \in [Deliveries -> UserRows \cup {None}] :
           /\ \A d \in Deliveries \ Earlier : rows[d] = None
           /\ \A d, e \in Earlier :
                  /\ d # e /\ rows[d] # None /\ rows[e] # None
                  /\ rows[d].subject = rows[e].subject
                  => rows[d].subject = None}
    /\ memberships \in {rows \in [Deliveries -> MembershipRows \cup {None}] :
           \A d \in Deliveries : rows[d] # None =>
               users[d] # None /\ rows[d].user = d /\ rows[d].org = users[d].org}
    /\ organizations = {o \in Orgs : \E d \in Earlier : users[d] # None /\ users[d].org = o}
    /\ objectives = {}
    /\ delivery = [d \in Deliveries |->
           IF d \in Earlier THEN [NoDelivery EXCEPT !.stage = "done"] ELSE NoDelivery]

Move(d, stage) == delivery' = [delivery EXCEPT ![d].stage = stage]

\* handle: an event arrives.
Receive(d, event) ==
    /\ delivery[d].stage = "idle"
    /\ delivery' = [delivery EXCEPT ![d].event = event,
           ![d].stage = IF event.type = "userDeleted" THEN "revoke" ELSE "selectOrg"]
    /\ UNCHANGED tables

\* orgIdByExternal: in upsertOrg, and in removeMembership.
SelectOrg(d) ==
    /\ delivery[d].stage = "selectOrg"
    /\ delivery' = [delivery EXCEPT
           ![d].found = delivery[d].event.org \in organizations,
           ![d].stage = IF delivery[d].event.type = "membershipDeleted"
                        THEN "selectUser" ELSE "writeOrg"]
    /\ UNCHANGED tables

Ended == {"done", "failed"}

\* upsertOrg's write, the first lock of a sync: the update waits for the row, the
\* insert for an uncommitted one of the same organization, and fails if one has
\* been committed since the select.
WriteOrg(d) ==
    LET o == delivery[d].event.org
        taken == ~ delivery[d].found /\ o \in organizations IN
    /\ delivery[d].stage = "writeOrg"
    /\ HolderOfOrg(o) = {}
    /\ Move(d, IF taken THEN "failed" ELSE IF IsSync(d) THEN "selectUser" ELSE "done")
    /\ organizations' = IF IsSync(d) THEN organizations ELSE organizations \cup {o}
    /\ UNCHANGED <<users, memberships, objectives>>

\* userIdByExternal: in upsertUser, and in removeMembership, which stops here
\* unless it found both ids.
SelectUser(d) ==
    LET found == UserOf(delivery[d].event.subject) IN
    /\ delivery[d].stage = "selectUser"
    /\ \E u \in IF found = {} THEN {None} ELSE found :
           delivery' = [delivery EXCEPT ![d].user = u,
               ![d].stage = IF IsSync(d) THEN "writeUser"
                            ELSE IF delivery[d].found /\ u # None THEN "delete" ELSE "done"]
    /\ UNCHANGED tables

\* Mutants of Referenced: one of the two foreign keys is missing.
ReferencedByMembership(u, o) == MembershipsOf(u, o) # {}
ReferencedByObjective(u, o) ==
    \E objective \in objectives : objective.org = o /\ objective.owner = u

\* memberships_org_user_fk and objectives_org_owner_fk: a row refers to the
\* user in the organization, so the user cannot be moved out of it.
Referenced(u, o) ==
    \/ MembershipsOf(u, o) # {}
    \/ \E objective \in objectives : objective.org = o /\ objective.owner = u

\* upsertUser's write: the update moves the user to the organization of the
\* event; the insert fails if the subject got a row since the select.
WriteUser(d) ==
    LET u == delivery[d].user
        s == delivery[d].event.subject
        moved == users[u].org # delivery[d].event.org IN
    /\ delivery[d].stage = "writeUser"
    /\ \/ /\ u # None
          /\ HolderOfUser(u) = {}
          /\ Move(d, IF moved /\ Referenced(u, users[u].org) THEN "failed" ELSE "selectMember")
       \/ /\ u = None
          /\ InsertsSubject(s) = {}
          /\ delivery' = [delivery EXCEPT ![d].user = d,
                 ![d].stage = IF UserOf(s) # {} THEN "failed" ELSE "selectMember"]
    /\ UNCHANGED tables

\* upsertMembership's select.
SelectMember(d) ==
    LET found == MembershipsOf(delivery[d].user, delivery[d].event.org) IN
    /\ delivery[d].stage = "selectMember"
    /\ \E m \in IF found = {} THEN {None} ELSE found :
           delivery' = [delivery EXCEPT ![d].member = m, ![d].stage = "writeMember"]
    /\ UNCHANGED tables

\* upsertMembership's write; an update of a row deleted since writes nothing, and
\* the unique key (user, team) allows any number of rows without a team.
WriteMember(d) ==
    LET m == delivery[d].member IN
    /\ delivery[d].stage = "writeMember"
    /\ \/ /\ m # None
          /\ HolderOfMembership(m) = {}
          /\ delivery' = [delivery EXCEPT ![d].stage = "commit",
                 ![d].member = IF memberships[m] = None THEN None ELSE m]
       \/ /\ m = None
          /\ delivery' = [delivery EXCEPT ![d].stage = "commit", ![d].member = d]
    /\ UNCHANGED tables

\* The transaction of syncMembership commits what it wrote.
Commit(d) ==
    LET event == delivery[d].event
        u == delivery[d].user
        m == delivery[d].member IN
    /\ delivery[d].stage = "commit"
    /\ Move(d, "done")
    /\ organizations' = organizations \cup {event.org}
    /\ users' = [users EXCEPT
           ![u] = [subject |-> IF u = d THEN event.subject ELSE @.subject, org |-> event.org]]
    /\ memberships' = IF m = None THEN memberships
           ELSE [memberships EXCEPT
                    ![m] = [user |-> u, org |-> event.org, role |-> MapClerkRole(event.role)]]
    /\ UNCHANGED objectives

\* removeMembership's delete, by the ids it read.
Delete(d) ==
    LET found == MembershipsOf(delivery[d].user, delivery[d].event.org) IN
    /\ delivery[d].stage = "delete"
    /\ \A m \in found : HolderOfMembership(m) = {}
    /\ Move(d, "done")
    /\ memberships' = [m \in Deliveries |-> IF m \in found THEN None ELSE memberships[m]]
    /\ UNCHANGED <<organizations, users, objectives>>

\* revokeUser: the row stays, without the external id.
Revoke(d) ==
    LET found == UserOf(delivery[d].event.subject) IN
    /\ delivery[d].stage = "revoke"
    /\ \A u \in found : HolderOfUser(u) = {}
    /\ Move(d, "done")
    /\ users' = [u \in Deliveries |->
                    IF u \in found THEN [users[u] EXCEPT !.subject = None] ELSE users[u]]
    /\ UNCHANGED <<organizations, memberships, objectives>>

\* A statement fails or the connection is lost: the webhook answers 500, and the
\* provider delivers the event again (another delivery).
Fail(d) ==
    /\ delivery[d].stage \notin Ended \cup {"idle"}
    /\ Move(d, "failed")
    /\ UNCHANGED tables

Handle(d) ==
    \/ SelectOrg(d) \/ WriteOrg(d) \/ SelectUser(d) \/ WriteUser(d) \/ SelectMember(d)
    \/ WriteMember(d) \/ Commit(d) \/ Delete(d) \/ Revoke(d)

Next ==
    \E d \in Deliveries :
        \/ \E event \in Events : Receive(d, event)
        \/ Handle(d)
        \/ Fail(d)

Spec == Init /\ [][Next]_vars

-----------------------------------------------------------------------------
Stages == {"idle", "selectOrg", "writeOrg", "selectUser", "writeUser", "selectMember",
           "writeMember", "commit", "delete", "revoke", "done", "failed"}

DeliveryRecords ==
    [stage : Stages, event : Events \cup {None}, found : BOOLEAN,
     user : Deliveries \cup {None}, member : Deliveries \cup {None}]

\* The tables hold rows of organizations, users and roles events may give, and
\* every delivery is at some statement of its handler.
TypeOK ==
    /\ organizations \subseteq Orgs
    /\ users \in [Deliveries -> UserRows \cup {None}]
    /\ memberships \in [Deliveries -> MembershipRows \cup {None}]
    /\ delivery \in [Deliveries -> DeliveryRecords]

\* A user has one membership of an organization, however many syncs of it overlap
\* or are repeated: upsertMembership selects before it inserts and no key forbids
\* a second row, but a sync holds the organization's and the user's row by then.
OneMembership ==
    \A m, n \in Deliveries :
        memberships[m] # None /\ n \in MembershipsOf(memberships[m].user, memberships[m].org)
            => m = n

\* Memberships and objectives stay in the organization of their user: an event
\* never moves a user away from what refers to the user.
TenantsAgree ==
    /\ \A m \in Deliveries :
           memberships[m] # None => memberships[m].org = users[memberships[m].user].org
    /\ \A objective \in objectives : objective.org = users[objective.owner].org

\* The access the tables give a subject, read at once.
AccessOf(s) ==
    UNION {{[org |-> users[u].org, role |-> memberships[m].role] :
               m \in MembershipsOf(u, users[u].org)} : u \in UserOf(s)}

Directory ==
    INSTANCE MemberDirectory WITH NoAccess <- None,
        access <- [s \in Subjects |->
                     IF AccessOf(s) = {} THEN None ELSE CHOOSE a \in AccessOf(s) : TRUE]

\* However deliveries interleave, are repeated, reordered or fail, the access the
\* tables give changes as if each event were handled at once: for one subject, as
\* a whole, and from one organization to another only through none.
ImplementsDirectory == Directory!Spec

=============================================================================
