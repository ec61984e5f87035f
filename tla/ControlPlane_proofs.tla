------------------------- MODULE ControlPlane_proofs -------------------------
(***************************************************************************)
(* Proofs about the control plane, for any number of organizations,        *)
(* subjects, deliveries and requests: what the policy engine decides, what *)
(* the provisioned tables keep however deliveries interleave, that they    *)
(* implement the member directory, and what a request is admitted with.    *)
(***************************************************************************)
EXTENDS ControlPlane, TLAPS

-----------------------------------------------------------------------------
(***************************************************************************)
(* The decision of the policy engine moves one way when one input does:    *)
(* statements that compare two decisions, for every principal, action and  *)
(* resource.                                                               *)
(***************************************************************************)
\* From the most to the least restrictive effect.
AtMost(e, f) ==
    \/ e = "deny"
    \/ e = "requires_approval" /\ f \in {"requires_approval", "allow"}
    \/ e = "allow" /\ f = "allow"

Effects == {"deny", "requires_approval", "allow"}

\* evaluate answers one of three effects, and one of them always.
LEMMA EffectType ==
    ASSUME NEW p, NEW a, NEW r, NEW k
    PROVE  Evaluate(p, a, r, k) \in Effects
BY DEF Evaluate, Effect, Effects

\* k switches off at least what l does.
StricterThan(k, l) ==
    /\ l.globalPause => k.globalPause
    /\ l.disabledCapabilities \subseteq k.disabledCapabilities

\* Kill switches (kill-switches.ts): pausing more never permits more, not even by
\* turning a denial for another reason into an approval.
THEOREM PausingNeverPermits ==
    ASSUME NEW p, NEW a, NEW r, NEW k, NEW l, StricterThan(k, l)
    PROVE  AtMost(Evaluate(p, a, r, k), Evaluate(p, a, r, l))
<1>1. IsBlockedByKillSwitch(a, l) => IsBlockedByKillSwitch(a, k)
  BY DEF StricterThan, IsBlockedByKillSwitch
<1>2. CASE IsBlockedByKillSwitch(a, k)
  <2>1. Evaluate(p, a, r, k) = "deny"
    BY <1>2 DEF Evaluate, Effect, Reason
  <2> QED  BY <2>1 DEF AtMost
<1>3. CASE ~ IsBlockedByKillSwitch(a, k)
  <2>1. Evaluate(p, a, r, k) = Evaluate(p, a, r, l)
    BY <1>1, <1>3 DEF Evaluate, Reason
  <2> QED  BY <2>1, EffectType DEF AtMost, Effects
<1> QED  BY <1>2, <1>3

\* Reads and research stay available (kill-switches.ts:12): whatever is paused,
\* an action without side effects is decided as if nothing were.
THEOREM ReadsIgnoreSwitches ==
    ASSUME NEW p, NEW a, NEW r, NEW k, ~ a.sideEffecting
    PROVE  Evaluate(p, a, r, k) = Evaluate(p, a, r, NoKillSwitches)
BY DEF Evaluate, Reason, IsBlockedByKillSwitch

\* Role ceilings (roles.ts): a role with a higher ceiling is refused nothing that
\* a role with a lower one is permitted, all else being equal.
THEOREM HigherCeilingPermitsMore ==
    ASSUME NEW p, NEW q, p.role \in Roles, q.role \in Roles,
           q.organizationId = p.organizationId, q.userId = p.userId,
           q.teamIds = p.teamIds, q.projectIds = p.projectIds, q.actorKind = p.actorKind,
           DefaultRoleCeilings[p.role] <= DefaultRoleCeilings[q.role],
           NEW a, a.authorityLevel \in Int, NEW r, NEW k
    PROVE  AtMost(Evaluate(p, a, r, k), Evaluate(q, a, r, k))
<1>1. HasScopeAccess(q, r) <=> HasScopeAccess(p, r)
  BY DEF HasScopeAccess
<1>2. PICK c \in Int : DefaultRoleCeilings[p.role] = c
  BY DEF Roles, DefaultRoleCeilings, PREPARE, ROUTINE_ACTION, APPROVAL_REQUIRED, NEVER_AUTONOMOUS
<1>3. PICK d \in Int : DefaultRoleCeilings[q.role] = d
  BY DEF Roles, DefaultRoleCeilings, PREPARE, ROUTINE_ACTION, APPROVAL_REQUIRED, NEVER_AUTONOMOUS
<1>4. c <= d
  BY <1>2, <1>3
<1>5. CASE a.authorityLevel > c
  <2>1. Evaluate(p, a, r, k) = "deny"
    BY <1>2, <1>5 DEF Evaluate, Effect, Reason
  <2> QED  BY <2>1 DEF AtMost
<1>6. CASE ~ (a.authorityLevel > c)
  <2>1. ~ (a.authorityLevel > d)
    BY <1>4, <1>6
  <2>2. Reason(q, a, r, k) = Reason(p, a, r, k)
    BY <1>1, <1>2, <1>3, <1>6, <2>1 DEF Reason
  <2>3. Evaluate(p, a, r, k) = Evaluate(q, a, r, k)
    BY <2>2 DEF Evaluate
  <2> QED  BY <2>3, EffectType DEF AtMost, Effects
<1> QED  BY <1>5, <1>6

\* The gates of levels 3 and 4 (engine.ts:80, 96): no role, resource or switch
\* turns an action that needs approval into one that is allowed, nor lets an
\* agent execute one that is never autonomous.
THEOREM GatesCannotBeBypassed ==
    ASSUME NEW p, NEW a, NEW r, NEW k,
           \/ a.authorityLevel = APPROVAL_REQUIRED
           \/ a.authorityLevel = NEVER_AUTONOMOUS /\ p.actorKind # "human"
    PROVE  Evaluate(p, a, r, k) # "allow"
<1>1. Reason(p, a, r, k) # "ok"
  BY DEF Reason, APPROVAL_REQUIRED, NEVER_AUTONOMOUS
<1> QED  BY <1>1 DEF Evaluate, Effect

-----------------------------------------------------------------------------
(***************************************************************************)
(* The inductive invariant of the tables.                                  *)
(***************************************************************************)
Holding == {"selectMember", "writeMember", "commit"}

\* A delivery that is being handled is at a statement of its event's handler.
EventOK(d) ==
    LET stage == delivery[d].stage
        event == delivery[d].event IN
    /\ stage \notin Ended \cup {"idle"} => event \in Events
    /\ stage \in {"selectOrg", "writeOrg", "selectUser", "delete"} => event.type # "userDeleted"
    /\ stage \in {"writeUser"} \cup Holding => event.type = "membership"
    /\ stage = "revoke" => event.type = "userDeleted"

\* The user a delivery has read, or the one it inserts, named like the delivery.
UserOK(d) ==
    LET u == delivery[d].user IN
    /\ delivery[d].stage = "writeUser" => u = None \/ users[u] # None
    /\ delivery[d].stage = "delete" => u # None /\ users[u] # None
    /\ delivery[d].stage \in Holding => u = d \/ (u # None /\ users[u] # None)

\* No two transactions hold one user's row, or insert one subject.
LockOK(d) ==
    delivery[d].stage \in Holding =>
        /\ \A e \in Deliveries :
               e # d /\ delivery[e].stage \in Holding => delivery[e].user # delivery[d].user
        /\ delivery[d].user = d =>
               /\ UserOf(delivery[d].event.subject) = {}
               /\ \A e \in Deliveries :
                      /\ e # d /\ delivery[e].stage \in Holding /\ delivery[e].user = e
                      => delivery[e].event.subject # delivery[d].event.subject

\* While a transaction moves a user, nothing refers to it where it was.
MoveOK(d) ==
    LET u == delivery[d].user IN
    delivery[d].stage \in Holding /\ u # d /\ users[u].org # delivery[d].event.org
        => ~ Referenced(u, users[u].org)

\* The membership a sync updates is of its user and organization, unless it has
\* been deleted; where the sync inserts one, there is none.
MemberOK(d) ==
    LET m == delivery[d].member
        mine == MembershipsOf(delivery[d].user, delivery[d].event.org) IN
    /\ delivery[d].stage = "writeMember" =>
           IF m = None THEN mine = {}
           ELSE delivery[m].stage = "done" /\ (memberships[m] = None \/ m \in mine)
    /\ delivery[d].stage = "commit" =>
           IF m = d THEN mine = {} ELSE m = None \/ m \in mine

DeliveryOK(d) == EventOK(d) /\ UserOK(d) /\ LockOK(d) /\ MoveOK(d) /\ MemberOK(d)

\* Rows are named like deliveries that have ended, and refer to rows that exist.
RowInv ==
    /\ \A d \in Deliveries :
           users[d] # None \/ memberships[d] # None => delivery[d].stage = "done"
    /\ \A m \in Deliveries : memberships[m] # None => users[memberships[m].user] # None
    /\ \A objective \in objectives : users[objective.owner] # None

\* external_auth_id is unique.
OneUser ==
    \A u, v \in Deliveries :
        /\ users[u] # None /\ users[v] # None
        /\ users[u].subject = users[v].subject /\ users[u].subject # None
        => u = v

TableInv ==
    /\ TypeOK
    /\ \A objective \in objectives : objective.owner \in Deliveries /\ objective.org \in Orgs
    /\ RowInv /\ OneUser /\ OneMembership /\ TenantsAgree
    /\ \A d \in Deliveries : DeliveryOK(d)

(***************************************************************************)
(* The inductive invariant of the requests.                                *)
(***************************************************************************)
RequestOK(r) ==
    LET req == request[r] IN
    /\ req.stage \in {"user", "memberships"} =>
           req.subject \in Subjects /\ AccessOf(req.subject) \subseteq req.had
    /\ req.stage = "memberships" =>
           /\ req.user \in Deliveries /\ req.org \in Orgs
           /\ users[req.user] # None
           /\ users[req.user].subject \in {req.subject, None}
    /\ req.stage = "serve" =>
           req.principal \in Principals /\ users[req.principal.userId] # None

\* An objective is of the request that created it, which was allowed to.
CreatedInv ==
    \A row \in objectives :
        LET principal == request[row.id].principal IN
        /\ request[row.id].stage = "created"
        /\ principal \in Principals
        /\ row.org = principal.organizationId
        /\ row.owner = principal.userId
        /\ HasScopeAccess(principal,
               Resource(row.org, row.scope, row.owner, TeamId(row), row.projectId))

APIInv ==
    /\ APITypeOK
    /\ \A r \in Requests : RequestOK(r)
    /\ AdmittedHadAccess
    /\ CreatedInv

-----------------------------------------------------------------------------
(***************************************************************************)
(* What each step does to the deliveries.                                  *)
(***************************************************************************)
LEMMA EventFields ==
    ASSUME NEW event \in Events
    PROVE  /\ event # None
           /\ event.type # "userDeleted" => event.org \in Orgs
           /\ event.type = "userDeleted" => event.subject \in Subjects
           /\ event.type = "membership" =>
                  event.subject \in Subjects /\ event.role \in ClerkRoles
BY NoneAssumption DEF Events

LEMMA Rows ==
    ASSUME TypeOK, NEW d \in Deliveries
    PROVE  /\ users[d] # None => users[d].subject \in Subjects \cup {None} /\ users[d].org \in Orgs
           /\ memberships[d] # None => /\ memberships[d].user \in Deliveries
                                       /\ memberships[d].org \in Orgs
                                       /\ memberships[d].role \in GrantedRoles
           /\ d # None
BY NoneAssumption DEF TypeOK, UserRows, MembershipRows

LEMMA IsSyncIff ==
    ASSUME NEW d \in Deliveries, EventOK(d), delivery[d].stage \notin Ended \cup {"idle"}
    PROVE  IsSync(d) <=> delivery[d].event.type = "membership"
BY EventFields DEF EventOK, IsSync

\* The guards speak of the locks by HoldsUser.
LEMMA HoldsUserIff ==
    ASSUME NEW d \in Deliveries, EventOK(d)
    PROVE  HoldsUser(d) <=> delivery[d].stage \in Holding
<1>1. CASE delivery[d].stage \in Holding
  <2>1. delivery[d].stage \notin Ended \cup {"idle"} /\ delivery[d].event.type = "membership"
    BY <1>1 DEF EventOK, Holding, Ended
  <2>2. QED
    BY <1>1, <2>1, IsSyncIff DEF HoldsUser, InTransaction, Holding
<1>2. CASE delivery[d].stage \notin Holding
  BY <1>2 DEF HoldsUser, Holding
<1>3. QED
  BY <1>1, <1>2

\* d becomes x, and the other deliveries stay.
Becomes(d, x) ==
    /\ delivery' \in [Deliveries -> DeliveryRecords]
    /\ delivery'[d] = x
    /\ \A e \in Deliveries : e # d => delivery'[e] = delivery[e]

LEMMA MoveResult ==
    ASSUME TypeOK, NEW d \in Deliveries, NEW stage \in Stages, Move(d, stage)
    PROVE  /\ Becomes(d, delivery'[d])
           /\ delivery'[d].stage = stage
           /\ delivery'[d].event = delivery[d].event
           /\ delivery'[d].user = delivery[d].user
           /\ delivery'[d].member = delivery[d].member
BY DEF TypeOK, DeliveryRecords, Move, Becomes

LEMMA ReceiveResult ==
    ASSUME TypeOK, NEW d \in Deliveries, NEW event \in Events, Receive(d, event)
    PROVE  /\ Becomes(d, delivery'[d])
           /\ delivery[d].stage = "idle"
           /\ delivery'[d].stage = IF event.type = "userDeleted" THEN "revoke" ELSE "selectOrg"
           /\ delivery'[d].event = event
<1> DEFINE stage == IF event.type = "userDeleted" THEN "revoke" ELSE "selectOrg"
           x == [delivery[d] EXCEPT !.event = event, !.stage = stage]
<1>1. delivery' = [delivery EXCEPT ![d] = x] /\ delivery[d].stage = "idle"
  BY DEF Receive, TypeOK
<1>2. delivery[d] \in DeliveryRecords /\ stage \in Stages
  BY DEF TypeOK, Stages
<1> HIDE DEF stage
<1>3. x \in DeliveryRecords /\ x.stage = stage /\ x.event = event
  BY <1>2 DEF DeliveryRecords
<1> HIDE DEF x
<1>4. Becomes(d, x)
  BY <1>1, <1>3 DEF Becomes, TypeOK
<1>5. QED
  BY <1>1, <1>3, <1>4 DEF Becomes, stage

LEMMA SelectOrgResult ==
    ASSUME TypeOK, NEW d \in Deliveries, SelectOrg(d)
    PROVE  /\ Becomes(d, delivery'[d])
           /\ delivery[d].stage = "selectOrg"
           /\ delivery'[d].stage = IF delivery[d].event.type = "membershipDeleted"
                                   THEN "selectUser" ELSE "writeOrg"
           /\ delivery'[d].event = delivery[d].event
<1> DEFINE stage == IF delivery[d].event.type = "membershipDeleted" THEN "selectUser" ELSE "writeOrg"
           found == delivery[d].event.org \in organizations
           x == [delivery[d] EXCEPT !.found = found, !.stage = stage]
<1>1. delivery' = [delivery EXCEPT ![d] = x] /\ delivery[d].stage = "selectOrg"
  BY DEF SelectOrg, TypeOK
<1>2. delivery[d] \in DeliveryRecords /\ stage \in Stages /\ found \in BOOLEAN
  BY DEF TypeOK, Stages
<1> HIDE DEF stage, found
<1>3. x \in DeliveryRecords /\ x.stage = stage /\ x.event = delivery[d].event
  BY <1>2 DEF DeliveryRecords
<1> HIDE DEF x
<1>4. Becomes(d, x)
  BY <1>1, <1>3 DEF Becomes, TypeOK
<1>5. QED
  BY <1>1, <1>3, <1>4 DEF Becomes, stage

LEMMA SelectUserResult ==
    ASSUME TypeOK, NEW d \in Deliveries, SelectUser(d)
    PROVE  /\ Becomes(d, delivery'[d])
           /\ delivery[d].stage = "selectUser"
           /\ delivery'[d].event = delivery[d].event
           /\ LET u == delivery'[d].user IN
              /\ u = None \/ u \in UserOf(delivery[d].event.subject)
              /\ \/ delivery'[d].stage = "writeUser" /\ IsSync(d)
                 \/ delivery'[d].stage = "delete" /\ u # None
                 \/ delivery'[d].stage = "done"
<1> DEFINE found == UserOf(delivery[d].event.subject)
<1>1. PICK u \in IF found = {} THEN {None} ELSE found :
         delivery' = [delivery EXCEPT ![d].user = u,
               ![d].stage = IF IsSync(d) THEN "writeUser"
                            ELSE IF delivery[d].found /\ u # None THEN "delete" ELSE "done"]
  BY DEF SelectUser
<1>2. PICK stage \in Stages :
         /\ stage = IF IsSync(d) THEN "writeUser"
                    ELSE IF delivery[d].found /\ u # None THEN "delete" ELSE "done"
  BY DEF Stages
<1>3. u \in Deliveries \cup {None} /\ (u = None \/ u \in found)
  BY DEF UserOf
<1> DEFINE x == [delivery[d] EXCEPT !.user = u, !.stage = stage]
<1>4. delivery' = [delivery EXCEPT ![d] = x] /\ delivery[d] \in DeliveryRecords
  BY <1>1, <1>2 DEF TypeOK
<1>5. x \in DeliveryRecords /\ x.stage = stage /\ x.event = delivery[d].event /\ x.user = u
  BY <1>3, <1>4 DEF DeliveryRecords
<1> HIDE DEF x
<1>6. Becomes(d, x)
  BY <1>4, <1>5 DEF Becomes, TypeOK
<1>7. delivery[d].stage = "selectUser"
  BY DEF SelectUser
<1>8. QED
  BY <1>2, <1>3, <1>5, <1>6, <1>7 DEF Becomes

LEMMA WriteUserResult ==
    ASSUME TypeOK, NEW d \in Deliveries, WriteUser(d)
    PROVE  /\ Becomes(d, delivery'[d])
           /\ delivery[d].stage = "writeUser"
           /\ delivery'[d].event = delivery[d].event
           /\ \/ delivery'[d].stage = "failed"
              \/ /\ delivery'[d].stage = "selectMember"
                 /\ delivery'[d].user = delivery[d].user
                 /\ delivery[d].user # None
                 /\ HolderOfUser(delivery[d].user) = {}
                 /\ \/ users[delivery[d].user].org = delivery[d].event.org
                    \/ ~ Referenced(delivery[d].user, users[delivery[d].user].org)
              \/ /\ delivery'[d].stage = "selectMember"
                 /\ delivery'[d].user = d
                 /\ delivery[d].user = None
                 /\ InsertsSubject(delivery[d].event.subject) = {}
                 /\ UserOf(delivery[d].event.subject) = {}
<1> DEFINE u == delivery[d].user
           s == delivery[d].event.subject
           moved == users[u].org # delivery[d].event.org
<1>0. delivery[d].stage = "writeUser"
  BY DEF WriteUser
<1>1. CASE /\ u # None
           /\ HolderOfUser(u) = {}
           /\ Move(d, IF moved /\ Referenced(u, users[u].org) THEN "failed" ELSE "selectMember")
  <2>1. PICK stage \in Stages :
           /\ stage = IF moved /\ Referenced(u, users[u].org) THEN "failed" ELSE "selectMember"
           /\ Move(d, stage)
    BY <1>1 DEF Stages
  <2>2. QED
    BY <1>0, <1>1, <2>1, MoveResult
<1>2. CASE /\ u = None
           /\ InsertsSubject(s) = {}
           /\ delivery' = [delivery EXCEPT ![d].user = d,
                 ![d].stage = IF UserOf(s) # {} THEN "failed" ELSE "selectMember"]
  <2>1. PICK stage \in Stages : stage = IF UserOf(s) # {} THEN "failed" ELSE "selectMember"
    BY DEF Stages
  <2> DEFINE x == [delivery[d] EXCEPT !.user = d, !.stage = stage]
  <2>2. delivery' = [delivery EXCEPT ![d] = x] /\ delivery[d] \in DeliveryRecords
    BY <1>2, <2>1 DEF TypeOK
  <2>3. x \in DeliveryRecords /\ x.stage = stage /\ x.event = delivery[d].event /\ x.user = d
    BY <2>2 DEF DeliveryRecords
  <2> HIDE DEF x
  <2>4. Becomes(d, x)
    BY <2>2, <2>3 DEF Becomes, TypeOK
  <2>5. QED
    BY <1>0, <1>2, <2>1, <2>3, <2>4 DEF Becomes
<1>3. QED
  BY <1>1, <1>2 DEF WriteUser

LEMMA SelectMemberResult ==
    ASSUME TypeOK, NEW d \in Deliveries, SelectMember(d)
    PROVE  /\ Becomes(d, delivery'[d])
           /\ delivery[d].stage = "selectMember"
           /\ delivery'[d].stage = "writeMember"
           /\ delivery'[d].event = delivery[d].event
           /\ delivery'[d].user = delivery[d].user
           /\ LET m == delivery'[d].member
                  mine == MembershipsOf(delivery[d].user, delivery[d].event.org) IN
              IF m = None THEN mine = {} ELSE m \in mine
<1> DEFINE found == MembershipsOf(delivery[d].user, delivery[d].event.org)
<1>1. PICK m \in IF found = {} THEN {None} ELSE found :
         delivery' = [delivery EXCEPT ![d].member = m, ![d].stage = "writeMember"]
  BY DEF SelectMember
<1>2. m \in Deliveries \cup {None} /\ (IF m = None THEN found = {} ELSE m \in found)
  BY Rows DEF MembershipsOf
<1> HIDE DEF found
<1> DEFINE x == [delivery[d] EXCEPT !.member = m, !.stage = "writeMember"]
<1>3. delivery' = [delivery EXCEPT ![d] = x] /\ delivery[d] \in DeliveryRecords
  BY <1>1 DEF TypeOK
<1>4. /\ x \in DeliveryRecords /\ x.stage = "writeMember" /\ x.event = delivery[d].event
      /\ x.user = delivery[d].user /\ x.member = m
  BY <1>2, <1>3 DEF DeliveryRecords, Stages
<1> HIDE DEF x
<1>5. Becomes(d, x)
  BY <1>3, <1>4 DEF Becomes, TypeOK
<1>6. delivery[d].stage = "selectMember"
  BY DEF SelectMember
<1>7. QED
  BY <1>2, <1>4, <1>5, <1>6 DEF Becomes, found

LEMMA WriteMemberResult ==
    ASSUME TypeOK, NEW d \in Deliveries, WriteMember(d)
    PROVE  /\ Becomes(d, delivery'[d])
           /\ delivery[d].stage = "writeMember"
           /\ delivery'[d].stage = "commit"
           /\ delivery'[d].event = delivery[d].event
           /\ delivery'[d].user = delivery[d].user
           /\ LET m == delivery[d].member IN
              delivery'[d].member = IF m = None THEN d
                                    ELSE IF memberships[m] = None THEN None ELSE m
<1> DEFINE m == delivery[d].member
           new == IF m = None THEN d ELSE IF memberships[m] = None THEN None ELSE m
           x == [delivery[d] EXCEPT !.stage = "commit", !.member = new]
<1>1. delivery[d] \in DeliveryRecords /\ delivery[d].stage = "writeMember"
  BY DEF TypeOK, WriteMember
<1>2. delivery' = [delivery EXCEPT ![d] = x]
  BY DEF WriteMember, TypeOK
<1>3. new \in Deliveries \cup {None}
  BY <1>1 DEF DeliveryRecords
<1> HIDE DEF new
<1>4. /\ x \in DeliveryRecords /\ x.stage = "commit" /\ x.event = delivery[d].event
      /\ x.user = delivery[d].user /\ x.member = new
  BY <1>1, <1>3 DEF DeliveryRecords, Stages
<1> HIDE DEF x
<1>5. Becomes(d, x)
  BY <1>1, <1>2, <1>4 DEF Becomes, TypeOK
<1>6. QED
  BY <1>1, <1>4, <1>5 DEF Becomes, new

-----------------------------------------------------------------------------
(***************************************************************************)
(* The invariant of the tables.  Steps that leave the tables alone first.  *)
(***************************************************************************)
\* What the invariant says of a delivery that has ended, and the others of it.
LEMMA EndedIsOK ==
    ASSUME NEW d \in Deliveries, delivery'[d].stage \in Ended
    PROVE  DeliveryOK(d)'
BY DEF DeliveryOK, EventOK, UserOK, LockOK, MoveOK, MemberOK, Ended, Holding

LEMMA LockSymmetric ==
    ASSUME TableInv, NEW d \in Deliveries, Becomes(d, delivery'[d]), users' = users,
           LockOK(d)', NEW e \in Deliveries, e # d
    PROVE  LockOK(e)'
<1> SUFFICES ASSUME delivery'[e].stage \in Holding
             PROVE  /\ \A f \in Deliveries :
                           f # e /\ delivery'[f].stage \in Holding
                               => delivery'[f].user # delivery'[e].user
                    /\ delivery'[e].user = e =>
                           /\ UserOf(delivery[e].event.subject)' = {}
                           /\ \A f \in Deliveries :
                                  /\ f # e /\ delivery'[f].stage \in Holding
                                  /\ delivery'[f].user = f
                                  => delivery'[f].event.subject # delivery'[e].event.subject
  BY DEF LockOK
<1>1. delivery'[e] = delivery[e] /\ \A f \in Deliveries : f # d => delivery'[f] = delivery[f]
  BY DEF Becomes
<1>2. LockOK(e)
  BY DEF TableInv, DeliveryOK
<1>3. \A f \in Deliveries :
          f # e /\ delivery'[f].stage \in Holding => delivery'[f].user # delivery'[e].user
  <2> SUFFICES ASSUME NEW f \in Deliveries, f # e, delivery'[f].stage \in Holding
               PROVE  delivery'[f].user # delivery'[e].user
    OBVIOUS
  <2>1. CASE f = d
    BY <2>1 DEF LockOK
  <2>2. CASE f # d
    BY <1>1, <1>2, <2>2 DEF LockOK
  <2>3. QED
    BY <2>1, <2>2
<1>4. ASSUME delivery'[e].user = e
      PROVE  /\ UserOf(delivery[e].event.subject)' = {}
             /\ \A f \in Deliveries :
                    f # e /\ delivery'[f].stage \in Holding /\ delivery'[f].user = f
                    => delivery'[f].event.subject # delivery'[e].event.subject
  <2>1. UserOf(delivery[e].event.subject)' = {}
    BY <1>1, <1>2, <1>4 DEF LockOK, UserOf
  <2>2. ASSUME NEW f \in Deliveries, f # e, delivery'[f].stage \in Holding, delivery'[f].user = f
        PROVE  delivery'[f].event.subject # delivery'[e].event.subject
    <3>1. CASE f = d
      BY <1>4, <2>2, <3>1 DEF LockOK
    <3>2. CASE f # d
      BY <1>1, <1>2, <1>4, <2>2, <3>2 DEF LockOK
    <3>3. QED
      BY <3>1, <3>2
  <2>3. QED
    BY <2>1, <2>2
<1>5. QED
  BY <1>3, <1>4

LEMMA QuietStep ==
    ASSUME TableInv, NEW d \in Deliveries, Becomes(d, delivery'[d]),
           delivery[d].stage # "done", organizations' \subseteq Orgs,
           users' = users, memberships' = memberships, objectives' = objectives,
           DeliveryOK(d)'
    PROVE  TableInv'
<1>1. TypeOK'
  BY DEF TableInv, TypeOK, Becomes
<1>2. \A e \in Deliveries : delivery[e].stage = "done" => delivery'[e].stage = "done"
  BY DEF Becomes
<1>3. RowInv' /\ OneUser'
  BY <1>2 DEF TableInv, RowInv, OneUser
<1>4. OneMembership' /\ TenantsAgree'
  BY DEF TableInv, OneMembership, TenantsAgree, MembershipsOf
<1>5. ASSUME NEW e \in Deliveries
      PROVE  DeliveryOK(e)'
  <2>1. CASE e = d
    BY <2>1
  <2>2. CASE e # d
    <3>1. delivery'[e] = delivery[e] /\ DeliveryOK(e)
      BY <2>2 DEF Becomes, TableInv
    <3>2. EventOK(e)' /\ UserOK(e)'
      BY <3>1 DEF DeliveryOK, EventOK, UserOK
    <3>3. LockOK(e)'
      BY <2>2, LockSymmetric DEF DeliveryOK
    <3>4. MoveOK(e)'
      BY <3>1 DEF DeliveryOK, MoveOK, Referenced, MembershipsOf
    <3>5. MemberOK(e)'
      <4>1. delivery[e].member \in Deliveries \cup {None}
        BY DEF TableInv, TypeOK, DeliveryRecords
      <4>2. QED
        BY <1>2, <3>1, <4>1 DEF DeliveryOK, MemberOK, MembershipsOf
    <3>6. QED
      BY <3>2, <3>3, <3>4, <3>5 DEF DeliveryOK
  <2>3. QED
    BY <2>1, <2>2
<1>6. QED
  BY <1>1, <1>3, <1>4, <1>5 DEF TableInv

LEMMA QuietTables ==
    ASSUME TableInv, NEW d \in Deliveries,
           \/ \E event \in Events : Receive(d, event)
           \/ SelectOrg(d) \/ WriteOrg(d) \/ SelectUser(d) \/ WriteUser(d) \/ SelectMember(d)
           \/ WriteMember(d) \/ Fail(d)
    PROVE  TableInv'
<1>a. TypeOK /\ EventOK(d) /\ UserOK(d) /\ LockOK(d) /\ MoveOK(d) /\ MemberOK(d)
  BY DEF TableInv, DeliveryOK
<1>b. UNCHANGED <<users, memberships, objectives>>
  BY DEF Receive, SelectOrg, WriteOrg, SelectUser, WriteUser, SelectMember, WriteMember, Fail, tables
<1>1. ASSUME NEW event \in Events, Receive(d, event)
      PROVE  TableInv'
  <2>1. DeliveryOK(d)'
    BY <1>1, <1>a, ReceiveResult DEF DeliveryOK, EventOK, UserOK, LockOK, MoveOK, MemberOK, Holding
  <2>2. organizations' \subseteq Orgs
    BY <1>1, <1>a DEF Receive, tables, TypeOK
  <2>3. QED
    BY <1>1, <1>a, <1>b, <2>1, <2>2, ReceiveResult, QuietStep
<1>2. CASE SelectOrg(d)
  <2>1. DeliveryOK(d)'
    BY <1>2, <1>a, SelectOrgResult, EventFields
       DEF DeliveryOK, EventOK, UserOK, LockOK, MoveOK, MemberOK, Holding, Ended, Events
  <2>2. organizations' \subseteq Orgs
    BY <1>2, <1>a DEF SelectOrg, tables, TypeOK
  <2>3. QED
    BY <1>2, <1>a, <1>b, <2>1, <2>2, SelectOrgResult, QuietStep
<1>3. CASE WriteOrg(d)
  <2>1. /\ delivery[d].stage = "writeOrg"
        /\ delivery[d].event \in Events
        /\ delivery[d].event.org \in Orgs
    BY <1>3, <1>a, EventFields DEF WriteOrg, EventOK, Ended
  <2>2. organizations' \subseteq Orgs
    BY <1>3, <1>a, <2>1 DEF WriteOrg, TypeOK
  <2>3. PICK stage \in {"failed", "selectUser", "done"} :
          Move(d, stage) /\ (stage = "selectUser" => IsSync(d))
    BY <1>3 DEF WriteOrg
  <2>4. stage \in Stages
    BY DEF Stages
  <2>5. DeliveryOK(d)'
    BY <1>a, <2>1, <2>3, <2>4, MoveResult
       DEF DeliveryOK, EventOK, UserOK, LockOK, MoveOK, MemberOK, Holding, Ended
  <2>6. QED
    BY <1>a, <1>b, <2>1, <2>2, <2>3, <2>4, <2>5, MoveResult, QuietStep
<1>4. CASE SelectUser(d)
  <2>1. delivery[d].stage = "selectUser" /\ delivery[d].event \in Events
    BY <1>4, <1>a DEF SelectUser, EventOK, Ended
  <2>2. IsSync(d) <=> delivery[d].event.type = "membership"
    BY <1>a, <2>1, IsSyncIff DEF Ended
  <2>3. delivery'[d].user = None \/ (delivery'[d].user # None /\ users[delivery'[d].user] # None)
    BY <1>4, <1>a, SelectUserResult, Rows DEF UserOf
  <2>4. EventOK(d)'
    BY <1>4, <1>a, <2>1, <2>2, SelectUserResult DEF EventOK, Holding, Ended
  <2>5. UserOK(d)'
    BY <1>4, <1>a, <1>b, <2>3, SelectUserResult DEF UserOK, Holding
  <2>6. LockOK(d)' /\ MoveOK(d)' /\ MemberOK(d)'
    BY <1>4, <1>a, SelectUserResult DEF LockOK, MoveOK, MemberOK, Holding
  <2>7. organizations' \subseteq Orgs
    BY <1>4, <1>a DEF SelectUser, tables, TypeOK
  <2>8. QED
    BY <1>4, <1>a, <1>b, <2>1, <2>4, <2>5, <2>6, <2>7, SelectUserResult, QuietStep DEF DeliveryOK
<1>5. CASE WriteUser(d)
  <2>1. delivery[d].stage = "writeUser" /\ organizations' \subseteq Orgs
    BY <1>5, <1>a DEF WriteUser, tables, TypeOK
  <2>2. CASE delivery'[d].stage = "failed"
    <3>1. DeliveryOK(d)'
      BY <2>2, EndedIsOK DEF Ended
    <3>2. QED
      BY <1>5, <1>a, <1>b, <2>1, <3>1, WriteUserResult, QuietStep
  <2>3. CASE /\ delivery'[d].stage = "selectMember"
             /\ delivery'[d].user = delivery[d].user
             /\ delivery[d].user # None
             /\ HolderOfUser(delivery[d].user) = {}
             /\ \/ users[delivery[d].user].org = delivery[d].event.org
                \/ ~ Referenced(delivery[d].user, users[delivery[d].user].org)
    <3>1. delivery[d].user # None /\ users[delivery[d].user] # None
      BY <1>a, <2>1, <2>3 DEF UserOK
    <3>2. delivery[d].user # d
      BY <2>1, <3>1 DEF TableInv, RowInv
    <3>3. \A e \in Deliveries :
              e # d /\ delivery[e].stage \in Holding => delivery[e].user # delivery[d].user
      BY <2>3, HoldsUserIff DEF HolderOfUser, TableInv, DeliveryOK
    <3>4. \A e \in Deliveries : e # d => delivery'[e] = delivery[e]
      BY <1>5, <1>a, WriteUserResult DEF Becomes
    <3>5. LockOK(d)'
      BY <2>3, <3>2, <3>3, <3>4 DEF LockOK
    <3>6. EventOK(d)' /\ UserOK(d)'
      BY <1>5, <1>a, <1>b, <2>1, <2>3, <3>1, WriteUserResult DEF EventOK, UserOK, Holding, Ended
    <3>7. MoveOK(d)'
      BY <1>5, <1>a, <1>b, <2>3, WriteUserResult DEF MoveOK, Referenced, MembershipsOf
    <3>8. MemberOK(d)'
      BY <2>3 DEF MemberOK
    <3>9. QED
      BY <1>5, <1>a, <1>b, <2>1, <3>5, <3>6, <3>7, <3>8, WriteUserResult, QuietStep DEF DeliveryOK
  <2>4. CASE /\ delivery'[d].stage = "selectMember"
             /\ delivery'[d].user = d
             /\ delivery[d].user = None
             /\ InsertsSubject(delivery[d].event.subject) = {}
             /\ UserOf(delivery[d].event.subject) = {}
    <3>1. \A e \in Deliveries : e # d => delivery'[e] = delivery[e]
      BY <1>5, <1>a, WriteUserResult DEF Becomes
    <3>2. ASSUME NEW e \in Deliveries, e # d, delivery[e].stage \in Holding
          PROVE  /\ delivery[e].user # d
                 /\ delivery[e].user = e =>
                        delivery[e].event.subject # delivery[d].event.subject
      <4>1. HoldsUser(e)
        BY <3>2, HoldsUserIff DEF TableInv, DeliveryOK
      <4>2. delivery[e].user = d => users[d] # None
        BY <3>2 DEF TableInv, DeliveryOK, UserOK
      <4>3. users[d] = None
        BY <2>1 DEF TableInv, RowInv
      <4>4. QED
        BY <2>4, <4>1, <4>2, <4>3 DEF InsertsSubject
    <3>3. delivery'[d].event = delivery[d].event
      BY <1>5, <1>a, WriteUserResult
    <3>4. LockOK(d)'
      BY <1>b, <2>4, <3>1, <3>2, <3>3 DEF LockOK, UserOf
    <3>5. EventOK(d)' /\ UserOK(d)'
      BY <1>a, <2>1, <2>4, <3>3 DEF EventOK, UserOK, Holding, Ended
    <3>6. MoveOK(d)' /\ MemberOK(d)'
      BY <2>4 DEF MoveOK, MemberOK
    <3>7. QED
      BY <1>5, <1>a, <1>b, <2>1, <3>4, <3>5, <3>6, WriteUserResult, QuietStep DEF DeliveryOK
  <2>5. QED
    BY <1>5, <1>a, <2>2, <2>3, <2>4, WriteUserResult
<1>6. CASE SelectMember(d) \/ WriteMember(d)
  <2>1. /\ delivery[d].stage \in {"selectMember", "writeMember"}
        /\ organizations' \subseteq Orgs
    BY <1>6, <1>a DEF SelectMember, WriteMember, tables, TypeOK
  <2>2. /\ Becomes(d, delivery'[d])
        /\ delivery'[d].event = delivery[d].event
        /\ delivery'[d].user = delivery[d].user
        /\ delivery'[d].stage \in {"writeMember", "commit"}
    BY <1>6, <1>a, SelectMemberResult, WriteMemberResult
  <2>3. \A e \in Deliveries : e # d => delivery'[e] = delivery[e]
    BY <2>2 DEF Becomes
  <2>4. EventOK(d)' /\ UserOK(d)'
    BY <1>a, <1>b, <2>1, <2>2 DEF EventOK, UserOK, Holding, Ended
  <2>5. LockOK(d)'
    BY <1>a, <1>b, <2>1, <2>2, <2>3 DEF LockOK, UserOf, Holding
  <2>6. MoveOK(d)'
    BY <1>a, <1>b, <2>1, <2>2 DEF MoveOK, Referenced, MembershipsOf, Holding
  <2>7. MemberOK(d)'
    <3> DEFINE mine == MembershipsOf(delivery[d].user, delivery[d].event.org)
    <3>1. MembershipsOf(delivery[d].user, delivery[d].event.org)' = mine
      BY <1>b, <2>2 DEF MembershipsOf
    <3>2. \A m \in mine : m \in Deliveries /\ memberships[m] # None
      BY DEF MembershipsOf
    <3>3. \A m \in mine : delivery'[m].stage = "done"
      BY <2>1, <2>3, <3>2 DEF TableInv, RowInv
    <3> HIDE DEF mine
    <3>4. CASE SelectMember(d)
      <4>1. /\ delivery'[d].stage = "writeMember"
            /\ LET m == delivery'[d].member IN IF m = None THEN mine = {} ELSE m \in mine
        BY <1>a, <3>4, SelectMemberResult DEF mine
      <4>2. QED
        BY <3>1, <3>3, <4>1 DEF MemberOK
    <3>5. CASE WriteMember(d)
      <4>1. /\ delivery[d].stage = "writeMember" /\ delivery'[d].stage = "commit"
            /\ LET m == delivery[d].member IN
               delivery'[d].member = IF m = None THEN d
                                     ELSE IF memberships[m] = None THEN None ELSE m
        BY <1>a, <3>5, WriteMemberResult
      <4>2. LET m == delivery[d].member IN
            IF m = None THEN mine = {} ELSE memberships[m] = None \/ m \in mine
        BY <1>a, <4>1 DEF MemberOK, mine
      <4>3. memberships[d] = None /\ d # None
        BY <1>a, <2>1, Rows DEF TableInv, RowInv
      <4>4. QED
        BY <3>1, <4>1, <4>2, <4>3 DEF MemberOK
    <3>6. QED
      BY <1>6, <3>4, <3>5
  <2>8. QED
    BY <1>b, <2>1, <2>2, <2>4, <2>5, <2>6, <2>7, QuietStep DEF DeliveryOK
<1>7. CASE Fail(d)
  <2>1. delivery[d].stage # "done" /\ Move(d, "failed") /\ organizations' \subseteq Orgs
    BY <1>7, <1>a DEF Fail, Ended, tables, TypeOK
  <2>2. "failed" \in Stages
    BY DEF Stages
  <2>3. DeliveryOK(d)'
    BY <1>a, <2>1, <2>2, MoveResult, EndedIsOK DEF Ended
  <2>4. QED
    BY <1>a, <1>b, <2>1, <2>2, <2>3, MoveResult, QuietStep
<1>8. QED
  BY <1>1, <1>2, <1>3, <1>4, <1>5, <1>6, <1>7

-----------------------------------------------------------------------------
(***************************************************************************)
(* Then the steps that change the tables.                                  *)
(***************************************************************************)
LEMMA CommitResult ==
    ASSUME TableInv, NEW d \in Deliveries, Commit(d),
           NEW u, u = delivery[d].user, NEW m, m = delivery[d].member,
           NEW event, event = delivery[d].event
    PROVE  /\ delivery[d].stage = "commit"
           /\ Becomes(d, delivery'[d]) /\ delivery'[d].stage = "done"
           /\ event.org \in Orgs /\ event.subject \in Subjects
           /\ organizations' \subseteq Orgs /\ objectives' = objectives
           /\ u \in Deliveries
           /\ users[u] = None <=> u = d
           /\ users' \in [Deliveries -> UserRows \cup {None}]
           /\ users'[u] # None
           /\ users'[u].subject = IF u = d THEN event.subject ELSE users[u].subject
           /\ users'[u].org = event.org
           /\ \A v \in Deliveries : v # u => users'[v] = users[v]
<1>a. /\ TypeOK /\ EventOK(d) /\ UserOK(d) /\ RowInv
  BY DEF TableInv, DeliveryOK
<1>1. delivery[d].stage = "commit" /\ Move(d, "done") /\ objectives' = objectives
  BY DEF Commit
<1>2. event \in Events /\ event.type = "membership"
  BY <1>a, <1>1 DEF EventOK, Holding, Ended
<1>3. event.org \in Orgs /\ event.subject \in Subjects
  BY <1>2, EventFields
<1>4. "done" \in Stages
  BY DEF Stages
<1>5. Becomes(d, delivery'[d]) /\ delivery'[d].stage = "done"
  BY <1>a, <1>1, <1>4, MoveResult
<1>6. u \in Deliveries
  BY <1>a, <1>1 DEF UserOK, Holding, TypeOK, DeliveryRecords
<1>7. users[u] = None <=> u = d
  BY <1>a, <1>1 DEF UserOK, RowInv, Holding
<1> DEFINE row == [subject |-> IF u = d THEN event.subject ELSE users[u].subject, org |-> event.org]
<1>8. users' = [users EXCEPT ![u] = row]
  BY DEF Commit
<1>9. row \in UserRows
  BY <1>a, <1>3, <1>6, <1>7, Rows DEF UserRows
<1>10. row # None
  BY <1>9, NoneAssumption
<1> HIDE DEF row
<1>11. /\ users' \in [Deliveries -> UserRows \cup {None}]
       /\ users'[u] = row
       /\ \A v \in Deliveries : v # u => users'[v] = users[v]
  BY <1>a, <1>6, <1>8, <1>9 DEF TypeOK
<1>12. row.subject = (IF u = d THEN event.subject ELSE users[u].subject) /\ row.org = event.org
  BY DEF row
<1>13. organizations' \subseteq Orgs
  BY <1>a, <1>3 DEF Commit, TypeOK
<1>14. QED
  BY <1>1, <1>3, <1>5, <1>6, <1>7, <1>10, <1>11, <1>12, <1>13

\* A commit inserts one membership, or gives one a role, or neither.
LEMMA CommitMemberships ==
    ASSUME TableInv, NEW d \in Deliveries, Commit(d),
           NEW u, u = delivery[d].user, NEW m, m = delivery[d].member,
           NEW event, event = delivery[d].event
    PROVE  /\ memberships' \in [Deliveries -> MembershipRows \cup {None}]
           /\ m \in Deliveries \cup {None}
           /\ m = None => memberships' = memberships
           /\ m # None => /\ memberships'[m] # None
                          /\ memberships'[m].user = u
                          /\ memberships'[m].org = event.org
                          /\ memberships'[m].role = MapClerkRole(event.role)
           /\ m = d => memberships[d] = None /\ MembershipsOf(u, event.org) = {}
           /\ m # d /\ m # None => /\ memberships[m] # None
                                   /\ memberships[m].user = u
                                   /\ memberships[m].org = event.org
           /\ \A n \in Deliveries : n # m => memberships'[n] = memberships[n]
<1>a. TypeOK /\ MemberOK(d) /\ RowInv
  BY DEF TableInv, DeliveryOK
<1>1. delivery[d].stage = "commit"
  BY DEF Commit
<1>2. m \in Deliveries \cup {None}
  BY <1>a DEF TypeOK, DeliveryRecords
<1>3. m = d => memberships[d] = None /\ MembershipsOf(u, event.org) = {}
  BY <1>a, <1>1 DEF MemberOK, RowInv
<1>4. m # d /\ m # None => memberships[m] # None /\ memberships[m].user = u /\ memberships[m].org = event.org
  BY <1>a, <1>1 DEF MemberOK, MembershipsOf
<1> DEFINE row == [user |-> u, org |-> event.org, role |-> MapClerkRole(event.role)]
<1>5. memberships' = IF m = None THEN memberships ELSE [memberships EXCEPT ![m] = row]
  BY DEF Commit
<1>6. row \in MembershipRows
  <2>1. u \in Deliveries /\ event.org \in Orgs
    BY CommitResult
  <2>2. MapClerkRole(event.role) \in GrantedRoles
    BY DEF MapClerkRole, GrantedRoles
  <2>3. QED
    BY <2>1, <2>2 DEF MembershipRows
<1>7. row # None
  BY <1>6, NoneAssumption
<1>8. row.user = u /\ row.org = event.org /\ row.role = MapClerkRole(event.role)
  OBVIOUS
<1> HIDE DEF row
<1>9. /\ memberships' \in [Deliveries -> MembershipRows \cup {None}]
      /\ m # None => memberships'[m] = row
      /\ \A n \in Deliveries : n # m => memberships'[n] = memberships[n]
  BY <1>a, <1>2, <1>5, <1>6 DEF TypeOK
<1>10. QED
  BY <1>2, <1>3, <1>4, <1>5, <1>7, <1>8, <1>9

LEMMA CommitTables ==
    ASSUME TableInv, NEW d \in Deliveries, Commit(d)
    PROVE  TableInv'
<1>1. PICK u, m, event : u = delivery[d].user /\ m = delivery[d].member /\ event = delivery[d].event
  OBVIOUS
<1>a. /\ TypeOK /\ RowInv /\ OneUser /\ OneMembership /\ TenantsAgree
      /\ \A e \in Deliveries :
             EventOK(e) /\ UserOK(e) /\ LockOK(e) /\ MoveOK(e) /\ MemberOK(e)
  BY DEF TableInv, DeliveryOK
<1>2. /\ delivery[d].stage = "commit"
      /\ Becomes(d, delivery'[d]) /\ delivery'[d].stage = "done"
      /\ event.org \in Orgs /\ event.subject \in Subjects
      /\ organizations' \subseteq Orgs /\ objectives' = objectives
      /\ u \in Deliveries
      /\ users[u] = None <=> u = d
      /\ users' \in [Deliveries -> UserRows \cup {None}]
      /\ users'[u] # None
      /\ users'[u].subject = IF u = d THEN event.subject ELSE users[u].subject
      /\ users'[u].org = event.org
      /\ \A v \in Deliveries : v # u => users'[v] = users[v]
  BY <1>1, CommitResult
<1>3. /\ memberships' \in [Deliveries -> MembershipRows \cup {None}]
      /\ m \in Deliveries \cup {None}
      /\ m # None => /\ memberships'[m] # None
                     /\ memberships'[m].user = u
                     /\ memberships'[m].org = event.org
      /\ m = d => memberships[d] = None /\ MembershipsOf(u, event.org) = {}
      /\ m # d /\ m # None => /\ memberships[m] # None
                              /\ memberships[m].user = u
                              /\ memberships[m].org = event.org
      /\ \A n \in Deliveries : n # m => memberships'[n] = memberships[n]
  BY <1>1, CommitMemberships
<1>n. None \notin Deliveries
  BY NoneAssumption
<1>4. TypeOK'
  BY <1>2, <1>3 DEF TypeOK, Becomes
<1>5. /\ \A e \in Deliveries : e # d => delivery'[e] = delivery[e]
      /\ \A e \in Deliveries : delivery[e].stage = "done" => delivery'[e].stage = "done"
  BY <1>2 DEF Becomes
<1>6. \A v \in Deliveries : users[v] # None => users'[v] # None
  BY <1>2
<1>7. \A n \in Deliveries : memberships[n] # None =>
          /\ memberships'[n] # None
          /\ memberships'[n].user = memberships[n].user
          /\ memberships'[n].org = memberships[n].org
  BY <1>2, <1>3, <1>n
<1>8. \A n \in Deliveries : memberships'[n] # None => memberships[n] # None \/ n = m
  BY <1>3
<1>b. \A n \in Deliveries : memberships[n] # None => memberships[n].user \in Deliveries
  BY <1>a, Rows
<1>9. RowInv'
  <2>1. ASSUME NEW e \in Deliveries, users'[e] # None \/ memberships'[e] # None
        PROVE  delivery'[e].stage = "done"
    <3>1. CASE e = d
      BY <1>2, <3>1
    <3>2. CASE e # d
      <4>1. users[e] # None \/ memberships[e] # None
        BY <1>2, <1>3, <1>n, <1>8, <2>1, <3>2
      <4>2. QED
        BY <1>5, <1>a, <4>1 DEF RowInv
    <3>3. QED
      BY <3>1, <3>2
  <2>2. ASSUME NEW n \in Deliveries, memberships'[n] # None
        PROVE  users'[memberships'[n].user] # None
    <3>1. CASE n = m
      BY <1>2, <1>3, <1>n, <2>2, <3>1
    <3>2. CASE n # m
      BY <1>a, <1>b, <1>3, <1>6, <2>2, <3>2 DEF RowInv
    <3>3. QED
      BY <3>1, <3>2
  <2>3. \A objective \in objectives' : users'[objective.owner] # None
    BY <1>2, <1>6, <1>a DEF RowInv, TableInv
  <2>4. QED
    BY <2>1, <2>2, <2>3 DEF RowInv
<1>10. OneUser'
  <2> SUFFICES ASSUME NEW v \in Deliveries, NEW w \in Deliveries, v # w,
                      users'[v] # None, users'[w] # None,
                      users'[v].subject = users'[w].subject, users'[v].subject # None
               PROVE  FALSE
    BY DEF OneUser
  <2>1. ASSUME NEW x \in Deliveries, x # u, users'[x] # None, users'[x].subject # None
        PROVE  users'[x].subject # users'[u].subject
    <3>1. users'[x] = users[x]
      BY <1>2, <2>1
    <3>2. CASE u = d
      <4>1. UserOf(event.subject) = {}
        BY <1>1, <1>2, <1>a, <3>2 DEF LockOK, Holding
      <4>2. QED
        BY <1>2, <2>1, <3>1, <3>2, <4>1 DEF UserOf
    <3>3. CASE u # d
      BY <1>2, <1>a, <2>1, <3>1, <3>3 DEF OneUser
    <3>4. QED
      BY <3>2, <3>3
  <2>2. v # u /\ w # u
    BY <2>1
  <2>3. QED
    BY <1>2, <1>a, <2>2 DEF OneUser
<1>11. OneMembership'
  <2> SUFFICES ASSUME NEW p \in Deliveries, NEW q \in Deliveries, p # q,
                      memberships'[p] # None, memberships'[q] # None,
                      memberships'[p].user = memberships'[q].user,
                      memberships'[p].org = memberships'[q].org
               PROVE  FALSE
    BY DEF OneMembership, MembershipsOf
  <2>1. CASE memberships[p] # None /\ memberships[q] # None
    BY <1>7, <1>a, <2>1 DEF OneMembership, MembershipsOf
  <2>2. ASSUME NEW x \in Deliveries, m = d, memberships[x] # None
        PROVE  ~(memberships'[x].user = u /\ memberships'[x].org = event.org)
    BY <1>3, <1>7, <2>2 DEF MembershipsOf
  <2>3. CASE memberships[p] = None \/ memberships[q] = None
    <3>1. m = d /\ (p = m \/ q = m) /\ memberships'[m].user = u /\ memberships'[m].org = event.org
      BY <1>3, <1>n, <1>8, <2>3
    <3>2. (p = m => memberships[q] # None) /\ (q = m => memberships[p] # None)
      BY <1>8
    <3>3. QED
      BY <2>2, <3>1, <3>2
  <2>4. QED
    BY <2>1, <2>3
<1>12. ASSUME u # d, users[u].org # event.org
       PROVE  ~ Referenced(u, users[u].org)
  BY <1>1, <1>2, <1>a, <1>12 DEF MoveOK, Holding
<1>13. TenantsAgree'
  <2>1. ASSUME NEW n \in Deliveries, memberships'[n] # None
        PROVE  memberships'[n].org = users'[memberships'[n].user].org
    <3>1. CASE n = m
      BY <1>2, <1>3, <1>n, <2>1, <3>1
    <3>2. CASE n # m
      <4>1. memberships'[n] = memberships[n] /\ memberships[n] # None
        BY <1>3, <2>1, <3>2
      <4>2. /\ memberships[n].user \in Deliveries
            /\ users[memberships[n].user] # None
            /\ memberships[n].org = users[memberships[n].user].org
        BY <1>a, <1>b, <4>1 DEF TenantsAgree, RowInv
      <4>3. CASE memberships[n].user # u
        BY <1>2, <4>1, <4>2, <4>3
      <4>4. CASE memberships[n].user = u
        <5>1. u # d /\ n \in MembershipsOf(u, users[u].org)
          BY <1>2, <4>1, <4>2, <4>4 DEF MembershipsOf
        <5>2. users[u].org = event.org
          BY <1>12, <5>1 DEF Referenced
        <5>3. QED
          BY <1>2, <4>1, <4>2, <4>4, <5>2
      <4>5. QED
        BY <4>3, <4>4
    <3>3. QED
      BY <3>1, <3>2
  <2>2. ASSUME NEW objective \in objectives
        PROVE  objective.org = users'[objective.owner].org
    <3>1. /\ objective.owner \in Deliveries
          /\ users[objective.owner] # None
          /\ objective.org = users[objective.owner].org
      BY <1>a DEF TableInv, TenantsAgree, RowInv
    <3>2. CASE objective.owner # u
      BY <1>2, <3>1, <3>2
    <3>3. CASE objective.owner = u
      <4>1. u # d /\ Referenced(u, users[u].org)
        BY <1>2, <3>1, <3>3 DEF Referenced
      <4>2. QED
        BY <1>2, <1>12, <3>1, <3>3, <4>1
    <3>4. QED
      BY <3>2, <3>3
  <2>3. QED
    BY <1>2, <2>1, <2>2 DEF TenantsAgree
<1>14. ASSUME NEW e \in Deliveries
       PROVE  DeliveryOK(e)'
  <2>1. CASE e = d
    BY <1>2, <2>1, EndedIsOK DEF Ended
  <2>2. CASE e # d
    <3>1. delivery'[e] = delivery[e] /\ delivery'[d].stage \notin Holding
      BY <1>2, <1>5, <2>2 DEF Holding
    <3>2. delivery[e].stage \in Holding => delivery[e].user # u
      BY <1>1, <1>2, <1>a, <2>2 DEF LockOK, Holding
    <3>3. EventOK(e)'
      BY <1>a, <3>1 DEF EventOK
    <3>4. UserOK(e)'
      <4>1. delivery[e].user \in Deliveries \cup {None}
        BY <1>a DEF TypeOK, DeliveryRecords
      <4>2. QED
        BY <1>2, <1>6, <1>a, <3>1, <4>1 DEF UserOK
    <3>5. LockOK(e)'
      <4> SUFFICES ASSUME delivery[e].stage \in Holding
                   PROVE  LockOK(e)'
        BY <3>1 DEF LockOK
      <4>1. ASSUME NEW f \in Deliveries, f # e, delivery'[f].stage \in Holding
            PROVE  delivery'[f] = delivery[f]
        BY <1>5, <3>1, <4>1
      <4>2. ASSUME delivery[e].user = e
            PROVE  UserOf(delivery[e].event.subject)' = {}
        <5> SUFFICES ASSUME NEW v \in Deliveries,
                            users'[v] # None, users'[v].subject = delivery[e].event.subject
                     PROVE  FALSE
          BY <3>1 DEF UserOf
        <5>1. UserOf(delivery[e].event.subject) = {}
          BY <1>a, <4>2 DEF LockOK
        <5>2. v = u
          BY <1>2, <5>1 DEF UserOf
        <5>3. u = d
          BY <1>2, <5>1, <5>2 DEF UserOf
        <5>4. event.subject # delivery[e].event.subject
          BY <1>1, <1>2, <1>a, <2>2, <4>2, <5>3 DEF LockOK, Holding
        <5>5. QED
          BY <1>2, <5>2, <5>3, <5>4
      <4>3. QED
        BY <1>a, <3>1, <4>1, <4>2 DEF LockOK
    <3>6. ASSUME delivery[e].stage \in Holding
          PROVE  \A o : MembershipsOf(delivery[e].user, o)' = MembershipsOf(delivery[e].user, o)
      <4>1. \A n \in Deliveries :
                memberships'[n] # None /\ memberships'[n].user = delivery[e].user
                    <=> memberships[n] # None /\ memberships[n].user = delivery[e].user
        BY <1>3, <1>7, <1>8, <1>n, <3>2, <3>6
      <4>2. QED
        BY <1>7, <3>1, <4>1 DEF MembershipsOf
    <3>7. MoveOK(e)'
      <4> SUFFICES ASSUME delivery[e].stage \in Holding, delivery[e].user # e
                   PROVE  MoveOK(e)'
        BY <3>1 DEF MoveOK
      <4>1. delivery[e].user \in Deliveries
        BY <1>a DEF UserOK, TypeOK, DeliveryRecords
      <4>2. users'[delivery[e].user] = users[delivery[e].user]
        BY <1>2, <3>2, <4>1
      <4>3. QED
        BY <1>2, <1>a, <3>1, <3>6, <4>2 DEF MoveOK, Referenced
    <3>8. MemberOK(e)'
      <4> SUFFICES ASSUME delivery[e].stage \in {"writeMember", "commit"}
                   PROVE  MemberOK(e)'
        BY <3>1 DEF MemberOK
      <4>1. /\ delivery[e].stage \in Holding
            /\ delivery[e].member \in Deliveries \cup {None}
        BY <1>a DEF Holding, TypeOK, DeliveryRecords
      <4>2. MembershipsOf(delivery[e].user, delivery[e].event.org)'
              = MembershipsOf(delivery[e].user, delivery[e].event.org)
        BY <3>1, <3>6, <4>1
      <4>3. ASSUME delivery[e].stage = "writeMember", delivery[e].member # None,
                   memberships[delivery[e].member] = None
            PROVE  memberships'[delivery[e].member] = None
        <5>1. delivery[delivery[e].member].stage = "done"
          BY <1>a, <4>3 DEF MemberOK
        <5>2. QED
          BY <1>2, <1>3, <4>1, <4>3, <5>1
      <4>4. QED
        BY <1>5, <1>a, <3>1, <4>1, <4>2, <4>3 DEF MemberOK
    <3>9. QED
      BY <3>3, <3>4, <3>5, <3>7, <3>8 DEF DeliveryOK
  <2>3. QED
    BY <2>1, <2>2
<1>15. QED
  BY <1>2, <1>4, <1>9, <1>10, <1>11, <1>13, <1>14 DEF TableInv

\* Deleting memberships, but for one that a sync is about to commit.
LEMMA DeleteTables ==
    ASSUME TableInv, NEW d \in Deliveries, Delete(d)
    PROVE  TableInv'
<1>a. /\ TypeOK /\ RowInv /\ OneUser /\ OneMembership /\ TenantsAgree
      /\ \A e \in Deliveries :
             EventOK(e) /\ UserOK(e) /\ LockOK(e) /\ MoveOK(e) /\ MemberOK(e)
  BY DEF TableInv, DeliveryOK
<1>1. PICK found \in SUBSET Deliveries :
        /\ found = MembershipsOf(delivery[d].user, delivery[d].event.org)
        /\ memberships' = [n \in Deliveries |-> IF n \in found THEN None ELSE memberships[n]]
  BY DEF Delete, MembershipsOf
<1>2. /\ delivery[d].stage = "delete" /\ Move(d, "done")
      /\ \A n \in found : HolderOfMembership(n) = {}
      /\ organizations' = organizations /\ users' = users /\ objectives' = objectives
  BY <1>1 DEF Delete
<1>3. Becomes(d, delivery'[d]) /\ delivery'[d].stage = "done"
  <2>1. "done" \in Stages
    BY DEF Stages
  <2>2. QED
    BY <1>2, <1>a, <2>1, MoveResult
<1>4. \A n \in Deliveries : memberships'[n] # None =>
          n \notin found /\ memberships'[n] = memberships[n]
  BY <1>1
<1>5. TypeOK'
  <2>1. memberships' \in [Deliveries -> MembershipRows \cup {None}]
    BY <1>1, <1>a DEF TypeOK
  <2>2. QED
    BY <1>2, <1>3, <1>a, <2>1 DEF TypeOK, Becomes
<1>6. /\ \A e \in Deliveries : e # d => delivery'[e] = delivery[e]
      /\ \A e \in Deliveries : delivery[e].stage = "done" => delivery'[e].stage = "done"
  BY <1>3 DEF Becomes
<1>7. RowInv' /\ OneUser'
  BY <1>2, <1>4, <1>6, <1>a DEF RowInv, OneUser
<1>8. OneMembership' /\ TenantsAgree'
  BY <1>2, <1>4, <1>a DEF OneMembership, TenantsAgree, MembershipsOf
<1>9. \A v, o : MembershipsOf(v, o)' \subseteq MembershipsOf(v, o)
  BY <1>4 DEF MembershipsOf
<1>10. ASSUME NEW e \in Deliveries
       PROVE  DeliveryOK(e)'
  <2>1. CASE e = d
    BY <1>3, <2>1, EndedIsOK DEF Ended
  <2>2. CASE e # d
    <3>1. delivery'[e] = delivery[e] /\ delivery'[d].stage \notin Holding
      BY <1>3, <1>6, <2>2 DEF Holding
    <3>2. EventOK(e)' /\ UserOK(e)'
      BY <1>2, <1>a, <3>1 DEF EventOK, UserOK
    <3>3. LockOK(e)'
      <4>1. ASSUME NEW f \in Deliveries, f # e, delivery'[f].stage \in Holding
            PROVE  delivery'[f] = delivery[f]
        BY <1>6, <3>1, <4>1
      <4>2. QED
        BY <1>2, <1>a, <3>1, <4>1 DEF LockOK, UserOf
    <3>4. MoveOK(e)'
      BY <1>2, <1>9, <1>a, <3>1 DEF MoveOK, Referenced
    <3>5. MemberOK(e)'
      <4> DEFINE mine == MembershipsOf(delivery[e].user, delivery[e].event.org)
      <4>1. delivery[e].member \in Deliveries \cup {None} /\ None \notin Deliveries
        BY <1>a, NoneAssumption DEF TypeOK, DeliveryRecords
      <4>2. mine' \subseteq mine
        <5>1. mine' = {n \in Deliveries : /\ memberships'[n] # None
                                          /\ memberships'[n].user = delivery[e].user
                                          /\ memberships'[n].org = delivery[e].event.org}
          BY <3>1 DEF MembershipsOf
        <5>2. QED
          BY <1>4, <5>1 DEF MembershipsOf
      <4>3. ASSUME NEW n \in mine, memberships'[n] # None
            PROVE  n \in mine'
        BY <1>4, <3>1, <4>3 DEF MembershipsOf
      <4>4. ASSUME delivery[e].stage = "commit", delivery[e].member \in mine
            PROVE  memberships'[delivery[e].member] # None
        <5>1. delivery[e].member \in Deliveries /\ memberships[delivery[e].member] # None
          BY <4>4 DEF MembershipsOf
        <5>2. InTransaction(e)
          BY <1>a, <4>4, IsSyncIff DEF InTransaction, EventOK, Holding, Ended
        <5>3. e \in HolderOfMembership(delivery[e].member)
          BY <4>4, <5>2 DEF HolderOfMembership
        <5>4. delivery[e].member \notin found
          BY <1>2, <5>3
        <5>5. QED
          BY <1>1, <5>1, <5>4
      <4>5. ASSUME delivery[e].stage = "writeMember", delivery[e].member # None
            PROVE  delivery'[delivery[e].member].stage = "done"
        BY <1>6, <1>a, <4>1, <4>5 DEF MemberOK
      <4>6. /\ delivery[e].stage = "writeMember" =>
                   IF delivery[e].member = None THEN mine = {}
                   ELSE memberships[delivery[e].member] = None \/ delivery[e].member \in mine
            /\ delivery[e].stage = "commit" =>
                   IF delivery[e].member = e THEN mine = {}
                   ELSE delivery[e].member = None \/ delivery[e].member \in mine
        BY <1>a DEF MemberOK
      <4>7. \A n \in Deliveries : memberships[n] = None => memberships'[n] = None
        BY <1>4
      <4>8. MemberOK(e)' <=>
              /\ delivery[e].stage = "writeMember" =>
                   IF delivery[e].member = None THEN mine' = {}
                   ELSE /\ delivery'[delivery[e].member].stage = "done"
                        /\ memberships'[delivery[e].member] = None \/ delivery[e].member \in mine'
              /\ delivery[e].stage = "commit" =>
                   IF delivery[e].member = e THEN mine' = {}
                   ELSE delivery[e].member = None \/ delivery[e].member \in mine'
        BY <3>1 DEF MemberOK
      <4> HIDE DEF mine
      <4>9. QED
        BY <4>1, <4>2, <4>3, <4>4, <4>5, <4>6, <4>7, <4>8
    <3>6. QED
      BY <3>2, <3>3, <3>4, <3>5 DEF DeliveryOK
  <2>3. QED
    BY <2>1, <2>2
<1>11. QED
  BY <1>2, <1>5, <1>7, <1>8, <1>10 DEF TableInv

LEMMA RevokeResult ==
    ASSUME TypeOK, NEW d \in Deliveries, Revoke(d)
    PROVE  /\ Becomes(d, delivery'[d])
           /\ delivery[d].stage = "revoke" /\ delivery'[d].stage = "done"
           /\ organizations' = organizations
           /\ memberships' = memberships /\ objectives' = objectives
           /\ users' \in [Deliveries -> UserRows \cup {None}]
           /\ \A v \in Deliveries :
                  /\ users'[v] # None <=> users[v] # None
                  /\ users'[v].org = users[v].org \/ users[v] = None
                  /\ IF v \in UserOf(delivery[d].event.subject)
                     THEN users'[v].subject = None ELSE users'[v] = users[v]
<1>1. /\ delivery[d].stage = "revoke" /\ Move(d, "done")
      /\ UNCHANGED <<organizations, memberships, objectives>>
  BY DEF Revoke
<1>2. "done" \in Stages
  BY DEF Stages
<1>3. PICK found \in SUBSET Deliveries :
        /\ found = UserOf(delivery[d].event.subject)
        /\ users' = [u \in Deliveries |->
                       IF u \in found THEN [users[u] EXCEPT !.subject = None] ELSE users[u]]
  BY DEF Revoke, UserOf
<1>4. ASSUME NEW v \in Deliveries
      PROVE  /\ users'[v] \in UserRows \cup {None}
             /\ users'[v] # None <=> users[v] # None
             /\ users'[v].org = users[v].org \/ users[v] = None
             /\ IF v \in found THEN users'[v].subject = None ELSE users'[v] = users[v]
  <2>1. CASE v \in found
    <3>1. users[v] \in UserRows /\ users[v] # None
      BY <1>3, <2>1 DEF UserOf, TypeOK
    <3>2. PICK row : row = [users[v] EXCEPT !.subject = None]
      OBVIOUS
    <3>3. row \in UserRows /\ row.org = users[v].org /\ row.subject = None
      BY <3>1, <3>2 DEF UserRows
    <3>4. users'[v] = row /\ row # None
      BY <1>3, <2>1, <3>2, <3>3, NoneAssumption
    <3>5. QED
      BY <2>1, <3>1, <3>3, <3>4
  <2>2. CASE v \notin found
    <3>1. users'[v] = users[v]
      BY <1>3, <2>2
    <3>2. QED
      BY <2>2, <3>1 DEF TypeOK
  <2>3. QED
    BY <2>1, <2>2
<1>5. users' \in [Deliveries -> UserRows \cup {None}]
  BY <1>3, <1>4
<1>6. QED
  BY <1>1, <1>2, <1>3, <1>4, <1>5, MoveResult

LEMMA RevokeTables ==
    ASSUME TableInv, NEW d \in Deliveries, Revoke(d)
    PROVE  TableInv'
<1>a. /\ TypeOK /\ RowInv /\ OneUser /\ OneMembership /\ TenantsAgree
      /\ \A e \in Deliveries :
             EventOK(e) /\ UserOK(e) /\ LockOK(e) /\ MoveOK(e) /\ MemberOK(e)
  BY DEF TableInv, DeliveryOK
<1>1. /\ Becomes(d, delivery'[d])
      /\ delivery[d].stage = "revoke" /\ delivery'[d].stage = "done"
      /\ organizations' = organizations
      /\ memberships' = memberships /\ objectives' = objectives
      /\ users' \in [Deliveries -> UserRows \cup {None}]
      /\ \A v \in Deliveries :
             /\ users'[v] # None <=> users[v] # None
             /\ users'[v].org = users[v].org \/ users[v] = None
             /\ users'[v].subject = None \/ users'[v] = users[v]
  BY <1>a, RevokeResult
<1>2. TypeOK'
  BY <1>1, <1>a DEF TypeOK, Becomes
<1>3. /\ \A e \in Deliveries : e # d => delivery'[e] = delivery[e]
      /\ \A e \in Deliveries : delivery[e].stage = "done" => delivery'[e].stage = "done"
  BY <1>1 DEF Becomes
<1>4. \A m \in Deliveries : memberships[m] # None => memberships[m].user \in Deliveries
  BY <1>a, Rows
<1>5. \A objective \in objectives : objective.owner \in Deliveries
  BY DEF TableInv
<1>6. RowInv'
  BY <1>1, <1>3, <1>4, <1>5, <1>a DEF RowInv
<1>7. OneUser'
  <2> SUFFICES ASSUME NEW u \in Deliveries, NEW v \in Deliveries,
                      users'[u] # None, users'[v] # None,
                      users'[u].subject = users'[v].subject, users'[u].subject # None
               PROVE  u = v
    BY DEF OneUser
  <2>1. users'[u] = users[u] /\ users'[v] = users[v]
    BY <1>1
  <2>2. QED
    BY <1>a, <2>1 DEF OneUser
<1>8. OneMembership'
  BY <1>1, <1>a DEF OneMembership, MembershipsOf
<1>9. TenantsAgree'
  BY <1>1, <1>4, <1>5, <1>a DEF TenantsAgree, RowInv
<1>10. ASSUME NEW e \in Deliveries
       PROVE  DeliveryOK(e)'
  <2>1. CASE e = d
    BY <1>1, <2>1, EndedIsOK DEF Ended
  <2>2. CASE e # d
    <3>1. delivery'[e] = delivery[e] /\ delivery'[d].stage \notin Holding
      BY <1>1, <1>3, <2>2 DEF Holding
    <3>a. delivery[e].user \in Deliveries \cup {None} /\ delivery[e].member \in Deliveries \cup {None}
      BY <1>a DEF TypeOK, DeliveryRecords
    <3>2. EventOK(e)' /\ UserOK(e)'
      BY <1>1, <1>a, <3>1, <3>a DEF EventOK, UserOK
    <3>3. LockOK(e)'
      <4>1. ASSUME NEW f \in Deliveries, f # e, delivery'[f].stage \in Holding
            PROVE  delivery'[f] = delivery[f]
        BY <1>3, <3>1, <4>1
      <4>2. ASSUME delivery[e].stage \in Holding, delivery[e].user = e
            PROVE  UserOf(delivery[e].event.subject)' = {}
        <5> SUFFICES ASSUME NEW v \in Deliveries,
                            users'[v] # None, users'[v].subject = delivery[e].event.subject
                     PROVE  FALSE
          BY <3>1 DEF UserOf
        <5>1. UserOf(delivery[e].event.subject) = {}
          BY <1>a, <4>2 DEF LockOK
        <5>2. delivery[e].event.subject \in Subjects
          BY <1>a, <4>2, EventFields DEF EventOK, Holding, Ended
        <5>3. users'[v] = users[v]
          BY <1>1, <5>2, NoneAssumption
        <5>4. QED
          BY <5>1, <5>3 DEF UserOf
      <4>3. QED
        BY <1>a, <3>1, <4>1, <4>2 DEF LockOK
    <3>4. MoveOK(e)'
      <4> SUFFICES ASSUME delivery[e].stage \in Holding, delivery[e].user # e
                   PROVE  MoveOK(e)'
        BY <3>1 DEF MoveOK
      <4>1. users'[delivery[e].user].org = users[delivery[e].user].org
        BY <1>1, <1>a, <3>a DEF UserOK
      <4>2. QED
        BY <1>1, <1>a, <3>1, <4>1 DEF MoveOK, Referenced, MembershipsOf
    <3>5. MemberOK(e)'
      BY <1>1, <1>3, <1>a, <3>1, <3>a DEF MemberOK, MembershipsOf
    <3>6. QED
      BY <3>2, <3>3, <3>4, <3>5 DEF DeliveryOK
  <2>3. QED
    BY <2>1, <2>2
<1>11. QED
  BY <1>1, <1>2, <1>5, <1>6, <1>7, <1>8, <1>9, <1>10 DEF TableInv

\* Creating an objective, as the foreign key of objectives lets it.
LEMMA CreateTables ==
    ASSUME TableInv, UNCHANGED <<organizations, users, memberships, delivery>>,
           NEW row, objectives' = objectives \cup {row}, row.owner \in Deliveries,
           users[row.owner] # None, users[row.owner].org = row.org, ~ Moving(row.owner)
    PROVE  TableInv'
<1>a. /\ TypeOK /\ RowInv /\ OneUser /\ OneMembership /\ TenantsAgree
      /\ \A e \in Deliveries :
             EventOK(e) /\ UserOK(e) /\ LockOK(e) /\ MoveOK(e) /\ MemberOK(e)
  BY DEF TableInv, DeliveryOK
<1>1. TypeOK' /\ RowInv' /\ OneUser' /\ OneMembership' /\ TenantsAgree'
  BY <1>a DEF TypeOK, RowInv, OneUser, OneMembership, TenantsAgree, MembershipsOf
<1>2. row.org \in Orgs
  BY <1>a, Rows
<1>3. ASSUME NEW e \in Deliveries
      PROVE  DeliveryOK(e)'
  <2>1. EventOK(e)' /\ UserOK(e)' /\ LockOK(e)' /\ MemberOK(e)'
    BY <1>a DEF EventOK, UserOK, LockOK, MemberOK, MembershipsOf, UserOf
  <2>2. MoveOK(e)'
    <3> SUFFICES ASSUME delivery[e].stage \in Holding, delivery[e].user # e,
                        users[delivery[e].user].org # delivery[e].event.org
                 PROVE  ~ Referenced(delivery[e].user, users[delivery[e].user].org)'
      BY DEF MoveOK
    <3>1. ~ Referenced(delivery[e].user, users[delivery[e].user].org)
      BY <1>a DEF MoveOK
    <3>2. row.owner # delivery[e].user
      BY <1>a, HoldsUserIff DEF Moving, HolderOfUser
    <3>3. QED
      BY <3>1, <3>2 DEF Referenced, MembershipsOf
  <2>3. QED
    BY <2>1, <2>2 DEF DeliveryOK
<1>4. QED
  BY <1>1, <1>2, <1>3 DEF TableInv

LEMMA InitTables == Init => TableInv
<1> SUFFICES ASSUME Init
             PROVE  TableInv
  OBVIOUS
<1>1. /\ users \in [Deliveries -> UserRows \cup {None}]
      /\ \A d \in Deliveries \ Earlier : users[d] = None
      /\ \A d, e \in Earlier :
             /\ d # e /\ users[d] # None /\ users[e] # None
             /\ users[d].subject = users[e].subject
             => users[d].subject = None
      /\ memberships \in [Deliveries -> MembershipRows \cup {None}]
      /\ \A d \in Deliveries : memberships[d] # None =>
             users[d] # None /\ memberships[d].user = d /\ memberships[d].org = users[d].org
      /\ organizations = {o \in Orgs : \E d \in Earlier : users[d] # None /\ users[d].org = o}
      /\ objectives = {}
  BY DEF Init
<1>2. \A d \in Deliveries : delivery[d].stage = IF d \in Earlier THEN "done" ELSE "idle"
  BY DEF Init, NoDelivery
<1>3. TypeOK
  <2>1. NoDelivery \in DeliveryRecords /\ [NoDelivery EXCEPT !.stage = "done"] \in DeliveryRecords
    BY DEF NoDelivery, DeliveryRecords, Stages
  <2>2. delivery \in [Deliveries -> DeliveryRecords]
    BY <2>1 DEF Init
  <2>3. QED
    BY <1>1, <2>2 DEF TypeOK
<1>4. RowInv /\ OneUser
  BY <1>1, <1>2 DEF RowInv, OneUser
<1>5. OneMembership /\ TenantsAgree
  BY <1>1 DEF OneMembership, TenantsAgree, MembershipsOf
<1>6. \A d \in Deliveries : DeliveryOK(d)
  BY <1>2 DEF DeliveryOK, EventOK, UserOK, LockOK, MoveOK, MemberOK, Holding, Ended
<1>7. QED
  BY <1>1, <1>3, <1>4, <1>5, <1>6 DEF TableInv

LEMMA NextTables ==
    ASSUME TableInv, Next
    PROVE  TableInv'
<1>1. PICK d \in Deliveries :
        \/ \E event \in Events : Receive(d, event)
        \/ Handle(d)
        \/ Fail(d)
  BY DEF Next
<1>2. QED
  BY <1>1, QuietTables, CommitTables, DeleteTables, RevokeTables DEF Handle

-----------------------------------------------------------------------------
(***************************************************************************)
(* The access the tables give, and what a step does to the users.          *)
(***************************************************************************)
LEMMA AccessMembers ==
    ASSUME NEW s
    PROVE  /\ \A a : a \in AccessOf(s) <=>
                  \E u \in UserOf(s) : \E m \in MembershipsOf(u, users[u].org) :
                      a = [org |-> users[u].org, role |-> memberships[m].role]
           /\ \A a : a \in AccessOf(s)' <=>
                  \E u \in UserOf(s)' : \E m \in MembershipsOf(u, users[u].org)' :
                      a = [org |-> users'[u].org, role |-> memberships'[m].role]
BY DEF AccessOf

LEMMA AccessType ==
    ASSUME TypeOK, NEW s
    PROVE  AccessOf(s) \subseteq Grants
<1> SUFFICES ASSUME NEW a \in AccessOf(s)
             PROVE  a \in Grants
  OBVIOUS
<1>u. PICK u \in UserOf(s) :
        \E m \in MembershipsOf(u, users[u].org) :
            a = [org |-> users[u].org, role |-> memberships[m].role]
  BY AccessMembers
<1>1. PICK m \in MembershipsOf(u, users[u].org) :
        a = [org |-> users[u].org, role |-> memberships[m].role]
  BY <1>u
<1>2. users[u].org \in Orgs /\ memberships[m].role \in GrantedRoles
  BY Rows DEF UserOf, MembershipsOf
<1>3. QED
  BY <1>1, <1>2 DEF Grants

\* A row of users stays a row of its subject, until the subject is revoked.
LEMMA SubjectKept ==
    ASSUME TableInv, Next, NEW u \in Deliveries, users[u] # None
    PROVE  users'[u] # None /\ users'[u].subject \in {users[u].subject, None}
<1>1. PICK d \in Deliveries :
        \/ \E event \in Events : Receive(d, event)
        \/ Handle(d)
        \/ Fail(d)
  BY DEF Next
<1>2. CASE Commit(d)
  <2>1. PICK v, event : v = delivery[d].user /\ event = delivery[d].event
    OBVIOUS
  <2>2. /\ users[v] = None <=> v = d
        /\ users'[v] # None
        /\ users'[v].subject = IF v = d THEN event.subject ELSE users[v].subject
        /\ \A w \in Deliveries : w # v => users'[w] = users[w]
    BY <1>2, <2>1, CommitResult
  <2>3. QED
    BY <2>2
<1>3. CASE Revoke(d)
  <2>1. /\ users'[u] # None <=> users[u] # None
        /\ users'[u].subject = None \/ users'[u] = users[u]
    BY <1>3, RevokeResult DEF TableInv
  <2>2. QED
    BY <2>1
<1>4. CASE users' = users
  BY <1>4
<1>5. QED
  BY <1>1, <1>2, <1>3, <1>4
     DEF Handle, Receive, SelectOrg, WriteOrg, SelectUser, WriteUser, SelectMember, WriteMember,
         Delete, Fail, tables

-----------------------------------------------------------------------------
(***************************************************************************)
(* The invariant of the requests.                                          *)
(***************************************************************************)
LEMMA TablesKept ==
    ASSUME TableInv, UNCHANGED vars
    PROVE  TableInv'
<1>1. UNCHANGED <<organizations, users, memberships, objectives, delivery>>
  BY DEF vars
<1>2. TypeOK' /\ RowInv' /\ OneUser' /\ OneMembership' /\ TenantsAgree'
  BY <1>1 DEF TableInv, TypeOK, RowInv, OneUser, OneMembership, TenantsAgree, MembershipsOf
<1>3. \A d \in Deliveries : DeliveryOK(d)'
  BY <1>1 DEF TableInv, DeliveryOK, EventOK, UserOK, LockOK, MoveOK, MemberOK, Referenced,
              MembershipsOf, UserOf
<1>4. QED
  BY <1>1, <1>2, <1>3 DEF TableInv

\* r becomes x, and the other requests stay.
Turns(r, x) ==
    /\ request' \in [Requests -> RequestRecords]
    /\ request'[r] = x
    /\ \A q \in Requests : q # r => request'[q] = request[q]

LEMMA AnswerResult ==
    ASSUME APITypeOK, NEW r \in Requests, NEW answer \in Answers, Answer(r, answer)
    PROVE  /\ Turns(r, request'[r])
           /\ request'[r].stage = answer
           /\ answer = "created" => request'[r].principal = request[r].principal
<1> DEFINE principal == IF answer = "created" THEN request[r].principal ELSE None
           x == [NoRequest EXCEPT !.stage = answer, !.principal = principal]
<1>1. request \in [Requests -> RequestRecords]
  BY DEF APITypeOK
<1>2. principal \in Principals \cup {None}
  BY <1>1 DEF RequestRecords
<1>3. request' = [request EXCEPT ![r] = x]
  BY DEF Answer
<1> HIDE DEF principal
<1>4. x \in RequestRecords /\ x.stage = answer /\ x.principal = principal
  BY <1>2 DEF RequestRecords, NoRequest
<1> HIDE DEF x
<1>5. Turns(r, x)
  BY <1>1, <1>3, <1>4 DEF Turns
<1>6. QED
  BY <1>4, <1>5 DEF Turns, principal

\* A step of one request, that creates nothing.
LEMMA ServeStep ==
    ASSUME APIInv, TypeOK', NEW r \in Requests, Turns(r, request'[r]), request[r].stage # "created",
           users' = users, memberships' = memberships, objectives' = objectives,
           RequestOK(r)',
           request'[r].stage = "serve" =>
               LET principal == request'[r].principal IN
               \/ [org |-> principal.organizationId, role |-> principal.role] \in request'[r].had
               \/ users[principal.userId].subject = None
    PROVE  APIInv'
<1>1. APITypeOK'
  BY DEF APIInv, APITypeOK, Turns
<1>2. \A s : AccessOf(s)' = AccessOf(s)
  BY DEF AccessOf, UserOf, MembershipsOf
<1>3. ASSUME NEW q \in Requests
      PROVE  RequestOK(q)'
  <2>1. CASE q = r
    BY <2>1
  <2>2. CASE q # r
    BY <1>2, <2>2 DEF APIInv, RequestOK, Turns
  <2>3. QED
    BY <2>1, <2>2
<1>4. AdmittedHadAccess'
  BY DEF AdmittedHadAccess, APIInv, Turns
<1>5. CreatedInv'
  <2> SUFFICES ASSUME NEW row \in objectives
               PROVE  /\ row.id # r /\ row.id \in Requests
    BY DEF CreatedInv, APIInv, Turns, TeamId
  <2>1. QED
    BY DEF CreatedInv, APIInv, APITypeOK
<1>6. QED
  BY <1>1, <1>3, <1>4, <1>5 DEF APIInv

LEMMA AnsweredStep ==
    ASSUME APIInv, TypeOK', NEW r \in Requests, NEW answer \in Answers, Answer(r, answer),
           request[r].stage # "created", users' = users, memberships' = memberships,
           objectives' = objectives
    PROVE  APIInv'
<1>1. Turns(r, request'[r]) /\ request'[r].stage = answer
  BY AnswerResult DEF APIInv
<1>2. answer \notin {"user", "memberships", "serve"}
  BY DEF Answers
<1>3. RequestOK(r)'
  BY <1>1, <1>2 DEF RequestOK
<1>4. QED
  BY <1>1, <1>2, <1>3, ServeStep

LEMMA CreateStep ==
    ASSUME TableInv, APIInv, NEW r \in Requests, NEW body \in Bodies, CreateObjective(r, body)
    PROVE  TableInv' /\ APIInv'
<1> DEFINE principal == request[r].principal
           effect == CreateDecision(principal, body)
           row == ObjectiveToRow(r, principal, body)
<1>a. TypeOK /\ APITypeOK /\ RequestOK(r) /\ CreatedInv
  BY DEF TableInv, APIInv
<1>1. /\ request[r].stage = "serve" /\ request[r].stage # "created"
      /\ UNCHANGED <<organizations, users, memberships, delivery>>
  BY DEF CreateObjective
<1>2. /\ principal \in Principals
      /\ users[principal.userId] # None
      /\ principal.userId \in Deliveries
  BY <1>a, <1>1 DEF RequestOK, Principals
<1>3. CASE \E answer \in Answers : Answer(r, answer) /\ objectives' = objectives
  <2>1. PICK answer \in Answers : Answer(r, answer) /\ objectives' = objectives
    BY <1>3
  <2>2. UNCHANGED vars
    BY <1>1, <2>1 DEF vars
  <2>3. TableInv'
    BY <2>2, TablesKept
  <2>4. QED
    BY <1>1, <2>1, <2>3, AnsweredStep DEF TableInv
<1>4. CASE /\ effect = "allow"
           /\ ~ Moving(principal.userId)
           /\ users[principal.userId].org = principal.organizationId
           /\ objectives' = objectives \cup {row}
           /\ Answer(r, "created")
  <2>1. /\ row.id = r /\ row.org = principal.organizationId /\ row.owner = principal.userId
        /\ row.scope = body.scope /\ row.scopeRef = body.teamId /\ row.projectId = body.projectId
    BY DEF ObjectiveToRow
  <2>2. TableInv'
    <3> HIDE DEF row, principal
    <3>1. QED
      BY <1>1, <1>2, <1>4, <2>1, CreateTables
  <2>3. /\ Turns(r, request'[r])
        /\ request'[r].stage = "created" /\ request'[r].principal = principal
    BY <1>a, <1>4, AnswerResult DEF Answers
  <2>4. \A q \in Requests : q # r => request'[q] = request[q]
    BY <2>3 DEF Turns
  <2>5. HasScopeAccess(principal,
            Resource(row.org, row.scope, row.owner, TeamId(row), row.projectId))
    <3>1. HasScopeAccess(principal,
              Resource(principal.organizationId, body.scope, principal.userId,
                       body.teamId, body.projectId))
      BY <1>4 DEF CreateDecision, Evaluate, Effect, Reason
    <3>2. TeamId(row) = IF body.scope = "TEAM" THEN body.teamId ELSE None
      BY <2>1 DEF TeamId
    <3> HIDE DEF row, principal
    <3>3. QED
      BY <2>1, <3>1, <3>2 DEF HasScopeAccess, Resource
  <2>6. row \in [id : Requests, org : Orgs, owner : Deliveries, scope : Scopes,
                 scopeRef : Teams \cup {None}, projectId : Projects \cup {None}]
    <3>1. principal.organizationId \in Orgs /\ principal.userId \in Deliveries
      BY <1>2 DEF Principals
    <3>2. /\ body.scope \in Scopes /\ body.teamId \in Teams \cup {None}
          /\ body.projectId \in Projects \cup {None}
      BY BodiesAssumption DEF Scopes
    <3>3. QED
      BY <3>1, <3>2 DEF ObjectiveToRow
  <2> HIDE DEF row, principal
  <2>7. APITypeOK'
    BY <1>4, <1>a, <2>2, <2>3, <2>6 DEF APITypeOK, TableInv, Turns
  <2>8. RequestOK(r)'
    BY <2>3 DEF RequestOK
  <2>9. \A s : AccessOf(s)' = AccessOf(s)
    BY <1>1 DEF AccessOf, UserOf, MembershipsOf
  <2>10. \A q \in Requests : RequestOK(q)'
    BY <1>1, <2>4, <2>8, <2>9 DEF APIInv, RequestOK
  <2>11. AdmittedHadAccess'
    BY <1>1, <2>3, <2>4 DEF APIInv, AdmittedHadAccess
  <2>12. CreatedInv'
    <3> SUFFICES ASSUME NEW o \in objectives'
                 PROVE  /\ request'[o.id].stage = "created"
                        /\ request'[o.id].principal \in Principals
                        /\ o.org = request'[o.id].principal.organizationId
                        /\ o.owner = request'[o.id].principal.userId
                        /\ HasScopeAccess(request'[o.id].principal,
                               Resource(o.org, o.scope, o.owner, TeamId(o), o.projectId))
      BY DEF CreatedInv
    <3>1. CASE o = row
      <4>1. QED
        BY <1>2, <2>1, <2>3, <2>5, <3>1
    <3>2. CASE o \in objectives
      <4>1. o.id \in Requests /\ o.id # r
        BY <1>1, <1>a, <3>2 DEF APITypeOK, CreatedInv
      <4>2. QED
        BY <1>a, <2>4, <3>2, <4>1 DEF CreatedInv
    <3>3. QED
      BY <1>4, <3>1, <3>2
  <2>13. QED
    BY <2>2, <2>7, <2>10, <2>11, <2>12 DEF APIInv
<1>5. QED
  BY <1>3, <1>4 DEF CreateObjective, Answers

LEMMA ServeTables ==
    ASSUME TableInv, APIInv, NEW r \in Requests, Serve(r)
    PROVE  TableInv' /\ APIInv'
<1>a. TypeOK /\ APITypeOK /\ RequestOK(r) /\ request \in [Requests -> RequestRecords]
  BY DEF TableInv, APIInv, APITypeOK
<1>1. ASSUME NEW body \in Bodies, CreateObjective(r, body)
      PROVE  TableInv' /\ APIInv'
  BY <1>1, CreateStep
<1>2. CASE UNCHANGED vars
  <2>1. TableInv' /\ TypeOK'
    BY <1>2, TablesKept DEF TableInv
  <2>2. users' = users /\ memberships' = memberships /\ objectives' = objectives
    BY <1>2 DEF vars
  <2>3. \A s : AccessOf(s)' = AccessOf(s)
    BY <2>2 DEF AccessOf, UserOf, MembershipsOf
  <2>4. ASSUME NEW answer \in Answers, Answer(r, answer), request[r].stage # "created"
        PROVE  APIInv'
    BY <2>1, <2>2, <2>4, AnsweredStep
  <2>5. ASSUME NEW s \in Subjects, Come(r, s)
        PROVE  APIInv'
    <3> DEFINE x == [NoRequest EXCEPT !.stage = "user", !.subject = s, !.had = AccessOf(s)]
    <3>1. request' = [request EXCEPT ![r] = x] /\ request[r].stage = "idle"
      BY <2>5 DEF Come
    <3>2. /\ x \in RequestRecords /\ x.stage = "user" /\ x.subject = s /\ x.had = AccessOf(s)
      BY <1>a, AccessType DEF RequestRecords, NoRequest
    <3> HIDE DEF x
    <3>3. Turns(r, request'[r]) /\ request'[r] = x
      BY <1>a, <3>1, <3>2 DEF Turns
    <3>4. RequestOK(r)'
      BY <2>3, <3>2, <3>3 DEF RequestOK
    <3>5. QED
      BY <2>1, <2>2, <3>1, <3>2, <3>3, <3>4, ServeStep
  <2>6. CASE ReadUser(r)
    <3>1. request[r].stage = "user"
      BY <2>6 DEF ReadUser
    <3>2. CASE Answer(r, "no_account")
      <4>1. request[r].stage # "created" /\ "no_account" \in Answers
        BY <3>1 DEF Answers
      <4>2. QED
        BY <2>1, <2>4, <3>2, <4>1
    <3>3. ASSUME NEW u \in UserOf(request[r].subject),
                 request' = [request EXCEPT ![r].stage = "memberships",
                                            ![r].user = u, ![r].org = users[u].org]
          PROVE  APIInv'
      <4>1. /\ u \in Deliveries /\ users[u] # None /\ users[u].org \in Orgs
            /\ users[u].subject = request[r].subject
        BY <1>a, Rows DEF UserOf
      <4>2. PICK o \in Orgs : o = users[u].org
        BY <4>1
      <4> DEFINE x == [request[r] EXCEPT !.stage = "memberships", !.user = u, !.org = o]
      <4>3. request' = [request EXCEPT ![r] = x] /\ request[r] \in RequestRecords
        BY <1>a, <3>3, <4>2
      <4>4. /\ x \in RequestRecords /\ x.stage = "memberships" /\ x.user = u /\ x.org = o
            /\ x.subject = request[r].subject /\ x.had = request[r].had
        BY <4>1, <4>3 DEF RequestRecords
      <4> HIDE DEF x
      <4>5. Turns(r, request'[r]) /\ request'[r] = x
        BY <1>a, <4>3, <4>4 DEF Turns
      <4>6. RequestOK(r)'
        BY <1>a, <2>2, <2>3, <3>1, <4>1, <4>4, <4>5 DEF RequestOK
      <4>7. QED
        BY <2>1, <2>2, <3>1, <4>4, <4>5, <4>6, ServeStep
    <3>4. QED
      <4>1. \/ Answer(r, "no_account")
            \/ \E u \in UserOf(request[r].subject) :
                   request' = [request EXCEPT ![r].stage = "memberships",
                                              ![r].user = u, ![r].org = users[u].org]
        BY <2>6 DEF ReadUser
      <4>2. QED
        BY <2>1, <3>2, <3>3, <4>1
  <2>7. CASE ReadMemberships(r)
    <3>1. request[r].stage = "memberships"
      BY <2>7 DEF ReadMemberships
    <3>2. CASE Answer(r, "no_account")
      <4>1. request[r].stage # "created" /\ "no_account" \in Answers
        BY <3>1 DEF Answers
      <4>2. QED
        BY <2>1, <2>4, <3>2, <4>1
    <3>3. ASSUME NEW m \in MembershipsOf(request[r].user, request[r].org),
                 request' = [request EXCEPT ![r].stage = "serve", ![r].principal = PrincipalOf(r, m)]
          PROVE  APIInv'
      <4>1. /\ m \in Deliveries /\ memberships[m] # None
            /\ memberships[m].user = request[r].user /\ memberships[m].org = request[r].org
            /\ memberships[m].role \in GrantedRoles
        BY <1>a, Rows DEF MembershipsOf
      <4>2. /\ request[r].subject \in Subjects
            /\ AccessOf(request[r].subject) \subseteq request[r].had
            /\ request[r].user \in Deliveries /\ request[r].org \in Orgs
            /\ users[request[r].user] # None
            /\ users[request[r].user].subject \in {request[r].subject, None}
        BY <1>a, <3>1 DEF RequestOK
      <4>3. PICK p : p = PrincipalOf(r, m)
        OBVIOUS
      <4>4. /\ p \in Principals /\ p.userId = request[r].user
            /\ p.organizationId = request[r].org /\ p.role = memberships[m].role
        BY <4>1, <4>2, <4>3, MembersAssumption DEF PrincipalOf, Principals
      <4>5. \/ [org |-> p.organizationId, role |-> p.role] \in request[r].had
            \/ users[p.userId].subject = None
        <5> SUFFICES ASSUME users[request[r].user].subject = request[r].subject
                     PROVE  [org |-> p.organizationId, role |-> p.role] \in request[r].had
          BY <4>2, <4>4
        <5>1. users[request[r].user].org = request[r].org
          BY <4>1 DEF TableInv, TenantsAgree
        <5>2. request[r].user \in UserOf(request[r].subject)
          BY <4>2 DEF UserOf
        <5>3. [org |-> p.organizationId, role |-> p.role] \in AccessOf(request[r].subject)
          BY <4>4, <5>1, <5>2, AccessMembers
        <5>4. QED
          BY <4>2, <5>3
      <4> DEFINE x == [request[r] EXCEPT !.stage = "serve", !.principal = p]
      <4>6. request' = [request EXCEPT ![r] = x] /\ request[r] \in RequestRecords
        BY <1>a, <3>3, <4>3
      <4>7. /\ x \in RequestRecords /\ x.stage = "serve" /\ x.principal = p
            /\ x.had = request[r].had
        BY <4>4, <4>6 DEF RequestRecords
      <4> HIDE DEF x
      <4>8. Turns(r, request'[r]) /\ request'[r] = x
        BY <1>a, <4>6, <4>7 DEF Turns
      <4>9. RequestOK(r)'
        BY <2>2, <4>2, <4>4, <4>7, <4>8 DEF RequestOK
      <4>10. QED
        BY <2>1, <2>2, <3>1, <4>4, <4>5, <4>7, <4>8, <4>9, ServeStep
    <3>4. QED
      <4>1. \/ Answer(r, "no_account")
            \/ \E m \in MembershipsOf(request[r].user, request[r].org) :
                   request' = [request EXCEPT ![r].stage = "serve",
                                              ![r].principal = PrincipalOf(r, m)]
        BY <2>7 DEF ReadMemberships
      <4>2. QED
        BY <2>1, <3>2, <3>3, <4>1
  <2>8. ASSUME NEW id \in Requests, ReadObjective(r, id) \/ DispatchTask(r, id)
        PROVE  APIInv'
    <3>1. request[r].stage = "serve"
      BY <2>8 DEF ReadObjective, DispatchTask
    <3>2. \E answer \in Answers : Answer(r, answer)
      BY <2>8 DEF ReadObjective, DispatchTask, Answers
    <3>3. PICK answer \in Answers : Answer(r, answer)
      BY <3>2
    <3>4. request[r].stage # "created"
      BY <3>1
    <3>5. QED
      BY <2>4, <3>3, <3>4
  <2>9. CASE FailRequest(r)
    <3>1. request[r].stage # "created" /\ Answer(r, "failed") /\ "failed" \in Answers
      BY <2>9 DEF FailRequest, Answers
    <3>2. QED
      BY <2>1, <2>4, <3>1
  <2>10. CASE \E body \in Bodies : CreateObjective(r, body)
    BY <1>1, <2>10
  <2>11. QED
    BY <2>1, <2>5, <2>6, <2>7, <2>8, <2>9, <2>10 DEF Serve
<1>3. QED
  BY <1>1, <1>2
     DEF Serve, Come, ReadUser, ReadMemberships, ReadObjective, DispatchTask, FailRequest

\* A step of a delivery: what it gives is noted for the requests that wait.
LEMMA ProvisionStep ==
    ASSUME TableInv, APIInv, Provision
    PROVE  TableInv' /\ APIInv'
<1>a. TypeOK /\ APITypeOK /\ request \in [Requests -> RequestRecords]
  BY DEF TableInv, APIInv, APITypeOK
<1>1. Next /\ TableInv' /\ TypeOK'
  BY NextTables DEF Provision, TableInv
<1>2. objectives' = objectives
  BY <1>1 DEF Next, Handle, Receive, SelectOrg, WriteOrg, SelectUser, WriteUser, SelectMember,
              WriteMember, Commit, Delete, Revoke, Fail, tables
<1>3. \A u \in Deliveries : users[u] # None =>
          users'[u] # None /\ users'[u].subject \in {users[u].subject, None}
  BY <1>1, SubjectKept
<1>4. ASSUME NEW s
      PROVE  AccessOf(s)' \subseteq Grants
  <2> SUFFICES ASSUME NEW a \in AccessOf(s)'
               PROVE  a \in Grants
    OBVIOUS
  <2>1. PICK u \in UserOf(s)' :
          \E m \in MembershipsOf(u, users[u].org)' :
              a = [org |-> users'[u].org, role |-> memberships'[m].role]
    BY AccessMembers
  <2>2. PICK m \in MembershipsOf(u, users[u].org)' :
          a = [org |-> users'[u].org, role |-> memberships'[m].role]
    BY <2>1
  <2>3. /\ u \in Deliveries /\ users'[u] # None
        /\ m \in Deliveries /\ memberships'[m] # None
    BY DEF UserOf, MembershipsOf
  <2>4. users'[u] \in UserRows /\ memberships'[m] \in MembershipRows
    BY <1>1, <2>3 DEF TypeOK
  <2>5. QED
    BY <2>2, <2>4 DEF UserRows, MembershipRows, Grants
<1>5. ASSUME NEW r \in Requests
      PROVE  /\ request'[r] \in RequestRecords
             /\ RequestOK(r)'
             /\ request[r].stage \notin {"user", "memberships"} => request'[r] = request[r]
             /\ request[r].stage \in {"user", "memberships"} =>
                    request'[r].stage \in {"user", "memberships"}
  <2>a. RequestOK(r) /\ request[r] \in RequestRecords
    BY <1>a DEF APIInv
  <2>1. CASE request[r].stage \in {"user", "memberships"}
    <3>1. PICK s \in Subjects : s = request[r].subject
      BY <2>1, <2>a DEF RequestOK
    <3>2. PICK had : had = request[r].had \cup AccessOf(s)'
      OBVIOUS
    <3>3. request'[r] = [request[r] EXCEPT !.had = had]
      <4>1. Access' = [t \in Subjects |-> AccessOf(t)']
        BY DEF Access
      <4>2. Access'[s] = AccessOf(s)'
        BY <4>1
      <4>3. request'[r] = [request[r] EXCEPT !.had = @ \cup Access'[s]]
        BY <2>1, <3>1 DEF Provision
      <4>4. QED
        BY <3>2, <4>2, <4>3
    <3>4. had \in SUBSET Grants
      BY <1>4, <2>a, <3>2 DEF RequestRecords
    <3>5. /\ request'[r] \in RequestRecords
          /\ request'[r].had = had
          /\ request'[r].stage = request[r].stage
          /\ request'[r].subject = s
          /\ request'[r].user = request[r].user
          /\ request'[r].org = request[r].org
      BY <2>a, <3>1, <3>3, <3>4 DEF RequestRecords
    <3>6. AccessOf(request[r].subject)' = AccessOf(s)'
      BY <3>5 DEF AccessOf, UserOf, MembershipsOf
    <3>7. RequestOK(r)'
      BY <1>3, <2>1, <2>a, <3>1, <3>2, <3>5, <3>6 DEF RequestOK
    <3>8. QED
      BY <2>1, <3>5, <3>7
  <2>2. CASE request[r].stage \notin {"user", "memberships"}
    <3>1. request'[r] = request[r]
      BY <2>2 DEF Provision
    <3>2. request[r].stage = "serve" => request[r].principal.userId \in Deliveries
      BY <2>a DEF RequestOK, Principals
    <3>3. RequestOK(r)'
      BY <1>3, <2>2, <2>a, <3>1, <3>2 DEF RequestOK
    <3>4. QED
      BY <2>2, <2>a, <3>1, <3>3
  <2>3. QED
    BY <2>1, <2>2
<1>6. APITypeOK'
  <2>1. request' \in [Requests -> RequestRecords]
    BY <1>5 DEF Provision
  <2>2. QED
    BY <1>1, <1>2, <1>a, <2>1 DEF APITypeOK
<1>7. AdmittedHadAccess'
  <2> SUFFICES ASSUME NEW r \in Requests, request'[r].stage = "serve"
               PROVE  LET principal == request'[r].principal IN
                      \/ [org |-> principal.organizationId, role |-> principal.role]
                             \in request'[r].had
                      \/ users'[principal.userId].subject = None
    BY DEF AdmittedHadAccess
  <2>1. request'[r] = request[r] /\ request[r].stage = "serve"
    BY <1>5
  <2>2. request[r].principal.userId \in Deliveries /\ users[request[r].principal.userId] # None
    BY <2>1 DEF APIInv, RequestOK, Principals
  <2>3. QED
    BY <1>3, <2>1, <2>2 DEF APIInv, AdmittedHadAccess
<1>8. CreatedInv'
  <2>1. \A row \in objectives : row.id \in Requests /\ request'[row.id] = request[row.id]
    BY <1>5, <1>a DEF APITypeOK, APIInv, CreatedInv
  <2>2. QED
    BY <1>2, <2>1 DEF APIInv, CreatedInv, TeamId
<1>9. QED
  BY <1>1, <1>5, <1>6, <1>7, <1>8 DEF APIInv

LEMMA APIInvariant == SpecAPI => [](TableInv /\ APIInv)
<1>1. InitAPI => TableInv /\ APIInv
  <2> SUFFICES ASSUME InitAPI
               PROVE  TableInv /\ APIInv
    OBVIOUS
  <2>1. TableInv /\ TypeOK
    BY InitTables DEF InitAPI, TableInv
  <2>2. NoRequest \in RequestRecords /\ NoRequest.stage = "idle"
    BY DEF NoRequest, RequestRecords
  <2>3. objectives = {} /\ request = [r \in Requests |-> NoRequest]
    BY DEF InitAPI, Init
  <2>4. APITypeOK
    BY <2>1, <2>2, <2>3 DEF APITypeOK
  <2>5. \A r \in Requests : RequestOK(r)
    BY <2>2, <2>3 DEF RequestOK
  <2>6. AdmittedHadAccess /\ CreatedInv
    BY <2>2, <2>3 DEF AdmittedHadAccess, CreatedInv
  <2>7. QED
    BY <2>1, <2>4, <2>5, <2>6 DEF APIInv
<1>2. TableInv /\ APIInv /\ [NextAPI]_allVars => TableInv' /\ APIInv'
  <2> SUFFICES ASSUME TableInv, APIInv, [NextAPI]_allVars
               PROVE  TableInv' /\ APIInv'
    OBVIOUS
  <2>1. CASE Provision
    BY <2>1, ProvisionStep
  <2>2. ASSUME NEW r \in Requests, Serve(r)
        PROVE  TableInv' /\ APIInv'
    BY <2>2, ServeTables
  <2>3. CASE UNCHANGED allVars
    <3>1. UNCHANGED vars /\ request' = request
      BY <2>3 DEF allVars
    <3>2. TableInv'
      BY <3>1, TablesKept
    <3>3. users' = users /\ memberships' = memberships /\ objectives' = objectives
      BY <3>1 DEF vars
    <3>4. \A s : AccessOf(s)' = AccessOf(s)
      BY <3>3 DEF AccessOf, UserOf, MembershipsOf
    <3>5. APIInv'
      BY <3>1, <3>2, <3>3, <3>4
         DEF APIInv, APITypeOK, TableInv, RequestOK, AdmittedHadAccess, CreatedInv, TeamId
    <3>6. QED
      BY <3>2, <3>5
  <2>4. QED
    BY <2>1, <2>2, <2>3 DEF NextAPI
<1>3. QED
  BY <1>1, <1>2, PTL DEF SpecAPI

\* Requests and tables keep their types.
THEOREM APITypeCorrect == SpecAPI => []APITypeOK
<1>1. APIInv => APITypeOK
  BY DEF APIInv
<1>2. QED
  BY <1>1, APIInvariant, PTL

\* upsertMembership selects before it inserts, and no key forbids a second row: yet
\* syncs of one user never leave two memberships of one organization.
THEOREM MembershipIsUnique == SpecAPI => []OneMembership
<1>1. TableInv => OneMembership
  BY DEF TableInv
<1>2. QED
  BY <1>1, APIInvariant, PTL

\* Memberships and objectives stay in the organization of their user, whoever moves
\* users while requests create objectives.
THEOREM TenancyIsKept == SpecAPI => []TenantsAgree
<1>1. TableInv => TenantsAgree
  BY DEF TableInv
<1>2. QED
  BY <1>1, APIInvariant, PTL

\* A principal put together by two reads carries access its subject had since the
\* request came, or its subject has been revoked.
THEOREM AdmittedWithAccess == SpecAPI => []AdmittedHadAccess
<1>1. APIInv => AdmittedHadAccess
  BY DEF APIInv
<1>2. QED
  BY <1>1, APIInvariant, PTL

\* Whoever created an objective may read it, in whatever role.
THEOREM CreatorsMayRead == SpecAPI => []CreatorMayRead
<1>1. APIInv => CreatorMayRead
  <2> SUFFICES ASSUME APIInv, NEW row \in objectives, NEW role \in GrantedRoles
               PROVE  ReadDecision([request[row.id].principal EXCEPT !.role = role], row) = "allow"
    BY DEF CreatorMayRead
  <2>1. PICK p \in Principals : p = request[row.id].principal
    BY DEF APIInv, CreatedInv
  <2>2. HasScopeAccess(p, Resource(row.org, row.scope, row.owner, TeamId(row), row.projectId))
    BY <2>1 DEF APIInv, CreatedInv
  <2>3. PICK q : q = [p EXCEPT !.role = role]
    OBVIOUS
  <2>4. /\ q.organizationId = p.organizationId /\ q.userId = p.userId /\ q.role = role
        /\ q.teamIds = p.teamIds /\ q.projectIds = p.projectIds
    BY <2>3 DEF Principals
  <2>5. PICK resource : resource = Resource(q.organizationId, row.scope, row.owner,
                                            TeamId(row), row.projectId)
    OBVIOUS
  <2>6. HasScopeAccess(q, resource) /\ resource.organizationId = q.organizationId
    BY <2>2, <2>4, <2>5 DEF HasScopeAccess, Resource
  <2>7. ~ IsBlockedByKillSwitch(OBJECTIVE_READ_ACTION, NoKillSwitches)
    BY DEF IsBlockedByKillSwitch, OBJECTIVE_READ_ACTION
  <2>8. ~ (OBJECTIVE_READ_ACTION.authorityLevel > DefaultRoleCeilings[q.role])
    BY <2>4 DEF OBJECTIVE_READ_ACTION, DefaultRoleCeilings, GrantedRoles, OBSERVE, ROUTINE_ACTION,
                NEVER_AUTONOMOUS
  <2>9. /\ OBJECTIVE_READ_ACTION.authorityLevel # NEVER_AUTONOMOUS
        /\ OBJECTIVE_READ_ACTION.authorityLevel # APPROVAL_REQUIRED
    BY DEF OBJECTIVE_READ_ACTION, OBSERVE, NEVER_AUTONOMOUS, APPROVAL_REQUIRED
  <2>10. Reason(q, OBJECTIVE_READ_ACTION, resource, NoKillSwitches) = "ok"
    BY <2>6, <2>7, <2>8, <2>9 DEF Reason
  <2>11. ReadDecision(q, row) = "allow"
    BY <2>5, <2>10 DEF ReadDecision, Evaluate, Effect
  <2>12. QED
    BY <2>1, <2>3, <2>11
<1>2. QED
  BY <1>1, APIInvariant, PTL

-----------------------------------------------------------------------------
(***************************************************************************)
(* The refinement: whatever a step does to the tables, it leaves the       *)
(* access of all subjects but one as it was, and changes the access of     *)
(* that one as MemberDirectory lets it.                                    *)
(***************************************************************************)
\* The tables change the access of s alone: not at all, to none, or to a grant of
\* the organization s already has access to, if any.
ChangesAccess(s) ==
    /\ \A t \in Subjects : t # s => AccessOf(t)' = AccessOf(t)
    /\ \/ AccessOf(s)' = AccessOf(s)
       \/ AccessOf(s)' = {}
       \/ \E grant \in Grants :
             AccessOf(s)' = {grant} /\ \A a \in AccessOf(s) : a.org = grant.org

\* What the directory says of the access the tables give.
Shown(s) == IF AccessOf(s) = {} THEN None ELSE CHOOSE a \in AccessOf(s) : TRUE

LEMMA ChangesDirectory ==
    ASSUME NEW s \in Subjects, ChangesAccess(s)
    PROVE  [Directory!Next]_([t \in Subjects |-> Shown(t)])
<1> DEFINE access == [t \in Subjects |-> Shown(t)]
<1>1. \A t \in Subjects : t # s => Shown(t)' = Shown(t)
  <2> SUFFICES ASSUME NEW t \in Subjects, t # s
               PROVE  Shown(t)' = Shown(t)
    OBVIOUS
  <2>1. AccessOf(t)' = AccessOf(t)
    BY DEF ChangesAccess
  <2>2. QED
    BY <2>1 DEF Shown
<1>2. access \in [Subjects -> {Shown(t) : t \in Subjects}] /\ access[s] = Shown(s)
  OBVIOUS
<1>3. access' = [t \in Subjects |-> Shown(t)']
  OBVIOUS
<1>4. access' = [access EXCEPT ![s] = Shown(s)']
  BY <1>1, <1>3
<1>5. CASE AccessOf(s)' = AccessOf(s)
  <2>1. Shown(s)' = Shown(s)
    BY <1>5 DEF Shown
  <2>2. QED
    BY <1>1, <1>3, <2>1
<1>6. CASE AccessOf(s)' = {}
  <2>1. Shown(s)' = None
    BY <1>6 DEF Shown
  <2>2. Directory!Withdraw(s)
    BY <1>4, <2>1 DEF Directory!Withdraw, Shown
  <2>3. QED
    BY <2>2 DEF Directory!Next
<1>7. ASSUME NEW grant \in Grants,
             AccessOf(s)' = {grant}, \A a \in AccessOf(s) : a.org = grant.org
      PROVE  Directory!Next
  <2>1. Shown(s)' = grant
    BY <1>7 DEF Shown
  <2>2. Shown(s) = None \/ Shown(s).org = grant.org
    BY <1>7 DEF Shown
  <2>3. Directory!Sync(s, grant)
    BY <1>2, <1>4, <2>1, <2>2 DEF Directory!Sync, Shown
  <2>4. grant \in Directory!Grants
    BY DEF Grants, Directory!Grants
  <2>5. QED
    BY <2>3, <2>4 DEF Directory!Next
<1>8. QED
  BY <1>5, <1>6, <1>7 DEF ChangesAccess

\* The access of a subject whose users, and their memberships, stay as they are.
LEMMA AccessKept ==
    ASSUME NEW s,
           \A u \in Deliveries :
               /\ u \in UserOf(s)' <=> u \in UserOf(s)
               /\ u \in UserOf(s) =>
                      /\ users'[u].org = users[u].org
                      /\ \A m \in Deliveries :
                             /\ m \in MembershipsOf(u, users[u].org)'
                                    <=> m \in MembershipsOf(u, users[u].org)
                             /\ m \in MembershipsOf(u, users[u].org) =>
                                    memberships'[m].role = memberships[m].role
    PROVE  AccessOf(s)' = AccessOf(s)
<1>1. UserOf(s) \subseteq Deliveries /\ UserOf(s)' \subseteq Deliveries
  BY DEF UserOf
<1>2. \A u : /\ MembershipsOf(u, users[u].org) \subseteq Deliveries
             /\ MembershipsOf(u, users[u].org)' \subseteq Deliveries
  BY DEF MembershipsOf
<1>3. ASSUME NEW a
      PROVE  a \in AccessOf(s)' <=> a \in AccessOf(s)
  <2>1. a \in AccessOf(s) <=>
          \E u \in UserOf(s) : \E m \in MembershipsOf(u, users[u].org) :
              a = [org |-> users[u].org, role |-> memberships[m].role]
    BY AccessMembers
  <2>2. a \in AccessOf(s)' <=>
          \E u \in UserOf(s)' : \E m \in MembershipsOf(u, users[u].org)' :
              a = [org |-> users'[u].org, role |-> memberships'[m].role]
    BY AccessMembers
  <2>3. QED
    BY <1>1, <1>2, <2>1, <2>2
<1>4. QED
  BY <1>3

LEMMA CommitAccess ==
    ASSUME TableInv, TableInv', NEW d \in Deliveries, Commit(d)
    PROVE  \/ \A s \in Subjects : AccessOf(s)' = AccessOf(s)
           \/ \E s \in Subjects : ChangesAccess(s)
<1>1. PICK u, m, event : u = delivery[d].user /\ m = delivery[d].member /\ event = delivery[d].event
  OBVIOUS
<1>a. /\ TypeOK /\ RowInv /\ OneUser /\ OneMembership /\ TenantsAgree
      /\ RowInv' /\ OneUser' /\ OneMembership' /\ TenantsAgree'
      /\ LockOK(d) /\ MoveOK(d)
  BY DEF TableInv, DeliveryOK
<1>2. /\ delivery[d].stage = "commit"
      /\ event.org \in Orgs /\ event.subject \in Subjects
      /\ u \in Deliveries
      /\ users[u] = None <=> u = d
      /\ users' \in [Deliveries -> UserRows \cup {None}]
      /\ users'[u] # None
      /\ users'[u].subject = IF u = d THEN event.subject ELSE users[u].subject
      /\ users'[u].org = event.org
      /\ \A v \in Deliveries : v # u => users'[v] = users[v]
  BY <1>1, CommitResult
<1>3. /\ m \in Deliveries \cup {None}
      /\ m = None => memberships' = memberships
      /\ m # None => /\ memberships'[m] # None
                     /\ memberships'[m].user = u
                     /\ memberships'[m].org = event.org
                     /\ memberships'[m].role = MapClerkRole(event.role)
      /\ m = d => memberships[d] = None /\ MembershipsOf(u, event.org) = {}
      /\ m # d /\ m # None => /\ memberships[m] # None
                              /\ memberships[m].user = u
                              /\ memberships[m].org = event.org
      /\ \A n \in Deliveries : n # m => memberships'[n] = memberships[n]
  BY <1>1, CommitMemberships
<1>n. None \notin Deliveries /\ None \notin Subjects
  BY NoneAssumption
<1>4. u = d => UserOf(event.subject) = {}
  BY <1>1, <1>2, <1>a DEF LockOK, Holding
<1>5. u # d /\ users[u].org # event.org => MembershipsOf(u, users[u].org) = {}
  BY <1>1, <1>2, <1>a DEF MoveOK, Holding, Referenced
<1>6. \A v, n \in Deliveries :
          v # u => /\ memberships'[n] # None /\ memberships'[n].user = v
                          <=> memberships[n] # None /\ memberships[n].user = v
                   /\ memberships[n] # None /\ memberships[n].user = v =>
                          memberships'[n] = memberships[n]
  BY <1>3, <1>n
\* The others keep their access.
<1>7. ASSUME NEW t \in Subjects, t # users'[u].subject
      PROVE  AccessOf(t)' = AccessOf(t)
  <2>1. ASSUME NEW v \in Deliveries
        PROVE  v \in UserOf(t)' <=> v \in UserOf(t)
    <3>1. CASE v = u
      BY <1>2, <1>7, <3>1 DEF UserOf
    <3>2. CASE v # u
      BY <1>2, <3>2 DEF UserOf
    <3>3. QED
      BY <3>1, <3>2
  <2>2. ASSUME NEW v \in Deliveries, v \in UserOf(t)
        PROVE  v # u /\ users'[v] = users[v]
    BY <1>2, <1>7, <2>2 DEF UserOf
  <2>3. ASSUME NEW v \in Deliveries, v \in UserOf(t), NEW n \in Deliveries
        PROVE  /\ n \in MembershipsOf(v, users[v].org)' <=> n \in MembershipsOf(v, users[v].org)
               /\ n \in MembershipsOf(v, users[v].org) =>
                      memberships'[n].role = memberships[n].role
    BY <1>6, <2>2, <2>3 DEF MembershipsOf
  <2>4. QED
    BY <2>1, <2>2, <2>3, AccessKept
<1>8. CASE users'[u].subject \notin Subjects
  BY <1>7, <1>8
<1>9. CASE users'[u].subject \in Subjects
  <2>1. PICK s \in Subjects : s = users'[u].subject
    BY <1>9
  \* s has access to the event's organization at most.
  <2>2. ASSUME NEW v \in UserOf(s)
        PROVE  v = u /\ u # d
    <3>1. v \in Deliveries /\ users[v] # None /\ users[v].subject = s
      BY DEF UserOf
    <3>2. u # d
      <4>1. CASE u = d
        BY <1>2, <1>4, <2>1, <4>1
      <4>2. QED
        BY <4>1
    <3>3. users[u] # None /\ users[u].subject = s
      BY <1>2, <2>1, <3>2
    <3>4. QED
      BY <1>2, <1>a, <1>n, <3>1, <3>2, <3>3 DEF OneUser
  <2>3. ASSUME NEW v \in UserOf(s), MembershipsOf(v, users[v].org) # {}
        PROVE  users[v].org = event.org
    BY <1>5, <2>2, <2>3
  <2>4. \A a \in AccessOf(s) : a.org = event.org
    <3> SUFFICES ASSUME NEW a \in AccessOf(s)
                 PROVE  a.org = event.org
      OBVIOUS
    <3>1. PICK v \in UserOf(s) :
            \E n \in MembershipsOf(v, users[v].org) :
                a = [org |-> users[v].org, role |-> memberships[n].role]
      BY AccessMembers
    <3>2. a.org = users[v].org /\ MembershipsOf(v, users[v].org) # {}
      BY <3>1
    <3>3. QED
      BY <2>3, <3>2
  <2>5. UserOf(s)' = {u}
    <3>1. u \in UserOf(s)'
      BY <1>2, <2>1 DEF UserOf
    <3>2. ASSUME NEW v \in UserOf(s)'
          PROVE  v = u
      BY <1>2, <1>a, <1>n, <2>1 DEF UserOf, OneUser
    <3>3. QED
      BY <3>1, <3>2
  <2>6. \A a : a \in AccessOf(s)' <=>
            \E n \in MembershipsOf(u, event.org)' :
                a = [org |-> event.org, role |-> memberships'[n].role]
    <3>1. MembershipsOf(u, users[u].org)' = MembershipsOf(u, event.org)'
      BY <1>2 DEF MembershipsOf
    <3>2. QED
      BY <1>2, <2>5, <3>1, AccessMembers
  <2>7. CASE m # None
    <3>1. m \in MembershipsOf(u, event.org)'
      BY <1>3, <2>7 DEF MembershipsOf
    <3>2. ASSUME NEW n \in MembershipsOf(u, event.org)'
          PROVE  n = m
      BY <1>3, <1>a, <2>7, <3>1 DEF MembershipsOf, OneMembership
    <3>3. PICK grant : grant = [org |-> event.org, role |-> memberships'[m].role]
      OBVIOUS
    <3>4. AccessOf(s)' = {grant}
      BY <2>6, <3>1, <3>2, <3>3
    <3>5. grant \in Grants /\ grant.org = event.org
      <4>1. memberships'[m].role \in GrantedRoles
        BY <1>3, <2>7 DEF MapClerkRole, GrantedRoles
      <4>2. QED
        BY <1>2, <3>3, <4>1 DEF Grants
    <3>6. ChangesAccess(s)
      BY <1>7, <2>1, <2>4, <3>4, <3>5 DEF ChangesAccess
    <3>7. QED
      BY <3>6
  <2>8. CASE m = None
    <3>1. memberships' = memberships
      BY <1>3, <2>8
    <3>2. AccessOf(s)' = AccessOf(s)
      <4>1. CASE u # d /\ users[u].org = event.org
        <5>1. users' = users
          <6>1. users[u] \in UserRows /\ users'[u] \in UserRows
            BY <1>2, <1>a, <4>1 DEF TypeOK
          <6>2. users'[u] = users[u]
            BY <1>2, <4>1, <6>1 DEF UserRows
          <6>3. QED
            <7>1. \A v \in Deliveries : users'[v] = users[v]
              BY <1>2, <6>2
            <7>2. users \in [Deliveries -> UserRows \cup {None}]
              BY <1>a DEF TypeOK
            <7>3. QED
              BY <1>2, <7>1, <7>2
        <5>2. QED
          BY <3>1, <5>1 DEF AccessOf, UserOf, MembershipsOf
      <4>2. CASE u = d \/ users[u].org # event.org
        <5>1. MembershipsOf(u, event.org)' = {}
          <6> SUFFICES ASSUME NEW n \in Deliveries, memberships[n] # None,
                              memberships[n].user = u, memberships[n].org = event.org
                       PROVE  FALSE
            BY <3>1 DEF MembershipsOf
          <6>1. u # d /\ users[u].org = event.org
            BY <1>2, <1>a DEF RowInv, TenantsAgree
          <6>2. QED
            BY <4>2, <6>1
        <5>2. AccessOf(s)' = {}
          BY <2>6, <5>1
        <5>3. AccessOf(s) = {}
          <6> SUFFICES ASSUME NEW a \in AccessOf(s)
                       PROVE  FALSE
            OBVIOUS
          <6>1. PICK v \in UserOf(s) :
                  \E n \in MembershipsOf(v, users[v].org) :
                      a = [org |-> users[v].org, role |-> memberships[n].role]
            BY AccessMembers
          <6>2. v = u /\ u # d /\ users[u].org = event.org
            BY <2>2, <2>3, <6>1
          <6>3. QED
            BY <4>2, <6>2
        <5>4. QED
          BY <5>2, <5>3
      <4>3. QED
        BY <4>1, <4>2
    <3>3. ChangesAccess(s)
      BY <1>7, <2>1, <3>2 DEF ChangesAccess
    <3>4. QED
      BY <3>3
  <2>9. QED
    BY <2>7, <2>8
<1>10. QED
  BY <1>8, <1>9

LEMMA DeleteAccess ==
    ASSUME TableInv, NEW d \in Deliveries, Delete(d)
    PROVE  \/ \A s \in Subjects : AccessOf(s)' = AccessOf(s)
           \/ \E s \in Subjects : ChangesAccess(s)
<1>1. PICK u, o, found :
        /\ u = delivery[d].user /\ o = delivery[d].event.org
        /\ found = MembershipsOf(u, o)
        /\ memberships' = [n \in Deliveries |-> IF n \in found THEN None ELSE memberships[n]]
        /\ users' = users
  BY DEF Delete
<1>a. TypeOK /\ OneUser /\ TenantsAgree /\ UserOK(d)
  BY DEF TableInv, DeliveryOK
<1>2. delivery[d].stage = "delete" /\ u # None /\ users[u] # None /\ u \in Deliveries
  BY <1>1, <1>a DEF Delete, UserOK, TypeOK, DeliveryRecords
<1>3. ASSUME NEW v \in Deliveries, v # u, NEW p, NEW n \in Deliveries
      PROVE  /\ n \in MembershipsOf(v, p)' <=> n \in MembershipsOf(v, p)
             /\ n \in MembershipsOf(v, p) => memberships'[n].role = memberships[n].role
  BY <1>1, <1>3 DEF MembershipsOf
<1>4. ASSUME NEW t \in Subjects, u \notin UserOf(t)
      PROVE  AccessOf(t)' = AccessOf(t)
  <2>1. \A v \in Deliveries : v \in UserOf(t)' <=> v \in UserOf(t)
    BY <1>1 DEF UserOf
  <2>2. ASSUME NEW v \in Deliveries, v \in UserOf(t), NEW n \in Deliveries
        PROVE  /\ n \in MembershipsOf(v, users[v].org)' <=> n \in MembershipsOf(v, users[v].org)
               /\ n \in MembershipsOf(v, users[v].org) =>
                      memberships'[n].role = memberships[n].role
    BY <1>1, <1>4, <2>2 DEF MembershipsOf
  <2>3. QED
    BY <1>1, <2>1, <2>2, AccessKept
<1>5. CASE \E s \in Subjects : u \in UserOf(s)
  <2>1. PICK s \in Subjects : u \in UserOf(s)
    BY <1>5
  <2>2. \A t \in Subjects : t # s => u \notin UserOf(t)
    BY <2>1 DEF UserOf
  <2>3. ASSUME NEW v \in UserOf(s)
        PROVE  v = u
    BY <1>a, <2>1, NoneAssumption DEF UserOf, OneUser
  <2>4. UserOf(s)' = {u}
    BY <1>1, <2>1, <2>3 DEF UserOf
  <2>5. CASE users[u].org = o
    <3>1. MembershipsOf(u, users[u].org)' = {}
      BY <1>1, <2>5 DEF MembershipsOf
    <3>2. AccessOf(s)' = {}
      BY <2>4, <3>1, AccessMembers
    <3>3. ChangesAccess(s)
      BY <1>4, <2>2, <3>2 DEF ChangesAccess
    <3>4. QED
      BY <3>3
  <2>6. CASE users[u].org # o
    <3>1. found = {}
      BY <1>1, <1>a, <2>6 DEF MembershipsOf, TenantsAgree
    <3>2. memberships' = memberships
      BY <1>1, <1>a, <3>1 DEF TypeOK
    <3>3. QED
      BY <1>1, <3>2 DEF AccessOf, UserOf, MembershipsOf
  <2>7. QED
    BY <2>5, <2>6
<1>6. QED
  BY <1>4, <1>5

LEMMA RevokeAccess ==
    ASSUME TableInv, NEW d \in Deliveries, Revoke(d)
    PROVE  \/ \A s \in Subjects : AccessOf(s)' = AccessOf(s)
           \/ \E s \in Subjects : ChangesAccess(s)
<1>a. TypeOK /\ EventOK(d)
  BY DEF TableInv, DeliveryOK
<1>1. PICK s : s = delivery[d].event.subject
  OBVIOUS
<1>2. /\ delivery[d].stage = "revoke"
      /\ memberships' = memberships
      /\ \A v \in Deliveries :
             /\ users'[v] # None <=> users[v] # None
             /\ users'[v].org = users[v].org \/ users[v] = None
             /\ IF v \in UserOf(s) THEN users'[v].subject = None ELSE users'[v] = users[v]
  BY <1>1, <1>a, RevokeResult
<1>3. s \in Subjects /\ None \notin Subjects
  BY <1>1, <1>2, <1>a, EventFields, NoneAssumption DEF EventOK, Ended
<1>4. UserOf(s)' = {}
  BY <1>2, <1>3 DEF UserOf
<1>5. AccessOf(s)' = {}
  BY <1>4, AccessMembers
<1>6. ASSUME NEW t \in Subjects, t # s
      PROVE  AccessOf(t)' = AccessOf(t)
  <2>1. ASSUME NEW v \in Deliveries
        PROVE  v \in UserOf(t)' <=> v \in UserOf(t)
    BY <1>2, <1>3, <1>6 DEF UserOf
  <2>2. ASSUME NEW v \in Deliveries, v \in UserOf(t)
        PROVE  users'[v] = users[v]
    BY <1>2, <1>6, <2>2 DEF UserOf
  <2>3. ASSUME NEW v \in Deliveries, v \in UserOf(t), NEW n \in Deliveries
        PROVE  n \in MembershipsOf(v, users[v].org)' <=> n \in MembershipsOf(v, users[v].org)
    BY <1>2, <2>2, <2>3 DEF MembershipsOf
  <2>4. QED
    BY <1>2, <2>1, <2>2, <2>3, AccessKept
<1>7. ChangesAccess(s)
  BY <1>5, <1>6 DEF ChangesAccess
<1>8. QED
  BY <1>3, <1>7

\* However deliveries interleave, are repeated, reordered or fail, the tables change
\* access only as MemberDirectory lets it: one subject at a time, as a whole, and
\* from one organization to another only through none.
THEOREM DirectoryImplemented == SpecAPI => ImplementsDirectory
<1>1. InitAPI => Directory!Init
  <2> SUFFICES ASSUME InitAPI
               PROVE  Directory!Init
    OBVIOUS
  <2>1. TypeOK
    BY InitTables DEF InitAPI, TableInv
  <2>2. ASSUME NEW s \in Subjects
        PROVE  (IF AccessOf(s) = {} THEN None ELSE CHOOSE a \in AccessOf(s) : TRUE)
                   \in Directory!Grants \cup {None}
    <3>1. AccessOf(s) \subseteq Grants
      BY <2>1, AccessType
    <3>2. QED
      BY <3>1 DEF Grants, Directory!Grants
  <2>3. QED
    BY <2>2 DEF Directory!Init
<1>2. TableInv /\ TableInv' /\ APIInv /\ [NextAPI]_allVars =>
          [Directory!Next]_([t \in Subjects |-> Shown(t)])
  <2> SUFFICES ASSUME TableInv, TableInv', APIInv, [NextAPI]_allVars
               PROVE  [Directory!Next]_([t \in Subjects |-> Shown(t)])
    OBVIOUS
  <2>1. ASSUME \A s \in Subjects : AccessOf(s)' = AccessOf(s)
        PROVE  [Directory!Next]_([t \in Subjects |-> Shown(t)])
    <3>1. ASSUME NEW s \in Subjects
          PROVE  Shown(s)' = Shown(s)
      <4>1. AccessOf(s)' = AccessOf(s)
        BY <2>1
      <4>2. QED
        BY <4>1 DEF Shown
    <3>2. QED
      BY <3>1
  <2>2. CASE users' = users /\ memberships' = memberships
    <3>1. \A s \in Subjects : AccessOf(s)' = AccessOf(s)
      BY <2>2 DEF AccessOf, UserOf, MembershipsOf
    <3>2. QED
      BY <2>1, <3>1
  <2>3. ASSUME NEW d \in Deliveries, Commit(d) \/ Delete(d) \/ Revoke(d)
        PROVE  [Directory!Next]_([t \in Subjects |-> Shown(t)])
    <3>1. \/ \A s \in Subjects : AccessOf(s)' = AccessOf(s)
          \/ \E s \in Subjects : ChangesAccess(s)
      BY <2>3, CommitAccess, DeleteAccess, RevokeAccess
    <3>2. QED
      BY <2>1, <3>1, ChangesDirectory
  <2>4. CASE Provision
    <3>1. PICK d \in Deliveries :
            (\E event \in Events : Receive(d, event)) \/ Handle(d) \/ Fail(d)
      BY <2>4 DEF Provision, Next
    <3>2. \/ users' = users /\ memberships' = memberships
          \/ Commit(d) \/ Delete(d) \/ Revoke(d)
      BY <3>1 DEF Handle, Receive, SelectOrg, WriteOrg, SelectUser, WriteUser, SelectMember,
                  WriteMember, Fail, tables
    <3>3. QED
      BY <2>2, <2>3, <3>2
  <2>5. ASSUME NEW r \in Requests, Serve(r)
        PROVE  users' = users /\ memberships' = memberships
    BY <2>5 DEF Serve, Come, ReadUser, ReadMemberships, CreateObjective, ReadObjective,
                DispatchTask, FailRequest, vars
  <2>6. QED
    BY <2>2, <2>4, <2>5 DEF NextAPI, allVars, vars
<1>3. [Directory!Next]_([t \in Subjects |-> Shown(t)]) =>
          [Directory!Next]_([s \in Subjects |->
              IF AccessOf(s) = {} THEN None ELSE CHOOSE a \in AccessOf(s) : TRUE])
  BY DEF Shown
<1>4. QED
  BY <1>1, <1>2, <1>3, APIInvariant, PTL DEF SpecAPI, ImplementsDirectory, Directory!Spec
=============================================================================
