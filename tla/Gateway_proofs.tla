--------------------------- MODULE Gateway_proofs ---------------------------
(***************************************************************************)
(* Gateway for any environment, any request and any messages: a process    *)
(* that is not told it runs for development admits no one without proof,   *)
(* and loses nothing it confirmed; and the tables follow the provider.     *)
(***************************************************************************)
EXTENDS Gateway, SequenceTheorems, TLAPS

\* A process that serves has been given a configuration it accepts.
UpIsConfigured == server = "up" => Boots

IInv == UpIsConfigured /\ CreatedIsKept

-----------------------------------------------------------------------------
(* The configuration. *)

\* Whatever does not say development or test is production.
LEMMA ElseProduction == ~SaysDevelopment => ResolveAppEnv(env) = "production"
BY DEF SaysDevelopment, ResolveAppEnv, AppEnvOf

\* A production process that starts has the database and checks all of a token.
LEMMA FailsClosed ==
    ASSUME ~SaysDevelopment, Boots
    PROVE  /\ Config.database
           /\ Config.auth.kind = "jwt" /\ Config.auth.requireMfa
           /\ Config.auth.issuer /\ Config.auth.audience
           /\ Config.auth.mfaClaim =
                  IF env.AUTH_MFA_CLAIM = "unset" THEN "mfa" ELSE env.AUTH_MFA_CLAIM
<1>1. Config = [ok |-> MissingProductionVars(env) = {},
                database |-> Present(env.DATABASE_URL),
                auth |-> JwtAuth(env, TRUE),
                webhook |-> Present(env.CLERK_WEBHOOK_SECRET)]
  BY ElseProduction DEF Config, ResolveStartupConfig
<1>2. MissingProductionVars(env) = {}
  BY <1>1 DEF Boots
<1>3. Present(env["DATABASE_URL"]) /\ Present(env["AUTH_ISSUER"]) /\ Present(env["AUTH_AUDIENCE"])
  BY <1>2, Zenon DEF MissingProductionVars, RequiredVars
<1> QED
  BY <1>1, <1>3 DEF JwtAuth

\* A token that is verified under such a configuration was checked for everything.
LEMMA VerifiedIsProven ==
    ASSUME NEW auth, NEW token, auth.issuer, auth.audience, auth.requireMfa,
           VerifyToken(auth, token) = "verified"
    PROVE  token.signed /\ token.issued /\ token.addressed /\ auth.mfaClaim \in token.mfa
BY DEF VerifyToken, IsValid, MfaSatisfied

\* Only a verified token is admitted, as one of the principals of its subject.
LEMMA AdmittedIsVerified ==
    ASSUME NEW request, Config.auth.kind = "jwt", Authenticate(request).ok
    PROVE  /\ request.token # None
           /\ VerifyToken(Config.auth, request.token) = "verified"
           /\ Authenticate(request).principal \in PrincipalsOf(request.token.subject)
<1> DEFINE P == Resolved(request.token)
<1>1. Authenticate(request) = JwtAuthenticate(Config.auth, request, P)
  BY DEF Authenticate
<1> HIDE DEF P
<1>2. /\ request.token # None
      /\ VerifyToken(Config.auth, request.token) = "verified"
      /\ P # {}
      /\ Authenticate(request) = Admitted(CHOOSE p \in P : TRUE)
  BY <1>1 DEF JwtAuthenticate, Refusal
<1>3. (CHOOSE p \in P : TRUE) \in P
  BY <1>2
<1>4. P = PrincipalsOf(request.token.subject)
  BY <1>2 DEF P, Resolved
<1> QED
  BY <1>2, <1>3, <1>4 DEF Admitted

\* The second invariant follows from what the process was started with.
LEMMA ProvenWhenConfigured == UpIsConfigured => ProductionNeedsProof
<1> SUFFICES ASSUME UpIsConfigured, server = "up", ~SaysDevelopment,
                    NEW request \in Requests, Authenticate(request).ok
             PROVE  /\ request.token # None
                    /\ request.token.signed /\ request.token.issued /\ request.token.addressed
                    /\ (IF env.AUTH_MFA_CLAIM = "unset" THEN "mfa" ELSE env.AUTH_MFA_CLAIM)
                           \in request.token.mfa
                    /\ Authenticate(request).principal \in PrincipalsOf(request.token.subject)
  BY DEF ProductionNeedsProof
<1>1. Boots
  BY DEF UpIsConfigured
<1> QED
  BY <1>1, FailsClosed, AdmittedIsVerified, VerifiedIsProven

-----------------------------------------------------------------------------
(* The steps. *)

\* The steps of the provider and of the webhook.
LEMMA OutsideSteps ==
    ASSUME IInv, UNCHANGED <<env, server, items>>
    PROVE  IInv'
BY DEF IInv, UpIsConfigured, Boots, Config, CreatedIsKept, SaysDevelopment, items

\* What a process confirms it stores, if it is a production process.
LEMMA KeepInvariant ==
    ASSUME IInv, server = "up", NEW item, Keep(item)
    PROVE  IInv'
<1>1. UNCHANGED <<env, server>>
  BY DEF Keep
<1>2. UpIsConfigured'
  BY <1>1 DEF IInv, UpIsConfigured, Boots, Config
<1>3. CreatedIsKept'
  <2> SUFFICES ASSUME ~SaysDevelopment PROVE answered' \subseteq stored'
    BY <1>1 DEF CreatedIsKept, SaysDevelopment
  <2>1. Config.database
    BY FailsClosed DEF IInv, UpIsConfigured
  <2> QED
    BY <2>1 DEF Keep, IInv, CreatedIsKept
<1> QED
  BY <1>2, <1>3 DEF IInv

\* Every step keeps the invariant.
LEMMA NextInvariant == IInv /\ [Next]_vars => IInv'
<1> SUFFICES ASSUME IInv, [Next]_vars PROVE IInv'
  OBVIOUS
<1>1. CASE Start
  BY <1>1 DEF Start, IInv, UpIsConfigured, Boots, Config, CreatedIsKept, SaysDevelopment, items
<1>2. CASE Stop
  BY <1>2 DEF Stop, IInv, UpIsConfigured, Boots, Config, CreatedIsKept, SaysDevelopment
<1>3. CASE Provider
  <2>1. UNCHANGED <<env, server, items>>
    BY <1>3 DEF Provider, CreateAccount, ChangeEmail, Join, ChangeRole, Leave, DeleteAccount, Tell
  <2> QED
    BY <2>1, OutsideSteps
<1>4. CASE \E m \in pending : Lose(m) \/ Deliver(m) \/ Refuse(m)
  <2>1. UNCHANGED <<env, server, items>>
    BY <1>4 DEF Lose, Deliver, Refuse
  <2> QED
    BY <2>1, OutsideSteps
<1>5. CASE DeliverOther \/ UNCHANGED vars
  <2>1. UNCHANGED <<env, server, items>>
    BY <1>5 DEF DeliverOther, vars
  <2> QED
    BY <2>1, OutsideSteps
<1>6. ASSUME NEW request \in Requests, CreateObjective(request) PROVE IInv'
  BY <1>6, KeepInvariant DEF CreateObjective
<1>7. ASSUME NEW request \in Requests, DispatchTask(request) PROVE IInv'
  BY <1>7, KeepInvariant DEF DispatchTask
<1> QED
  BY <1>1, <1>2, <1>3, <1>4, <1>5, <1>6, <1>7 DEF Next

\* The invariant holds throughout.
LEMMA Invariance == Spec => []IInv
<1>1. Init => IInv
  BY DEF Init, IInv, UpIsConfigured, CreatedIsKept
<1> QED
  BY <1>1, NextInvariant, PTL DEF Spec

-----------------------------------------------------------------------------
\* Whatever environment a deployment has and whatever a request carries, unless the
\* environment says development or test a request is admitted only with a complete
\* token, and as what the tables make of its subject.
THEOREM NothingWithoutProof == Spec => []ProductionNeedsProof
<1>1. IInv => ProductionNeedsProof
  BY ProvenWhenConfigured DEF IInv
<1> QED
  BY <1>1, Invariance, PTL

\* Whatever crashes, what such a process told a client is created is in the database.
THEOREM NothingConfirmedIsLost == Spec => []CreatedIsKept
<1>1. IInv => CreatedIsKept
  BY DEF IInv
<1> QED
  BY <1>1, Invariance, PTL

-----------------------------------------------------------------------------
(***************************************************************************)
(* The tables follow the provider.                                         *)
(*                                                                         *)
(* What the tables say of an account is not what the provider says while   *)
(* messages are on their way, but what it said after the newest message    *)
(* handled.  The invariant therefore speaks of a history h of the account: *)
(* h[n] is the access it had at the provider after the n-th message.       *)
(***************************************************************************)
Grants == [org : Orgs, role : {"admin", "team_member"}]
Accesses == {{}} \cup {{a} : a \in Grants}

UserTypes == {"user.created", "user.updated", "user.deleted"}
MemberTypes == {"organizationMembership.created", "organizationMembership.updated",
                "organizationMembership.deleted"}
Payloads ==
    [type : UserTypes, org : {None}, subject : Subjects, email : Emails \cup {None}, role : {None}]
    \cup [type : MemberTypes, org : Orgs, subject : Subjects, email : Emails \cup Subjects,
          role : ClerkRoles]

AccountsOK ==
    /\ accounts \in [Subjects -> [state : {"none", "live", "gone"}, email : Emails \cup {None},
                                  member : Memberships \cup {None}]]
    /\ \A s \in Subjects : accounts[s].state # "live" => accounts[s].member = None

MessagesOK ==
    /\ sent \in 0..MaxMessages
    /\ newest \in [Subjects -> 0..sent]
    /\ pending \subseteq [number : 1..sent, payload : Payloads, tries : Nat]

\* A user has one row, and memberships are of rows that exist.
TablesOK ==
    /\ users \in Seq([subject : Subjects \cup {None}, org : Orgs, email : Emails \cup Subjects])
    /\ members \subseteq [user : DOMAIN users, org : Orgs, role : {"admin", "team_member"}]
    /\ \A u, v \in DOMAIN users :
           users[u].subject = users[v].subject /\ users[u].subject # None => u = v

About(s) == {m \in pending : m.payload.subject = s}

\* A message is overtaken or given up, or will be.
Doomed(s) ==
    \/ s \in overtaken \cup givenUp
    \/ \E m \in About(s) : m.number < newest[s]

\* What a message says of the access before and after it.
Says(payload, before, after) ==
    LET event == ParseClerkEvent(payload) IN
    CASE event.kind = "sync"   -> after = {[org |-> event.org, role |-> event.role]}
      [] event.kind = "remove" -> after = {} /\ \A a \in before : a.org = event.org
      [] event.kind = "revoke" -> after = {}
      [] event.kind \in {"update", "malformed"} -> after = before

\* h is a history of s: the tables are where it was after the newest message
\* handled, the provider is at its end, and it changes only with a message.
History(s, h) ==
    /\ AccessOf(s) = h[newest[s]]
    /\ Granted(s) = h[sent]
    /\ \A m \in About(s) : Says(m.payload, h[m.number - 1], h[m.number])
    /\ \A i, j \in newest[s]..sent :
           i <= j /\ (\A m \in About(s) : m.number \notin (i + 1)..j) => h[i] = h[j]

Follows(s) == Doomed(s) \/ \E h \in [0..MaxMessages -> Accesses] : History(s, h)

FollowInv ==
    /\ AccountsOK /\ MessagesOK /\ TablesOK
    /\ \A s \in Subjects : Follows(s)

-----------------------------------------------------------------------------
(* What a payload says, and what a handler does to the tables. *)

\* Every payload the provider sends is malformed or parses to an event of its kind.
LEMMA Parsed ==
    ASSUME NEW payload \in Payloads
    PROVE  LET event == ParseClerkEvent(payload) IN
           /\ event.kind \in {"sync", "update", "remove", "revoke", "malformed"}
           /\ event.kind # "malformed" => event.subject = payload.subject
           /\ event.kind = "sync" => /\ event.org \in Orgs
                                     /\ event.email \in Emails \cup Subjects
                                     /\ event.role \in {"admin", "team_member"}
           /\ event.kind = "update" => event.email \in Emails
           /\ event.kind = "remove" => event.org \in Orgs
<1>1. CASE payload.type \in UserTypes
  <2>1. payload.subject \in Subjects /\ payload.email \in Emails \cup {None}
    BY <1>1 DEF Payloads, UserTypes, MemberTypes
  <2>2. CASE payload.type \in {"user.created", "user.updated"}
    <3>1. ParseClerkEvent(payload) = ParseUserUpdate(payload)
      BY <2>2 DEF ParseClerkEvent
    <3> QED
      BY <2>1, <3>1 DEF ParseUserUpdate, PrimaryEmail, Malformed
  <2>3. CASE payload.type = "user.deleted"
    <3>1. ParseClerkEvent(payload) = ParseDeletedId(payload)
      BY <2>3 DEF ParseClerkEvent
    <3> QED
      BY <2>1, <3>1 DEF ParseDeletedId, Malformed
  <2> QED
    BY <1>1, <2>2, <2>3 DEF UserTypes
<1>2. CASE payload.type \in MemberTypes
  <2>1. /\ payload.subject \in Subjects /\ payload.org \in Orgs
        /\ payload.email \in Emails \cup Subjects
    BY <1>2 DEF Payloads, UserTypes, MemberTypes
  <2>2. CASE payload.type = "organizationMembership.deleted"
    <3>1. ParseClerkEvent(payload) = ParseMembershipRef(payload)
      BY <2>2 DEF ParseClerkEvent
    <3> QED
      BY <2>1, <3>1 DEF ParseMembershipRef, Malformed
  <2>3. CASE payload.type # "organizationMembership.deleted"
    <3>1. ParseClerkEvent(payload) = ParseMembershipSync(payload)
      BY <1>2, <2>3 DEF ParseClerkEvent, MemberTypes
    <3> QED
      BY <2>1, <3>1 DEF ParseMembershipSync, MapClerkRole, Malformed
  <2> QED
    BY <2>2, <2>3
<1> QED
  BY <1>1, <1>2 DEF Payloads

\* m gives s access.
Gives(m, s) ==
    m \in members /\ m.user \in UserOf(s) /\ m.org = users[m.user].org

LEMMA AccessMembers ==
    ASSUME NEW s
    PROVE  \A a : a \in AccessOf(s) <=>
             \E m : Gives(m, s) /\ a = [org |-> m.org, role |-> m.role]
<1> SUFFICES ASSUME NEW a
             PROVE  a \in AccessOf(s) <=>
                      \E m : Gives(m, s) /\ a = [org |-> m.org, role |-> m.role]
  OBVIOUS
<1>1. a \in AccessOf(s) <=>
        \E p \in PrincipalsOf(s) : a = [org |-> p.organizationId, role |-> p.role]
  BY DEF AccessOf
<1>2. \A p : p \in PrincipalsOf(s) <=>
        \E m : /\ Gives(m, s)
               /\ p = [userId |-> m.user, organizationId |-> m.org, role |-> m.role]
  BY DEF PrincipalsOf, Gives
<1>3. ASSUME NEW m, Gives(m, s), a = [org |-> m.org, role |-> m.role]
      PROVE  a \in AccessOf(s)
  <2>1. PICK p : p = [userId |-> m.user, organizationId |-> m.org, role |-> m.role]
    OBVIOUS
  <2>2. p \in PrincipalsOf(s) /\ a = [org |-> p.organizationId, role |-> p.role]
    BY <1>2, <1>3, <2>1
  <2> QED
    BY <1>1, <2>2
<1>4. ASSUME NEW p \in PrincipalsOf(s), a = [org |-> p.organizationId, role |-> p.role]
      PROVE  \E m : Gives(m, s) /\ a = [org |-> m.org, role |-> m.role]
  <2>1. PICK m : /\ Gives(m, s)
                 /\ p = [userId |-> m.user, organizationId |-> m.org, role |-> m.role]
    BY <1>2
  <2>2. a = [org |-> m.org, role |-> m.role]
    BY <1>4, <2>1
  <2> QED
    BY <2>1, <2>2
<1> QED
  BY <1>1, <1>3, <1>4

LEMMA AccessMembersNext ==
    ASSUME NEW s
    PROVE  (\A a : a \in AccessOf(s) <=>
              \E m : Gives(m, s) /\ a = [org |-> m.org, role |-> m.role])'
<1>1. \A a : a \in AccessOf(s) <=>
        \E m : Gives(m, s) /\ a = [org |-> m.org, role |-> m.role]
  BY AccessMembers
<1> QED
  BY <1>1, PTL

LEMMA SameAccess ==
    ASSUME NEW s, \A m : Gives(m, s)' <=> Gives(m, s)
    PROVE  AccessOf(s)' = AccessOf(s)
<1>1. \A a : a \in AccessOf(s)' <=> a \in AccessOf(s)
  BY AccessMembers, AccessMembersNext
<1> QED
  <2> DEFINE A == AccessOf(s)
             B == AccessOf(s)'
  <2>1. \A a : a \in B <=> a \in A
    BY <1>1
  <2> HIDE DEF A, B
  <2>2. A = B
    BY <2>1
  <2> QED
    BY <2>2 DEF A, B

\* The row a sync writes, the only one then of its subject.
LEMMA SyncRows ==
    ASSUME TablesOK, NEW event, event.subject \in Subjects, event.org \in Orgs,
           event.email \in Emails \cup Subjects, event.role \in {"admin", "team_member"},
           SyncMembership(event)
    PROVE  \E u \in DOMAIN users' :
             /\ u \in DOMAIN users => u \in UserOf(event.subject)
             /\ UserOf(event.subject) \subseteq {u}
             /\ DOMAIN users \subseteq DOMAIN users'
             /\ users'[u] = [subject |-> event.subject, org |-> event.org, email |-> event.email]
             /\ \A v \in DOMAIN users' \ {u} : v \in DOMAIN users /\ users'[v] = users[v]
             /\ members' = {m \in members : m.user # u \/ m.org # event.org}
                               \cup {[user |-> u, org |-> event.org, role |-> event.role]}
             /\ users' \in Seq([subject : Subjects \cup {None}, org : Orgs,
                                email : Emails \cup Subjects])
<1> DEFINE s == event.subject
           u == RowFor(s)
           row == [subject |-> s, org |-> event.org, email |-> event.email]
           R == [subject : Subjects \cup {None}, org : Orgs, email : Emails \cup Subjects]
<1>1. /\ users' = IF UserOf(s) = {} THEN Append(users, row) ELSE [users EXCEPT ![u] = row]
      /\ members' = {m \in members : m.user # u \/ m.org # event.org}
                        \cup {[user |-> u, org |-> event.org, role |-> event.role]}
  BY DEF SyncMembership
<1>2. row \in R /\ users \in Seq(R)
  BY DEF TablesOK
<1> HIDE DEF row, R
<1>3. CASE UserOf(s) = {}
  <2>1. u = Len(users) + 1 /\ users' = Append(users, row)
    BY <1>1, <1>3 DEF RowFor
  <2> HIDE DEF u
  <2>2. /\ u \in DOMAIN users' /\ u \notin DOMAIN users /\ DOMAIN users \subseteq DOMAIN users'
        /\ users'[u] = row /\ users' \in Seq(R)
        /\ \A v \in DOMAIN users' \ {u} : v \in DOMAIN users /\ users'[v] = users[v]
    BY <1>2, <2>1
  <2> QED
    BY <1>1, <1>3, <2>2 DEF row, R
<1>4. CASE UserOf(s) # {}
  <2>1. u \in UserOf(s) /\ users' = [users EXCEPT ![u] = row]
    BY <1>1, <1>4 DEF RowFor
  <2> HIDE DEF u
  <2>2. u \in DOMAIN users /\ users[u].subject = s
    BY <2>1 DEF UserOf
  <2>3. /\ DOMAIN users' = DOMAIN users /\ users'[u] = row /\ users' \in Seq(R)
        /\ \A v \in DOMAIN users' \ {u} : users'[v] = users[v]
    BY <1>2, <2>1, <2>2
  <2>4. UserOf(s) \subseteq {u}
    BY <2>2, NoneAssumption DEF UserOf, TablesOK
  <2> QED
    BY <1>1, <2>1, <2>2, <2>3, <2>4 DEF row, R
<1> QED
  BY <1>3, <1>4

\* A membership sync gives its subject the access it names and no other.
LEMMA SyncEffect ==
    ASSUME TablesOK, NEW event, event.subject \in Subjects, event.org \in Orgs,
           event.email \in Emails \cup Subjects, event.role \in {"admin", "team_member"},
           SyncMembership(event)
    PROVE  /\ TablesOK'
           /\ AccessOf(event.subject)' = {[org |-> event.org, role |-> event.role]}
           /\ \A t \in Subjects \ {event.subject} : AccessOf(t)' = AccessOf(t)
<1> DEFINE s == event.subject
           new(u) == [user |-> u, org |-> event.org, role |-> event.role]
<1>1. PICK u \in DOMAIN users' :
        /\ u \in DOMAIN users => u \in UserOf(s)
        /\ UserOf(s) \subseteq {u}
        /\ DOMAIN users \subseteq DOMAIN users'
        /\ users'[u] = [subject |-> s, org |-> event.org, email |-> event.email]
        /\ \A v \in DOMAIN users' \ {u} : v \in DOMAIN users /\ users'[v] = users[v]
        /\ members' = {m \in members : m.user # u \/ m.org # event.org} \cup {new(u)}
        /\ users' \in Seq([subject : Subjects \cup {None}, org : Orgs,
                           email : Emails \cup Subjects])
  BY SyncRows
<1>2. TablesOK'
  <2>1. members' \subseteq [user : DOMAIN users', org : Orgs, role : {"admin", "team_member"}]
    BY <1>1 DEF TablesOK
  <2>2. ASSUME NEW v \in DOMAIN users', NEW w \in DOMAIN users',
               users'[v].subject = users'[w].subject, users'[v].subject # None
        PROVE  v = w
    BY <1>1, <2>2 DEF TablesOK, UserOf
  <2> QED
    BY <1>1, <2>1, <2>2 DEF TablesOK
<1>3. \A m : Gives(m, s)' <=> m = new(u)
  <2>1. Gives(new(u), s)'
    BY <1>1 DEF Gives, UserOf
  <2>2. ASSUME NEW m, Gives(m, s)'
        PROVE  m = new(u)
    <3>1. m \in members' /\ m.user \in DOMAIN users' /\ users'[m.user].subject = s
          /\ m.org = users'[m.user].org
      BY <2>2 DEF Gives, UserOf
    <3>2. m.user = u
      BY <1>1, <3>1 DEF UserOf
    <3> QED
      BY <1>1, <3>1, <3>2
  <2> QED
    BY <2>1, <2>2
<1>4. AccessOf(s)' = {[org |-> event.org, role |-> event.role]}
  <2>1. \E m : Gives(m, s)' /\ m.org = event.org /\ m.role = event.role
    <3>1. PICK m : m = new(u)
      OBVIOUS
    <3>2. m.org = event.org /\ m.role = event.role
      BY <3>1
    <3> QED
      BY <1>3, <3>1, <3>2
  <2>2. \A m : Gives(m, s)' => m.org = event.org /\ m.role = event.role
    BY <1>3
  <2> HIDE DEF new, s
  <2>3. \A a : a \in AccessOf(s)' <=> a = [org |-> event.org, role |-> event.role]
    BY <2>1, <2>2, AccessMembersNext
  <2> QED
    BY <2>3
<1>5. ASSUME NEW t \in Subjects \ {s}, NEW m
      PROVE  Gives(m, t)' <=> Gives(m, t)
  <2>1. ASSUME Gives(m, t)'
        PROVE  Gives(m, t)
    <3>1. m \in members' /\ m.user \in DOMAIN users' /\ users'[m.user].subject = t
          /\ m.org = users'[m.user].org
      BY <2>1 DEF Gives, UserOf
    <3>2. m.user # u
      BY <1>1, <3>1
    <3> QED
      BY <1>1, <3>1, <3>2 DEF Gives, UserOf
  <2>2. ASSUME Gives(m, t)
        PROVE  Gives(m, t)'
    <3>1. m \in members /\ m.user \in DOMAIN users /\ users[m.user].subject = t
          /\ m.org = users[m.user].org
      BY <2>2 DEF Gives, UserOf
    <3>2. m.user # u
      BY <1>1, <3>1 DEF UserOf
    <3> QED
      BY <1>1, <3>1, <3>2 DEF Gives, UserOf
  <2> QED
    BY <2>1, <2>2
<1> QED
  BY <1>2, <1>4, <1>5, SameAccess

\* A change of email address changes no one's access.
LEMMA UpdateEffect ==
    ASSUME TablesOK, NEW event, event.email \in Emails, UpdateUser(event)
    PROVE  /\ TablesOK'
           /\ \A t : AccessOf(t)' = AccessOf(t)
<1>1. /\ users' = [u \in DOMAIN users |->
             IF u \in UserOf(event.subject) THEN [users[u] EXCEPT !.email = event.email]
                                            ELSE users[u]]
      /\ members' = members
  BY DEF UpdateUser
<1> DEFINE R == [subject : Subjects \cup {None}, org : Orgs, email : Emails \cup Subjects]
<1>2. PICK n \in Nat : users \in [1..n -> R] /\ DOMAIN users = 1..n
  <2>1. users \in Seq(R)
    BY DEF TablesOK
  <2> HIDE DEF R
  <2> QED
    BY <2>1, LenProperties
<1>3. \A u \in 1..n : /\ users'[u] \in R
                      /\ users'[u].subject = users[u].subject
                      /\ users'[u].org = users[u].org
  BY <1>1, <1>2
<1>4. DOMAIN users' = 1..n /\ users' \in [1..n -> R]
  BY <1>1, <1>2, <1>3
<1>5. users' \in Seq(R)
  <2> HIDE DEF R
  <2> QED
    BY <1>4, SeqDef
<1>6. TablesOK'
  BY <1>1, <1>2, <1>3, <1>4, <1>5 DEF TablesOK
<1>7. ASSUME NEW t, NEW m
      PROVE  Gives(m, t)' <=> Gives(m, t)
  BY <1>1, <1>2, <1>3, <1>4 DEF Gives, UserOf
<1> QED
  BY <1>6, <1>7, SameAccess

\* A deleted membership takes its subject's access to the organization.
LEMMA RemoveEffect ==
    ASSUME TablesOK, NEW event, event.subject \in Subjects, RemoveMembership(event)
    PROVE  /\ TablesOK'
           /\ \A a : a \in AccessOf(event.subject)' <=>
                        a \in AccessOf(event.subject) /\ a.org # event.org
           /\ \A t \in Subjects \ {event.subject} : AccessOf(t)' = AccessOf(t)
<1> DEFINE s == event.subject
<1>1. /\ users' = users
      /\ members' = {m \in members : m.user \notin UserOf(s) \/ m.org # event.org}
  BY DEF RemoveMembership
<1>2. TablesOK'
  BY <1>1 DEF TablesOK
<1>3. \A t : UserOf(t)' = UserOf(t)
  BY <1>1 DEF UserOf
<1>4. \A m : Gives(m, s)' <=> Gives(m, s) /\ m.org # event.org
  BY <1>1, <1>3 DEF Gives
<1>5. ASSUME NEW t \in Subjects \ {s}, NEW m
      PROVE  Gives(m, t)' <=> Gives(m, t)
  <2>1. UserOf(s) \cap UserOf(t) = {}
    BY DEF UserOf
  <2> QED
    BY <1>1, <1>3, <2>1 DEF Gives
<1>6. ASSUME NEW a
      PROVE  a \in AccessOf(s)' <=> a \in AccessOf(s) /\ a.org # event.org
  <2>1. \A m : a = [org |-> m.org, role |-> m.role] => a.org = m.org
    OBVIOUS
  <2> QED
    BY <1>4, <2>1, AccessMembers, AccessMembersNext
<1> QED
  BY <1>2, <1>5, <1>6, SameAccess

\* A revoked user has no access.
LEMMA RevokeEffect ==
    ASSUME TablesOK, NEW event, event.subject \in Subjects, RevokeUser(event)
    PROVE  /\ TablesOK'
           /\ AccessOf(event.subject)' = {}
           /\ \A t \in Subjects \ {event.subject} : AccessOf(t)' = AccessOf(t)
<1> DEFINE s == event.subject
           R == [subject : Subjects \cup {None}, org : Orgs, email : Emails \cup Subjects]
<1>1. /\ users' = [u \in DOMAIN users |->
             IF u \in UserOf(s) THEN [users[u] EXCEPT !.subject = None] ELSE users[u]]
      /\ members' = members
  BY DEF RevokeUser
<1>2. PICK n \in Nat : users \in [1..n -> R] /\ DOMAIN users = 1..n
  <2>1. users \in Seq(R)
    BY DEF TablesOK
  <2> HIDE DEF R
  <2> QED
    BY <2>1, LenProperties
<1>3. \A u \in 1..n :
          /\ users'[u] \in R
          /\ users'[u].subject = IF users[u].subject = s THEN None ELSE users[u].subject
          /\ users'[u].org = users[u].org
  BY <1>1, <1>2 DEF UserOf
<1>4. DOMAIN users' = 1..n /\ users' \in [1..n -> R]
  BY <1>1, <1>2, <1>3
<1>5. users' \in Seq(R)
  <2> HIDE DEF R
  <2> QED
    BY <1>4, SeqDef
<1>6. TablesOK'
  BY <1>1, <1>2, <1>3, <1>4, <1>5 DEF TablesOK
<1>7. UserOf(s)' = {}
  BY <1>3, <1>4, NoneAssumption DEF UserOf
<1>8. AccessOf(s)' = {}
  BY <1>7, AccessMembersNext DEF Gives
<1>9. ASSUME NEW t \in Subjects \ {s}, NEW m
      PROVE  Gives(m, t)' <=> Gives(m, t)
  BY <1>1, <1>2, <1>3, <1>4, NoneAssumption DEF Gives, UserOf
<1> QED
  BY <1>6, <1>8, <1>9, SameAccess

\* Whether a message finds the access it expects or has been handled already, its
\* handler leaves the access it names, and that of all others alone.
LEMMA HandleEffect ==
    ASSUME TablesOK, NEW payload \in Payloads, Handle(ParseClerkEvent(payload)),
           NEW before, NEW after, Says(payload, before, after)
    PROVE  /\ TablesOK'
           /\ AccessOf(payload.subject) \in {before, after} =>
                  AccessOf(payload.subject)' = after
           /\ \A t \in Subjects \ {payload.subject} : AccessOf(t)' = AccessOf(t)
<1>1. PICK event : event = ParseClerkEvent(payload)
  OBVIOUS
<1>2. PICK s \in Subjects : s = payload.subject
  BY DEF Payloads
<1>3. CASE SyncMembership(event)
  <2>1. event.kind = "sync"
    BY <1>3 DEF SyncMembership
  <2>2. /\ event.subject = s /\ event.org \in Orgs
        /\ event.email \in Emails \cup Subjects /\ event.role \in {"admin", "team_member"}
    BY <1>1, <1>2, <2>1, Parsed
  <2>3. after = {[org |-> event.org, role |-> event.role]}
    BY <1>1, <2>1 DEF Says
  <2> QED
    BY <1>2, <1>3, <2>2, <2>3, SyncEffect
<1>4. CASE UpdateUser(event)
  <2>1. event.kind = "update"
    BY <1>4 DEF UpdateUser
  <2>2. event.email \in Emails
    BY <1>1, <2>1, Parsed
  <2>3. after = before
    BY <1>1, <2>1 DEF Says
  <2> QED
    BY <1>2, <1>4, <2>2, <2>3, UpdateEffect
<1>5. CASE RemoveMembership(event)
  <2>1. event.kind = "remove"
    BY <1>5 DEF RemoveMembership
  <2>2. event.subject = s
    BY <1>1, <1>2, <2>1, Parsed
  <2>3. after = {} /\ \A a \in before : a.org = event.org
    BY <1>1, <2>1 DEF Says
  <2>4. /\ TablesOK'
        /\ \A a : a \in AccessOf(s)' <=> a \in AccessOf(s) /\ a.org # event.org
        /\ \A t \in Subjects \ {s} : AccessOf(t)' = AccessOf(t)
    BY <1>5, <2>2, RemoveEffect
  <2>5. ASSUME AccessOf(s) \in {before, after}
        PROVE  AccessOf(s)' = after
    <3>1. \A a : a \notin AccessOf(s)'
      BY <2>3, <2>4, <2>5
    <3> QED
      BY <2>3, <3>1
  <2> QED
    BY <1>2, <2>4, <2>5
<1>6. CASE RevokeUser(event)
  <2>1. event.kind = "revoke"
    BY <1>6 DEF RevokeUser
  <2>2. event.subject = s
    BY <1>1, <1>2, <2>1, Parsed
  <2>3. after = {}
    BY <1>1, <2>1 DEF Says
  <2> QED
    BY <1>2, <1>6, <2>2, <2>3, RevokeEffect
<1> QED
  BY <1>1, <1>3, <1>4, <1>5, <1>6 DEF Handle

-----------------------------------------------------------------------------
(* What the provider does. *)

\* What each type of payload says.
LEMMA SaysWhat ==
    ASSUME NEW payload \in Payloads, NEW before, NEW after
    PROVE  /\ payload.type \in {"user.created", "user.updated"} =>
                  (Says(payload, before, after) <=> after = before)
           /\ payload.type = "user.deleted" => (Says(payload, before, after) <=> after = {})
           /\ payload.type \in {"organizationMembership.created", "organizationMembership.updated"}
                  => (Says(payload, before, after) <=>
                        after = {[org |-> payload.org, role |-> MapClerkRole(payload.role)]})
           /\ payload.type = "organizationMembership.deleted" =>
                  (Says(payload, before, after) <=>
                        after = {} /\ \A a \in before : a.org = payload.org)
<1>1. PICK event : event = ParseClerkEvent(payload)
  OBVIOUS
<1>2. CASE payload.type \in {"user.created", "user.updated"}
  <2>1. event = ParseUserUpdate(payload)
    BY <1>1, <1>2 DEF ParseClerkEvent
  <2>2. event.kind \in {"update", "malformed"}
    BY <2>1 DEF ParseUserUpdate, Malformed
  <2> QED
    BY <1>1, <1>2, <2>2 DEF Says
<1>3. CASE payload.type = "user.deleted"
  <2>1. event = ParseDeletedId(payload) /\ payload.subject # None
    BY <1>1, <1>3, NoneAssumption DEF ParseClerkEvent, Payloads
  <2>2. event.kind = "revoke"
    BY <2>1 DEF ParseDeletedId
  <2> QED
    BY <1>1, <1>3, <2>2 DEF Says
<1>4. ASSUME payload.type \in MemberTypes
      PROVE  payload.org # None /\ payload.subject # None /\ payload.email # None
  BY <1>4, NoneAssumption DEF Payloads, UserTypes, MemberTypes
<1>5. CASE payload.type \in {"organizationMembership.created", "organizationMembership.updated"}
  <2>1. event = ParseMembershipSync(payload)
    BY <1>1, <1>5 DEF ParseClerkEvent
  <2>2. /\ event.kind = "sync" /\ event.org = payload.org
        /\ event.role = MapClerkRole(payload.role)
    BY <1>4, <1>5, <2>1 DEF ParseMembershipSync, MemberTypes
  <2> QED
    BY <1>1, <1>5, <2>2 DEF Says
<1>6. CASE payload.type = "organizationMembership.deleted"
  <2>1. event = ParseMembershipRef(payload)
    BY <1>1, <1>6 DEF ParseClerkEvent
  <2>2. event.kind = "remove" /\ event.org = payload.org
    BY <1>4, <1>6, <2>1 DEF ParseMembershipRef, MemberTypes
  <2> QED
    BY <1>1, <1>6, <2>2 DEF Says
<1> QED
  BY <1>2, <1>3, <1>5, <1>6

LEMMA GrantedType ==
    ASSUME AccountsOK, NEW s \in Subjects
    PROVE  Granted(s) \in Accesses
<1>1. CASE accounts[s].member = None
  BY <1>1 DEF Granted, Accesses
<1>2. CASE accounts[s].member # None
  <2>1. accounts[s].member.org \in Orgs
    BY <1>2 DEF AccountsOK, Memberships
  <2>2. PICK role \in {"admin", "team_member"} :
           role = IF accounts[s].member.role = "org:admin" THEN "admin" ELSE "team_member"
    OBVIOUS
  <2>3. Granted(s) = {[org |-> accounts[s].member.org, role |-> role]}
    BY <1>2, <2>2 DEF Granted
  <2>4. [org |-> accounts[s].member.org, role |-> role] \in Grants
    BY <2>1 DEF Grants
  <2> QED
    BY <2>3, <2>4 DEF Accesses
<1> QED
  BY <1>1, <1>2

LEMMA GrantedTypeNext ==
    ASSUME NEW s \in Subjects
    PROVE  (AccountsOK => Granted(s) \in Accesses)'
<1>1. AccountsOK => Granted(s) \in Accesses
  BY GrantedType
<1> QED
  BY <1>1, PTL

LEMMA TellResult ==
    ASSUME MessagesOK, NEW payload, Tell(<<payload>>)
    PROVE  /\ sent' = sent + 1 /\ sent + 1 <= MaxMessages
           /\ pending' = pending \cup {[number |-> sent + 1, payload |-> payload, tries |-> 0]}
           /\ UNCHANGED <<newest, overtaken, givenUp, users, members>>
<1>1. Len(<<payload>>) = 1 /\ DOMAIN <<payload>> = {1} /\ <<payload>>[1] = payload
  OBVIOUS
<1>2. /\ sent' = sent + 1 /\ sent + 1 <= MaxMessages
      /\ UNCHANGED <<newest, overtaken, givenUp, users, members>>
      /\ pending' = pending \cup
             {[number |-> sent + i, payload |-> <<payload>>[i], tries |-> 0] : i \in {1}}
  BY <1>1 DEF Tell, tables
<1>3. {[number |-> sent + i, payload |-> <<payload>>[i], tries |-> 0] : i \in {1}}
          = {[number |-> sent + 1, payload |-> payload, tries |-> 0]}
  BY <1>1
<1> QED
  BY <1>2, <1>3

\* A step of the provider changes one account, and sends a message that says how.
LEMMA ProviderResult ==
    ASSUME AccountsOK, MessagesOK, Provider
    PROVE  \E s \in Subjects, payload \in Payloads :
             /\ payload.subject = s
             /\ Tell(<<payload>>)
             /\ AccountsOK'
             /\ \A t \in Subjects \ {s} : Granted(t)' = Granted(t)
             /\ Says(payload, Granted(s), Granted(s)')
<1> DEFINE Result(s, payload) ==
             /\ payload.subject = s
             /\ Tell(<<payload>>)
             /\ AccountsOK'
             /\ \A t \in Subjects \ {s} : Granted(t)' = Granted(t)
             /\ Says(payload, Granted(s), Granted(s)')
           Account == [state : {"none", "live", "gone"}, email : Emails \cup {None},
                       member : Memberships \cup {None}]
\* What follows for any account that becomes a.
<1>1. ASSUME NEW s \in Subjects, NEW a \in Account, a.state # "live" => a.member = None,
             accounts' = [accounts EXCEPT ![s] = a]
      PROVE  /\ AccountsOK'
             /\ \A t \in Subjects \ {s} : Granted(t)' = Granted(t)
             /\ Granted(s)' = IF a.member = None THEN {}
                              ELSE {[org |-> a.member.org,
                                     role |-> IF a.member.role = "org:admin" THEN "admin"
                                              ELSE "team_member"]}
  <2>1. /\ accounts' \in [Subjects -> Account] /\ accounts'[s] = a
        /\ \A t \in Subjects \ {s} : accounts'[t] = accounts[t]
    <3> HIDE DEF Account
    <3>1. accounts \in [Subjects -> Account]
      BY DEF AccountsOK, Account
    <3> QED
      BY <1>1, <3>1
  <2>2. AccountsOK'
    BY <1>1, <2>1 DEF AccountsOK
  <2> QED
    BY <2>1, <2>2 DEF Granted
<1>2. \A s \in Subjects : accounts[s] \in Account
  BY DEF AccountsOK
<1>3. ASSUME NEW s \in Subjects, NEW email \in Emails \cup {None}, CreateAccount(s, email)
      PROVE  \E payload \in Payloads : Result(s, payload)
  <2>1. PICK payload : payload = UserPayload("user.created", s, email)
    OBVIOUS
  <2>2. payload \in Payloads /\ payload.type = "user.created" /\ payload.subject = s
    BY <2>1 DEF UserPayload, Payload, Payloads, UserTypes
  <2>3. PICK a : a = LiveAccount(email)
    OBVIOUS
  <2>4. a \in Account /\ a.state = "live" /\ a.member = None
    BY <2>3 DEF LiveAccount
  <2>5. accounts' = [accounts EXCEPT ![s] = a] /\ Tell(<<payload>>) /\ accounts[s].member = None
    BY <1>3, <2>1, <2>3 DEF CreateAccount, AccountsOK
  <2>6. Granted(s) = {} /\ Granted(s)' = {}
    BY <1>1, <2>4, <2>5 DEF Granted
  <2>7. Says(payload, Granted(s), Granted(s)')
    BY <2>2, <2>6, SaysWhat
  <2>8. AccountsOK' /\ \A t \in Subjects \ {s} : Granted(t)' = Granted(t)
    BY <1>1, <2>4, <2>5
  <2> QED
    BY <2>2, <2>5, <2>7, <2>8
<1>4. ASSUME NEW s \in Subjects, NEW email \in Emails \cup {None}, ChangeEmail(s, email)
      PROVE  \E payload \in Payloads : Result(s, payload)
  <2>1. PICK payload : payload = UserPayload("user.updated", s, email)
    OBVIOUS
  <2>2. payload \in Payloads /\ payload.type = "user.updated" /\ payload.subject = s
    BY <2>1 DEF UserPayload, Payload, Payloads, UserTypes
  <2>3. PICK a : a = [accounts[s] EXCEPT !.email = email]
    OBVIOUS
  <2>4. a \in Account /\ a.state = "live" /\ a.member = accounts[s].member
    BY <1>2, <1>4, <2>3 DEF ChangeEmail
  <2>5. accounts' = [accounts EXCEPT ![s] = a] /\ Tell(<<payload>>)
    BY <1>4, <2>1, <2>3 DEF ChangeEmail, AccountsOK
  <2>6. Granted(s)' = Granted(s)
    BY <1>1, <2>4, <2>5 DEF Granted
  <2>7. Says(payload, Granted(s), Granted(s)')
    BY <2>2, <2>6, SaysWhat
  <2>8. AccountsOK' /\ \A t \in Subjects \ {s} : Granted(t)' = Granted(t)
    BY <1>1, <2>4, <2>5
  <2> QED
    BY <2>2, <2>5, <2>7, <2>8
\* Messages about memberships.
<1>5. ASSUME NEW s \in Subjects, NEW type \in MemberTypes, NEW member \in Memberships
      PROVE  /\ MemberPayload(type, s, member) \in Payloads
             /\ MemberPayload(type, s, member).type = type
             /\ MemberPayload(type, s, member).subject = s
             /\ MemberPayload(type, s, member).org = member.org
             /\ MemberPayload(type, s, member).role = member.role
  <2>1. PICK email \in Emails \cup Subjects :
           email = IF accounts[s].email = None THEN s ELSE accounts[s].email
    BY <1>2
  <2>2. /\ MemberPayload(type, s, member) = Payload(type, member.org, s, email, member.role)
        /\ member.org \in Orgs /\ member.role \in ClerkRoles
    BY <2>1 DEF MemberPayload, Memberships
  <2> QED
    BY <2>2 DEF Payload, Payloads
\* Joining and a change of role.
<1>6. ASSUME NEW s \in Subjects, NEW member \in Memberships, accounts[s].state = "live",
             NEW type \in {"organizationMembership.created", "organizationMembership.updated"},
             accounts' = [accounts EXCEPT ![s].member = member],
             Tell(<<MemberPayload(type, s, member)>>)
      PROVE  \E payload \in Payloads : Result(s, payload)
  <2>1. PICK payload : payload = MemberPayload(type, s, member)
    OBVIOUS
  <2>2. /\ payload \in Payloads /\ payload.type = type /\ payload.subject = s
        /\ payload.org = member.org /\ payload.role = member.role
    BY <1>5, <2>1 DEF MemberTypes
  <2>3. PICK a : a = [accounts[s] EXCEPT !.member = member]
    OBVIOUS
  <2>4. a \in Account /\ a.state = "live" /\ a.member = member
    BY <1>2, <1>6, <2>3
  <2>5. accounts' = [accounts EXCEPT ![s] = a] /\ Tell(<<payload>>)
    BY <1>6, <2>1, <2>3 DEF AccountsOK
  <2>6. member.role \in ClerkRoles /\ member # None
    BY NoneAssumption DEF Memberships
  <2>7. Granted(s)' = {[org |-> payload.org, role |-> MapClerkRole(payload.role)]}
    BY <1>1, <2>2, <2>4, <2>5, <2>6 DEF MapClerkRole, ClerkRoles
  <2>8. Says(payload, Granted(s), Granted(s)')
    BY <2>2, <2>7, SaysWhat
  <2>9. AccountsOK' /\ \A t \in Subjects \ {s} : Granted(t)' = Granted(t)
    BY <1>1, <2>4, <2>5
  <2> QED
    BY <2>2, <2>5, <2>8, <2>9
<1>7. ASSUME NEW s \in Subjects, NEW member \in Memberships, Join(s, member)
      PROVE  \E payload \in Payloads : Result(s, payload)
  BY <1>6, <1>7 DEF Join
<1>8. ASSUME NEW s \in Subjects, NEW role \in ClerkRoles, ChangeRole(s, role)
      PROVE  \E payload \in Payloads : Result(s, payload)
  <2>1. accounts[s].member \in Memberships /\ accounts[s].state = "live"
    BY <1>2, <1>8 DEF ChangeRole, AccountsOK
  <2>2. PICK member : member = [accounts[s].member EXCEPT !.role = role]
    OBVIOUS
  <2>3. member \in Memberships
    BY <2>1, <2>2 DEF Memberships
  <2>4. /\ Tell(<<MemberPayload("organizationMembership.updated", s, member)>>)
        /\ accounts' = [accounts EXCEPT ![s].member = member]
    BY <1>2, <1>8, <2>2 DEF ChangeRole, AccountsOK
  <2> QED
    BY <1>6, <2>1, <2>3, <2>4
<1>9. ASSUME NEW s \in Subjects, Leave(s)
      PROVE  \E payload \in Payloads : Result(s, payload)
  <2>1. PICK member \in Memberships : member = accounts[s].member
    BY <1>2, <1>9 DEF Leave
  <2>2. PICK payload : payload = MemberPayload("organizationMembership.deleted", s, member)
    OBVIOUS
  <2>3. /\ payload \in Payloads /\ payload.type = "organizationMembership.deleted"
        /\ payload.subject = s /\ payload.org = member.org
    BY <1>5, <2>2 DEF MemberTypes
  <2>4. PICK a : a = [accounts[s] EXCEPT !.member = None]
    OBVIOUS
  <2>5. a \in Account /\ a.member = None
    BY <1>2, <2>4
  <2>6. accounts' = [accounts EXCEPT ![s] = a] /\ Tell(<<payload>>)
    BY <1>9, <2>1, <2>2, <2>4 DEF Leave, AccountsOK
  <2>7. Granted(s)' = {} /\ \A g \in Granted(s) : g.org = payload.org
    <3>1. Granted(s)' = {}
      BY <1>1, <2>5, <2>6
    <3>2. PICK g : g = [org |-> member.org,
                        role |-> IF member.role = "org:admin" THEN "admin" ELSE "team_member"]
      OBVIOUS
    <3>3. Granted(s) = {g}
      BY <1>9, <2>1, <3>2 DEF Granted, Leave
    <3>4. g.org = payload.org
      BY <2>3, <3>2
    <3> QED
      BY <3>1, <3>3, <3>4
  <2>8. Says(payload, Granted(s), Granted(s)')
    BY <2>3, <2>7, SaysWhat
  <2>9. AccountsOK' /\ \A t \in Subjects \ {s} : Granted(t)' = Granted(t)
    BY <1>1, <2>5, <2>6
  <2> QED
    BY <2>3, <2>6, <2>8, <2>9
<1>10. ASSUME NEW s \in Subjects, DeleteAccount(s)
       PROVE  \E payload \in Payloads : Result(s, payload)
  <2>1. PICK payload : payload = UserPayload("user.deleted", s, None)
    OBVIOUS
  <2>2. payload \in Payloads /\ payload.type = "user.deleted" /\ payload.subject = s
    BY <2>1 DEF UserPayload, Payload, Payloads, UserTypes
  <2>3. PICK a : a = [NoAccount EXCEPT !.state = "gone"]
    OBVIOUS
  <2>4. a \in Account /\ a.member = None
    BY <2>3 DEF NoAccount
  <2>5. accounts' = [accounts EXCEPT ![s] = a] /\ Tell(<<payload>>)
    BY <1>10, <2>1, <2>3 DEF DeleteAccount
  <2>6. Granted(s)' = {}
    BY <1>1, <2>4, <2>5
  <2>7. Says(payload, Granted(s), Granted(s)')
    BY <2>2, <2>6, SaysWhat
  <2>8. AccountsOK' /\ \A t \in Subjects \ {s} : Granted(t)' = Granted(t)
    BY <1>1, <2>4, <2>5
  <2> QED
    BY <2>2, <2>5, <2>7, <2>8
<1>11. \E s \in Subjects : \E payload \in Payloads : Result(s, payload)
  <2> HIDE DEF Result
  <2> QED
    BY <1>3, <1>4, <1>7, <1>8, <1>9, <1>10 DEF Provider
<1> QED
  BY <1>11

-----------------------------------------------------------------------------
(* The induction. *)

\* A message about s with the number and the payload of m.
IsSent(m, s) == \E k \in About(s) : k.number = m.number /\ k.payload = m.payload

\* What an answer, or none, does to the pending messages: they stay what they are
\* but for the one, which is tried again, given up or acknowledged.
LEMMA PendingResult ==
    ASSUME MessagesOK, NEW m \in pending, Acknowledged(m) \/ Retried(m), sent' = sent
    PROVE  /\ pending' \subseteq [number : 1..sent', payload : Payloads, tries : Nat]
           /\ givenUp \subseteq givenUp'
           /\ \A s \in Subjects :
                  /\ \A k \in About(s)' : IsSent(k, s)
                  /\ \A k \in About(s) : k # m => k \in About(s)'
                  /\ Retried(m) => s \in givenUp' \/ \A k \in About(s) : IsSent(k, s)'
<1>1. m \in [number : 1..sent, payload : Payloads, tries : Nat]
  BY DEF MessagesOK
<1>2. CASE ~ Retried(m)
  BY <1>2 DEF Acknowledged, MessagesOK, IsSent, About
<1>3. CASE Retried(m) /\ m.tries + 1 < MaxTries
  <2>1. PICK again : again = [m EXCEPT !.tries = @ + 1]
    OBVIOUS
  <2>2. /\ again \in [number : 1..sent, payload : Payloads, tries : Nat]
        /\ again.number = m.number /\ again.payload = m.payload
    BY <1>1, <2>1
  <2>3. pending' = (pending \ {m}) \cup {again} /\ givenUp' = givenUp
    BY <1>3, <2>1 DEF Retried
  <2>4. ASSUME NEW s \in Subjects
        PROVE  /\ \A k \in About(s)' : IsSent(k, s)
               /\ \A k \in About(s) : IsSent(k, s)' /\ (k # m => k \in About(s)')
    BY <2>2, <2>3 DEF IsSent, About
  <2> QED
    BY <2>2, <2>3, <2>4 DEF MessagesOK
<1>4. CASE Retried(m) /\ ~ (m.tries + 1 < MaxTries)
  <2>1. pending' = pending \ {m} /\ givenUp' = givenUp \cup {m.payload.subject}
    BY <1>4 DEF Retried
  <2> QED
    BY <2>1 DEF MessagesOK, IsSent, About
<1> QED
  BY <1>2, <1>3, <1>4

\* A history stays one when the tables have moved along it.
LEMMA HistoryMoves ==
    ASSUME MessagesOK, NEW s \in Subjects, NEW h, History(s, h),
           UNCHANGED sent, newest'[s] \in newest[s]..sent,
           Granted(s)' = Granted(s), AccessOf(s)' = h[newest'[s]],
           \A k \in About(s)' : IsSent(k, s),
           \A k \in About(s) : k.number <= newest'[s] \/ IsSent(k, s)'
    PROVE  History(s, h)'
<1>1. Granted(s)' = h[sent']
  BY DEF History
<1>2. \A m \in About(s)' : Says(m.payload, h[m.number - 1], h[m.number])
  BY DEF History, IsSent
<1>3. newest[s] \in Nat /\ sent \in Nat
  BY DEF MessagesOK
<1>4. \A k \in About(s) : k.number \in Nat
  BY DEF MessagesOK, About
<1>5. ASSUME NEW i \in newest'[s]..sent', NEW j \in newest'[s]..sent', i <= j,
             \A m \in About(s)' : m.number \notin (i + 1)..j
      PROVE  h[i] = h[j]
  <2>1. i \in newest[s]..sent /\ j \in newest[s]..sent
    BY <1>3, <1>5
  <2>2. ASSUME NEW k \in About(s)
        PROVE  k.number \notin (i + 1)..j
    <3>1. CASE k.number <= newest'[s]
      BY <1>3, <1>4, <1>5, <3>1
    <3>2. CASE IsSent(k, s)'
      <4>1. PICK m \in About(s)' : m.number = k.number
        BY <3>2 DEF IsSent
      <4> QED
        BY <1>5, <4>1
    <3> QED
      BY <3>1, <3>2
  <2> QED
    BY <1>5, <2>1, <2>2 DEF History
<1> QED
  BY <1>1, <1>2, <1>5 DEF History

LEMMA SameAccounts ==
    ASSUME UNCHANGED accounts
    PROVE  (AccountsOK => AccountsOK') /\ \A s : Granted(s)' = Granted(s)
BY DEF AccountsOK, Granted

LEMMA SameTables ==
    ASSUME UNCHANGED <<users, members>>
    PROVE  (TablesOK => TablesOK') /\ \A s : AccessOf(s)' = AccessOf(s)
<1>1. TablesOK => TablesOK'
  BY DEF TablesOK
<1>2. \A m, s : Gives(m, s)' <=> Gives(m, s)
  BY DEF Gives, UserOf
<1> QED
  BY <1>1, <1>2, SameAccess

\* A message that does not arrive, or is refused.
LEMMA NotHandled ==
    ASSUME FollowInv, NEW m \in pending, Lose(m) \/ Refuse(m)
    PROVE  FollowInv'
<1>1. Retried(m) /\ UNCHANGED <<accounts, sent, newest, overtaken, users, members>>
  BY DEF Lose, Refuse, provider, tables
<1>2. /\ pending' \subseteq [number : 1..sent', payload : Payloads, tries : Nat]
      /\ givenUp \subseteq givenUp'
      /\ \A s \in Subjects :
             /\ \A k \in About(s)' : IsSent(k, s)
             /\ s \in givenUp' \/ \A k \in About(s) : IsSent(k, s)'
  BY <1>1, PendingResult DEF FollowInv
<1>3. AccountsOK' /\ TablesOK'
  BY <1>1, SameAccounts, SameTables DEF FollowInv
<1>4. MessagesOK'
  BY <1>1, <1>2 DEF FollowInv, MessagesOK
<1>5. ASSUME NEW s \in Subjects
      PROVE  Follows(s)'
  <2>1. CASE s \in givenUp'
    BY <2>1 DEF Follows, Doomed
  <2>2. CASE s \notin givenUp' /\ Doomed(s)
    BY <1>1, <1>2, <2>2 DEF Follows, Doomed, IsSent
  <2>3. CASE s \notin givenUp' /\ ~ Doomed(s)
    <3>1. PICK h \in [0..MaxMessages -> Accesses] : History(s, h)
      BY <2>3 DEF FollowInv, Follows
    <3>2. newest'[s] = newest[s] /\ newest[s] \in newest[s]..sent
      BY <1>1 DEF FollowInv, MessagesOK
    <3>3. Granted(s)' = Granted(s) /\ AccessOf(s)' = h[newest'[s]]
      BY <1>1, <3>1, SameAccounts, SameTables DEF History
    <3>4. History(s, h)'
      BY <1>1, <1>2, <2>3, <3>1, <3>2, <3>3, HistoryMoves DEF FollowInv
    <3> QED
      BY <3>4 DEF Follows
  <2> QED
    BY <2>1, <2>2, <2>3
<1> QED
  BY <1>3, <1>4, <1>5 DEF FollowInv, Follows

\* A message that is handled, in turn or not.
LEMMA Handled ==
    ASSUME FollowInv, NEW m \in pending, Deliver(m)
    PROVE  FollowInv'
<1>1. /\ Handle(ParseClerkEvent(m.payload)) /\ Order(m) /\ (Acknowledged(m) \/ Retried(m))
      /\ UNCHANGED <<accounts, sent>>
  BY DEF Deliver, provider
<1>2. /\ pending' \subseteq [number : 1..sent', payload : Payloads, tries : Nat]
      /\ givenUp \subseteq givenUp'
      /\ \A s \in Subjects :
             /\ \A k \in About(s)' : IsSent(k, s)
             /\ \A k \in About(s) : k # m => k \in About(s)'
  BY <1>1, PendingResult DEF FollowInv
<1>3. PICK n, t : n = m.number /\ t = m.payload.subject
  OBVIOUS
<1>4. /\ n \in 1..sent /\ t \in Subjects /\ m.payload \in Payloads /\ sent \in 0..MaxMessages
      /\ newest \in [Subjects -> 0..sent] /\ sent \in Nat
  BY <1>3 DEF FollowInv, MessagesOK, Payloads
<1>5. /\ newest' \in [Subjects -> 0..sent]
      /\ newest'[t] = IF n > newest[t] THEN n ELSE newest[t]
      /\ \A s \in Subjects \ {t} : newest'[s] = newest[s]
      /\ overtaken' = IF n < newest[t] THEN overtaken \cup {t} ELSE overtaken
  BY <1>1, <1>3, <1>4 DEF Order
<1>6. MessagesOK'
  BY <1>1, <1>2, <1>4, <1>5 DEF MessagesOK
<1>7. \A before, after : Says(m.payload, before, after) =>
          /\ TablesOK'
          /\ AccessOf(t) \in {before, after} => AccessOf(t)' = after
          /\ \A s \in Subjects \ {t} : AccessOf(s)' = AccessOf(s)
  BY <1>1, <1>3, <1>4, HandleEffect DEF FollowInv
<1>8. \E before, after : Says(m.payload, before, after)
  <2>1. m.payload.type \in UserTypes \cup MemberTypes
    BY <1>4 DEF Payloads
  <2>2. CASE m.payload.type \in {"organizationMembership.created",
                                 "organizationMembership.updated"}
    <3>1. PICK after : after = {[org |-> m.payload.org, role |-> MapClerkRole(m.payload.role)]}
      OBVIOUS
    <3> QED
      BY <1>4, <2>2, <3>1, SaysWhat
  <2>3. CASE m.payload.type \notin {"organizationMembership.created",
                                    "organizationMembership.updated"}
    <3>1. Says(m.payload, {}, {})
      BY <1>4, <2>1, <2>3, SaysWhat DEF UserTypes, MemberTypes
    <3> QED
      BY <3>1
  <2> QED
    BY <2>2, <2>3
<1>9. TablesOK' /\ \A s \in Subjects \ {t} : AccessOf(s)' = AccessOf(s)
  BY <1>7, <1>8
<1>10. AccountsOK' /\ \A s : Granted(s)' = Granted(s)
  BY <1>1, SameAccounts DEF FollowInv
\* Another account.
<1>11. ASSUME NEW s \in Subjects, s # t
       PROVE  Follows(s)'
  <2>1. m \notin About(s)
    BY <1>3, <1>11 DEF About
  <2>2. About(s) \subseteq About(s)'
    BY <1>2, <2>1
  <2>3. CASE Doomed(s)
    BY <1>2, <1>5, <1>11, <2>2, <2>3 DEF Follows, Doomed
  <2>4. CASE ~ Doomed(s)
    <3>1. PICK h \in [0..MaxMessages -> Accesses] : History(s, h)
      BY <2>4 DEF FollowInv, Follows
    <3>2. newest'[s] = newest[s] /\ newest[s] \in newest[s]..sent
      BY <1>4, <1>5, <1>11
    <3>3. AccessOf(s)' = h[newest'[s]]
      BY <1>9, <1>11, <3>1, <3>2 DEF History
    <3>4. \A k \in About(s) : IsSent(k, s)'
      BY <2>2 DEF IsSent
    <3>5. History(s, h)'
      BY <1>1, <1>2, <1>10, <3>1, <3>2, <3>3, <3>4, HistoryMoves DEF FollowInv
    <3> QED
      BY <3>5 DEF Follows
  <2> QED
    BY <2>3, <2>4
\* The account the message is about: it is overtaken, it overtakes another, or it
\* is the next of its account or one that is handled once more.
<1>12. m \in About(t)
  BY <1>3 DEF About
<1>13. ASSUME Doomed(t)
       PROVE  Follows(t)'
  <2>1. CASE t \in overtaken \cup givenUp
    BY <1>2, <1>5, <2>1 DEF Follows, Doomed
  <2>2. CASE \E k \in About(t) : k.number < newest[t]
    <3>1. PICK k \in About(t) : k.number < newest[t]
      BY <2>2
    <3>2. CASE k = m
      BY <1>3, <1>5, <3>1, <3>2 DEF Follows, Doomed
    <3>3. CASE k # m
      <4>1. k \in About(t)' /\ k.number \in Nat /\ newest[t] \in Nat /\ n \in Nat
        BY <1>2, <1>4, <3>1, <3>3 DEF FollowInv, MessagesOK, About
      <4>2. k.number < newest'[t]
        BY <1>5, <3>1, <4>1
      <4> QED
        BY <4>1, <4>2 DEF Follows, Doomed
    <3> QED
      BY <3>2, <3>3
  <2> QED
    BY <1>13, <2>1, <2>2 DEF Doomed
<1>14. ASSUME ~ Doomed(t) /\ \E k \in About(t) : k.number < n
       PROVE  Follows(t)'
  <2>1. PICK k \in About(t) : k.number < n
    BY <1>14
  <2>2. n >= newest[t] /\ newest[t] \in Nat /\ n \in Nat
    BY <1>3, <1>4, <1>12, <1>14 DEF Doomed
  <2>3. newest'[t] = n
    BY <1>5, <2>2
  <2>4. k \in About(t)'
    BY <1>2, <1>3, <1>4, <2>1
  <2> QED
    BY <2>1, <2>3, <2>4 DEF Follows, Doomed
<1>15. ASSUME ~ Doomed(t) /\ ~ \E k \in About(t) : k.number < n
       PROVE  Follows(t)'
  <2>1. PICK h \in [0..MaxMessages -> Accesses] : History(t, h)
    BY <1>4, <1>15 DEF FollowInv, Follows
  <2>2. n >= newest[t] /\ newest[t] \in Nat /\ n \in Nat
    BY <1>3, <1>4, <1>12, <1>15 DEF Doomed
  <2>3. newest'[t] = n /\ n \in newest[t]..sent
    BY <1>4, <1>5, <2>2
  <2>4. Says(m.payload, h[n - 1], h[n])
    BY <1>3, <1>12, <2>1 DEF History
  <2>5. AccessOf(t) \in {h[n - 1], h[n]}
    <3>1. CASE n = newest[t]
      BY <2>1, <3>1 DEF History
    <3>2. CASE n > newest[t]
      <4>1. newest[t] \in newest[t]..sent /\ n - 1 \in newest[t]..sent /\ newest[t] <= n - 1
        BY <1>4, <2>2, <3>2
      <4>2. \A k \in About(t) : k.number \notin (newest[t] + 1)..(n - 1)
        BY <1>15, <2>2 DEF FollowInv, MessagesOK, About
      <4>3. h[newest[t]] = h[n - 1]
        BY <2>1, <4>1, <4>2 DEF History
      <4> QED
        BY <2>1, <4>3 DEF History
    <3> QED
      BY <2>2, <3>1, <3>2
  <2>6. AccessOf(t)' = h[newest'[t]]
    BY <1>7, <2>3, <2>4, <2>5
  <2>7. \A k \in About(t) : k.number <= newest'[t] \/ IsSent(k, t)'
    BY <1>2, <1>3, <1>4, <2>2, <2>3 DEF IsSent
  <2>8. History(t, h)'
    BY <1>1, <1>2, <1>4, <1>10, <2>1, <2>3, <2>6, <2>7, HistoryMoves DEF FollowInv
  <2> QED
    BY <2>8 DEF Follows
<1>16. \A s \in Subjects : Follows(s)'
  BY <1>11, <1>13, <1>14, <1>15
<1> QED
  BY <1>6, <1>9, <1>10, <1>16 DEF FollowInv, Follows

\* An account that changes, and the message about it.
LEMMA Told ==
    ASSUME FollowInv, Provider
    PROVE  FollowInv'
<1>1. PICK t \in Subjects, payload \in Payloads :
        /\ payload.subject = t
        /\ Tell(<<payload>>)
        /\ AccountsOK'
        /\ \A s \in Subjects \ {t} : Granted(s)' = Granted(s)
        /\ Says(payload, Granted(t), Granted(t)')
  BY ProviderResult DEF FollowInv
<1>2. PICK n : n = sent + 1
  OBVIOUS
<1>3. PICK m : m = [number |-> n, payload |-> payload, tries |-> 0]
  OBVIOUS
<1>4. /\ sent' = n /\ n <= MaxMessages
      /\ pending' = pending \cup {m}
      /\ UNCHANGED <<newest, overtaken, givenUp, users, members>>
  BY <1>1, <1>2, <1>3, TellResult DEF FollowInv
<1>5. /\ sent \in Nat /\ n \in Nat /\ MaxMessages \in Nat
      /\ newest \in [Subjects -> 0..sent]
      /\ \A k \in pending : k.number \in 1..sent
  BY <1>2, BoundsAssumption DEF FollowInv, MessagesOK
<1>6. MessagesOK'
  <2>1. 1..sent \subseteq 1..n /\ 0..sent \subseteq 0..n /\ n \in 1..n /\ n \in 0..MaxMessages
    BY <1>2, <1>4, <1>5
  <2>2. m \in [number : 1..n, payload : Payloads, tries : Nat]
    BY <1>3, <2>1
  <2>3. pending \subseteq [number : 1..n, payload : Payloads, tries : Nat]
    BY <2>1 DEF FollowInv, MessagesOK
  <2>4. newest \in [Subjects -> 0..n]
    BY <1>5, <2>1
  <2> QED
    BY <1>4, <2>1, <2>2, <2>3, <2>4 DEF MessagesOK
<1>7. TablesOK' /\ \A s : AccessOf(s)' = AccessOf(s)
  BY <1>4, SameTables DEF FollowInv
<1>8. ASSUME NEW s \in Subjects
      PROVE  Follows(s)'
  <2>1. About(s)' = About(s) \cup {k \in {m} : s = t}
    BY <1>1, <1>3, <1>4 DEF About
  <2>2. CASE Doomed(s)
    BY <1>4, <2>1, <2>2 DEF Follows, Doomed
  <2>3. CASE ~ Doomed(s)
    <3>1. PICK h \in [0..MaxMessages -> Accesses] : History(s, h)
      BY <2>3 DEF FollowInv, Follows
    <3>2. PICK a \in Accesses : a = Granted(s)'
      BY <1>1, GrantedTypeNext
    <3>3. PICK g \in [0..MaxMessages -> Accesses] :
             /\ g[n] = a
             /\ \A i \in 0..sent : g[i] = h[i]
      <4>1. n \in 0..MaxMessages /\ \A i \in 0..sent : i # n /\ i \in 0..MaxMessages
        BY <1>2, <1>4, <1>5
      <4>2. [h EXCEPT ![n] = a] \in [0..MaxMessages -> Accesses]
        OBVIOUS
      <4> QED
        BY <4>1, <4>2
    <3>4. newest'[s] = newest[s] /\ newest[s] \in 0..sent
      BY <1>4, <1>5
    <3>5. AccessOf(s)' = g[newest'[s]]
      BY <1>7, <3>1, <3>3, <3>4 DEF History
    <3>6. Granted(s)' = g[sent']
      BY <1>4, <3>2, <3>3
    <3>7. \A k \in About(s)' : Says(k.payload, g[k.number - 1], g[k.number])
      <4>1. ASSUME NEW k \in About(s)
            PROVE  Says(k.payload, g[k.number - 1], g[k.number])
        <5>1. k.number \in 0..sent /\ k.number - 1 \in 0..sent
          BY <1>5 DEF About
        <5> QED
          BY <3>1, <3>3, <5>1 DEF History
      <4>2. ASSUME s = t
            PROVE  Says(m.payload, g[m.number - 1], g[m.number])
        <5>1. m.payload = payload /\ m.number = n /\ n - 1 = sent /\ sent \in 0..sent
          BY <1>2, <1>3, <1>5
        <5>2. g[sent] = Granted(s) /\ g[n] = Granted(s)'
          BY <3>1, <3>2, <3>3, <5>1 DEF History
        <5> QED
          BY <1>1, <4>2, <5>1, <5>2
      <4> QED
        BY <2>1, <4>1, <4>2
    <3>8. ASSUME NEW i \in newest'[s]..sent', NEW j \in newest'[s]..sent', i <= j,
                 \A k \in About(s)' : k.number \notin (i + 1)..j
          PROVE  g[i] = g[j]
      <4>1. \A k \in About(s) : k.number \notin (i + 1)..j
        BY <2>1, <3>8
      <4>2. CASE j <= sent
        <5>1. i \in newest[s]..sent /\ j \in newest[s]..sent /\ i \in 0..sent /\ j \in 0..sent
          BY <1>4, <1>5, <3>4, <3>8, <4>2
        <5> QED
          BY <3>1, <3>3, <3>8, <4>1, <5>1 DEF History
      <4>3. CASE j > sent /\ i <= sent
        <5>1. j = n /\ i \in newest[s]..sent /\ sent \in newest[s]..sent /\ i \in 0..sent
          BY <1>2, <1>4, <1>5, <3>4, <3>8, <4>3
        <5>2. s # t
          BY <1>2, <1>3, <1>5, <2>1, <3>8, <5>1
        <5>3. \A k \in About(s) : k.number \notin (i + 1)..sent
          BY <1>2, <1>5, <4>1, <5>1
        <5>4. h[i] = h[sent]
          BY <1>5, <3>1, <5>1, <5>3 DEF History
        <5>5. h[sent] = a
          BY <1>1, <3>1, <3>2, <5>2 DEF History
        <5> QED
          BY <3>3, <5>1, <5>4, <5>5
      <4>4. CASE i > sent
        BY <1>2, <1>4, <1>5, <3>4, <3>8, <4>4
      <4> QED
        BY <1>4, <1>5, <3>4, <3>8, <4>2, <4>3, <4>4
    <3>9. History(s, g)'
      BY <3>5, <3>6, <3>7, <3>8 DEF History
    <3> QED
      BY <3>9 DEF Follows
  <2> QED
    BY <2>2, <2>3
<1> QED
  BY <1>1, <1>6, <1>7, <1>8 DEF FollowInv, Follows

\* What neither sends nor handles a message.
LEMMA Aside ==
    ASSUME FollowInv, UNCHANGED <<provider, delivery, tables>>
    PROVE  FollowInv'
<1>1. UNCHANGED <<accounts, sent, pending, newest, overtaken, givenUp, users, members>>
  BY DEF provider, delivery, tables
<1>2. AccountsOK' /\ MessagesOK' /\ TablesOK'
  BY <1>1, SameAccounts, SameTables DEF FollowInv, MessagesOK
<1>3. ASSUME NEW s \in Subjects
      PROVE  Follows(s)'
  <2>1. About(s)' = About(s) /\ Granted(s)' = Granted(s) /\ AccessOf(s)' = AccessOf(s)
    BY <1>1, SameAccounts, SameTables DEF About
  <2>2. Doomed(s) => Doomed(s)'
    BY <1>1, <2>1 DEF Doomed
  <2>3. ASSUME NEW h, History(s, h)
        PROVE  History(s, h)'
    BY <1>1, <2>1, <2>3 DEF History
  <2> QED
    BY <2>2, <2>3 DEF FollowInv, Follows
<1> QED
  BY <1>2, <1>3 DEF FollowInv, Follows

LEMMA FollowInit == Init => FollowInv
<1> SUFFICES ASSUME Init
             PROVE  FollowInv
  OBVIOUS
<1>1. /\ sent = 0 /\ pending = {} /\ newest = [s \in Subjects |-> 0]
      /\ users = <<>> /\ members = {}
  BY DEF Init
<1>2. AccountsOK
  BY DEF Init, AccountsOK, NoAccount, LiveAccount
<1>3. MessagesOK
  BY <1>1, BoundsAssumption DEF MessagesOK
<1>4. TablesOK
  <2>1. \A R : <<>> \in Seq(R)
    BY EmptySeq
  <2> QED
    BY <1>1, <2>1 DEF TablesOK
<1>5. ASSUME NEW s \in Subjects
      PROVE  \E h \in [0..MaxMessages -> Accesses] : History(s, h)
  <2>1. PICK h \in [0..MaxMessages -> Accesses] : h[0] = {}
    <3> DEFINE f == [i \in 0..MaxMessages |-> {}]
    <3>1. f \in [0..MaxMessages -> Accesses]
      BY DEF Accesses
    <3>2. 0 \in 0..MaxMessages
      BY BoundsAssumption
    <3>3. f[0] = {}
      BY <3>2
    <3> QED
      BY <3>1, <3>3
  <2>2. accounts[s].member = None
    BY DEF Init, NoAccount, LiveAccount
  <2>3. Granted(s) = {}
    BY <2>2 DEF Granted
  <2>4. AccessOf(s) = {}
    BY <1>1, AccessMembers DEF Gives
  <2>5. About(s) = {} /\ newest[s] = 0
    BY <1>1 DEF About
  <2>6. \A i, j \in newest[s]..sent : h[i] = h[j]
    BY <1>1, <2>5
  <2>7. History(s, h)
    BY <1>1, <2>1, <2>3, <2>4, <2>5, <2>6 DEF History
  <2> QED
    BY <2>7
<1> QED
  BY <1>2, <1>3, <1>4, <1>5 DEF FollowInv, Follows

LEMMA FollowNext == FollowInv /\ [Next]_vars => FollowInv'
<1> SUFFICES ASSUME FollowInv, [Next]_vars PROVE FollowInv'
  OBVIOUS
<1>1. CASE Start \/ Stop \/ DeliverOther \/ UNCHANGED vars
  <2>1. UNCHANGED <<provider, delivery, tables>>
    BY <1>1 DEF Start, Stop, DeliverOther, vars
  <2> QED
    BY <2>1, Aside
<1>2. CASE Provider
  BY <1>2, Told
<1>3. CASE \E m \in pending : Lose(m) \/ Deliver(m) \/ Refuse(m)
  BY <1>3, NotHandled, Handled
<1>4. CASE \E request \in Requests : CreateObjective(request) \/ DispatchTask(request)
  <2>1. UNCHANGED <<provider, delivery, tables>>
    BY <1>4 DEF CreateObjective, DispatchTask, Keep
  <2> QED
    BY <2>1, Aside
<1> QED
  BY <1>1, <1>2, <1>3, <1>4 DEF Next

\* Whatever crashes, is lost, refused, repeated or overtaken: an account of which no
\* message is on its way, and none was given up or handled after a newer one, has
\* the access that the provider says it has.
THEOREM TablesFollowProvider == Spec => []AgreesWhenQuiet
<1>1. FollowInv => AgreesWhenQuiet
  <2> SUFFICES ASSUME FollowInv, NEW s \in Subjects \ (overtaken \cup givenUp),
                      \A m \in pending : m.payload.subject # s
               PROVE  AccessOf(s) = Granted(s)
    BY DEF AgreesWhenQuiet
  <2>1. About(s) = {}
    BY DEF About
  <2>2. PICK h \in [0..MaxMessages -> Accesses] : History(s, h)
    BY <2>1 DEF FollowInv, Follows, Doomed
  <2>3. newest[s] \in newest[s]..sent /\ sent \in newest[s]..sent /\ newest[s] <= sent
    BY DEF FollowInv, MessagesOK
  <2>4. h[newest[s]] = h[sent]
    BY <2>1, <2>2, <2>3 DEF History
  <2> QED
    BY <2>2, <2>4 DEF History
<1>2. Spec => []FollowInv
  BY FollowInit, FollowNext, PTL DEF Spec
<1> QED
  BY <1>1, <1>2, PTL
=============================================================================
