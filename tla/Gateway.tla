------------------------------- MODULE Gateway -------------------------------
(***************************************************************************)
(* The control plane as its surroundings see it: a process that starts as  *)
(* its environment tells it (main.ts), may die at any time and is started  *)
(* again; an identity provider that keeps who is a member of what and      *)
(* tells the webhook, each message until it is acknowledged or has been    *)
(* tried often enough; and requests, which are authenticated and create    *)
(* objectives and tasks.                                                   *)
(*                                                                         *)
(* A message is handled, and a request served, in one step: how handlers   *)
(* interleave is Provisioning, what the policy decides is ControlPlane.    *)
(***************************************************************************)
EXTENDS Naturals, FiniteSets, Sequences, StartupConfig

CONSTANTS
    Environments,  \* the environments a deployment may have
    Requests,      \* the requests that may come: a token and claimed headers
    Orgs,
    Subjects,      \* accounts, by their id at the provider
    Emails,
    MaxMessages,   \* bound: the messages the provider sends
    MaxTries,      \* how often the provider tries to deliver one
    MaxItems,      \* bound: the objectives and tasks created
    None

INSTANCE RequestAuth
INSTANCE ClerkEvents

ASSUME EnvironmentsAssumption == Environments \subseteq Environment
ASSUME BoundsAssumption == MaxMessages \in Nat /\ MaxTries \in Nat \ {0} /\ MaxItems \in Nat

\* What an account may be a member of, and as what.
ClerkRoles == {"org:admin", "org:member"}
Memberships == [org : Orgs, role : ClerkRoles]

ASSUME NoneAssumption == None \notin Orgs \cup Subjects \cup Emails \cup Memberships

VARIABLES
    env,         \* the environment of the deployment
    server,      \* "down", "refused" or "up"
    accounts,    \* the provider's accounts: their state, email and membership
    sent,        \* how many messages the provider has sent
    pending,     \* those it still tries to deliver
    newest,      \* history: for each subject, the newest message handled
    overtaken,   \* history: the subjects of which an older message was handled last
    givenUp,     \* history: the subjects of which a message was given up
    users,       \* the rows of users, in the order of their creation
    members,     \* the rows of memberships
    stored,      \* the objectives and tasks in the database
    memory,      \* those in the in-memory services
    answered     \* history: those a client was told have been created

provider == <<accounts, sent>>
delivery == <<pending, newest, overtaken, givenUp>>
tables == <<users, members>>
items == <<stored, memory, answered>>
vars == <<env, server, provider, delivery, tables, items>>

Config == ResolveStartupConfig(env)

NoAccount == [state |-> "none", email |-> None, member |-> None]
LiveAccount(email) == [state |-> "live", email |-> email, member |-> None]

Init ==
    /\ env \in Environments
    /\ server = "down"
    /\ accounts \in [Subjects -> {NoAccount} \cup
                                  {LiveAccount(email) : email \in Emails}]
    /\ \A s, t \in Subjects : accounts[s].email = accounts[t].email => s = t \/ accounts[s].email = None
    /\ sent = 0
    /\ pending = {}
    /\ newest = [s \in Subjects |-> 0]
    /\ overtaken = {}
    /\ givenUp = {}
    /\ users = <<>>
    /\ members = {}
    /\ stored = {}
    /\ memory = {}
    /\ answered = {}

-----------------------------------------------------------------------------
(* The process. *)

\* JWT authentication without a database throws: buildAuthenticator.
Boots == Config.ok /\ (Config.auth.kind = "jwt" => Config.database)

Start ==
    /\ server = "down"
    /\ server' = IF Boots THEN "up" ELSE "refused"
    /\ UNCHANGED <<env, provider, delivery, tables, items>>

\* A crash, or a signal: what only the process held is gone.
Stop ==
    /\ server = "up"
    /\ server' = "down"
    /\ memory' = {}
    /\ UNCHANGED <<env, provider, delivery, tables, stored, answered>>

\* The route is registered if there is a database and a signing secret.
HasWebhook == Boots /\ Config.database /\ Config.webhook
ServesWebhook == server = "up" /\ HasWebhook

-----------------------------------------------------------------------------
(* The provider.  A change of an account and the messages about it are one step. *)

\* A deployment without the route has no endpoint at the provider.
Tell(payloads) ==
    /\ HasWebhook
    /\ sent + Len(payloads) <= MaxMessages
    /\ sent' = sent + Len(payloads)
    /\ pending' = pending \cup
           {[number |-> sent + i, payload |-> payloads[i], tries |-> 0] : i \in DOMAIN payloads}
    /\ UNCHANGED <<env, server, newest, overtaken, givenUp, tables, items>>

\* Two accounts do not have an email at the same time, but one after the other.
IsFree(email) ==
    email = None \/ \A s \in Subjects : accounts[s].state = "live" => accounts[s].email # email

UserPayload(type, s, email) == Payload(type, None, s, email, None)
MemberPayload(type, s, member) ==
    Payload(type, member.org, s,
            IF accounts[s].email = None THEN s ELSE accounts[s].email, member.role)

CreateAccount(s, email) ==
    /\ accounts[s].state = "none" /\ IsFree(email)
    /\ accounts' = [accounts EXCEPT ![s] = LiveAccount(email)]
    /\ Tell(<<UserPayload("user.created", s, email)>>)

ChangeEmail(s, email) ==
    /\ accounts[s].state = "live" /\ accounts[s].email # email /\ IsFree(email)
    /\ accounts' = [accounts EXCEPT ![s].email = email]
    /\ Tell(<<UserPayload("user.updated", s, email)>>)

\* A user is a member of one organization at a time.
Join(s, member) ==
    /\ accounts[s].state = "live" /\ accounts[s].member = None
    /\ accounts' = [accounts EXCEPT ![s].member = member]
    /\ Tell(<<MemberPayload("organizationMembership.created", s, member)>>)

ChangeRole(s, role) ==
    /\ accounts[s].member # None /\ accounts[s].member.role # role
    /\ accounts' = [accounts EXCEPT ![s].member.role = role]
    /\ Tell(<<MemberPayload("organizationMembership.updated", s,
                            [accounts[s].member EXCEPT !.role = role])>>)

Leave(s) ==
    /\ accounts[s].member # None
    /\ accounts' = [accounts EXCEPT ![s].member = None]
    /\ Tell(<<MemberPayload("organizationMembership.deleted", s, accounts[s].member)>>)

DeleteAccount(s) ==
    /\ accounts[s].state = "live" /\ accounts[s].member = None
    /\ accounts' = [accounts EXCEPT ![s] = [NoAccount EXCEPT !.state = "gone"]]
    /\ Tell(<<UserPayload("user.deleted", s, None)>>)

Provider ==
    \/ \E s \in Subjects, email \in Emails \cup {None} :
          CreateAccount(s, email) \/ ChangeEmail(s, email)
    \/ \E s \in Subjects, member \in Memberships : Join(s, member)
    \/ \E s \in Subjects, role \in ClerkRoles : ChangeRole(s, role)
    \/ \E s \in Subjects : Leave(s) \/ DeleteAccount(s)

-----------------------------------------------------------------------------
(* The tables. *)

UserOf(s) == {u \in DOMAIN users : users[u].subject = s}

\* users_org_email_unique.
IsTaken(u, org, email) ==
    \E v \in DOMAIN users \ {u} : users[v].org = org /\ users[v].email = email

\* memberships_org_user_fk and objectives_org_owner_fk hold a user where it is.
IsReferredTo(u) ==
    \/ \E m \in members : m.user = u
    \/ \E item \in stored : item.kind = "objective" /\ item.owner = u

\* The row a sync writes: the subject's, or a new one.
RowFor(s) == IF UserOf(s) = {} THEN Len(users) + 1 ELSE CHOOSE u \in UserOf(s) : TRUE

\* Whether the payload parsed and the statements of handle() violate no constraint.
Fits(event) ==
    CASE event.kind = "malformed" -> FALSE
      [] event.kind = "sync" ->
              LET u == RowFor(event.subject) IN
              /\ ~IsTaken(u, event.org, event.email)
              /\ UserOf(event.subject) # {} /\ users[u].org # event.org => ~IsReferredTo(u)
      [] event.kind = "update" ->
              \A u \in UserOf(event.subject) : ~IsTaken(u, users[u].org, event.email)
      [] event.kind \in {"remove", "revoke"} -> TRUE

SyncMembership(event) ==
    LET u == RowFor(event.subject)
        row == [subject |-> event.subject, org |-> event.org, email |-> event.email] IN
    /\ event.kind = "sync"
    /\ users' = IF UserOf(event.subject) = {} THEN Append(users, row)
                                              ELSE [users EXCEPT ![u] = row]
    /\ members' = {m \in members : m.user # u \/ m.org # event.org}
                      \cup {[user |-> u, org |-> event.org, role |-> event.role]}

UpdateUser(event) ==
    /\ event.kind = "update"
    /\ users' = [u \in DOMAIN users |->
           IF u \in UserOf(event.subject) THEN [users[u] EXCEPT !.email = event.email]
                                          ELSE users[u]]
    /\ UNCHANGED members

RemoveMembership(event) ==
    /\ event.kind = "remove"
    /\ members' = {m \in members : m.user \notin UserOf(event.subject) \/ m.org # event.org}
    /\ UNCHANGED users

\* The external id is cleared; the row stays, with its email.
RevokeUser(event) ==
    /\ event.kind = "revoke"
    /\ users' = [u \in DOMAIN users |->
           IF u \in UserOf(event.subject) THEN [users[u] EXCEPT !.subject = None] ELSE users[u]]
    /\ UNCHANGED members

Handle(event) ==
    \/ SyncMembership(event) \/ UpdateUser(event) \/ RemoveMembership(event)
    \/ RevokeUser(event)

-----------------------------------------------------------------------------
(* The webhook. *)

Acknowledged(m) == pending' = pending \ {m} /\ UNCHANGED givenUp

\* Tried again, until it has been tried often enough.
Retried(m) ==
    IF m.tries + 1 < MaxTries
    THEN /\ pending' = (pending \ {m}) \cup {[m EXCEPT !.tries = @ + 1]}
         /\ UNCHANGED givenUp
    ELSE /\ pending' = pending \ {m}
         /\ givenUp' = givenUp \cup {m.payload.subject}

\* No one answers, the database fails, or the process dies before the commit.
Lose(m) ==
    /\ Retried(m)
    /\ UNCHANGED <<env, server, provider, newest, overtaken, tables, items>>

Order(m) ==
    LET s == m.payload.subject IN
    /\ newest' = [newest EXCEPT ![s] = IF m.number > @ THEN m.number ELSE @]
    /\ overtaken' = IF m.number < newest[s] THEN overtaken \cup {s} ELSE overtaken

\* It is handled and answered with 200, but the answer may be lost.
Deliver(m) ==
    LET event == ParseClerkEvent(m.payload) IN
    /\ ServesWebhook
    /\ Fits(event)
    /\ Handle(event)
    /\ Order(m)
    /\ Acknowledged(m) \/ Retried(m)
    /\ UNCHANGED <<env, server, provider, items>>

\* Mutant of Refuse: whatever was thrown, the answer is 200.
RefuseQuietly(m) ==
    /\ ServesWebhook
    /\ ~Fits(ParseClerkEvent(m.payload))
    /\ Acknowledged(m)
    /\ UNCHANGED <<env, server, provider, newest, overtaken, tables, items>>

\* 400 for a malformed payload, 500 for a constraint: nothing is written.
Refuse(m) ==
    /\ ServesWebhook
    /\ ~Fits(ParseClerkEvent(m.payload))
    /\ Retried(m)
    /\ UNCHANGED <<env, server, provider, newest, overtaken, tables, items>>

\* What is about no account changes nothing kept here: an organization's name and
\* slug are written, another type is answered with 200; what is not signed, with 401.
DeliverOther ==
    /\ ServesWebhook
    /\ \E type \in {"organization.updated", "session.created"}, o \in Orgs :
           ParseClerkEvent(Payload(type, o, None, None, None)).kind
               \in {"organization", "ignored"}
    /\ UNCHANGED vars

-----------------------------------------------------------------------------
(* The requests. *)

\* DrizzlePrincipalResolver: the membership of the subject's user in the user's
\* organization.
PrincipalsOf(s) ==
    {[userId |-> m.user, organizationId |-> m.org, role |-> m.role] :
        m \in {n \in members : n.user \in UserOf(s) /\ n.org = users[n.user].org}}

Resolved(token) == IF token = None THEN {} ELSE PrincipalsOf(token.subject)

Authenticate(request) ==
    IF Config.auth.kind = "dev-shim" THEN DevAuthenticate(request)
    ELSE JwtAuthenticate(Config.auth, request, Resolved(request.token))

\* Stored in a transaction, or held by the process.
Keep(item) ==
    /\ answered' = answered \cup {item}
    /\ IF Config.database THEN stored' = stored \cup {item} /\ UNCHANGED memory
                          ELSE memory' = memory \cup {item} /\ UNCHANGED stored
    /\ UNCHANGED <<env, server, provider, delivery, tables>>

Visible(org) == {item \in stored \cup memory : item.org = org}

\* POST /objectives: the owner must have a row in the organization.
CreateObjective(request) ==
    LET outcome == Authenticate(request)
        p == outcome.principal IN
    /\ server = "up" /\ outcome.ok
    /\ Cardinality(answered) < MaxItems
    /\ Config.database => p.userId \in DOMAIN users /\ users[p.userId].org = p.organizationId
    /\ Keep([id |-> Cardinality(answered) + 1, kind |-> "objective",
             org |-> p.organizationId, owner |-> p.userId])

\* POST /objectives/:id/tasks: the objective is of the principal's organization.
DispatchTask(request) ==
    LET outcome == Authenticate(request)
        p == outcome.principal IN
    /\ server = "up" /\ outcome.ok
    /\ Cardinality(answered) < MaxItems
    /\ \E objective \in Visible(p.organizationId) :
          /\ objective.kind = "objective"
          /\ Keep([id |-> Cardinality(answered) + 1, kind |-> "task",
                   org |-> p.organizationId, owner |-> objective.id])

-----------------------------------------------------------------------------
Next ==
    \/ Start \/ Stop
    \/ Provider
    \/ \E m \in pending : Lose(m) \/ Deliver(m) \/ Refuse(m)
    \/ DeliverOther
    \/ \E request \in Requests : CreateObjective(request) \/ DispatchTask(request)

Spec == Init /\ [][Next]_vars
-----------------------------------------------------------------------------
\* "APP_ENV wins, then NODE_ENV; anything unrecognized or unset" is production.
SaysDevelopment ==
    LET modes == {"development", "dev", "test"} IN
    env.APP_ENV \in modes \/ (env.APP_ENV = "unset" /\ env.NODE_ENV \in modes)

(***************************************************************************)
(* The process fails closed: unless the environment says development or    *)
(* test, a request is admitted only with a token of this provider and for  *)
(* this audience, with a second factor, and as what the tables make of its *)
(* subject, whatever identity its headers claim.                           *)
(***************************************************************************)
ProductionNeedsProof ==
    server = "up" /\ ~SaysDevelopment =>
        \A request \in Requests : LET outcome == Authenticate(request) IN
            outcome.ok =>
                /\ request.token # None
                /\ request.token.signed /\ request.token.issued /\ request.token.addressed
                /\ (IF env.AUTH_MFA_CLAIM = "unset" THEN "mfa" ELSE env.AUTH_MFA_CLAIM)
                       \in request.token.mfa
                /\ outcome.principal \in PrincipalsOf(request.token.subject)

\* What a client was told has been created outlives the process, unless the
\* environment says development or test.
CreatedIsKept == ~SaysDevelopment => answered \subseteq stored

AccessOf(s) == {[org |-> p.organizationId, role |-> p.role] : p \in PrincipalsOf(s)}

Granted(s) ==
    IF accounts[s].member = None THEN {}
    ELSE {[org |-> accounts[s].member.org,
           role |-> IF accounts[s].member.role = "org:admin" THEN "admin" ELSE "team_member"]}

(***************************************************************************)
(* The tables follow the provider: once no message about an account is on  *)
(* its way, and none was given up or handled after a newer one, the        *)
(* account has the access the provider says it has, whatever crashed, was  *)
(* tried again or was handled twice on the way.                            *)
(***************************************************************************)
AgreesWhenQuiet ==
    \A s \in Subjects \ (overtaken \cup givenUp) :
        (\A m \in pending : m.payload.subject # s) => AccessOf(s) = Granted(s)
=============================================================================
