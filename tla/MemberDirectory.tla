---------------------------- MODULE MemberDirectory ----------------------------
(***************************************************************************)
(* What provisioning promises of the access the identity provider's events *)
(* give: a subject has access to one organization at most, and each step   *)
(* changes the access of one subject, as a whole.  A subject with access   *)
(* to one organization gets access to another only after losing the first; *)
(* the roles an event can give are those of GrantedRoles.                  *)
(***************************************************************************)
CONSTANTS
    Orgs,
    Subjects,
    GrantedRoles,
    NoAccess

VARIABLE access   \* for each subject, the organization and role it has, if any

Grants == [org : Orgs, role : GrantedRoles]

Init == access \in [Subjects -> Grants \cup {NoAccess}]

Sync(s, grant) ==
    /\ access[s] = NoAccess \/ access[s].org = grant.org
    /\ access' = [access EXCEPT ![s] = grant]

Withdraw(s) == access' = [access EXCEPT ![s] = NoAccess]

Next ==
    \E s \in Subjects :
        \/ \E grant \in Grants : Sync(s, grant)
        \/ Withdraw(s)

Spec == Init /\ [][Next]_access
=============================================================================
