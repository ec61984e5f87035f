------------------------------- MODULE Policy -------------------------------
(***************************************************************************)
(* The policy engine (packages/policy): one decision, taken in a fixed     *)
(* order, deny first, from the principal, the action, the resource and the *)
(* kill switches.  A field a resource does not carry is None; messages are *)
(* left out, so a decision is its effect and its reason.                   *)
(***************************************************************************)
EXTENDS Integers

CONSTANT None       \* a field that is undefined

OBSERVE == 0
PREPARE == 1
ROUTINE_ACTION == 2
APPROVAL_REQUIRED == 3
NEVER_AUTONOMOUS == 4

Scopes == {"PRIVATE", "PROJECT", "TEAM", "ORGANIZATION"}

\* The highest level an action may carry for a principal of a role to attempt it.
DefaultRoleCeilings ==
    [owner |-> NEVER_AUTONOMOUS, admin |-> NEVER_AUTONOMOUS,
     executive |-> APPROVAL_REQUIRED, team_lead |-> APPROVAL_REQUIRED,
     team_member |-> ROUTINE_ACTION, contractor |-> PREPARE]

Roles == DOMAIN DefaultRoleCeilings

HasScopeAccess(principal, resource) ==
    \/ resource.scope = "ORGANIZATION"
    \/ /\ resource.scope = "TEAM"
       /\ resource.teamId # None /\ resource.teamId \in principal.teamIds
    \/ /\ resource.scope = "PROJECT"
       /\ resource.projectId # None /\ resource.projectId \in principal.projectIds
    \/ /\ resource.scope = "PRIVATE"
       /\ resource.ownerUserId # None /\ resource.ownerUserId = principal.userId

\* Only side effects can be paused: all of them, or those of one capability.
IsBlockedByKillSwitch(action, killSwitches) ==
    /\ action.sideEffecting
    /\ \/ killSwitches.globalPause
       \/ action.capability # None /\ action.capability \in killSwitches.disabledCapabilities

NoKillSwitches == [globalPause |-> FALSE, disabledCapabilities |-> {}]

\* The first check that applies gives the reason.
Reason(principal, action, resource, killSwitches) ==
    IF resource.organizationId # principal.organizationId THEN "cross_tenant"
    ELSE IF ~ HasScopeAccess(principal, resource) THEN "scope_denied"
    ELSE IF IsBlockedByKillSwitch(action, killSwitches) THEN "kill_switch"
    ELSE IF action.authorityLevel > DefaultRoleCeilings[principal.role]
         THEN "insufficient_authority"
    ELSE IF /\ action.authorityLevel = NEVER_AUTONOMOUS
            /\ principal.actorKind # "human" THEN "never_autonomous"
    ELSE IF action.authorityLevel = APPROVAL_REQUIRED THEN "approval_required"
    ELSE "ok"

\* evaluate: only an explicit approval or a denial stands in the way.
Effect(reason) ==
    CASE reason = "ok" -> "allow"
      [] reason = "approval_required" -> "requires_approval"
      [] OTHER -> "deny"

Evaluate(principal, action, resource, killSwitches) ==
    Effect(Reason(principal, action, resource, killSwitches))
=============================================================================
