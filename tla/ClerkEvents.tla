----------------------------- MODULE ClerkEvents -----------------------------
(***************************************************************************)
(* What the webhook makes of a verified payload (apps/control-plane/src/   *)
(* webhooks/clerk-events.ts).  A payload has a type and, in its data, the  *)
(* organization, the user, an identifier or an email address, and a role;  *)
(* None where there is none, or no text.  A payload that lacks what its    *)
(* type requires parses to Malformed, one of another type to Ignored.      *)
(***************************************************************************)
CONSTANT None

Malformed == [kind |-> "malformed"]
Ignored == [kind |-> "ignored"]

Payload(type, org, subject, email, role) ==
    [type |-> type, org |-> org, subject |-> subject, email |-> email, role |-> role]

MapClerkRole(role) == IF role \in {"org:admin", "admin"} THEN "admin" ELSE "team_member"

\* The identifier of the public user data is the email of the row.
ParseMembershipSync(data) ==
    IF None \in {data.org, data.subject, data.email} THEN Malformed
    ELSE [kind |-> "sync", org |-> data.org, subject |-> data.subject,
          email |-> data.email, role |-> MapClerkRole(data.role)]

ParseMembershipRef(data) ==
    IF None \in {data.org, data.subject} THEN Malformed
    ELSE [kind |-> "remove", org |-> data.org, subject |-> data.subject]

\* The primary email address, or else the first: a user may have none.
PrimaryEmail(data) == data.email

ParseUserUpdate(data) ==
    IF data.subject = None \/ PrimaryEmail(data) = None THEN Malformed
    ELSE [kind |-> "update", subject |-> data.subject, email |-> PrimaryEmail(data)]

ParseDeletedId(data) ==
    IF data.subject = None THEN Malformed ELSE [kind |-> "revoke", subject |-> data.subject]

ParseOrgUpdate(data) ==
    IF data.org = None THEN Malformed ELSE [kind |-> "organization", org |-> data.org]

\* The types handle() knows.
ParseClerkEvent(payload) ==
    CASE payload.type \in {"organizationMembership.created", "organizationMembership.updated"}
              -> ParseMembershipSync(payload)
      [] payload.type = "organizationMembership.deleted" -> ParseMembershipRef(payload)
      [] payload.type \in {"user.created", "user.updated"} -> ParseUserUpdate(payload)
      [] payload.type = "user.deleted" -> ParseDeletedId(payload)
      [] payload.type \in {"organization.created", "organization.updated"}
              -> ParseOrgUpdate(payload)
      [] OTHER -> Ignored
=============================================================================
