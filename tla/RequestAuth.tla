----------------------------- MODULE RequestAuth -----------------------------
(***************************************************************************)
(* The authenticators of the control plane (apps/control-plane/src/auth,   *)
(* principal.ts).  A request carries a bearer token, or None, and the      *)
(* x-donna headers of a developer, or None: the identity they claim, if    *)
(* the headers it needs are there and the role is one.                     *)
(*                                                                         *)
(* A token is what its verification tells apart: whether it is signed by   *)
(* the provider and has not expired, whether its issuer and its audience   *)
(* are those configured, its subject, and the claims that have a value     *)
(* which counts as a second factor (true, "true" or 1).                    *)
(***************************************************************************)
CONSTANT None

Token(subject, mfa) ==
    [signed |-> TRUE, issued |-> TRUE, addressed |-> TRUE, subject |-> subject, mfa |-> mfa]

MfaSatisfied(auth, token) == auth.mfaClaim \in token.mfa

\* What jose checks.
IsValid(auth, token) ==
    /\ token.signed
    /\ auth.issuer => token.issued
    /\ auth.audience => token.addressed

\* verifyToken, with the status of its refusals.
VerifyToken(auth, token) ==
    CASE ~IsValid(auth, token) \/ token.subject = None       -> "invalid_token"
      [] IsValid(auth, token) /\ token.subject # None
             /\ auth.requireMfa /\ ~MfaSatisfied(auth, token) -> "mfa_required"
      [] OTHER                                               -> "verified"

Refusal(error) == [ok |-> FALSE, error |-> error, principal |-> None]
Admitted(principal) == [ok |-> TRUE, error |-> None, principal |-> principal]

DevAuthenticate(request) ==
    IF request.claimed = None THEN Refusal("unauthenticated") ELSE Admitted(request.claimed)

\* principals are those the tables give the token's subject: one, or none.
JwtAuthenticate(auth, request, principals) ==
    IF request.token = None THEN Refusal("missing_bearer_token")
    ELSE LET verdict == VerifyToken(auth, request.token) IN
         IF verdict # "verified" THEN Refusal(verdict)
         ELSE IF principals = {} THEN Refusal("no_account")
         ELSE Admitted(CHOOSE p \in principals : TRUE)
=============================================================================
