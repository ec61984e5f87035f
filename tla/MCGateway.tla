------------------------------- MODULE MCGateway -------------------------------
(* Gateway with complete and incomplete environments, and requests each of which *)
(* lacks one thing.                                                              *)
EXTENDS Gateway, TLC

Complete ==
    [APP_ENV |-> "unset", NODE_ENV |-> "unset", DATABASE_URL |-> "set",
     AUTH_JWKS_URL |-> "set", AUTH_ISSUER |-> "set", AUTH_AUDIENCE |-> "set",
     CLERK_WEBHOOK_SECRET |-> "set", AUTH_REQUIRE_MFA |-> "true", AUTH_MFA_CLAIM |-> "unset"]

Empty ==
    [name \in DOMAIN Complete |-> "unset"]

\* Complete but for one variable; nothing but a mode; and complete, with modes that
\* contradict each other.
MCEnvironments ==
    {[Complete EXCEPT ![name] = value] :
        name \in RequiredVars \cup {"AUTH_REQUIRE_MFA"}, value \in {"unset"}}
    \cup {[Empty EXCEPT !.APP_ENV = app, !.NODE_ENV = node] : app \in Modes, node \in Modes}
    \cup {[Complete EXCEPT !.APP_ENV = "production", !.NODE_ENV = "development",
                           !.AUTH_MFA_CLAIM = "amr"]}

Good(s) == Token(s, {"mfa"})

Tokens ==
    UNION {{Good(s), Token(s, {"amr"}),
            [Good(s) EXCEPT !.signed = FALSE], [Good(s) EXCEPT !.issued = FALSE],
            [Good(s) EXCEPT !.addressed = FALSE]} : s \in Subjects}
    \cup {Good(None)}

Claimed == [userId |-> 1, organizationId |-> "another", role |-> "owner"]

MCRequests ==
    [token : Tokens \cup {None}, claimed : {None}]
    \cup {[token |-> None, claimed |-> Claimed]}
    \cup {[token |-> Good(s), claimed |-> Claimed] : s \in Subjects}

Symmetry == Permutations(Subjects) \cup Permutations(Orgs)
=============================================================================
