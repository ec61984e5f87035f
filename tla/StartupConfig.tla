---------------------------- MODULE StartupConfig ----------------------------
(***************************************************************************)
(* How the control plane decides to start (apps/control-plane/src/         *)
(* runtime-config.ts): the environment's variables become a configuration, *)
(* or the process refuses to start.                                        *)
(*                                                                         *)
(* A variable has the value "unset" if it is absent, "" if it is empty,    *)
(* and "set" for any other value where no value is told from another.  A   *)
(* mode stands for its spellings, which are trimmed and lower-cased.       *)
(***************************************************************************)
Modes == {"unset", "", "development", "dev", "test", "production", "staging"}
Values == {"unset", "", "set"}

Environment ==
    [APP_ENV : Modes, NODE_ENV : Modes,
     DATABASE_URL : Values, AUTH_JWKS_URL : Values, AUTH_ISSUER : Values,
     AUTH_AUDIENCE : Values, CLERK_WEBHOOK_SECRET : Values,
     AUTH_REQUIRE_MFA : {"unset", "true", "yes"}, AUTH_MFA_CLAIM : {"unset", "amr"}]

AppEnvOf(mode) ==
    CASE mode \in {"development", "dev"} -> "development"
      [] mode = "test"                   -> "test"
      [] OTHER                           -> "production"

\* Mutants of ResolveAppEnv: NODE_ENV wins; an unset environment is a developer's.
NodeEnvWins(env) == AppEnvOf(IF env.NODE_ENV # "unset" THEN env.NODE_ENV ELSE env.APP_ENV)
UnsetIsDevelopment(env) ==
    IF env.APP_ENV = "unset" /\ env.NODE_ENV = "unset" THEN "development"
    ELSE AppEnvOf(IF env.APP_ENV # "unset" THEN env.APP_ENV ELSE env.NODE_ENV)

\* An empty APP_ENV is not unset: it hides NODE_ENV.
ResolveAppEnv(env) == AppEnvOf(IF env.APP_ENV # "unset" THEN env.APP_ENV ELSE env.NODE_ENV)

Present(value) == value \notin {"unset", ""}

RequiredVars ==
    {"DATABASE_URL", "AUTH_JWKS_URL", "AUTH_ISSUER", "AUTH_AUDIENCE", "CLERK_WEBHOOK_SECRET"}

MissingProductionVars(env) ==
    {name \in RequiredVars : ~Present(env[name])}
        \cup (IF env.AUTH_REQUIRE_MFA = "true" THEN {} ELSE {"AUTH_REQUIRE_MFA"})

\* An issuer or an audience is checked if it is given.
JwtAuth(env, requireMfa) ==
    [kind |-> "jwt",
     issuer |-> Present(env.AUTH_ISSUER), audience |-> Present(env.AUTH_AUDIENCE),
     requireMfa |-> requireMfa,
     mfaClaim |-> IF env.AUTH_MFA_CLAIM = "unset" THEN "mfa" ELSE env.AUTH_MFA_CLAIM]

DevShimAuth == [kind |-> "dev-shim"]

ResolveStartupConfig(env) ==
    IF ResolveAppEnv(env) = "production"
    THEN [ok |-> MissingProductionVars(env) = {},
          database |-> Present(env.DATABASE_URL),
          auth |-> JwtAuth(env, TRUE),
          webhook |-> Present(env.CLERK_WEBHOOK_SECRET)]
    ELSE [ok |-> TRUE,
          database |-> Present(env.DATABASE_URL),
          auth |-> IF Present(env.AUTH_JWKS_URL) /\ Present(env.DATABASE_URL)
                   THEN JwtAuth(env, env.AUTH_REQUIRE_MFA = "true")
                   ELSE DevShimAuth,
          webhook |-> Present(env.CLERK_WEBHOOK_SECRET)]
=============================================================================
