------------------------------ MODULE AuthConfig ------------------------------
(***************************************************************************)
(* The authentication settings (pkg/auth/config.go) and what main.go       *)
(* builds from them.  The environment is a record: enabled and mode are    *)
(* AUTH_ENABLED and AUTH_MODE (in lower case, "" when unset), flags the    *)
(* methods whose own *_ENABLED is true, complete those that have all their *)
(* required settings, header the DAPR_SENTRY_TOKEN_HEADER, domain and      *)
(* allowed the SPIFFE_TRUST_DOMAIN and SPIFFE_ALLOWED_CLIENTS, and skip    *)
(* the patterns of AUTH_SKIP_PATHS; sets are {} when unset.                *)
(*                                                                         *)
(* A path is a sequence of pieces; a pattern is a path and whether a       *)
(* wildcard follows it.                                                    *)
(***************************************************************************)
EXTENDS Sequences, SequencesExt

Methods == <<"oidc", "spiffe", "dapr-sentry">>
Method  == Range(Methods)

HealthPaths == {<<"/livez">>, <<"/readyz">>, <<"/startupz">>}

\* The mode turns its own method on; in hybrid mode the flags alone decide.
DefaultConfig(env) ==
  [enabled  |-> env.enabled,
   mode     |-> IF env.mode = "" THEN "disabled" ELSE env.mode,
   skip     |-> IF env.skip = {} THEN {[path |-> p, wild |-> FALSE] : p \in HealthPaths}
                ELSE env.skip,
   methods  |-> env.flags \cup ({env.mode} \cap Method),
   complete |-> env.complete,
   header   |-> env.header,
   domain   |-> env.domain,
   allowed  |-> env.allowed]

\* Mistake: hybrid mode is valid without any method.
ValidateEmptyHybrid(c) ==
  \/ ~c.enabled
  \/ c.mode = "disabled"
  \/ c.mode \in Method \cap c.methods \cap c.complete
  \/ c.mode = "hybrid" /\ c.methods \subseteq c.complete

Validate(c) ==
  \/ ~c.enabled
  \/ c.mode = "disabled"
  \/ c.mode \in Method \cap c.methods \cap c.complete
  \/ c.mode = "hybrid" /\ c.methods # {} /\ c.methods \subseteq c.complete

AuthOn(c) == c.enabled /\ c.mode # "disabled"

\* buildAuthenticators, when no constructor fails: the methods that get an
\* authenticator, in the order in which they are tried.
IfOn(c, m) == IF m = c.mode \/ (c.mode = "hybrid" /\ m \in c.methods) THEN <<m>> ELSE <<>>

Authenticators(c) == IfOn(c, "oidc") \o IfOn(c, "spiffe") \o IfOn(c, "dapr-sentry")

ShouldSkip(c, path) ==
  \E p \in c.skip : p.path = path \/ (p.wild /\ IsPrefix(p.path, path))
=============================================================================
