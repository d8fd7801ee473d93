--------------------------- MODULE MCAuthMiddleware ---------------------------
(***************************************************************************)
(* Small instances of AuthMiddleware: every mode, and hybrid servers with  *)
(* two and three methods; paths on both sides of a wildcard pattern; two   *)
(* tokens, so that the two headers of a request may carry different ones.  *)
(* t1 is on the allowlist and names its audience in a list, t2 is not and  *)
(* does not; some servers are of another trust domain than both.           *)
(***************************************************************************)
EXTENDS AuthMiddleware, TLC

CONSTANTS t1, t2

Env(mode, flags, header, skip, domain, allowed) ==
  [enabled |-> TRUE, mode |-> mode, flags |-> flags, complete |-> Method,
   header |-> header, skip |-> skip, domain |-> domain, allowed |-> allowed]

Docs == [path |-> <<"/docs">>, wild |-> TRUE]
Mcp  == [path |-> <<"/mcp">>, wild |-> FALSE]

MCEnvs ==
  {Env("", {}, "Authorization", {}, "ours", {}),
   Env("oidc", {"spiffe"}, "Authorization", {}, "ours", {}),
   Env("oidc", {}, "authorization", {}, "ours", {}),
   Env("spiffe", {}, "Authorization", {}, "ours", {t1}),
   Env("dapr-sentry", {}, "X-Sentry", {Docs, Mcp}, "ours", {}),
   Env("hybrid", {"oidc", "dapr-sentry"}, "X-Sentry", {}, "ours", {}),
   Env("hybrid", {}, "Authorization", {}, "ours", {}),
   Env("hybrid", Method, "Authorization", {Mcp}, "theirs", {})}

\* A client's SPIFFE ID is named by its token.
MCSvid == [t \in Token |-> [domain |-> "ours", id |-> t]]

OidcOnly == {Env("oidc", {}, "Authorization", {}, "ours", {})}

MCPaths == HealthPaths \cup {<<"/mcp">>, <<"/mcp", "/tools">>, <<"/docs", "/a">>}
RootOnly == {<<"/">>}
=============================================================================
