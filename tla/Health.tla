------------------------------- MODULE Health -------------------------------
(***************************************************************************)
(* The health probes (pkg/health/health.go): what each handler answers.    *)
(* A handler is a record of its two flags.                                 *)
(***************************************************************************)

\* NewHandler, called by main when everything but the authenticators is there;
\* nothing calls SetReady or SetStartupDone afterwards.
NewHandler == [ready |-> TRUE, startupDone |-> TRUE]

Reply(code, status) == [code |-> code, status |-> status]

LivenessHandler == Reply(200, "healthy")

\* checkDapr: GetMetadata answered within five seconds, or not.
CheckDapr(answered) == IF answered THEN "healthy" ELSE "unhealthy"

\* Mistake: the sidecar is asked, and what it answers changes nothing.
ReadinessHandlerBlind(h, dapr) ==
  IF ~h.ready THEN Reply(503, "unhealthy") ELSE Reply(200, "healthy")

\* A server without its sidecar is degraded, yet ready.
ReadinessHandler(h, dapr) ==
  IF ~h.ready THEN Reply(503, "unhealthy")
  ELSE Reply(200, IF dapr = "healthy" THEN "healthy" ELSE "degraded")

StartupHandler(h) ==
  IF h.startupDone THEN Reply(200, "healthy") ELSE Reply(503, "unhealthy")
=============================================================================
