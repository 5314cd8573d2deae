------------------------------- MODULE MCBackend -------------------------------
(* The health check and the launcher.                                         *)
EXTENDS BackendReadiness

MCCheckers == {"healthcheck", "launcher"}
=============================================================================
