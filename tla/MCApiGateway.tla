---------------------------- MODULE MCApiGateway ----------------------------
(* The API gateway: the reports its migration is judged by and, once it is    *)
(* applied and the report is empty, one request through the pre-function of   *)
(* the Route that the migration creates.                                      *)
EXTENDS ApiMigration, HeaderGuard

GatewayInit == ReportInit /\ GuardInit
GatewayNext == \/ pc = "idle" /\ ReportNext /\ UNCHANGED guardVars
               \/ report = Empty /\ changes = 0 /\ GuardNext /\ UNCHANGED reportVars
GatewaySpec == GatewayInit /\ [][GatewayNext]_<<reportVars, guardVars>>
=============================================================================
