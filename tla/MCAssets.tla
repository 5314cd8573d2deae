------------------------------ MODULE MCAssets ------------------------------
(* Three leaf identities out of the twelve: one for each of the two roles,    *)
(* and one that is rendered into no role file.                                *)
EXTENDS DevAssets
MCIdentities == <<"keycloak", "route-a", "api-upstream">>
MCRoles == <<"api", "third-party">>
MCRoleOf == [n \in Range(MCIdentities) |->
               CASE n = "route-a" -> "third-party" [] n = "api-upstream" -> "api" [] OTHER -> "none"]
=============================================================================
