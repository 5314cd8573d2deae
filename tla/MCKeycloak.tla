----------------------------- MODULE MCKeycloak -----------------------------
(* One client with its mapper and one demo user. The script finds a realm     *)
(* where its own objects are missing and the others differ; after its first   *)
(* run, edits give it realms that are partly changed.                         *)
EXTENDS KeycloakSync
MCClients == <<"a">>
MCUsers == <<"u">>
E(copies, m) == [copies |-> copies, m |-> m, other |-> 0, id |-> 0]
Fresh == [o \in Objects |-> IF o[1] \in {"provider", "client", "mapper"} THEN Absent ELSE E(1, "drifted")]
MCStores == {Fresh}
=============================================================================
