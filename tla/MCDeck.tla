------------------------------- MODULE MCDeck -------------------------------
(* The third-party gateway with the identities of run-deck.py for Route B and *)
(* the UI (Route A differs in names only), and the API gateway with one       *)
(* entity of each kind that its migration creates or deletes.                 *)
EXTENDS DeckSync
S(n) == <<"service", n>>
R(n) == <<"route", n>>
P(n) == <<"plugin", n>>
C(n) == <<"certificate", n>>
(* third-party *)
Wp5 == {S("b"), R("b"), P("cors b"), P("bridge b"), P("oidc b"), P("transformer b")}
New == {C("hop"), S("ui"), R("ui"), P("transformer ui")}
Updated == {S("b"), P("oidc b"), P("cors b")}
RecoveryNew == {R("ui"), P("transformer ui")}
RecoveryUpdated == {P("oidc b"), P("cors b")}
TpFoundation == {C("b"), P("transport")}
TpRuntime == TpFoundation \cup Wp5 \cup New
Stray == R("stray")
TpEntities == TpRuntime \cup {Stray}
Plan(c, u, d) == [creating |-> c, updating |-> u, deleting |-> d]
BACKEND_PLANS == [migration |-> Plan(New, Updated, {}), bootstrap |-> Plan(Wp5 \cup New, {}, {}),
                  noop |-> Plan({}, {}, {}), recovery |-> Plan(RecoveryNew, RecoveryUpdated, {})]
TpRoleBound == {C("b"), C("hop")}
Based(e) == IF e \in TpRoleBound THEN "cert1" ELSE IF e \in Updated THEN "v1" ELSE "v2"
Plane(S_) == [e \in TpEntities |-> IF e \in S_ THEN Based(e) ELSE None]
TpDeployed == Plane(TpFoundation \cup Wp5)
(* api *)
Created == {S("rs"), R("rs"), P("rs")}
Legacy == {S("old"), R("old"), P("old"), C("old")}
ApiFoundation == {C("introspection")}
CA == <<"ca_certificate", "shared">>
ApiRuntime == ApiFoundation \cup Created \cup {CA}
ApiEntities == ApiRuntime \cup Legacy
ApiPlans == [migration |-> Plan(Created, {}, Legacy)]
ApiRoleBound == {C("introspection"), CA}
ApiDeployed == [e \in ApiEntities |-> IF e \in ApiRoleBound THEN "cert1" ELSE IF e \in Legacy THEN "v1" ELSE None]
State(foundation, runtime, entities, roleBound, plans) ==
    [foundation |-> foundation, runtime |-> runtime, entities |-> entities, roleBound |-> roleBound,
     kept |-> {e \in runtime : e[1] /= "plugin"}, plans |-> plans]
MCStates == [g \in Gateways |->
    IF g = "api" THEN State(ApiFoundation, ApiRuntime, ApiEntities, ApiRoleBound, ApiPlans)
    ELSE State(TpFoundation, TpRuntime, TpEntities, TpRoleBound, BACKEND_PLANS)]
(* Targets: right, ids exchanged, one id twice, names of another workspace.   *)
Target(id, name) == [id |-> id, name |-> name, endpoints |-> id]
Both(a, n, b, k) == [g \in Gateways |-> IF g = "api" THEN Target(a, n) ELSE Target(b, k)]
MCGood == Both("cp-api", "demo", "cp-tp", "tp-demo")
MCManifests == {MCGood, Both("cp-tp", "demo", "cp-api", "tp-demo"),
                Both("cp-tp", "demo", "cp-tp", "tp-demo"), Both("cp-tp", "tp-demo", "cp-api", "demo")}
MCConfigName == [g \in Gateways |-> MCGood[g].name]
MCGoodNames == [p \in Planes |-> IF p = "cp-api" THEN "demo" ELSE "tp-demo"]
(* Situations: a diff "d" and one or two syncs, or a foundation sync beside a *)
(* runtime diff on a new Control Plane and on one with another certificate.   *)
Setup(gateway, args, planes, bound) ==
    [gateway |-> gateway, args |-> args, maxEdits |-> bound,
     planes |-> {[p \in Planes |-> IF p = MCGood[gateway].id THEN x
                                  ELSE [e \in MCStates[gateway].entities |-> None]] : x \in planes}]
D == <<"diff", "runtime">>
Y == <<"sync", "runtime">>
MCSetups ==
    [ third_party |-> Setup("third-party", [d |-> D, s |-> Y], {TpDeployed}, 2),
      api |-> Setup("api", [d |-> D, s |-> Y, t |-> Y], {ApiDeployed}, 1),
      foundation |-> Setup("third-party", [d |-> D, f |-> <<"sync", "foundation">>],
                           {Plane({}), [TpDeployed EXCEPT ![C("b")] = "cert2"]}, 2) ]
=============================================================================
