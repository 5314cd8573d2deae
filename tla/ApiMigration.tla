---------------------------- MODULE ApiMigration ----------------------------
(* scripts/wp3_runtime.py: the two guards of the one-time migration of the    *)
(* API Control Plane. parse_deck_diff_report reads decK's JSON diff and       *)
(* accepts a no-op or the reviewed 6/0/13 change; a second validator, without *)
(* the entities' bodies, decides whether a receipt may approve it.            *)
(*                                                                            *)
(* A report row is the operation's kind as decK spells it, decK's label, and  *)
(* the fields of the body the code reads. A label is <<name>>, or for plugins *)
(* <<name, "service" or "route", the name of what the plugin is bound to>>.   *)
(* The state is one report: decK's correct one with up to MaxChanges faults.  *)
EXTENDS Naturals, Sequences, FiniteSets, SequencesExt, Bags

CONSTANTS MaxChanges, Null   \* bound on the faults; a field that is not there
VARIABLES report, changes
reportVars == <<report, changes>>

-----------------------------------------------------------------------------
(* The fixed identities.                                                      *)

SHARED_API_CA_ID == <<"ca">>
INTROSPECTION_CERT_ID == <<"introspection">>
UPSTREAM_CERT_ID == <<"upstream">>
RUNTIME_SERVICE_NAME == "fapi-api-resource-server"
RUNTIME_ROUTE_NAME == "fapi-api-resource-server-route"
RuntimePlugins == {"pre-function", "openid-connect", "tls-handshake-modifier", "tls-metadata-headers"}
RuntimeNames == RuntimePlugins \cup {RUNTIME_SERVICE_NAME, RUNTIME_ROUTE_NAME}
\* Ids are opaque: one fixed id for each runtime entity.
RUNTIME_ENTITY_IDS == [n \in RuntimeNames |-> <<"runtime", n>>]
EXPECTED_RUNTIME_CREATE_KINDS ==
    [n \in RuntimeNames |-> IF n = RUNTIME_SERVICE_NAME THEN "service"
                            ELSE IF n = RUNTIME_ROUTE_NAME THEN "route" ELSE "plugin"]
EXPECTED_RUNTIME_MIGRATION_SUMMARY == [creating |-> 6, updating |-> 0, deleting |-> 13, total |-> 19]
Tags == {"route-a", "route-b"}
LegacyService(tag) == IF tag = "route-a" THEN "fapi-mtls-service" ELSE "fapi-pkj-mtls-service"
LegacyRoute(tag) == IF tag = "route-a" THEN "fapi-mtls-route" ELSE "fapi-pkj-mtls-route"
LEGACY_API_PLUGIN_ROUTE_TAGS ==
    ({"cors", "request-transformer", "openid-connect"} \X Tags) \cup {<<"fapi-client-auth-bridge", "route-b">>}
protected_ids == {SHARED_API_CA_ID, INTROSPECTION_CERT_ID, UPSTREAM_CERT_ID}
                 \cup {RUNTIME_ENTITY_IDS[n] : n \in RuntimeNames}

canonical_entity_kind(kind) ==
    CASE kind \in {"service", "services"} -> "service" [] kind \in {"route", "routes"} -> "route"
      [] kind \in {"plugin", "plugins"} -> "plugin" [] kind \in {"certificate", "certificates"} -> "certificate"
      [] OTHER -> Null

ASSUME ReportAssumption ==
    /\ MaxChanges \in Nat
    /\ Null \notin {"service", "route", "plugin", "certificate"} \cup Tags
    /\ Null \notin protected_ids

-----------------------------------------------------------------------------
(* parse_deck_diff_report                                                     *)

OperationNames == {"creating", "updating", "deleting"}
Rows(rep, op) == Range(rep[op])
\* A plugin is identified by the name in its body, others by decK's label.
identity(row) ==
    [kind |-> row.kind, id |-> row.id,
     name |-> IF canonical_entity_kind(row.kind) = "plugin" THEN <<row.name>> ELSE row.label]
operations(rep) == [op \in OperationNames |-> [i \in DOMAIN rep[op] |-> identity(rep[op][i])]]
Distinct(s) == Cardinality(Range(s)) = Len(s)
WellFormed(rep) ==
    /\ ~rep.diagnostics
    /\ \A op \in OperationNames :
         /\ \A row \in Rows(rep, op) : /\ row.old = (op = "updating")
                                       /\ op /= "creating" => row.id /= Null
         /\ Distinct(operations(rep)[op])
         /\ rep.summary[op] = Len(rep[op])
    /\ rep.summary.total = rep.summary.creating + rep.summary.updating + rep.summary.deleting

-----------------------------------------------------------------------------
(* validate_runtime_diff_scope                                                *)

\* The route tag of a legacy entity: two distinct tags, one of them fapi2-demo.
_legacy_route_tag(row) ==
    LET t == Range(row.tags) \ {"fapi2-demo"}
    IN  IF Len(row.tags) = 2 /\ "fapi2-demo" \in Range(row.tags) /\ Cardinality(t) = 1 /\ t \subseteq Tags
        THEN CHOOSE x \in t : TRUE ELSE Null
_relation_id(rel, name) == IF rel /= Null /\ rel.name = name THEN rel.id ELSE Null

CreateInScope(row) ==
    LET kind == canonical_entity_kind(row.kind)
        name == identity(row).name
    IN  /\ IF kind = "plugin"
           THEN /\ row.label = <<row.name, "route", RUNTIME_ROUTE_NAME>>
                /\ row.service = Null
                /\ _relation_id(row.route, RUNTIME_ROUTE_NAME) = RUNTIME_ENTITY_IDS[RUNTIME_ROUTE_NAME]
           ELSE row.label = name
        /\ kind = "route" =>
             _relation_id(row.service, RUNTIME_SERVICE_NAME) = RUNTIME_ENTITY_IDS[RUNTIME_SERVICE_NAME]
        /\ <<row.name>> = name /\ row.name \in RuntimeNames
        /\ kind = EXPECTED_RUNTIME_CREATE_KINDS[row.name]
        /\ row.tags = <<"fapi2-demo", "api">>
CreatesInScope(rep) ==
    /\ {<<identity(row).name, row.id>> : row \in Rows(rep, "creating")}
         = {<<<<n>>, RUNTIME_ENTITY_IDS[n]>> : n \in RuntimeNames}
    /\ \A row \in Rows(rep, "creating") : CreateInScope(row)

OfKind(rep, kind) == {row \in Rows(rep, "deleting") : canonical_entity_kind(row.kind) = kind}
\* The first loop over the deletes: each row by itself.
DeleteNamed(row) ==
    LET kind == canonical_entity_kind(row.kind)
        tag == _legacy_route_tag(row)
    IN  /\ kind /= Null /\ tag /= Null
        /\ kind /= "certificate" => <<row.name>> = identity(row).name
        /\ kind = "service" => row.name = LegacyService(tag)
        /\ kind = "route" => row.name = LegacyRoute(tag)
        /\ kind = "plugin" => /\ <<row.name, tag>> \in LEGACY_API_PLUGIN_ROUTE_TAGS
                              /\ row.label = <<row.name, "service", LegacyService(tag)>>
DeleteInScope(row) == DeleteNamed(row) /\ row.id \notin protected_ids
\* The key a delete is counted by; a certificate is counted by its tag alone.
LegacyKey(row) ==
    LET kind == canonical_entity_kind(row.kind)
        tag == _legacy_route_tag(row)
    IN  <<kind, IF kind = "certificate" THEN tag ELSE row.name, tag>>
\* Then the rows together: the eleven named entities and one certificate a tag.
ExpectedNamed == {<<"service", LegacyService(t), t>> : t \in Tags} \cup {<<"route", LegacyRoute(t), t>> : t \in Tags}
                 \cup {<<"plugin", p[1], p[2]>> : p \in LEGACY_API_PLUGIN_ROUTE_TAGS}
\* The rows of a list that are not certificates, and those that are.
NamedRows(rows) == {i \in DOMAIN rows : canonical_entity_kind(rows[i].kind) /= "certificate"}
CertificateRows(rows) == DOMAIN rows \ NamedRows(rows)
\* collections.Counter: how often each value occurs.
Counter(f) == [x \in Range(f) |-> Cardinality({i \in DOMAIN f : f[i] = x})]
DeletesComplete(rep) ==
    /\ Counter([i \in NamedRows(rep.deleting) |-> LegacyKey(rep.deleting[i])]) = SetToBag(ExpectedNamed)
    /\ Counter([i \in CertificateRows(rep.deleting) |-> _legacy_route_tag(rep.deleting[i])]) = SetToBag(Tags)
\* The second loop: the relations among the deleted entities.
IdByRoute(rep, kind, tag) == (CHOOSE row \in OfKind(rep, kind) : _legacy_route_tag(row) = tag).id
ServiceRelationsByRow(rep, row) == row.cert /= Null /\ row.cas = <<SHARED_API_CA_ID>>
ServiceRelations(rep, row) == /\ row.cert = IdByRoute(rep, "certificate", _legacy_route_tag(row))
                              /\ row.cas = <<SHARED_API_CA_ID>>
DeleteRelations(rep) ==
    /\ \A row \in OfKind(rep, "service") : ServiceRelations(rep, row)
    /\ \A row \in OfKind(rep, "route") \cup OfKind(rep, "plugin") :
         LET tag == _legacy_route_tag(row)
         IN  _relation_id(row.service, LegacyService(tag)) = IdByRoute(rep, "service", tag)

OperationIds(rep) == [i \in DOMAIN rep.creating |-> rep.creating[i].id] \o [i \in DOMAIN rep.deleting |-> rep.deleting[i].id]
NoOp(rep) == \A op \in OperationNames : rep[op] = <<>>
validate_runtime_diff_scope(rep) ==
    \/ NoOp(rep)
    \/ /\ \A op \in OperationNames : Len(rep[op]) = EXPECTED_RUNTIME_MIGRATION_SUMMARY[op]
       /\ CreatesInScope(rep)
       /\ Distinct(OperationIds(rep))
       /\ \A row \in Rows(rep, "deleting") : DeleteInScope(row)
       /\ DeletesComplete(rep)
       /\ DeleteRelations(rep)
parse_deck_diff_report(rep) == WellFormed(rep) /\ validate_runtime_diff_scope(rep)

-----------------------------------------------------------------------------
(* validate_migration_approval_operations sees identities, not bodies.        *)

ApprovedNames == [k \in {<<x[1], <<x[2]>>>> : x \in ExpectedNamed} |->
                    Cardinality({x \in ExpectedNamed : k = <<x[1], <<x[2]>>>>})]
validate_migration_approval_operations(summary, ops) ==
    LET Kind(item) == canonical_entity_kind(item.kind)
        creates == [i \in DOMAIN ops.creating |->
                      <<Kind(ops.creating[i]), ops.creating[i].name, ops.creating[i].id>>]
        named == [i \in NamedRows(ops.deleting) |-> <<Kind(ops.deleting[i]), ops.deleting[i].name>>]
    IN  /\ summary = EXPECTED_RUNTIME_MIGRATION_SUMMARY
        /\ Counter(creates)
             = SetToBag({<<EXPECTED_RUNTIME_CREATE_KINDS[n], <<n>>, RUNTIME_ENTITY_IDS[n]>> : n \in RuntimeNames})
        /\ ops.updating = <<>>
        /\ Counter(named) = ApprovedNames
        /\ Cardinality(CertificateRows(ops.deleting)) = 2 /\ Len(ops.deleting) = 13
        /\ Distinct(OperationIds(ops))
        /\ \A i \in DOMAIN ops.deleting : ops.deleting[i].id \notin protected_ids
\* read_migration_approval: a receipt as a reviewer copies it from the output.
Approvable(rep) == /\ \A op \in OperationNames : \A row \in Rows(rep, op) : row.id /= Null
                   /\ validate_migration_approval_operations(rep.summary, operations(rep))

-----------------------------------------------------------------------------
(* Reports (external): decK's diff of the legacy Control Plane.               *)

Blank == [kind |-> Null, label |-> Null, name |-> Null, id |-> Null, tags |-> <<>>, old |-> FALSE,
          service |-> Null, route |-> Null, cert |-> Null, cas |-> <<>>]
Rel(id, name) == [id |-> id, name |-> name]
NewRow(n) ==
    LET kind == EXPECTED_RUNTIME_CREATE_KINDS[n]
    IN  [Blank EXCEPT !.kind = kind, !.name = n, !.id = RUNTIME_ENTITY_IDS[n], !.tags = <<"fapi2-demo", "api">>,
           !.label = IF kind = "plugin" THEN <<n, "route", RUNTIME_ROUTE_NAME>> ELSE <<n>>,
           !.route = IF kind = "plugin" THEN Rel(RUNTIME_ENTITY_IDS[RUNTIME_ROUTE_NAME], RUNTIME_ROUTE_NAME) ELSE Null,
           !.service = IF kind = "route" THEN Rel(RUNTIME_ENTITY_IDS[RUNTIME_SERVICE_NAME], RUNTIME_SERVICE_NAME) ELSE Null]
LegacyKeys == ExpectedNamed \cup {<<"certificate", t, t>> : t \in Tags}
\* The legacy entity k on a Control Plane that gave the ids idOf.
OldRow(idOf, k) ==
    LET kind == k[1] tag == k[3] service == LegacyService(tag)
    IN  [Blank EXCEPT !.kind = kind, !.name = k[2], !.id = idOf[k], !.tags = <<"fapi2-demo", tag>>,
           !.label = IF kind = "plugin" THEN <<k[2], "service", service>> ELSE <<k[2]>>,
           !.service = IF kind \in {"route", "plugin"} THEN Rel(idOf[<<"service", service, tag>>], service) ELSE Null,
           !.cert = IF kind = "service" THEN idOf[<<"certificate", tag, tag>>] ELSE Null,
           !.cas = IF kind = "service" THEN <<SHARED_API_CA_ID>> ELSE <<>>]
Listed(S) == FoldSet(LAMBDA x, s : Append(s, x), <<>>, S)
Created == Listed({NewRow(n) : n \in RuntimeNames})
Deleted == Listed({OldRow([j \in LegacyKeys |-> j], k) : k \in LegacyKeys})
Summary(c, u, d) == [creating |-> c, updating |-> u, deleting |-> d, total |-> c + u + d]
Migration == [creating |-> Created, updating |-> <<>>, deleting |-> Deleted, diagnostics |-> FALSE,
              summary |-> Summary(6, 0, 13)]
Empty == [creating |-> <<>>, updating |-> <<>>, deleting |-> <<>>, diagnostics |-> FALSE, summary |-> Summary(0, 0, 0)]

CertificateId(t) == <<"certificate", t, t>>
ServiceId(t) == <<"service", LegacyService(t), t>>
OtherIds == {<<"fresh">>, UPSTREAM_CERT_ID, CertificateId("route-a"), CertificateId("route-b")}
Values == [kind |-> {"services", "certificate", "ca_certificate"}, old |-> {TRUE},
           name |-> {"cors"}, label |-> {<<"cors">>, <<LegacyService("route-b")>>},
           id |-> OtherIds \cup {Null},
           tags |-> {<<"fapi2-demo", "route-a">>, <<"route-b", "fapi2-demo">>, <<"fapi2-demo", "api">>, <<"route-a">>},
           service |-> {Rel(ServiceId("route-b"), LegacyService("route-b")), Rel(ServiceId("route-b"), LegacyService("route-a")), Null},
           route |-> {Null}, cert |-> {CertificateId("route-a"), CertificateId("route-b"), Null}, cas |-> {<<>>}]
Counted(r) == [r EXCEPT !.summary = Summary(Len(r.creating), Len(r.updating), Len(r.deleting))]
Change(r) == changes < MaxChanges /\ changes' = changes + 1 /\ report' = r /\ r /= report
OneField == \E op \in {"creating", "deleting"} : \E i \in DOMAIN report[op], f \in DOMAIN Values :
               \E v \in Values[f] : Change([report EXCEPT ![op][i][f] = v])
OneRow == \E op \in {"creating", "deleting"} : \E i \in DOMAIN report[op] :
             \/ Change(Counted([report EXCEPT ![op] = RemoveAt(@, i)]))
             \/ Change(Counted([report EXCEPT ![op] = Append(@, report[op][i])]))
             \/ Change(Counted([report EXCEPT ![op] = RemoveAt(@, i), !.updating = <<[report[op][i] EXCEPT !.old = TRUE]>>]))
\* An id changes wherever the report has it: another Control Plane.
Renamed(row, old, new) ==
    LET To(id) == IF id = old THEN new ELSE id
    IN  [row EXCEPT !.id = To(@), !.cert = To(@), !.service = IF @ = Null THEN Null ELSE [@ EXCEPT !.id = To(@)]]
OneId == \E i \in DOMAIN report.deleting, new \in OtherIds :
            Change([report EXCEPT !.deleting = [j \in DOMAIN @ |-> Renamed(@[j], report.deleting[i].id, new)]])
WholeReport == Change([report EXCEPT !.diagnostics = TRUE]) \/ Change([report EXCEPT !.summary.total = @ + 1])
ReportInit == report \in {Migration, Empty} /\ changes = 0
ReportNext == OneField \/ OneRow \/ OneId \/ WholeReport
ReportSpec == ReportInit /\ [][ReportNext]_reportVars

-----------------------------------------------------------------------------
(* Properties *)

\* What a row says, without the spelling of its kind, the order of legacy tags
\* and the fields that have no meaning for its kind.
Meaning(row, legacy) ==
    LET kind == canonical_entity_kind(row.kind)
    IN  [id |-> row.id, kind |-> kind, tags |-> IF legacy THEN <<Len(row.tags), Range(row.tags)>> ELSE row.tags,
         names |-> IF kind = "certificate" THEN Null ELSE <<row.name, row.label>>,
         service |-> IF kind = "route" \/ kind = "plugin" THEN row.service ELSE Null,
         route |-> IF kind = "plugin" /\ ~legacy THEN row.route ELSE Null,
         certs |-> IF kind = "service" /\ legacy THEN <<row.cert, row.cas>> ELSE Null]
\* The ids this Control Plane gave its legacy entities.
LegacyIds(rep) == [k \in LegacyKeys |-> (CHOOSE row \in Rows(rep, "deleting") : LegacyKey(row) = k).id]
Reviewed(rep) ==
    LET idOf == LegacyIds(rep)
    IN  /\ rep.updating = <<>> /\ Len(rep.creating) = 6 /\ Len(rep.deleting) = 13
        /\ {Meaning(row, FALSE) : row \in Rows(rep, "creating")} = {Meaning(NewRow(n), FALSE) : n \in RuntimeNames}
        /\ {LegacyKey(row) : row \in Rows(rep, "deleting")} = LegacyKeys
        /\ \A j, k \in LegacyKeys : idOf[j] \notin protected_ids /\ (idOf[j] = idOf[k] => j = k)
        /\ {Meaning(row, TRUE) : row \in Rows(rep, "deleting")} = {Meaning(OldRow(idOf, k), TRUE) : k \in LegacyKeys}
(* The accepted diffs are exactly the no-op and the reviewed migration of a   *)
(* Control Plane that may have given the legacy entities any ids: each of the *)
(* 13 deletes is one legacy entity, refers only to the deleted entities of    *)
(* its own route and the shared CA, and none is an entity that stays.         *)
ExactScope == WellFormed(report) => (parse_deck_diff_report(report) <=> NoOp(report) \/ Reviewed(report))

(* The validator of the diff and the validator of the receipt, two pieces of  *)
(* code with different inputs, agree: what the tool prints for review can be  *)
(* approved, unless it is a no-op, which never can.                           *)
ReviewAgrees == /\ parse_deck_diff_report(report) /\ ~NoOp(report) => Approvable(report)
                /\ NoOp(report) => ~Approvable(report)
=============================================================================
