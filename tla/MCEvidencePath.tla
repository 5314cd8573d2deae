----------------------------- MODULE MCEvidencePath -----------------------------
(* Tokens of both clients bound to either certificate, tokens that break one  *)
(* rule each, and every kind of request that is answered without a call.      *)
EXTENDS EvidencePath

CONSTANTS c1, c2

MCCerts == {c1, c2}

Token(client, c) ==
    [ jwt |-> TRUE, openid |-> TRUE, azp |-> client, cnf |-> c,
      department |-> "sales", logical_route |-> "engineering" ]

A == "third-party-fapi-mtls"
B == "third-party-fapi-pkj-mtls"

Sound  == {Token(client, c) : client \in {A, B}, c \in MCCerts}
Broken == { [Token(A, c1) EXCEPT !.jwt = FALSE], [Token(A, c1) EXCEPT !.openid = FALSE],
            Token("other", c1), Token(A, None) }
Worded == { [Token(A, c1) EXCEPT !.department = "long"],
            [Token(B, c2) EXCEPT !.logical_route = "control"],
            [Token(B, c2) EXCEPT !.department = "", !.logical_route = ""],
            [Token(A, c2) EXCEPT !.department = None],
            [Token(A, c1) EXCEPT !.department = "engineering", !.logical_route = "sales"] }

Call(path, t) ==
    [trusted |-> TRUE, body |-> FALSE, bearer |-> TRUE, token |-> t, path |-> path]

Good == Call("/evidence/route-a", Token(A, c1))

MCRequests ==
    {Call(p, t) : p \in DOMAIN ROUTES, t \in Sound \cup Broken \cup Worded} \cup
    { [Good EXCEPT !.trusted = FALSE], [Good EXCEPT !.body = TRUE],
      [Good EXCEPT !.bearer = FALSE], [Good EXCEPT !.path = "/healthz"],
      [Good EXCEPT !.path = "other"], [Good EXCEPT !.path = "unparsed"] }

MCStrays ==
    {[ peer |-> p, path |-> "/evidence", bearer |-> TRUE, token |-> Token(A, c1), cert |-> c1,
       department_header |-> None, logical_route_header |-> None ] : p \in Peers \ {"gateway"}}
    \cup
    {[ peer |-> "gateway", path |-> x, bearer |-> TRUE, token |-> Token(B, c2), cert |-> h,
       department_header |-> None, logical_route_header |-> None ] :
         x \in {"/evidence", "/healthz", "other", "unparsed"},
         h \in {None, "ambiguous", "malformed"}}
=============================================================================
