------------------------------ MODULE PopVerifier ------------------------------
(***************************************************************************)
(* pop-verifier/app.py: the decision on one request.  The verifier keeps   *)
(* nothing between requests but the pin of the gateway's certificate, so   *)
(* it is an operator from a message to a reply.                            *)
(*                                                                         *)
(* A certificate stands for its DER bytes and for their SHA-256            *)
(* thumbprint; two certificates have two thumbprints.  Key retrieval       *)
(* (PyJWKClient) and jwt.decode are external: a token says whether they    *)
(* accept it.                                                              *)
(***************************************************************************)
EXTENDS Naturals

CONSTANTS
    Certs,  \* client certificates
    None    \* absent, or of the wrong JSON type

\* Texts of a claim or header: two ordinary ones, the empty one, one with a
\* control character, and one longer than 256 characters.
PlainTexts == {"sales", "engineering", ""}
SafeTexts  == PlainTexts \cup {"control"}
Texts      == SafeTexts \cup {"long"}

ASSUME CertsAssumption ==
    /\ None \notin Certs \cup Texts
    /\ {"ambiguous", "malformed"} \cap Certs = {}

\* Route and client authentication of an authorized party.
AZP_ROUTES ==
    [ azp \in {"third-party-fapi-mtls", "third-party-fapi-pkj-mtls"} |->
        IF azp = "third-party-fapi-mtls" THEN <<"route-a", "tls_client_auth">>
                                         ELSE <<"route-b", "private_key_jwt">> ]

\* An access token: whether get_signing_key_from_jwt and decode accept it (PS256
\* signature, issuer, audience, times, required claims), its scope and claims.
TokenType ==
    [ jwt : BOOLEAN, openid : BOOLEAN, azp : DOMAIN AZP_ROUTES \cup {"other", None},
      cnf : Certs \cup {None}, department : Texts \cup {None},
      logical_route : Texts \cup {None} ]

\* TLS peers: the pinned leaf (load_pinned_gateway_certificate has checked its
\* name), another certificate of the same name, anyone else the CA has signed.
Peers == {"gateway", "sameName", "other"}

\* A request as the verifier sees it.  cert is the X-Client-Cert header.
Message ==
    [ peer : Peers, path : {"/evidence", "/healthz", "other", "unparsed"},
      bearer : BOOLEAN, token : TokenType,
      cert : Certs \cup {None, "ambiguous", "malformed"},
      department_header : Texts \cup {None}, logical_route_header : Texts \cup {None} ]
-----------------------------------------------------------------------------
\* Mutation: the name is compared, the leaf is not.
verify_peer_by_name(peer) == peer \in {"gateway", "sameName"}

verify_api_gateway_peer(peer) == peer = "gateway"

\* The header must hold exactly one certificate.
forwarded_client_certificate_der(m) == IF m.cert \in Certs THEN m.cert ELSE None

verify_access_token(t) ==
    /\ t.jwt
    /\ t.openid
    /\ t.azp \in DOMAIN AZP_ROUTES
    /\ t.cnf # None

verify_forwarded_certificate_binding(m) ==
    /\ forwarded_client_certificate_der(m) # None
    /\ forwarded_client_certificate_der(m) = m.token.cnf

\* Mutation: the length is not looked at.
any_evidence_text(v) == v

safe_evidence_text(v) == IF v \in SafeTexts THEN v ELSE None

\* all() of the four values: present and not empty
AllPresent(values) == \A v \in values : v # None /\ v # ""

\* Mutation: each claim is compared with the other header.
header_claims_swapped(d, r, dh, rh) == AllPresent({d, r, dh, rh}) /\ d = rh /\ r = dh

header_claims_match(d, r, dh, rh) == AllPresent({d, r, dh, rh}) /\ d = dh /\ r = rh

build_evidence(m) ==
    LET d  == safe_evidence_text(m.token.department)
        r  == safe_evidence_text(m.token.logical_route)
        dh == safe_evidence_text(m.department_header)
        rh == safe_evidence_text(m.logical_route_header)
    IN [ azp |-> m.token.azp,
         route |-> AZP_ROUTES[m.token.azp][1],
         client_authentication |-> AZP_ROUTES[m.token.azp][2],
         token_certificate_thumbprint |-> m.token.cnf,
         forwarded_client_certificate_thumbprint |-> forwarded_client_certificate_der(m),
         department |-> d, logical_route |-> r,
         department_header |-> dh, logical_route_header |-> rh,
         header_claims_match |-> header_claims_match(d, r, dh, rh) ]

\* What evidence looks like; the three fields that are constant in it
\* (token_signature_verified, binding_verified, the gateway's thumbprint) are
\* left out.
EvidenceType ==
    [ azp : DOMAIN AZP_ROUTES, route : {"route-a", "route-b"},
      client_authentication : {"tls_client_auth", "private_key_jwt"},
      token_certificate_thumbprint : Certs,
      forwarded_client_certificate_thumbprint : Certs,
      department : SafeTexts \cup {None}, logical_route : SafeTexts \cup {None},
      department_header : SafeTexts \cup {None},
      logical_route_header : SafeTexts \cup {None}, header_claims_match : BOOLEAN ]

\* Whether a request gets evidence: the peer first, then path, token and binding.
Verified(m) ==
    /\ verify_api_gateway_peer(m.peer)
    /\ m.path = "/evidence"
    /\ m.bearer
    /\ verify_access_token(m.token)
    /\ verify_forwarded_certificate_binding(m)

\* Handler.do_GET and Handler.send_error
do_GET(m) ==
    [ status |->
        IF ~verify_api_gateway_peer(m.peer) THEN 401
        ELSE IF m.path = "unparsed" THEN 501
        ELSE IF m.path = "/healthz" THEN 200
        ELSE IF m.path = "other" THEN 404
        ELSE IF Verified(m) THEN 200 ELSE 401,
      evidence |-> IF Verified(m) THEN build_evidence(m) ELSE None ]
=============================================================================
