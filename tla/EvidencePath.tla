------------------------------ MODULE EvidencePath ------------------------------
(***************************************************************************)
(* The protected call: a request thread of third-party-backend/app.py      *)
(* calls the API gateway with the route's certificate, the gateway asks    *)
(* the verifier (PopVerifier), and the thread projects the evidence.       *)
(*                                                                         *)
(* The API gateway is external.  It is modelled by the little the verifier *)
(* relies on: the X-Client-Cert header it sends is the certificate of its  *)
(* own TLS client.  What it refuses and which X-Demo headers it sends is   *)
(* left open, so nothing here rests on its own token check.                *)
(***************************************************************************)
EXTENDS PopVerifier, FiniteSets

CONSTANTS
    Threads,   \* request threads of the backend
    Requests,  \* requests that reach the backend
    Headers,   \* values the gateway may put in an X-Demo header
    Strays     \* other calls that reach the verifier

RouteNames == {"route-a", "route-b"}

ROUTES ==
    [ path \in {"/evidence/route-a", "/evidence/route-b"} |->
        IF path = "/evidence/route-a"
          THEN [route |-> "route-a", azp |-> "third-party-fapi-mtls",
                client_authentication |-> "tls_client_auth"]
          ELSE [route |-> "route-b", azp |-> "third-party-fapi-pkj-mtls",
                client_authentication |-> "private_key_jwt"] ]

\* A request of the third-party Kong, or of anyone who reaches the port: trusted
\* is the pin of the hop certificate, body a message body, bearer one well-formed
\* Authorization header.
RequestType ==
    [ trusted : BOOLEAN, body : BOOLEAN, bearer : BOOLEAN, token : TokenType,
      path : DOMAIN ROUTES \cup {"/healthz", "other", "unparsed"} ]

ASSUME PathAssumption ==
    /\ \A q \in Requests : q \in RequestType
    /\ Headers \subseteq Texts \cup {None}
    /\ \A m \in Strays : m \in Message /\ (m.peer = "gateway" => m.cert \notin Certs)

VARIABLES
    disk,   \* disk[r]: certificate file of route r
    loaded, \* loaded[r]: certificate in the TLS context of route r; None when down
    thread, \* thread[i]: a request under way
    issued  \* history: the token the verifier last issued evidence for, and the
            \* certificate held by the TLS client that made the call

vars == <<disk, loaded, thread, issued>>

Idle == [ phase |-> "idle", request |-> None, cert |-> None, department |-> None,
          logical_route |-> None, reply |-> None, answer |-> None ]

Busy(i) == thread[i].phase \in {"calling", "replied"}
-----------------------------------------------------------------------------
(***************************************************************************)
(* The backend.                                                            *)
(***************************************************************************)
\* Refused or answered without a call; 0 when the call has to be made.
Early(q) ==
    IF q.path = "unparsed" THEN 501        \* send_error
    ELSE IF ~q.trusted THEN 401
    ELSE IF q.body THEN 400
    ELSE IF q.path = "/healthz" THEN 200
    ELSE IF q.path \notin DOMAIN ROUTES THEN 404
    ELSE IF ~q.bearer THEN 401 ELSE 0

\* Handler.do_GET up to fetch_evidence
Receive(i, q) ==
    /\ loaded # None
    /\ ~Busy(i)
    /\ thread' = [thread EXCEPT ![i] =
         IF Early(q) # 0
           THEN [Idle EXCEPT !.phase = "answered", !.request = q,
                             !.answer = [status |-> Early(q), evidence |-> None]]
           ELSE [Idle EXCEPT !.phase = "calling", !.request = q,
                             !.cert = loaded[ROUTES[q.path].route]]]
    /\ UNCHANGED <<disk, loaded, issued>>

\* Mutation: the evidence may be for another route.
project_any_route(e, expected) ==
    /\ {e.department, e.logical_route, e.department_header, e.logical_route_header}
         \subseteq PlainTexts \cup {None}
    /\ e.token_certificate_thumbprint = e.forwarded_client_certificate_thumbprint

\* project_evidence accepts
project_evidence(e, expected) ==
    /\ e.route = expected.route
    /\ e.azp = expected.azp
    /\ e.client_authentication = expected.client_authentication
    /\ {e.department, e.logical_route, e.department_header, e.logical_route_header}
         \subseteq PlainTexts \cup {None}
    /\ e.token_certificate_thumbprint = e.forwarded_client_certificate_thumbprint
    /\ e.header_claims_match =>
         /\ AllPresent({e.department, e.logical_route, e.department_header,
                        e.logical_route_header})
         /\ e.department = e.department_header
         /\ e.logical_route = e.logical_route_header

\* What fetch_evidence makes of a response
fetched(reply, expected) ==
    IF reply.status \in {401, 403} THEN [status |-> reply.status, evidence |-> None]
    ELSE IF /\ reply.status = 200
            /\ reply.intact
            /\ reply.evidence # None
            /\ project_evidence(reply.evidence, expected)
      THEN [status |-> 200, evidence |-> reply.evidence]
      ELSE [status |-> 502, evidence |-> None]

Answer(i, a) ==
    /\ thread' = [thread EXCEPT ![i].phase = "answered", ![i].answer = a]
    /\ UNCHANGED <<disk, loaded, issued>>

\* fetch_evidence has the response
Finish(i) ==
    /\ thread[i].phase = "replied"
    /\ Answer(i, fetched(thread[i].reply, ROUTES[thread[i].request.path]))

\* UPSTREAM_TIMEOUT, at whichever socket operation
Timeout(i) ==
    /\ Busy(i)
    /\ Answer(i, [status |-> 504, evidence |-> None])

\* OSError or HTTPException
NetworkError(i) ==
    /\ Busy(i)
    /\ Answer(i, [status |-> 502, evidence |-> None])

\* Certificates on the host are replaced; create_contexts reads them at the next
\* start.  A stopped backend loses its threads.
Rotate(r, c) ==
    /\ disk' = [disk EXCEPT ![r] = c]
    /\ UNCHANGED <<loaded, thread, issued>>

create_server ==
    /\ loaded = None
    /\ loaded' = disk
    /\ UNCHANGED <<disk, thread, issued>>

Stop ==
    /\ loaded # None
    /\ loaded' = None
    /\ thread' = [i \in Threads |-> Idle]
    /\ UNCHANGED <<disk, issued>>
-----------------------------------------------------------------------------
(***************************************************************************)
(* The API gateway and the verifier.                                       *)
(***************************************************************************)
Issue(m, holder) ==
    issued' = IF do_GET(m).evidence = None THEN issued
              ELSE [token |-> m.token, holder |-> holder]

\* The gateway refuses or fails by itself: bad token, too many headers, ...
GatewayRefuses(i, status) ==
    /\ thread[i].phase = "calling"
    /\ thread' = [thread EXCEPT ![i].phase = "replied",
                    ![i].reply = [status |-> status, evidence |-> None, intact |-> TRUE]]
    /\ UNCHANGED <<disk, loaded, issued>>

\* The message the gateway sends to the verifier for thread i
Forwarded(i, d, r) ==
    [ peer |-> "gateway", path |-> "/evidence", bearer |-> TRUE,
      token |-> thread[i].request.token, cert |-> thread[i].cert,
      department_header |-> d, logical_route_header |-> r ]

\* The response may be damaged on its way: wrong type or length, duplicate field.
GatewayForwards(i, d, r, intact) ==
    /\ thread[i].phase = "calling"
    /\ LET v == do_GET(Forwarded(i, d, r)) IN
       thread' = [thread EXCEPT ![i].phase = "replied",
                    ![i].department = d, ![i].logical_route = r,
                    ![i].reply = [status |-> v.status, evidence |-> v.evidence,
                                  intact |-> intact]]
    /\ Issue(Forwarded(i, d, r), thread[i].cert)
    /\ UNCHANGED <<disk, loaded>>

\* Someone else calls the verifier, with any token and any X-Client-Cert, or the
\* gateway does for a client without a certificate.
StrayCall(m) ==
    /\ Issue(m, None)
    /\ UNCHANGED <<disk, loaded, thread>>
-----------------------------------------------------------------------------
Init ==
    /\ disk \in [RouteNames -> Certs]
    /\ loaded = None
    /\ thread = [i \in Threads |-> Idle]
    /\ issued = None

Tokens == {q.token : q \in Requests} \cup {m.token : m \in Strays}

Next ==
    \/ \E i \in Threads :
         \/ \E q \in Requests : Receive(i, q)
         \/ \E s \in {401, 403, 431, 502} : GatewayRefuses(i, s)
         \/ \E d, r \in Headers, intact \in BOOLEAN : GatewayForwards(i, d, r, intact)
         \/ Finish(i) \/ Timeout(i) \/ NetworkError(i)
    \/ \E m \in Strays : StrayCall(m)
    \/ \E r \in RouteNames, c \in Certs : Rotate(r, c)
    \/ create_server
    \/ Stop

Spec == Init /\ [][Next]_vars
-----------------------------------------------------------------------------
(***************************************************************************)
(* Properties.                                                             *)
(***************************************************************************)
ReplyType ==
    [status : Nat, evidence : EvidenceType \cup {None}, intact : BOOLEAN]

AnswerType == [status : Nat, evidence : EvidenceType \cup {None}]

ThreadType ==
    [ phase : {"idle", "calling", "replied", "answered"}, request : Requests \cup {None},
      cert : Certs \cup {None}, department : Headers \cup {None},
      logical_route : Headers \cup {None}, reply : ReplyType \cup {None},
      answer : AnswerType \cup {None} ]

\* Every variable keeps its type.
TypeOK ==
    /\ disk \in [RouteNames -> Certs]
    /\ loaded \in [RouteNames -> Certs] \cup {None}
    /\ thread \in [Threads -> ThreadType]
    /\ issued \in [token : Tokens, holder : Certs \cup {None}] \cup {None}

Evidenced(i) == thread[i].phase = "answered" /\ thread[i].answer.evidence # None

\* Evidence the backend returns for a route proves possession: the token is valid,
\* was issued to that route's client, and is bound to the very certificate this
\* call was made with, whatever the gateway checked and however certificates are
\* replaced meanwhile (project_evidence, verify_forwarded_certificate_binding).
PossessionProved ==
    \A i \in Threads : Evidenced(i) =>
        LET q == thread[i].request
            e == thread[i].answer.evidence
        IN /\ q.trusted
           /\ q.token.jwt
           /\ q.token.azp = ROUTES[q.path].azp
           /\ q.token.cnf = thread[i].cert
           /\ e.token_certificate_thumbprint = thread[i].cert

\* The verifier issues evidence only to a call whose TLS client holds the
\* certificate the token is bound to: X-Client-Cert from any other peer is worth
\* nothing (verify_api_gateway_peer).
IssuedToHolder == issued # None => issued.holder # None /\ issued.token.cnf = issued.holder

Shown(v) == v \in SafeTexts /\ v # ""

\* The verdict on the headers in returned evidence is right both ways: it is
\* TRUE exactly if both claims are non-empty texts and equal the headers the
\* gateway sent (routing_evidence).
HeaderVerdict ==
    \A i \in Threads : Evidenced(i) =>
        LET t == thread[i].request.token IN
        thread[i].answer.evidence.header_claims_match <=>
            /\ Shown(t.department) /\ t.department = thread[i].department
            /\ Shown(t.logical_route) /\ t.logical_route = thread[i].logical_route

\* Backend and verifier agree on the format: evidence that arrives undamaged is
\* turned into a 502 only when it is for the other route or shows a text with a
\* control character, which the verifier lets pass and project_evidence refuses.
SchemasAgree ==
    \A i \in Threads :
        /\ thread[i].phase = "replied" /\ thread[i].reply.intact
        /\ thread[i].reply.evidence # None
        /\ thread[i].reply.evidence.azp = ROUTES[thread[i].request.path].azp
        /\ "control" \notin {thread[i].request.token.department,
                             thread[i].request.token.logical_route,
                             thread[i].department, thread[i].logical_route}
        => fetched(thread[i].reply, ROUTES[thread[i].request.path]).status = 200
=============================================================================
