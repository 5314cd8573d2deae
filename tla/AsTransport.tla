------------------------------ MODULE AsTransport ------------------------------
(***************************************************************************)
(* The request side of fapi-as-mtls-transport and fapi-client-auth-bridge  *)
(* in one worker: contexts made by Transport:access, the signer the bridge *)
(* registers for Route B, and the wrapper around resty.http.request_uri    *)
(* through which every call to the authorization server goes.              *)
(*                                                                         *)
(* wrap_request_uri yields only inside the network call it makes last, so  *)
(* everything before is one step and the response is another; in between   *)
(* other requests of the worker, and other calls of the same request, run. *)
(***************************************************************************)
EXTENDS Integers, Sequences, FiniteSets

CONSTANTS
    Contexts,        \* requests of the worker
    RouteOf,         \* RouteOf[c]: the reserved route request c is for
    Calls,           \* calls of request_uri that are made
    Tokens,          \* tokens to revoke
    NoContext,       \* calls from timers and light threads have no context
    MaxObservations, \* MAX_OBSERVATIONS, 32 in the code
    MaxCalls         \* bound: calls of a behaviour

Routes   == {"A", "B"}
Metadata == {"discovery", "jwks"}
Posts    == {"par", "token", "revocation"}
Targets  == Metadata \cup Posts \cup {"unknownAS", "external"}
Grants   == {"authorization_code", "refresh_token"}

\* A client assertion in a form: both parameters, one of them or none; age and
\* life are now - iat and exp - iat in seconds.
Assertions == [present : {"no", "partial", "full"}, age : Int, life : Int]

\* What a caller hands to request_uri.
CallType ==
    [ target : Targets, method : {"GET", "POST", "invalid"}, body : BOOLEAN,
      options_ok : BOOLEAN,   \* no path, query, proxy, TLS override, header assertion
      supplied : {"none", "metadata", "A", "B", "half"},  \* client certificate and key
      form_ok : BOOLEAN,      \* content type, length and parse_form
      client_id : {"absent", "A", "B"}, grant_type : Grants \cup {"other"},
      token : Tokens \cup {"none"}, assertion : Assertions ]

ASSUME CallsAssumption ==
    /\ RouteOf \in [Contexts -> Routes]
    /\ NoContext \notin Contexts
    /\ "none" \notin Tokens /\ "single-send" \notin Tokens
    /\ MaxObservations \in Nat /\ MaxCalls \in Nat
    /\ \A k \in Calls : k \in CallType

VARIABLES
    registry, \* "ready" or "failed" (latched, see TransportRegistry)
    covered,  \* ready_marker_covers_worker
    evidence, \* evidence_correlation_enabled
    phase,    \* phase[c]: "new", "open", "verifying", "active" or "denied"
    signer,   \* signer[c]: sign_assertion is registered
    sent,     \* sent[c]: sent_operations
    log,      \* log[c]: observations
    truncated,\* truncated[c]: observations_truncated
    pending,  \* calls waiting for the network
    wire,     \* history: everything handed to the original request_uri
    calls     \* calls made so far

vars == <<registry, covered, evidence, phase, signer, sent, log, truncated, pending,
          wire, calls>>
-----------------------------------------------------------------------------
(***************************************************************************)
(* The guards of wrap_request_uri.                                         *)
(***************************************************************************)
\* classify: "metadata", "route", or "none" for anything else
classify(k) ==
    CASE k.method = "GET"  /\ k.target \in Metadata -> "metadata"
      [] k.method = "POST" /\ k.target \in Posts    -> "route"
      [] OTHER                                      -> "none"

context_is_valid(c) == c # NoContext /\ registry = "ready"

identity_of(c, k) == IF classify(k) = "metadata" THEN "metadata" ELSE RouteOf[c]

\* assertion_summary, for an assertion whose other claims are right
assertion_summary(a, exact_ttl) ==
    /\ a.present = "full"
    /\ 0 < a.life /\ a.life <= 60
    /\ 0 <= a.age /\ a.age < a.life
    /\ a.life - a.age >= 5
    /\ exact_ttl => a.life = 60

validate_form_for_operation(route, k) ==
    /\ k.client_id \in {"absent", route}
    /\ route = "A" => k.assertion.present = "no"
    /\ CASE k.target = "token" -> k.client_id = route /\ k.grant_type \in Grants
         [] route = "A"        -> k.client_id = route
         [] OTHER -> /\ assertion_summary(k.assertion, FALSE)
                     /\ k.target = "revocation" => k.token # "none"

\* PAR and each grant are sent once per context, a revocation once per token.
operation_key(route, k) ==
    << route, k.target,
       IF k.target = "token" THEN k.grant_type ELSE "",
       IF k.target = "revocation" THEN k.token ELSE "single-send" >>

prepare_post(c, k) ==
    /\ k.form_ok
    /\ ~(k.target = "token" /\ RouteOf[c] = "B" /\ k.assertion.present # "no")
    /\ validate_form_for_operation(RouteOf[c], k)
    /\ operation_key(RouteOf[c], k) \notin sent[c]

\* A certificate the stock plugin supplies must be the one of the identity.
stock_identity_matches(c, k) == k.supplied \in {"none", identity_of(c, k)}

set_mtls_options(c, k) == k.options_ok /\ stock_identity_matches(c, k)

\* Mutation: the marker is only looked at by access.
AdmissibleSinceAccess(c, k) ==
    /\ classify(k) # "none"
    /\ classify(k) = "metadata" => ~k.body
    /\ context_is_valid(c) \/ (c = NoContext /\ classify(k) = "metadata" /\ registry = "ready")
    /\ set_mtls_options(c, k)
    /\ classify(k) = "route" => prepare_post(c, k)

Admissible(c, k) ==
    /\ classify(k) # "none"
    /\ registry = "ready"
    /\ covered
    /\ classify(k) = "metadata" => ~k.body
    /\ context_is_valid(c) \/ (c = NoContext /\ classify(k) = "metadata")
    /\ set_mtls_options(c, k)
    /\ classify(k) = "route" => prepare_post(c, k)

\* Traffic that is none of the plugin's business keeps the stock behaviour.
PassThrough(c, k) == c = NoContext /\ k.target = "external"

NeedsSigner(c, k) == c # NoContext /\ k.target = "token" /\ RouteOf[c] = "B"

\* append_observation: nothing without evidence or registry, at most
\* MaxObservations entries.
Recording(c) == c # NoContext /\ evidence /\ registry = "ready"

\* Mutation: a full log is not marked.
append_observation_unmarked(c, entry) ==
    IF ~Recording(c) \/ Len(log[c]) >= MaxObservations
      THEN UNCHANGED <<log, truncated>>
      ELSE log' = [log EXCEPT ![c] = Append(@, entry)] /\ UNCHANGED truncated

append_observation(c, entry) ==
    IF ~Recording(c) THEN UNCHANGED <<log, truncated>>
    ELSE IF Len(log[c]) >= MaxObservations
      THEN truncated' = [truncated EXCEPT ![c] = TRUE] /\ UNCHANGED log
      ELSE log' = [log EXCEPT ![c] = Append(@, entry)] /\ UNCHANGED truncated

\* The result of an entry is "not_sent" until the network call has returned.
Observation(k, wasSent) == [target |-> k.target, sent |-> wasSent, result |-> "not_sent"]
-----------------------------------------------------------------------------
(***************************************************************************)
(* Requests.                                                               *)
(***************************************************************************)
\* Transport:access of a reserved route
Access(c) ==
    /\ phase[c] = "new"
    /\ phase' = [phase EXCEPT ![c] =
                   IF registry # "ready" \/ ~covered THEN "denied"
                   ELSE IF RouteOf[c] = "A" THEN "active" ELSE "open"]
    /\ UNCHANGED <<registry, covered, evidence, signer, sent, log, truncated, pending,
                   wire, calls>>

\* Bridge:access of Route B: refused (the client supplied an assertion, or the
\* delegate is not ready), or the signer is registered and discovery is verified
\* unless its result is cached.
BridgeAccess(c) ==
    /\ phase[c] = "open"
    /\ \/ /\ phase' = [phase EXCEPT ![c] = "denied"]
          /\ UNCHANGED signer
       \/ /\ context_is_valid(c)
          /\ signer' = [signer EXCEPT ![c] = TRUE]
          /\ \E p \in {"verifying", "active"} : phase' = [phase EXCEPT ![c] = p]
    /\ UNCHANGED <<registry, covered, evidence, sent, log, truncated, pending, wire, calls>>

\* Whose calls reach the wrapper, and which.  verify_discovery_issuer makes the
\* call of a request that is verifying, once.
DiscoveryCall ==
    [ target |-> "discovery", method |-> "GET", body |-> FALSE, options_ok |-> TRUE,
      supplied |-> "none", form_ok |-> FALSE, client_id |-> "absent",
      grant_type |-> "other", token |-> "none",
      assertion |-> [present |-> "no", age |-> 0, life |-> 0] ]

Verifying(c) == c \in Contexts /\ phase[c] = "verifying"

Makes(c, k) ==
    /\ calls < MaxCalls
    /\ \/ c = NoContext
       \/ c \in Contexts /\ phase[c] = "active"
       \/ /\ Verifying(c) /\ k = DiscoveryCall
          /\ \A p \in pending : p.ctx # c

\* A refused call fails at once.  An inadmissible one is refused; so is one for
\* which no observation id can be drawn.
CallRefused(c, k) ==
    /\ Makes(c, k)
    /\ ~PassThrough(c, k)
    /\ ~Admissible(c, k) \/ evidence
    /\ append_observation(c, Observation(k, FALSE))
    /\ phase' = IF Verifying(c)
                  THEN [phase EXCEPT ![c] = "denied"] ELSE phase
    /\ calls' = calls + 1
    /\ UNCHANGED <<registry, covered, evidence, signer, sent, pending, wire>>

\* Mutation: a revocation is not marked.
MarkSentUnlessRevocation(c, k) ==
    sent' = IF classify(k) = "route" /\ k.target # "revocation"
              THEN [sent EXCEPT ![c] = @ \cup {operation_key(RouteOf[c], k)}] ELSE sent

\* sent_operations is marked before the signer runs and before the network call.
MarkSent(c, k) ==
    sent' = IF classify(k) = "route"
              THEN [sent EXCEPT ![c] = @ \cup {operation_key(RouteOf[c], k)}] ELSE sent

\* invoke_signer: not registered, or create_assertion fails.
SignerFails(c, k) ==
    /\ Makes(c, k) /\ Admissible(c, k) /\ NeedsSigner(c, k)
    /\ MarkSent(c, k)
    /\ append_observation(c, Observation(k, FALSE))
    /\ calls' = calls + 1
    /\ UNCHANGED <<registry, covered, evidence, phase, signer, pending, wire>>

\* create_assertion signs for assertion_ttl = 60 seconds from now.
create_assertion == [present |-> "full", age |-> 0, life |-> 60]

\* What the original request_uri gets: the identity is the registry's, a Route B
\* token request carries the signer's assertion; with the gate at that moment.
Gate == IF registry = "ready" /\ covered THEN "open" ELSE "shut"
Message(c, k) ==
    [ ctx |-> c, target |-> k.target, gate |-> Gate,
      cert |-> IF PassThrough(c, k) THEN "none" ELSE identity_of(c, k),
      client_id |-> k.client_id,
      assertion |-> IF NeedsSigner(c, k) THEN create_assertion ELSE k.assertion,
      key |-> IF classify(k) = "route" /\ ~PassThrough(c, k)
                THEN operation_key(RouteOf[c], k) ELSE <<>> ]

Send(c, k) ==
    /\ Makes(c, k)
    /\ Admissible(c, k) \/ PassThrough(c, k)
    /\ NeedsSigner(c, k) => signer[c] /\ assertion_summary(create_assertion, TRUE)
    /\ IF PassThrough(c, k) THEN UNCHANGED sent ELSE MarkSent(c, k)
    /\ append_observation(c, Observation(k, TRUE))
    /\ wire' = Append(wire, Message(c, k))
    /\ pending' = pending \cup {[ctx |-> c, msg |-> Len(wire) + 1,
                                 obs |-> IF c = NoContext \/ ~Recording(c)
                                              \/ Len(log[c]) >= MaxObservations
                                           THEN 0 ELSE Len(log[c]) + 1]}
    /\ calls' = calls + 1
    /\ UNCHANGED <<registry, covered, evidence, phase, signer>>

\* The network call returns: a response, a 3xx that is not followed, or an error.
Results == {"response_received", "redirect_rejected", "network_error"}

Response(p, result) ==
    /\ p \in pending
    /\ pending' = pending \ {p}
    /\ log' = IF p.obs = 0 THEN log ELSE [log EXCEPT ![p.ctx][p.obs].result = result]
    /\ IF Verifying(p.ctx)
         THEN \E q \in {"denied"} \cup   \* the issuer may not match either
                       (IF result = "response_received" THEN {"active"} ELSE {}) :
                phase' = [phase EXCEPT ![p.ctx] = q]
         ELSE UNCHANGED phase
    /\ UNCHANGED <<registry, covered, evidence, signer, sent, truncated, wire, calls>>
-----------------------------------------------------------------------------
(***************************************************************************)
(* The worker's readiness changes while requests are under way.            *)
(***************************************************************************)
RegistryFails ==
    /\ registry = "ready"
    /\ registry' = "failed"
    /\ UNCHANGED <<covered, evidence, phase, signer, sent, log, truncated, pending, wire, calls>>

MarkerChanges ==
    /\ covered' = ~covered
    /\ UNCHANGED <<registry, evidence, phase, signer, sent, log, truncated, pending, wire, calls>>

Init ==
    /\ registry = "ready"
    /\ covered \in BOOLEAN
    /\ evidence \in BOOLEAN
    /\ phase = [c \in Contexts |-> "new"]
    /\ signer = [c \in Contexts |-> FALSE]
    /\ sent = [c \in Contexts |-> {}]
    /\ log = [c \in Contexts |-> <<>>]
    /\ truncated = [c \in Contexts |-> FALSE]
    /\ pending = {}
    /\ wire = <<>>
    /\ calls = 0

Next ==
    \/ \E c \in Contexts : Access(c) \/ BridgeAccess(c)
    \/ \E c \in Contexts \cup {NoContext}, k \in Calls \cup {DiscoveryCall} :
         CallRefused(c, k) \/ SignerFails(c, k) \/ Send(c, k)
    \/ \E p \in pending, r \in Results : Response(p, r)
    \/ RegistryFails
    \/ MarkerChanges

Spec == Init /\ [][Next]_vars
-----------------------------------------------------------------------------
(***************************************************************************)
(* Properties.                                                             *)
(***************************************************************************)
OperationKeys == Routes \X Posts \X (Grants \cup {"other", ""}) \X (Tokens \cup {"none", "single-send"})

Messages ==
    [ ctx : Contexts \cup {NoContext}, target : Targets, gate : {"open", "shut"},
      cert : Routes \cup {"metadata", "none"}, client_id : {"absent", "A", "B"},
      assertion : Assertions, key : OperationKeys \cup {<<>>} ]

\* Every variable keeps its type.
TypeOK ==
    /\ registry \in {"ready", "failed"}
    /\ covered \in BOOLEAN /\ evidence \in BOOLEAN
    /\ phase \in [Contexts -> {"new", "open", "verifying", "active", "denied"}]
    /\ signer \in [Contexts -> BOOLEAN]
    /\ sent \in [Contexts -> SUBSET OperationKeys]
    /\ log \in [Contexts -> Seq([target : Targets, sent : BOOLEAN,
                                 result : Results \cup {"not_sent"}])]
    /\ truncated \in [Contexts -> BOOLEAN]
    /\ pending \subseteq [ctx : Contexts \cup {NoContext}, msg : Nat, obs : Nat]
    /\ wire \in Seq(Messages)
    /\ calls \in Nat

\* In one request context PAR, each token grant and the revocation of each token
\* reach the authorization server at most once: not again after a network error,
\* a failing signer or a changed form, nor from two calls that overlap
\* (sent_operations, operation_key).
AtMostOnce ==
    \A i, j \in 1 .. Len(wire) :
        /\ wire[i].key # <<>> /\ wire[i].ctx = wire[j].ctx /\ wire[i].key = wire[j].key
        => i = j

\* What reaches the authorization server leaves while the registry is ready and the
\* marker covers the worker, also when either was lost since access or since the
\* last call of the same request, and is authenticated as the request's own route:
\* the route's certificate and client, no assertion on Route A, and on Route B
\* always an assertion with at least 5 of at most 60 seconds left, the signer's own
\* on token requests.  Metadata goes out under the metadata identity, and a request
\* in a route context never leaves for another origin.
WireIdentity ==
    \A i \in 1 .. Len(wire) :
        LET m == wire[i] IN
        /\ m.target # "external" => m.gate = "open"
        /\ IF m.target \in Posts
             THEN /\ m.ctx # NoContext
                  /\ m.cert = RouteOf[m.ctx]
                  /\ m.client_id \in {"absent", RouteOf[m.ctx]}
                  /\ RouteOf[m.ctx] = "A" => m.assertion.present = "no"
                  /\ RouteOf[m.ctx] = "B" =>
                        LET a == m.assertion IN
                        /\ a.present = "full" /\ a.life <= 60 /\ a.age >= 0
                        /\ a.life - a.age >= 5
                        /\ m.target = "token" => a.life = 60
             ELSE IF m.target = "external" THEN m.ctx = NoContext
             ELSE m.cert = "metadata"

SentBy(c)     == {i \in 1 .. Len(wire) : wire[i].ctx = c}
LoggedSent(c) == {i \in 1 .. Len(log[c]) : log[c][i].sent}

\* The evidence log is honest: with evidence enabled a context logs as sent exactly
\* what it sent, unless the log is full and says so (append_observation).
EvidenceComplete ==
    evidence => \A c \in Contexts :
        /\ Cardinality(LoggedSent(c)) <= Cardinality(SentBy(c))
        /\ ~truncated[c] => Cardinality(LoggedSent(c)) = Cardinality(SentBy(c))

\* An entry that says sent but has the result "not_sent" belongs to a call that
\* waits for the network; once all calls of a context have returned, exactly the
\* sent entries have a network result.
EvidenceSettles ==
    \A c \in Contexts :
        (\A p \in pending : p.ctx # c) =>
            \A i \in 1 .. Len(log[c]) : log[c][i].sent <=> log[c][i].result # "not_sent"

\* The evidence a response carries is honest about what left the gateway: it is
\* complete and, once the calls have returned, settled (append_observation,
\* the result written after the network call).
EvidenceHonest == EvidenceComplete /\ EvidenceSettles
=============================================================================
