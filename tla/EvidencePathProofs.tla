--------------------------- MODULE EvidencePathProofs ---------------------------
(***************************************************************************)
(* The protected API and the path behind it, for every value of the        *)
(* constants: evidence proves possession, the API gateway keeps its header *)
(* boundary, and the migration of its Control Plane is the reviewed one.   *)
(***************************************************************************)
EXTENDS EvidencePath, HeaderGuard, ApiMigration, FiniteSetTheorems, SequenceTheorems, TLAPS

\* The message the gateway has sent, or will send, for a thread's record
Sent(t) ==
    [ peer |-> "gateway", path |-> "/evidence", bearer |-> TRUE,
      token |-> t.request.token, cert |-> t.cert,
      department_header |-> t.department, logical_route_header |-> t.logical_route ]

\* The call has been made by a request that passed do_GET's checks.
Made(t) == t.request \in Requests /\ t.cert \in Certs /\ Early(t.request) = 0

\* Evidence is the verifier's, about this call.
Backed(t, e) == Verified(Sent(t)) /\ e = build_evidence(Sent(t))

ThreadOK(t) ==
    /\ t \in ThreadType
    /\ t.phase \in {"calling", "replied"} => Made(t)
    /\ t.phase = "replied" =>
         /\ t.reply \in ReplyType
         /\ t.reply.evidence # None => Backed(t, t.reply.evidence) /\ t.reply.status = 200
    /\ t.phase = "answered" =>
         /\ t.answer \in AnswerType
         /\ t.answer.evidence # None =>
              /\ Made(t)
              /\ Backed(t, t.answer.evidence)
              /\ project_evidence(t.answer.evidence, ROUTES[t.request.path])

IInv ==
    /\ disk \in [RouteNames -> Certs]
    /\ loaded \in [RouteNames -> Certs] \cup {None}
    /\ DOMAIN thread = Threads /\ thread = [i \in Threads |-> thread[i]]
    /\ \A i \in Threads : ThreadOK(thread[i])
    /\ issued \in [token : Tokens, holder : Certs \cup {None}] \cup {None}
    /\ IssuedToHolder
-----------------------------------------------------------------------------
\* A request that is not answered early is trusted and for a route.
LEMMA NotEarly ==
    ASSUME NEW q \in Requests, Early(q) = 0
    PROVE  /\ q \in RequestType
           /\ q.trusted
           /\ q.path \in DOMAIN ROUTES
           /\ ROUTES[q.path].route \in RouteNames
BY PathAssumption DEF Early, ROUTES, RouteNames

\* What goes to the verifier for a call is a message.
LEMMA SentIsMessage ==
    ASSUME NEW t \in ThreadType, Made(t)
    PROVE  Sent(t) \in Message
<1>1. t.request \in RequestType
  BY PathAssumption DEF Made
<1>2. t.request.token \in TokenType
  BY <1>1 DEF RequestType
<1>3. t.department \in Texts \cup {None} /\ t.logical_route \in Texts \cup {None}
  BY PathAssumption DEF ThreadType
<1> QED
  BY <1>2, <1>3 DEF Made, Sent, Message, Peers

\* build_evidence of a verified message has the form of evidence.
LEMMA BuildTyped ==
    ASSUME NEW m \in Message, Verified(m)
    PROVE  build_evidence(m) \in EvidenceType
<1>1. m.token \in TokenType /\ m.token.azp \in DOMAIN AZP_ROUTES /\ m.token.cnf \in Certs
  BY DEF Verified, Message, TokenType, verify_access_token
<1>2. forwarded_client_certificate_der(m) \in Certs
  BY DEF Verified, verify_forwarded_certificate_binding, forwarded_client_certificate_der
<1>3. \A v : safe_evidence_text(v) \in SafeTexts \cup {None}
  BY DEF safe_evidence_text
<1>4. \A azp \in DOMAIN AZP_ROUTES :
        /\ AZP_ROUTES[azp][1] \in {"route-a", "route-b"}
        /\ AZP_ROUTES[azp][2] \in {"tls_client_auth", "private_key_jwt"}
  BY DEF AZP_ROUTES
<1>5. \A d, r, dh, rh : header_claims_match(d, r, dh, rh) \in BOOLEAN
  BY DEF header_claims_match, AllPresent
<1> HIDE DEF AZP_ROUTES
<1> QED
  BY <1>1, <1>2, <1>3, <1>4, <1>5 DEF build_evidence, EvidenceType

\* A reply with evidence is a 200 for a verified message.
LEMMA ReplyTyped ==
    ASSUME NEW m \in Message
    PROVE  /\ do_GET(m).status \in Nat
           /\ do_GET(m).evidence \in EvidenceType \cup {None}
           /\ do_GET(m).evidence # None =>
                /\ Verified(m)
                /\ do_GET(m).evidence = build_evidence(m)
                /\ do_GET(m).status = 200
<1>1. CASE Verified(m)
  <2>1. build_evidence(m) \in EvidenceType
    BY <1>1, BuildTyped
  <2>2. verify_api_gateway_peer(m.peer) /\ m.path = "/evidence"
    BY <1>1 DEF Verified
  <2> QED
    BY <1>1, <2>1, <2>2 DEF do_GET
<1>2. CASE ~Verified(m)
  BY <1>2 DEF do_GET
<1> QED
  BY <1>1, <1>2

\* A verified message carries the certificate its token is bound to.
LEMMA VerifiedBinds ==
    ASSUME NEW m, Verified(m)
    PROVE  m.cert \in Certs /\ m.token.cnf = m.cert /\ m.token.jwt
BY CertsAssumption
   DEF Verified, verify_access_token, verify_forwarded_certificate_binding,
       forwarded_client_certificate_der

\* Only the gateway's messages are verified.
LEMMA VerifiedPeer ==
    ASSUME NEW m, Verified(m)
    PROVE  m.peer = "gateway"
BY DEF Verified, verify_api_gateway_peer

\* Replacing one thread's record by a good one keeps all good.
LEMMA ReplaceThread ==
    ASSUME IInv, NEW i \in Threads, NEW t, ThreadOK(t),
           thread' = [thread EXCEPT ![i] = t]
    PROVE  /\ DOMAIN thread' = Threads /\ thread' = [j \in Threads |-> thread'[j]]
           /\ \A j \in Threads : ThreadOK(thread'[j])
<1>1. DOMAIN thread = Threads /\ thread = [j \in Threads |-> thread[j]]
  BY DEF IInv
<1>2. thread' = [j \in Threads |-> IF j = i THEN t ELSE thread[j]]
  BY <1>1
<1>3. \A j \in Threads : ThreadOK(thread[j])
  BY DEF IInv
<1> HIDE DEF ThreadOK
<1> QED
  BY <1>2, <1>3
-----------------------------------------------------------------------------
\* A new thread is in order.
LEMMA IdleOK == ThreadOK(Idle)
BY DEF ThreadOK, Idle, ThreadType

\* Receive: the record of a request that has passed or failed do_GET's checks.
LEMMA ReceiveOK ==
    ASSUME IInv, NEW i \in Threads, NEW q \in Requests, Receive(i, q)
    PROVE  IInv'
<1>1. CASE Early(q) # 0
  <2> DEFINE t == [Idle EXCEPT !.phase = "answered", !.request = q,
                               !.answer = [status |-> Early(q), evidence |-> None]]
  <2>1. Early(q) \in Nat
    BY DEF Early
  <2>2. ThreadOK(t)
    BY <2>1 DEF ThreadOK, Idle, ThreadType, AnswerType
  <2>3. thread' = [thread EXCEPT ![i] = t]
    BY <1>1 DEF Receive
  <2> HIDE DEF t
  <2>4. QED
    BY <2>2, <2>3, ReplaceThread DEF IInv, Receive, IssuedToHolder
<1>2. CASE Early(q) = 0
  <2> DEFINE c == loaded[ROUTES[q.path].route]
             t == [Idle EXCEPT !.phase = "calling", !.request = q, !.cert = c]
  <2>1. c \in Certs
    BY <1>2, NotEarly DEF IInv, Receive
  <2> HIDE DEF c
  <2>2. ThreadOK(t)
    BY <1>2, <2>1 DEF ThreadOK, Idle, ThreadType, Made
  <2>3. thread' = [thread EXCEPT ![i] = t]
    BY <1>2 DEF Receive, c
  <2> HIDE DEF t
  <2>4. QED
    BY <2>2, <2>3, ReplaceThread DEF IInv, Receive, IssuedToHolder
<1> QED
  BY <1>1, <1>2

\* Answer: an answer without evidence, or with evidence that was projected.
LEMMA AnswerOK ==
    ASSUME IInv, NEW i \in Threads, NEW a \in AnswerType, Busy(i), Answer(i, a),
           a.evidence # None =>
              /\ Backed(thread[i], a.evidence)
              /\ project_evidence(a.evidence, ROUTES[thread[i].request.path])
    PROVE  IInv'
<1> DEFINE u == thread[i]
           t == [u EXCEPT !.phase = "answered", !.answer = a]
<1>1. ThreadOK(u)
  BY DEF IInv
<1>2. thread' = [thread EXCEPT ![i] = t]
  BY DEF Answer
<1>3. u \in ThreadType /\ Made(u)
  BY <1>1 DEF ThreadOK, Busy
<1>4. /\ t \in ThreadType /\ t.phase = "answered" /\ t.answer = a
      /\ t.request = u.request /\ t.cert = u.cert /\ t.department = u.department
      /\ t.logical_route = u.logical_route
  BY <1>3 DEF ThreadType
<1>5. Sent(t) = Sent(u)
  BY <1>4 DEF Sent
<1>6. ThreadOK(t)
  BY <1>3, <1>4, <1>5 DEF ThreadOK, Made, Backed
<1> HIDE DEF t, u
<1> QED
  BY <1>2, <1>6, ReplaceThread DEF IInv, Answer, IssuedToHolder

\* A failed call has no evidence.
LEMMA FailureOK ==
    ASSUME IInv, NEW i \in Threads, Timeout(i) \/ NetworkError(i)
    PROVE  IInv'
<1>1. CASE Timeout(i)
  BY <1>1, AnswerOK DEF Timeout, AnswerType
<1>2. CASE NetworkError(i)
  BY <1>2, AnswerOK DEF NetworkError, AnswerType
<1> QED
  BY <1>1, <1>2

\* Finish: evidence passes only through project_evidence.
LEMMA FinishOK ==
    ASSUME IInv, NEW i \in Threads, Finish(i)
    PROVE  IInv'
<1> DEFINE u == thread[i]
           e == ROUTES[u.request.path]
           a == fetched(u.reply, e)
<1>1. ThreadOK(u) /\ u.phase = "replied" /\ Busy(i)
  BY DEF IInv, Finish, Busy
<1>2. u.reply \in ReplyType /\ (u.reply.evidence # None => Backed(u, u.reply.evidence))
  BY <1>1 DEF ThreadOK
<1> HIDE DEF u, e
<1>3. a \in AnswerType
  BY <1>2 DEF fetched, AnswerType, ReplyType
<1>4. a.evidence # None => Backed(u, a.evidence) /\ project_evidence(a.evidence, e)
  BY <1>2 DEF fetched
<1>5. Answer(i, a)
  BY DEF Finish, u, e
<1> HIDE DEF a
<1> QED
  BY <1>1, <1>3, <1>4, <1>5, AnswerOK DEF u, e

\* A thread's record keeps its type when a reply is put in.
LEMMA ReplyReplaced ==
    ASSUME NEW u \in ThreadType, NEW x \in ReplyType
    PROVE  [u EXCEPT !.phase = "replied", !.reply = x] \in ThreadType
BY DEF ThreadType

\* GatewayRefuses: no evidence.
LEMMA RefuseOK ==
    ASSUME IInv, NEW i \in Threads, NEW s \in {401, 403, 431, 502}, GatewayRefuses(i, s)
    PROVE  IInv'
<1> DEFINE u == thread[i]
           p == [status |-> s, evidence |-> None, intact |-> TRUE]
           t == [u EXCEPT !.phase = "replied", !.reply = p]
<1>1. ThreadOK(u) /\ u.phase = "calling"
  BY DEF IInv, GatewayRefuses
<1>2. thread' = [thread EXCEPT ![i].phase = "replied", ![i].reply = p]
  BY DEF GatewayRefuses
<1>3. p \in ReplyType /\ p.evidence = None
  BY DEF ReplyType
<1> HIDE DEF p
<1>4. thread' = [thread EXCEPT ![i] = t]
  <2>1. thread = [j \in Threads |-> thread[j]]
    BY DEF IInv
  <2> QED
    BY <1>2, <2>1
<1>5. u \in ThreadType
  BY <1>1 DEF ThreadOK
<1> HIDE DEF u
<1>6. t \in ThreadType
  BY <1>3, <1>5, ReplyReplaced
<1>7. /\ t.phase = "replied" /\ t.reply = p
      /\ t.request = u.request /\ t.cert = u.cert
  BY <1>5 DEF ThreadType
<1> HIDE DEF t
<1>8. ThreadOK(t)
  BY <1>1, <1>3, <1>6, <1>7 DEF ThreadOK, Made
<1> QED
  BY <1>4, <1>8, ReplaceThread DEF IInv, GatewayRefuses, IssuedToHolder

\* Issue: what is issued for a message goes to whoever holds its certificate, if
\* the message is the gateway's for that holder, or is not verified at all.
LEMMA IssueOK ==
    ASSUME NEW m \in Message, m.token \in Tokens, NEW h \in Certs \cup {None}, Issue(m, h),
           Verified(m) => h = m.cert,
           issued \in [token : Tokens, holder : Certs \cup {None}] \cup {None},
           IssuedToHolder
    PROVE  /\ issued' \in [token : Tokens, holder : Certs \cup {None}] \cup {None}
           /\ IssuedToHolder'
<1>1. CASE do_GET(m).evidence = None
  BY <1>1 DEF Issue, IssuedToHolder
<1>2. CASE do_GET(m).evidence # None
  <2>1. Verified(m)
    BY <1>2, ReplyTyped
  <2>2. h \in Certs /\ m.token.cnf = h
    BY <2>1, VerifiedBinds
  <2>3. issued' = [token |-> m.token, holder |-> h]
    BY <1>2 DEF Issue
  <2> QED
    BY <2>2, <2>3, CertsAssumption DEF IssuedToHolder
<1> QED
  BY <1>1, <1>2

\* GatewayForwards: the reply is the verifier's, about the certificate of the call.
LEMMA ForwardOK ==
    ASSUME IInv, NEW i \in Threads, NEW d \in Headers, NEW r \in Headers,
           NEW intact \in BOOLEAN, GatewayForwards(i, d, r, intact)
    PROVE  IInv'
<1> DEFINE u == thread[i]
           m == Forwarded(i, d, r)
           p == [status |-> do_GET(m).status, evidence |-> do_GET(m).evidence,
                 intact |-> intact]
           t == [u EXCEPT !.phase = "replied", !.department = d, !.logical_route = r,
                          !.reply = p]
<1>1. ThreadOK(u) /\ u.phase = "calling" /\ Made(u) /\ u \in ThreadType
  BY DEF IInv, GatewayForwards, ThreadOK
<1>2. thread' = [thread EXCEPT ![i] = t]
  BY DEF GatewayForwards
<1>3. /\ m.token = u.request.token /\ m.cert = u.cert
      /\ m = [ peer |-> "gateway", path |-> "/evidence", bearer |-> TRUE,
               token |-> u.request.token, cert |-> u.cert,
               department_header |-> d, logical_route_header |-> r ]
  BY DEF Forwarded
<1>4. Issue(m, u.cert)
  BY DEF GatewayForwards
<1>5. disk' = disk /\ loaded' = loaded
  BY DEF GatewayForwards
<1> HIDE DEF u, m
<1>6. \A x : LET w == [u EXCEPT !.phase = "replied", !.department = d,
                                !.logical_route = r, !.reply = x]
             IN /\ x \in ReplyType => w \in ThreadType
                /\ Sent(w) = m
                /\ Made(w)
                /\ w.phase = "replied" /\ w.reply = x
  <2> TAKE x
  <2> DEFINE w == [u EXCEPT !.phase = "replied", !.department = d,
                            !.logical_route = r, !.reply = x]
  <2>1. /\ w.request = u.request /\ w.cert = u.cert /\ w.department = d
        /\ w.logical_route = r /\ w.phase = "replied" /\ w.reply = x
        /\ x \in ReplyType => w \in ThreadType
    BY <1>1 DEF ThreadType
  <2> HIDE DEF w
  <2>2. Sent(w) = m /\ Made(w)
    BY <2>1, <1>1, <1>3 DEF Sent, Made
  <2> QED
    BY <2>1, <2>2 DEF w
<1>7. m \in Message
  <2>1. /\ u.request.token \in TokenType
        /\ d \in Texts \cup {None} /\ r \in Texts \cup {None} /\ u.cert \in Certs
    BY <1>1, PathAssumption DEF Made, RequestType
  <2> QED
    BY <1>3, <2>1 DEF Message, Peers
<1>8. /\ do_GET(m).status \in Nat /\ do_GET(m).evidence \in EvidenceType \cup {None}
      /\ do_GET(m).evidence # None =>
           /\ Verified(m) /\ do_GET(m).evidence = build_evidence(m)
           /\ do_GET(m).status = 200
  BY <1>7, ReplyTyped
<1>9. /\ p \in ReplyType
      /\ p.evidence # None => Verified(m) /\ p.evidence = build_evidence(m) /\ p.status = 200
  BY <1>8 DEF ReplyType
<1> HIDE DEF p
<1>10. ThreadOK(t)
  <2>1. t \in ThreadType /\ Sent(t) = m /\ Made(t) /\ t.phase = "replied" /\ t.reply = p
    BY <1>6, <1>9
  <2> HIDE DEF t
  <2> QED
    BY <2>1, <1>9 DEF ThreadOK, Backed
<1>11. m.token \in Tokens /\ u.cert \in Certs
  BY <1>1, <1>3 DEF Tokens, Made
<1>12. /\ issued' \in [token : Tokens, holder : Certs \cup {None}] \cup {None}
       /\ IssuedToHolder'
  BY <1>3, <1>4, <1>7, <1>11, IssueOK DEF IInv
<1> HIDE DEF t
<1> QED
  BY <1>2, <1>5, <1>10, <1>12, ReplaceThread DEF IInv

\* StrayCall: nobody else gets evidence.
LEMMA StrayOK ==
    ASSUME IInv, NEW m \in Strays, StrayCall(m)
    PROVE  IInv'
<1>1. m \in Message /\ (m.peer = "gateway" => m.cert \notin Certs)
  BY PathAssumption
<1>2. ~Verified(m)
  BY <1>1, VerifiedBinds, VerifiedPeer
<1>3. m.token \in Tokens
  BY DEF Tokens
<1>4. /\ issued' \in [token : Tokens, holder : Certs \cup {None}] \cup {None}
      /\ IssuedToHolder'
  BY <1>1, <1>2, <1>3, IssueOK DEF IInv, StrayCall
<1> QED
  BY <1>4 DEF IInv, StrayCall
-----------------------------------------------------------------------------
\* IInv is inductive: what a thread holds as evidence is always the verifier's word
\* about the certificate of that thread's own call.
THEOREM Invariance == Spec => []IInv
<1>1. Init => IInv
  <2> SUFFICES ASSUME Init PROVE IInv
    OBVIOUS
  <2>1. \A i \in Threads : ThreadOK(thread[i])
    BY IdleOK DEF Init
  <2> QED
    BY <2>1 DEF Init, IInv, IssuedToHolder
<1>2. IInv /\ [Next]_vars => IInv'
  <2> SUFFICES ASSUME IInv, [Next]_vars PROVE IInv'
    OBVIOUS
  <2>1. ASSUME NEW i \in Threads, NEW q \in Requests, Receive(i, q) PROVE IInv'
    BY <2>1, ReceiveOK
  <2>2. ASSUME NEW i \in Threads, NEW s \in {401, 403, 431, 502}, GatewayRefuses(i, s)
        PROVE  IInv'
    BY <2>2, RefuseOK
  <2>3. ASSUME NEW i \in Threads, NEW d \in Headers, NEW r \in Headers,
               NEW intact \in BOOLEAN, GatewayForwards(i, d, r, intact)
        PROVE  IInv'
    BY <2>3, ForwardOK
  <2>4. ASSUME NEW i \in Threads, Finish(i) PROVE IInv'
    BY <2>4, FinishOK
  <2>5. ASSUME NEW i \in Threads, Timeout(i) \/ NetworkError(i) PROVE IInv'
    BY <2>5, FailureOK
  <2>6. ASSUME NEW m \in Strays, StrayCall(m) PROVE IInv'
    BY <2>6, StrayOK
  <2>7. ASSUME NEW r \in RouteNames, NEW c \in Certs, Rotate(r, c) PROVE IInv'
    BY <2>7 DEF Rotate, IInv, IssuedToHolder
  <2>8. CASE create_server
    BY <2>8 DEF create_server, IInv, IssuedToHolder
  <2>9. CASE Stop
    <3>1. \A i \in Threads : ThreadOK(thread'[i])
      BY <2>9, IdleOK DEF Stop
    <3> QED
      BY <2>9, <3>1 DEF Stop, IInv, IssuedToHolder
  <2>10. CASE UNCHANGED vars
    BY <2>10 DEF vars, IInv, IssuedToHolder
  <2> QED
    BY <2>1, <2>2, <2>3, <2>4, <2>5, <2>6, <2>7, <2>8, <2>9, <2>10 DEF Next
<1> QED
  BY <1>1, <1>2, PTL DEF Spec

\* Every variable keeps its type.
THEOREM TypeCorrect == Spec => []TypeOK
<1>1. IInv => TypeOK
  BY DEF IInv, TypeOK, ThreadOK
<1> QED
  BY <1>1, Invariance, PTL

\* The verifier's evidence goes only to holders of the bound certificate.
THEOREM OnlyHolders == Spec => []IssuedToHolder
<1>1. IInv => IssuedToHolder
  BY DEF IInv
<1> QED
  BY <1>1, Invariance, PTL

\* Evidence from the backend proves possession of the route's certificate.
THEOREM Possession == Spec => []PossessionProved
<1>1. IInv => PossessionProved
  <2> SUFFICES ASSUME IInv, NEW i \in Threads, Evidenced(i)
               PROVE  LET q == thread[i].request
                          e == thread[i].answer.evidence
                      IN /\ q.trusted /\ q.token.jwt
                         /\ q.token.azp = ROUTES[q.path].azp
                         /\ q.token.cnf = thread[i].cert
                         /\ e.token_certificate_thumbprint = thread[i].cert
    BY DEF PossessionProved
  <2> DEFINE t == thread[i]
             e == t.answer.evidence
             m == Sent(t)
  <2>1. /\ Made(t) /\ Verified(m) /\ e = build_evidence(m)
        /\ project_evidence(e, ROUTES[t.request.path])
    BY DEF IInv, ThreadOK, Evidenced, Backed
  <2>2. t.request.trusted
    BY <2>1, NotEarly DEF Made
  <2>3. m.token = t.request.token /\ m.cert = t.cert
    BY DEF Sent
  <2> HIDE DEF m, t
  <2>4. m.token.cnf = m.cert /\ m.token.jwt
    BY <2>1, VerifiedBinds
  <2>5. e.azp = m.token.azp /\ e.token_certificate_thumbprint = m.token.cnf
    BY <2>1 DEF build_evidence
  <2>6. e.azp = ROUTES[t.request.path].azp
    BY <2>1 DEF project_evidence
  <2> QED
    BY <2>2, <2>3, <2>4, <2>5, <2>6 DEF t
<1> QED
  BY <1>1, Invariance, PTL

\* routing_evidence: the verdict compares exactly what the texts show.
LEMMA VerdictMeans ==
    ASSUME NEW d, NEW r, NEW dh, NEW rh
    PROVE  header_claims_match(safe_evidence_text(d), safe_evidence_text(r),
                               safe_evidence_text(dh), safe_evidence_text(rh))
           <=> Shown(d) /\ d = dh /\ Shown(r) /\ r = rh
<1>1. None \notin SafeTexts
  BY CertsAssumption DEF Texts
<1> QED
  BY <1>1 DEF header_claims_match, AllPresent, safe_evidence_text, Shown

\* The verdict on the headers in returned evidence is right both ways.
THEOREM VerdictRight == Spec => []HeaderVerdict
<1>1. IInv => HeaderVerdict
  <2> SUFFICES ASSUME IInv, NEW i \in Threads, Evidenced(i)
               PROVE  thread[i].answer.evidence.header_claims_match <=>
                        LET k == thread[i].request.token IN
                        /\ Shown(k.department) /\ k.department = thread[i].department
                        /\ Shown(k.logical_route) /\ k.logical_route = thread[i].logical_route
    BY DEF HeaderVerdict
  <2> DEFINE t == thread[i]
             m == Sent(t)
  <2>1. t.answer.evidence = build_evidence(m)
    BY DEF IInv, ThreadOK, Evidenced, Backed
  <2>2. /\ m.token = t.request.token /\ m.department_header = t.department
        /\ m.logical_route_header = t.logical_route
    BY DEF Sent
  <2> HIDE DEF m, t
  <2>3. build_evidence(m).header_claims_match =
          header_claims_match(safe_evidence_text(m.token.department),
                              safe_evidence_text(m.token.logical_route),
                              safe_evidence_text(m.department_header),
                              safe_evidence_text(m.logical_route_header))
    BY DEF build_evidence
  <2>4. build_evidence(m).header_claims_match <=>
          /\ Shown(m.token.department) /\ m.token.department = m.department_header
          /\ Shown(m.token.logical_route) /\ m.token.logical_route = m.logical_route_header
    BY <2>3, VerdictMeans
  <2> QED
    BY <2>1, <2>2, <2>4 DEF t
<1> QED
  BY <1>1, Invariance, PTL

\* Evidence for the right route without control characters is never refused.
THEOREM Agreement == Spec => []SchemasAgree
<1>1. IInv => SchemasAgree
  <2> SUFFICES ASSUME IInv, NEW i \in Threads,
                      thread[i].phase = "replied", thread[i].reply.intact,
                      thread[i].reply.evidence # None,
                      thread[i].reply.evidence.azp = ROUTES[thread[i].request.path].azp,
                      "control" \notin {thread[i].request.token.department,
                                       thread[i].request.token.logical_route,
                                       thread[i].department, thread[i].logical_route}
               PROVE  fetched(thread[i].reply, ROUTES[thread[i].request.path]).status = 200
    BY DEF SchemasAgree
  <2> DEFINE t == thread[i]
             m == Sent(t)
             e == t.reply.evidence
             x == ROUTES[t.request.path]
  <2>1. Made(t) /\ Verified(m) /\ e = build_evidence(m) /\ t.reply.status = 200
    BY DEF IInv, ThreadOK, Backed
  <2>2. /\ m.token = t.request.token /\ m.department_header = t.department
        /\ m.logical_route_header = t.logical_route
    BY DEF Sent
  <2>3. t.request.path \in DOMAIN ROUTES
    BY <2>1, NotEarly DEF Made
  <2>4. t.reply.intact /\ e # None /\ e.azp = x.azp
    OBVIOUS
  <2>5. "control" \notin {m.token.department, m.token.logical_route,
                         m.department_header, m.logical_route_header}
    BY <2>2
  <2> HIDE DEF m
  <2>6. e.route = x.route /\ e.client_authentication = x.client_authentication
    <3>1. /\ e.azp = m.token.azp /\ e.route = AZP_ROUTES[m.token.azp][1]
          /\ e.client_authentication = AZP_ROUTES[m.token.azp][2]
      BY <2>1 DEF build_evidence
    <3>2. m.token.azp = x.azp
      BY <3>1, <2>4
    <3>3. \A p \in DOMAIN ROUTES :
            /\ AZP_ROUTES[ROUTES[p].azp][1] = ROUTES[p].route
            /\ AZP_ROUTES[ROUTES[p].azp][2] = ROUTES[p].client_authentication
      BY DEF ROUTES, AZP_ROUTES
    <3> QED
      BY <3>1, <3>2, <3>3, <2>3
  <2>7. \A v : v # "control" => safe_evidence_text(v) \in PlainTexts \cup {None}
    BY DEF safe_evidence_text, SafeTexts
  <2>8. /\ e.department = safe_evidence_text(m.token.department)
        /\ e.logical_route = safe_evidence_text(m.token.logical_route)
        /\ e.department_header = safe_evidence_text(m.department_header)
        /\ e.logical_route_header = safe_evidence_text(m.logical_route_header)
        /\ e.header_claims_match =
             header_claims_match(e.department, e.logical_route, e.department_header,
                                 e.logical_route_header)
        /\ e.token_certificate_thumbprint = m.token.cnf
        /\ e.forwarded_client_certificate_thumbprint = forwarded_client_certificate_der(m)
    BY <2>1 DEF build_evidence
  <2>9. {e.department, e.logical_route, e.department_header, e.logical_route_header}
          \subseteq PlainTexts \cup {None}
    BY <2>5, <2>7, <2>8
  <2>10. e.token_certificate_thumbprint = e.forwarded_client_certificate_thumbprint
    BY <2>1, <2>8 DEF Verified, verify_forwarded_certificate_binding
  <2> HIDE DEF e, x
  <2>11. project_evidence(e, x)
    BY <2>4, <2>6, <2>8, <2>9, <2>10 DEF project_evidence, header_claims_match
  <2> QED
    BY <2>1, <2>4, <2>11 DEF fetched, e, x
<1> QED
  BY <1>1, Invariance, PTL
-----------------------------------------------------------------------------
(***************************************************************************)
(* The pre-function of the API gateway's Route.  Its counter is the number *)
(* of lines it has seen, so that below the limit it has seen them all.     *)
(***************************************************************************)
Counts(S) == [S -> 0 .. MaxLines]
Seen(b, X) == {l \in Lines(b) : l[1] \in X}

LEMMA SeenFinite ==
    ASSUME NEW S, IsFiniteSet(S), NEW b \in Counts(S), NEW X
    PROVE  /\ IsFiniteSet(Lines(b)) /\ Total(b) \in Nat
           /\ IsFiniteSet(Seen(b, X)) /\ Cardinality(Seen(b, X)) \in Nat /\ Cardinality(Seen(b, X)) <= Total(b)
<1>1. MaxLines \in Nat /\ DOMAIN b = S
  BY HeadersAssumption DEF Counts
<1>2. IsFiniteSet(1 .. MaxLines)
  BY <1>1, FS_Interval
<1>3. IsFiniteSet(S \X (1 .. MaxLines))
  BY <1>2, FS_Product
<1>4. Lines(b) \in SUBSET (S \X (1 .. MaxLines)) /\ Seen(b, X) \in SUBSET Lines(b)
  BY <1>1 DEF Lines, Seen
<1>5. IsFiniteSet(Lines(b))
  BY <1>3, <1>4, FS_Subset
<1>6. IsFiniteSet(Seen(b, X)) /\ Cardinality(Seen(b, X)) <= Cardinality(Lines(b))
  BY <1>4, <1>5, FS_Subset
<1> QED BY <1>5, <1>6, FS_CardinalityType DEF Total

LEMMA SeenOneMore ==
    ASSUME NEW S, IsFiniteSet(S), NEW b \in Counts(S), NEW X \in SUBSET S, NEW x \in S, x \notin X
    PROVE  Cardinality(Seen(b, X \cup {x})) = Cardinality(Seen(b, X)) + b[x]
<1>1. MaxLines \in Nat /\ DOMAIN b = S /\ b[x] \in Nat /\ b[x] <= MaxLines
  BY HeadersAssumption DEF Counts
<1> DEFINE T == {x} \X (1 .. b[x])
<1>2. Seen(b, X \cup {x}) = Seen(b, X) \cup T
  <2>1. ASSUME NEW l \in Seen(b, X \cup {x}) PROVE l \in Seen(b, X) \cup T
    BY <1>1 DEF Seen, Lines
  <2>2. ASSUME NEW l \in T PROVE l \in Seen(b, X \cup {x})
    <3>1. l \in S \X (1 .. MaxLines) /\ l[1] = x /\ l[2] <= b[x]
      BY <1>1, <2>2
    <3> QED BY <1>1, <3>1 DEF Seen, Lines
  <2>3. Seen(b, X) \subseteq Seen(b, X \cup {x})
    BY DEF Seen
  <2> QED BY <2>1, <2>2, <2>3
<1>3. Seen(b, X) \cap T = {}
  BY DEF Seen
<1>4. IsFiniteSet(T) /\ Cardinality(T) = b[x]
  <2>1. IsFiniteSet(1 .. b[x]) /\ Cardinality(1 .. b[x]) = b[x]
    BY <1>1, FS_Interval
  <2>2. IsFiniteSet({x}) /\ Cardinality({x}) = 1
    BY FS_Singleton
  <2>3. IsFiniteSet(T) /\ Cardinality(T) = Cardinality({x}) * Cardinality(1 .. b[x])
    BY <2>1, <2>2, FS_Product
  <2> QED BY <1>1, <2>1, <2>2, <2>3
<1>5. IsFiniteSet(Seen(b, X)) /\ Cardinality(Seen(b, X)) \in Nat
  BY SeenFinite
<1> HIDE DEF T
<1>6. Cardinality(Seen(b, X) \cup T) = Cardinality(Seen(b, X)) + Cardinality(T) - Cardinality({})
  BY <1>3, <1>4, <1>5, FS_Union
<1>7. Cardinality({}) = 0
  BY FS_EmptySet
<1>8. ASSUME NEW c \in Nat, NEW d \in Nat PROVE c + d - 0 = c + d
  OBVIOUS
<1> QED BY <1>1, <1>2, <1>4, <1>5, <1>6, <1>7, <1>8

LEMMA SeenEnds ==
    ASSUME NEW S, IsFiniteSet(S), NEW b \in Counts(S)
    PROVE  Seen(b, Named(b)) = Lines(b) /\ Cardinality(Seen(b, {})) = 0 /\ Named(b) \subseteq S
<1>1. DOMAIN b = S /\ MaxLines \in Nat /\ \A x \in S : b[x] \in Nat
  BY HeadersAssumption DEF Counts
<1>2. ASSUME NEW l \in Lines(b) PROVE l[1] \in Named(b)
  BY <1>1, <1>2 DEF Lines, Named
<1>3. Seen(b, {}) = {}
  BY DEF Seen
<1> QED BY <1>1, <1>2, <1>3, FS_EmptySet DEF Seen, Named

\* What Kong returned is part of the request, and all of it below the limit.
LEMMA ReturnedPart ==
    ASSUME NEW S, IsFiniteSet(S), NEW b \in Counts(S), NEW r \in Returned(b)
    PROVE  /\ r \in Counts(S) /\ Total(r) <= Total(b)
           /\ \A x \in S : r[x] > 0 => b[x] > 0
           /\ Total(r) < Limit => \A x \in S : b[x] > 0 => r[x] > 0
<1>1. DOMAIN b = S /\ MaxLines \in Nat /\ Limit \in Nat /\ \A x \in S : b[x] \in Nat /\ b[x] <= MaxLines
  BY HeadersAssumption DEF Counts
<1>2. /\ r \in Counts(S) /\ \A x \in S : r[x] <= b[x]
      /\ Total(r) = IF Total(b) > Limit THEN Limit ELSE Total(b)
  BY <1>1 DEF Returned, Counts
<1>3. DOMAIN r = S /\ \A x \in S : r[x] \in Nat
  BY <1>1, <1>2 DEF Counts
<1>4. Total(b) \in Nat /\ IsFiniteSet(Lines(b))
  BY SeenFinite
<1>5. Lines(r) \in SUBSET Lines(b)
  <2> SUFFICES ASSUME NEW l \in Lines(r) PROVE l \in Lines(b)
    OBVIOUS
  <2>1. l \in S \X (1 .. MaxLines) /\ l[2] <= r[l[1]]
    BY <1>3 DEF Lines
  <2>2. l[1] \in S /\ l[2] \in Nat
    BY <1>1, <2>1
  <2>3. l[2] <= b[l[1]]
    BY <1>1, <1>2, <1>3, <2>1, <2>2
  <2> QED BY <1>1, <2>1, <2>3 DEF Lines
<1>6. ASSUME Total(r) < Limit, NEW x \in S, b[x] > 0 PROVE r[x] > 0
  <2>1. Cardinality(Lines(b)) = Cardinality(Lines(r))
    BY <1>1, <1>2, <1>4, <1>6 DEF Total
  <2>2. Lines(b) = Lines(r)
    BY <1>4, <1>5, <2>1, FS_Subset
  <2>3. <<x, 1>> \in S \X (1 .. MaxLines) /\ 1 <= b[x]
    BY <1>1, <1>6
  <2>4. <<x, 1>> \in Lines(b)
    BY <1>1, <2>3 DEF Lines
  <2>5. <<x, 1>> \in Lines(r)
    BY <2>2, <2>4
  <2>6. 1 <= r[x]
    BY <2>5 DEF Lines
  <2> QED BY <1>3, <2>6
<1>7. ASSUME NEW x \in S, r[x] > 0 PROVE b[x] > 0
  <2>1. r[x] <= b[x] /\ r[x] \in Nat /\ b[x] \in Nat
    BY <1>1, <1>2, <1>3
  <2> QED BY <1>7, <2>1
<1> QED BY <1>1, <1>2, <1>4, <1>6, <1>7

\* The loop over what Kong returned for b.
Inspecting(b) ==
    /\ got \in Returned(b) /\ left \subseteq Named(got)
    /\ count = Cardinality(Seen(got, Named(got) \ left))
GuardInv ==
    /\ sent \in Counts(HeaderNames) /\ query \in Counts(Args)
    /\ pc = "inspect" => /\ Inspecting(sent) /\ count < Limit
                         /\ \A h \in Named(got) \ left : h \in Stripped => h \in cleared
    /\ pc = "args" => /\ Inspecting(query) /\ count < Limit
                      /\ \A a \in Named(got) \ left : a \notin TokenArgs
    /\ pc \in {"query", "args", "passed"} => \A h \in Stripped : sent[h] > 0 => h \in cleared
    /\ pc = "passed" => \A a \in TokenArgs : query[a] = 0
    /\ RefusedForCause

LEMMA Fetched ==
    ASSUME NEW S, IsFiniteSet(S), NEW b \in Counts(S), NEW r \in Returned(b),
           got' = r, left' = Named(r), count' = 0
    PROVE  /\ got' \in Returned(b) /\ left' \subseteq Named(got')
           /\ count' = Cardinality(Seen(got', Named(got') \ left')) /\ count' < Limit /\ Named(got') \ left' = {}
<1>1. r \in Counts(S)
  BY ReturnedPart
<1>2. Cardinality(Seen(r, {})) = 0
  BY <1>1, SeenEnds
<1> QED BY <1>2, HeadersAssumption

LEMMA Inspected ==
    ASSUME NEW S, IsFiniteSet(S), NEW b \in Counts(S), Inspecting(b), NEW x \in left,
           count' = count + Entries(got[x]), left' = left \ {x}, got' = got
    PROVE  /\ got' \in Returned(b) /\ left' \subseteq Named(got') /\ x \in S /\ got[x] > 0
           /\ count' = Cardinality(Seen(got', Named(got') \ left'))
           /\ count' \in Nat /\ count' > 0 /\ count' <= Total(b)
           /\ Named(got') \ left' = (Named(got) \ left) \cup {x}
<1>1. got \in Counts(S) /\ Total(got) <= Total(b)
  BY ReturnedPart DEF Inspecting
<1>2. Named(got) \subseteq S /\ x \in Named(got) /\ left \subseteq Named(got)
  BY <1>1, SeenEnds DEF Inspecting
<1>3. DOMAIN got = S /\ got[x] \in Nat /\ got[x] > 0
  BY <1>1, <1>2, HeadersAssumption DEF Counts, Named
<1> DEFINE X == Named(got) \ left
<1>4. X \in SUBSET S /\ x \in S /\ x \notin X
  BY <1>2
<1>5. Named(got') \ left' = X \cup {x}
  BY <1>2
<1> HIDE DEF X
<1>6. Cardinality(Seen(got, X \cup {x})) = Cardinality(Seen(got, X)) + got[x]
  BY <1>1, <1>4, SeenOneMore
<1>7. Entries(got[x]) = got[x]
  BY <1>3 DEF Entries
<1>8. count = Cardinality(Seen(got, X)) /\ count \in Nat
  BY <1>1, SeenFinite DEF Inspecting, X
<1>9. count' = Cardinality(Seen(got', Named(got') \ left')) /\ count' \in Nat /\ count' > 0
  BY <1>3, <1>5, <1>6, <1>7, <1>8
<1>10. count' <= Total(got) /\ Total(got) \in Nat /\ Total(b) \in Nat
  BY <1>1, <1>9, SeenFinite
<1> QED BY <1>1, <1>2, <1>3, <1>4, <1>5, <1>9, <1>10 DEF Inspecting, X

\* Below the limit, a loop that has nothing left has seen every name of b.
LEMMA SeenAll ==
    ASSUME NEW S, IsFiniteSet(S), NEW b \in Counts(S), NEW r \in Returned(b), NEW c,
           c = Cardinality(Seen(r, Named(r))), c < Limit
    PROVE  \A x \in S : b[x] > 0 => x \in Named(r)
<1>1. r \in Counts(S)
  BY ReturnedPart
<1>2. c = Total(r) /\ DOMAIN r = S
  BY <1>1, SeenEnds DEF Total, Counts
<1> QED BY <1>2, ReturnedPart DEF Named

LEMMA GuardStep ==
    ASSUME GuardInv, [GuardNext]_guardVars
    PROVE  GuardInv'
<1> USE HeadersAssumption
<1>0. /\ sent \in Counts(HeaderNames) /\ query \in Counts(Args) /\ RefusedForCause
      /\ \A h \in Stripped : h \in HeaderNames
      /\ \A a \in TokenArgs : a \in Args
  BY DEF GuardInv
<1>1. CASE Arrive
  BY <1>1 DEF Arrive, GuardInv, RefusedForCause, Counts
<1>2. CASE GetHeaders
  <2>1. UNCHANGED <<sent, query, cleared>>
    BY <1>2 DEF GetHeaders, Fetch
  <2>2. CASE pc' = "431" /\ count' = 0
    BY <1>0, <2>1, <2>2 DEF GuardInv, RefusedForCause
  <2>3. ASSUME NEW r \in Returned(sent), got' = r, left' = Named(r), count' = 0, pc' = "inspect" PROVE GuardInv'
    <3>1. /\ got' \in Returned(sent) /\ left' \subseteq Named(got')
          /\ count' = Cardinality(Seen(got', Named(got') \ left')) /\ count' < Limit /\ Named(got') \ left' = {}
      BY <1>0, <2>3, Fetched
    <3> QED BY <1>0, <2>1, <2>3, <3>1 DEF GuardInv, RefusedForCause, Inspecting
  <2> QED BY <1>2, <2>2, <2>3 DEF GetHeaders, Fetch
<1>3. CASE GetQuery
  <2>1. UNCHANGED <<sent, query, cleared>> /\ pc = "query"
    BY <1>3 DEF GetQuery, Fetch
  <2>2. CASE pc' = "401" /\ count' = 0
    BY <1>0, <2>1, <2>2 DEF GuardInv, RefusedForCause
  <2>3. ASSUME NEW r \in Returned(query), got' = r, left' = Named(r), count' = 0, pc' = "args" PROVE GuardInv'
    <3>1. /\ got' \in Returned(query) /\ left' \subseteq Named(got')
          /\ count' = Cardinality(Seen(got', Named(got') \ left')) /\ count' < Limit /\ Named(got') \ left' = {}
      BY <1>0, <2>3, Fetched
    <3>2. \A h \in Stripped : sent[h] > 0 => h \in cleared
      BY <2>1 DEF GuardInv
    <3> QED BY <1>0, <2>1, <2>3, <3>1, <3>2 DEF GuardInv, RefusedForCause, Inspecting
  <2> QED BY <1>3, <2>2, <2>3 DEF GetQuery, Fetch
<1>4. ASSUME NEW h \in HeaderNames, InspectHeader(h) PROVE GuardInv'
  <2>1. /\ pc = "inspect" /\ h \in left /\ UNCHANGED <<sent, query, got>>
        /\ count' = count + Entries(got[h]) /\ left' = left \ {h}
    BY <1>4 DEF InspectHeader
  <2>2. Inspecting(sent) /\ \A g \in Named(got) \ left : g \in Stripped => g \in cleared
    BY <2>1 DEF GuardInv
  <2>3. /\ got' \in Returned(sent) /\ left' \subseteq Named(got') /\ h \in HeaderNames
        /\ count' = Cardinality(Seen(got', Named(got') \ left'))
        /\ count' \in Nat /\ count' > 0 /\ count' <= Total(sent)
        /\ Named(got') \ left' = (Named(got) \ left) \cup {h}
    BY <1>0, <2>1, <2>2, Inspected
  <2>4. CASE Reached(count')
    <3>1. pc' = "431" /\ count' >= Limit
      BY <1>4, <2>4 DEF InspectHeader, Reached
    <3>2. Total(sent) \in Nat /\ Limit \in Nat
      BY <1>0, SeenFinite
    <3>3. Total(sent)' >= Limit
      BY <2>1, <2>3, <3>1, <3>2 DEF Total, Lines
    <3> QED BY <1>0, <2>1, <3>1, <3>3 DEF GuardInv, RefusedForCause
  <2>5. CASE ~Reached(count')
    <3>1. /\ count' < Limit /\ cleared' = (IF h \in Stripped THEN cleared \cup {h} ELSE cleared)
          /\ pc' = IF left' = {} THEN "query" ELSE pc
      BY <1>4, <2>3, <2>5 DEF InspectHeader, Reached
    <3>2. \A g \in Named(got') \ left' : g \in Stripped => g \in cleared'
      BY <2>2, <2>3, <3>1
    <3>3. CASE left' # {}
      <4>1. pc' = "inspect"
        BY <2>1, <3>1, <3>3
      <4> QED BY <1>0, <2>1, <2>3, <3>1, <3>2, <4>1 DEF GuardInv, RefusedForCause, Inspecting
    <3>4. CASE left' = {}
      <4>1. pc' = "query" /\ Named(got') \ left' = Named(got')
        BY <3>1, <3>4
      <4>2. \A x \in HeaderNames : sent[x] > 0 => x \in Named(got')
        <5>1. got' \in Returned(sent) /\ count' = Cardinality(Seen(got', Named(got'))) /\ count' < Limit
          BY <2>3, <3>1, <4>1
        <5> QED BY <1>0, <5>1, SeenAll
      <4>3. \A x \in Stripped : sent[x] > 0 => x \in cleared'
        BY <1>0, <3>2, <4>1, <4>2
      <4> QED BY <1>0, <2>1, <4>1, <4>3 DEF GuardInv, RefusedForCause
    <3> QED BY <3>3, <3>4
  <2> QED BY <2>4, <2>5
<1>5. CASE NoHeaders
  <2>1. pc = "inspect" /\ left = {} /\ pc' = "query" /\ UNCHANGED <<sent, query, got, left, count, cleared>>
    BY <1>5 DEF NoHeaders
  <2>2. /\ got \in Returned(sent) /\ count = Cardinality(Seen(got, Named(got) \ left)) /\ count < Limit
        /\ \A h \in Named(got) \ left : h \in Stripped => h \in cleared
    BY <2>1 DEF GuardInv, Inspecting
  <2>3. Named(got) \ left = Named(got)
    BY <2>1
  <2>4. \A x \in HeaderNames : sent[x] > 0 => x \in Named(got)
    BY <1>0, <2>2, <2>3, SeenAll
  <2> QED BY <1>0, <2>1, <2>2, <2>3, <2>4 DEF GuardInv, RefusedForCause
<1>6. ASSUME NEW a \in Args, InspectArg(a) PROVE GuardInv'
  <2>1. /\ pc = "args" /\ a \in left /\ UNCHANGED <<sent, query, got, cleared>>
        /\ count' = count + Entries(got[a]) /\ left' = left \ {a}
        /\ pc' = IF a \in TokenArgs \/ Reached(count') THEN "401" ELSE IF left' = {} THEN "passed" ELSE pc
    BY <1>6 DEF InspectArg
  <2>2. /\ Inspecting(query) /\ \A g \in Named(got) \ left : g \notin TokenArgs
        /\ \A h \in Stripped : sent[h] > 0 => h \in cleared
    BY <2>1 DEF GuardInv
  <2>3. /\ got' \in Returned(query) /\ left' \subseteq Named(got') /\ got[a] > 0
        /\ count' = Cardinality(Seen(got', Named(got') \ left'))
        /\ count' \in Nat /\ count' > 0 /\ count' <= Total(query)
        /\ Named(got') \ left' = (Named(got) \ left) \cup {a}
    BY <1>0, <2>1, <2>2, Inspected
  <2>4. CASE a \in TokenArgs \/ Reached(count')
    <3>1. pc' = "401" /\ (a \in TokenArgs \/ count' >= Limit)
      BY <2>1, <2>4 DEF Reached
    <3>2. Total(query) \in Nat /\ Limit \in Nat
      BY <1>0, SeenFinite
    <3>3. a \in TokenArgs => query[a] > 0
      BY <1>0, <2>2, <2>3, ReturnedPart DEF Inspecting
    <3>4. Total(query)' >= Limit \/ \E t \in TokenArgs : query'[t] > 0
      BY <2>1, <2>3, <3>1, <3>2, <3>3 DEF Total, Lines
    <3> QED BY <1>0, <2>1, <3>1, <3>4 DEF GuardInv, RefusedForCause
  <2>5. CASE a \notin TokenArgs /\ ~Reached(count')
    <3>1. count' < Limit /\ pc' = IF left' = {} THEN "passed" ELSE "args"
      BY <2>1, <2>3, <2>5 DEF Reached
    <3>2. \A g \in Named(got') \ left' : g \notin TokenArgs
      BY <2>2, <2>3, <2>5
    <3>3. CASE left' # {}
      BY <1>0, <2>1, <2>2, <2>3, <3>1, <3>2, <3>3 DEF GuardInv, RefusedForCause, Inspecting
    <3>4. CASE left' = {}
      <4>1. pc' = "passed" /\ Named(got') \ left' = Named(got')
        BY <3>1, <3>4
      <4>2. \A x \in Args : query[x] > 0 => x \in Named(got')
        <5>1. got' \in Returned(query) /\ count' = Cardinality(Seen(got', Named(got'))) /\ count' < Limit
          BY <2>3, <3>1, <4>1
        <5> QED BY <1>0, <5>1, SeenAll
      <4>3. \A x \in TokenArgs : query[x] = 0
        <5>1. \A x \in TokenArgs : query[x] \in Nat /\ ~(query[x] > 0)
          BY <1>0, <3>2, <4>1, <4>2 DEF Counts
        <5> QED BY <5>1
      <4> QED BY <1>0, <2>1, <2>2, <4>1, <4>3 DEF GuardInv, RefusedForCause
    <3> QED BY <3>3, <3>4
  <2> QED BY <2>4, <2>5
<1>7. CASE NoArgs
  <2>1. pc = "args" /\ left = {} /\ pc' = "passed" /\ UNCHANGED <<sent, query, got, left, count, cleared>>
    BY <1>7 DEF NoArgs
  <2>2. /\ got \in Returned(query) /\ count = Cardinality(Seen(got, Named(got) \ left)) /\ count < Limit
        /\ \A a \in Named(got) \ left : a \notin TokenArgs
        /\ \A h \in Stripped : sent[h] > 0 => h \in cleared
    BY <2>1 DEF GuardInv, Inspecting
  <2>3. Named(got) \ left = Named(got)
    BY <2>1
  <2>4. \A x \in Args : query[x] > 0 => x \in Named(got)
    BY <1>0, <2>2, <2>3, SeenAll
  <2>5. \A x \in TokenArgs : query[x] = 0
    <3>1. \A x \in TokenArgs : query[x] \in Nat /\ ~(query[x] > 0)
      BY <1>0, <2>2, <2>3, <2>4 DEF Counts
    <3> QED BY <3>1
  <2> QED BY <1>0, <2>1, <2>2, <2>5 DEF GuardInv, RefusedForCause
<1>8. CASE UNCHANGED guardVars
  BY <1>8 DEF guardVars, GuardInv, RefusedForCause, Inspecting, Total, Lines
<1> QED BY <1>1, <1>2, <1>3, <1>4, <1>5, <1>6, <1>7, <1>8 DEF GuardNext

(* HEADER_SANITIZER_LUA, for any limit, names and number of lines: a request  *)
(* that passes has no line of a stripped name and no token in its query,      *)
(* whatever Kong leaves out of its answers, and a request that was inspected  *)
(* is refused only for its length or a token.                                 *)
THEOREM BoundaryKept == GuardSpec => []HeaderBoundary
<1>1. GuardInit => GuardInv
  <2>1. MaxLines \in Nat
    BY HeadersAssumption
  <2> QED BY <2>1 DEF GuardInit, GuardInv, RefusedForCause, Counts
<1>2. GuardInv => HeaderBoundary
  BY DEF GuardInv, HeaderBoundary, BoundaryHolds
<1> QED BY <1>1, <1>2, GuardStep, PTL DEF GuardSpec

-----------------------------------------------------------------------------
(* The one-time migration of the API Control Plane. The validator of the diff *)
(* and the reviewed migration are both reduced to the same facts about the    *)
(* rows of a report: every create is one runtime entity (EachCreated), every  *)
(* delete is one legacy entity (EachOnce) bound to its own route (Bound), and *)
(* no id is protected or used twice.                                          *)

\* The interval 1 .. n has n members.
LEMMA CountTo ==
    ASSUME NEW n \in Nat
    PROVE  IsFiniteSet(1 .. n) /\ Cardinality(1 .. n) = n
BY FS_Interval

\* Distinct, which counts values, says that no two positions agree.
LEMMA DistinctInjective ==
    ASSUME NEW S, NEW s \in Seq(S)
    PROVE  Distinct(s) <=> \A i, j \in 1 .. Len(s) : s[i] = s[j] => i = j
<1> DEFINE I == 1 .. Len(s)
<1>1. s \in Surjection(I, Range(s))
  BY DEF Surjection, Range
<1>2. IsFiniteSet(I) /\ Cardinality(I) = Len(s)
  <2>1. Len(s) \in Nat
    OBVIOUS
  <2> QED BY <2>1, FS_Interval
<1>3. Cardinality(Range(s)) = Cardinality(I) <=> s \in Injection(I, Range(s))
  BY <1>1, <1>2, FS_Surjection
<1>4. s \in Injection(I, Range(s)) <=> \A i, j \in I : s[i] = s[j] => i = j
  BY <1>1 DEF Injection, IsInjective, Surjection
<1> QED BY <1>2, <1>3, <1>4 DEF Distinct

\* A Counter is the bag of a set exactly when it counts every member once.
LEMMA CountedOnce ==
    ASSUME NEW I, NEW V, NEW f \in [I -> V], IsFiniteSet(I), NEW S
    PROVE  Counter(f) = SetToBag(S) <=> f \in Bijection(I, S)
<1>1. Counter(f) = [x \in Range(f) |-> Cardinality({i \in I : f[i] = x})]
  BY DEF Counter
<1>2. \A x \in Range(f) : IsFiniteSet({i \in I : f[i] = x})
  BY FS_Subset
<1>3. ASSUME Counter(f) = SetToBag(S)
      PROVE  f \in Bijection(I, S)
  <2>1. Range(f) = S
    BY <1>1, <1>3 DEF SetToBag
  <2>2. \A x \in S : Cardinality({i \in I : f[i] = x}) = 1
    BY <1>1, <1>3, <2>1 DEF SetToBag
  <2>3. \A i, j \in I : f[i] = f[j] => i = j
    <3> SUFFICES ASSUME NEW i \in I, NEW j \in I, f[i] = f[j]
                 PROVE  i = j
      OBVIOUS
    <3> DEFINE T == {k \in I : f[k] = f[i]}
    <3>1. f[i] \in S
      BY <2>1 DEF Range
    <3>2. IsFiniteSet(T) /\ Cardinality(T) = 1
      BY <1>2, <2>1, <2>2, <3>1
    <3>3. PICK y : T = {y}
      BY <3>2, FS_Singleton
    <3>4. i \in T /\ j \in T
      OBVIOUS
    <3> QED BY <3>3, <3>4
  <2> QED BY <2>1, <2>3 DEF Bijection, Injection, Surjection, IsInjective, Range
<1>4. ASSUME f \in Bijection(I, S)
      PROVE  Counter(f) = SetToBag(S)
  <2>1. Range(f) = S
    BY <1>4 DEF Bijection, Injection, Surjection, Range
  <2>2. \A x \in S : Cardinality({i \in I : f[i] = x}) = 1
    <3> SUFFICES ASSUME NEW x \in S
                 PROVE  Cardinality({i \in I : f[i] = x}) = 1
      OBVIOUS
    <3>1. PICK i \in I : f[i] = x
      BY <2>1 DEF Range
    <3>2. {k \in I : f[k] = x} = {i}
      BY <1>4, <3>1 DEF Bijection, Injection, IsInjective
    <3> QED BY <3>2, FS_Singleton
  <2> QED BY <1>1, <2>1, <2>2 DEF SetToBag
<1> QED BY <1>3, <1>4

\* None of Python is no dictionary: the absent field is no relation.
NullIsNoRelation == \A id, name : Null /= Rel(id, name)
\* Fields of a row: the absent value or any values V a report can hold.
Relations(V) == {Null} \cup [id : V, name : V]
ReportRows(V) == [kind : V, label : V, name : V, id : V, tags : Seq(V), old : BOOLEAN,
                  service : Relations(V), route : Relations(V), cert : V, cas : Seq(V)]
Reports(V) == [creating : Seq(ReportRows(V)), updating : Seq(ReportRows(V)), deleting : Seq(ReportRows(V)),
               diagnostics : BOOLEAN, summary : [creating : Nat, updating : Nat, deleting : Nat, total : Nat]]

\* The singular spelling of a kind is its canonical one.
LEMMA SpelledKinds ==
    /\ canonical_entity_kind("service") = "service" /\ canonical_entity_kind("route") = "route"
    /\ canonical_entity_kind("plugin") = "plugin" /\ canonical_entity_kind("certificate") = "certificate"
BY DEF canonical_entity_kind

\* A spelling is one of the four kinds or none.
LEMMA KindsKnown ==
    ASSUME NEW kind
    PROVE  canonical_entity_kind(kind) \in {"service", "route", "plugin", "certificate", Null}
BY DEF canonical_entity_kind

\* There are two route tags.
LEMMA TwoTags == IsFiniteSet(Tags) /\ Cardinality(Tags) = 2
<1>1. IsFiniteSet({"route-a"}) /\ Cardinality({"route-a"}) = 1
  BY FS_Singleton
<1>2. /\ IsFiniteSet({"route-a"} \cup {"route-b"})
      /\ Cardinality({"route-a"} \cup {"route-b"}) = Cardinality({"route-a"}) + 1
  BY <1>1, FS_AddElement
<1>3. Tags = {"route-a"} \cup {"route-b"}
  BY DEF Tags
<1> QED BY <1>1, <1>2, <1>3

\* A row has the route tag t when its two tags are fapi2-demo and t.
LEMMA TagOfRow ==
    ASSUME NEW V, NEW row, row.tags \in Seq(V)
    PROVE  /\ _legacy_route_tag(row) \in Tags \cup {Null}
           /\ \A t \in Tags : _legacy_route_tag(row) = t <=> Len(row.tags) = 2 /\ Range(row.tags) = {"fapi2-demo", t}
<1> DEFINE T == Range(row.tags) \ {"fapi2-demo"}
<1>1. CASE Len(row.tags) = 2 /\ "fapi2-demo" \in Range(row.tags) /\ Cardinality(T) = 1 /\ T \subseteq Tags
  <2>1. IsFiniteSet(Tags)
    BY TwoTags
  <2>2. IsFiniteSet(T)
    BY <1>1, <2>1, FS_Subset
  <2>3. PICK x : T = {x}
    BY <1>1, <2>2, FS_Singleton
  <2>4. _legacy_route_tag(row) = x
    BY <1>1, <2>3 DEF _legacy_route_tag
  <2>5. Range(row.tags) = {"fapi2-demo", x} /\ x \in Tags
    BY <1>1, <2>3
  <2> QED BY <1>1, <2>3, <2>4, <2>5 DEF Tags
<1>2. CASE ~(Len(row.tags) = 2 /\ "fapi2-demo" \in Range(row.tags) /\ Cardinality(T) = 1 /\ T \subseteq Tags)
  <2>1. _legacy_route_tag(row) = Null
    BY <1>2 DEF _legacy_route_tag
  <2>2. ASSUME NEW t \in Tags, Len(row.tags) = 2, Range(row.tags) = {"fapi2-demo", t}
        PROVE  FALSE
    <3>1. T = {t}
      BY <2>2 DEF Tags
    <3>2. Cardinality(T) = 1
      BY <3>1, FS_Singleton
    <3> QED BY <1>2, <2>2, <3>1, <3>2
  <2> QED BY <2>1, <2>2, ReportAssumption
<1> QED BY <1>1, <1>2

\* The fixed kind and id of a runtime entity; its id is protected.
LEMMA RuntimeKinds ==
    ASSUME NEW n \in RuntimeNames
    PROVE  /\ EXPECTED_RUNTIME_CREATE_KINDS[n] = IF n = RUNTIME_SERVICE_NAME THEN "service"
                                                 ELSE IF n = RUNTIME_ROUTE_NAME THEN "route" ELSE "plugin"
           /\ RUNTIME_ENTITY_IDS[n] = <<"runtime", n>> /\ RUNTIME_ENTITY_IDS[n] \in protected_ids
           /\ RUNTIME_SERVICE_NAME \in RuntimeNames /\ RUNTIME_ROUTE_NAME \in RuntimeNames
           /\ RUNTIME_SERVICE_NAME /= RUNTIME_ROUTE_NAME
BY DEF EXPECTED_RUNTIME_CREATE_KINDS, RUNTIME_ENTITY_IDS, protected_ids, RuntimeNames, RUNTIME_SERVICE_NAME, RUNTIME_ROUTE_NAME

\* _relation_id finds id exactly in the relation with that id and name.
LEMMA RelationId ==
    ASSUME NEW V, NEW rel \in Relations(V), NullIsNoRelation, NEW name, NEW id, id /= Null
    PROVE  _relation_id(rel, name) = id <=> rel = Rel(id, name)
<1>1. CASE rel = Null
  BY <1>1 DEF _relation_id, NullIsNoRelation
<1>2. CASE rel \in [id : V, name : V]
  <2>1. rel = Rel(rel.id, rel.name) /\ rel /= Null
    BY <1>2 DEF Rel, NullIsNoRelation
  <2> QED BY <2>1 DEF _relation_id, Rel
<1> QED BY <1>1, <1>2 DEF Relations

\* The fields of the row the migration creates for n.
LEMMA NewRowFields ==
    ASSUME NEW n \in RuntimeNames
    PROVE  LET m == NewRow(n)
               kind == EXPECTED_RUNTIME_CREATE_KINDS[n]
           IN  /\ m.kind = kind /\ m.name = n /\ m.id = RUNTIME_ENTITY_IDS[n] /\ m.tags = <<"fapi2-demo", "api">>
               /\ m.label = IF kind = "plugin" THEN <<n, "route", RUNTIME_ROUTE_NAME>> ELSE <<n>>
               /\ m.route = IF kind = "plugin" THEN Rel(RUNTIME_ENTITY_IDS[RUNTIME_ROUTE_NAME], RUNTIME_ROUTE_NAME) ELSE Null
               /\ m.service = IF kind = "route" THEN Rel(RUNTIME_ENTITY_IDS[RUNTIME_SERVICE_NAME], RUNTIME_SERVICE_NAME) ELSE Null
               /\ canonical_entity_kind(kind) = kind
<1>1. canonical_entity_kind(EXPECTED_RUNTIME_CREATE_KINDS[n]) = EXPECTED_RUNTIME_CREATE_KINDS[n]
  BY RuntimeKinds, SpelledKinds
<1> QED BY <1>1 DEF NewRow, Blank

\* A create means the row of n when it is in scope with the name and id of n.
LEMMA CreateMeaning ==
    ASSUME NEW V, NEW row \in ReportRows(V), NullIsNoRelation, NEW n \in RuntimeNames
    PROVE  Meaning(row, FALSE) = Meaning(NewRow(n), FALSE)
             <=> CreateInScope(row) /\ row.name = n /\ row.id = RUNTIME_ENTITY_IDS[n]
<1> DEFINE kind == canonical_entity_kind(row.kind)
           expected == EXPECTED_RUNTIME_CREATE_KINDS[n]
           routeId == RUNTIME_ENTITY_IDS[RUNTIME_ROUTE_NAME]
           serviceId == RUNTIME_ENTITY_IDS[RUNTIME_SERVICE_NAME]
<1>1. Meaning(row, FALSE) = Meaning(NewRow(n), FALSE)
        <=> /\ row.id = RUNTIME_ENTITY_IDS[n] /\ kind = expected /\ row.tags = <<"fapi2-demo", "api">>
            /\ row.name = n
            /\ row.label = IF expected = "plugin" THEN <<n, "route", RUNTIME_ROUTE_NAME>> ELSE <<n>>
            /\ expected = "plugin" => row.service = Null /\ row.route = Rel(routeId, RUNTIME_ROUTE_NAME)
            /\ expected = "route" => row.service = Rel(serviceId, RUNTIME_SERVICE_NAME)
  BY NewRowFields, RuntimeKinds DEF Meaning
<1>2. /\ _relation_id(row.route, RUNTIME_ROUTE_NAME) = routeId <=> row.route = Rel(routeId, RUNTIME_ROUTE_NAME)
      /\ _relation_id(row.service, RUNTIME_SERVICE_NAME) = serviceId <=> row.service = Rel(serviceId, RUNTIME_SERVICE_NAME)
  <2>1. routeId /= Null /\ serviceId /= Null
    BY RuntimeKinds, ReportAssumption
  <2>2. row.route \in Relations(V) /\ row.service \in Relations(V)
    BY DEF ReportRows
  <2> QED BY <2>1, <2>2, RelationId
<1>3. CreateInScope(row) /\ row.name = n
        <=> /\ row.name = n /\ kind = expected /\ row.tags = <<"fapi2-demo", "api">>
            /\ row.label = IF expected = "plugin" THEN <<n, "route", RUNTIME_ROUTE_NAME>> ELSE <<n>>
            /\ expected = "plugin" => row.service = Null /\ row.route = Rel(routeId, RUNTIME_ROUTE_NAME)
            /\ expected = "route" => row.service = Rel(serviceId, RUNTIME_SERVICE_NAME)
  BY <1>2, RuntimeKinds DEF CreateInScope, identity
<1> QED BY <1>1, <1>3

\* The thirteen keys by their three parts.
LEMMA KeyShape ==
    /\ \A k \in LegacyKeys : /\ k = <<k[1], k[2], k[3]>> /\ k[3] \in Tags
                             /\ k[1] \in {"service", "route", "plugin", "certificate"}
    /\ \A kind, name, t : <<kind, name, t>> \in LegacyKeys <=>
         /\ t \in Tags
         /\ \/ kind = "service" /\ name = LegacyService(t)
            \/ kind = "route" /\ name = LegacyRoute(t)
            \/ kind = "plugin" /\ <<name, t>> \in LEGACY_API_PLUGIN_ROUTE_TAGS
            \/ kind = "certificate" /\ name = t
    /\ \A k \in LegacyKeys : k \in ExpectedNamed <=> k[1] /= "certificate"
    /\ ExpectedNamed \subseteq LegacyKeys
<1>1. \A name, t : <<name, t>> \in LEGACY_API_PLUGIN_ROUTE_TAGS => t \in Tags
  BY DEF LEGACY_API_PLUGIN_ROUTE_TAGS, Tags
<1>2. \A p \in LEGACY_API_PLUGIN_ROUTE_TAGS : p = <<p[1], p[2]>> /\ p[2] \in Tags
  BY DEF LEGACY_API_PLUGIN_ROUTE_TAGS, Tags
<1>3. \A x : x \in ExpectedNamed <=>
        \/ \E t \in Tags : x = <<"service", LegacyService(t), t>>
        \/ \E t \in Tags : x = <<"route", LegacyRoute(t), t>>
        \/ \E p \in LEGACY_API_PLUGIN_ROUTE_TAGS : x = <<"plugin", p[1], p[2]>>
  BY DEF ExpectedNamed
<1>4. \A x : x \in LegacyKeys <=> x \in ExpectedNamed \/ \E t \in Tags : x = <<"certificate", t, t>>
  BY DEF LegacyKeys
<1>5. \A k \in LegacyKeys : /\ k = <<k[1], k[2], k[3]>> /\ k[3] \in Tags
                            /\ k[1] \in {"service", "route", "plugin", "certificate"}
  BY <1>2, <1>3, <1>4
<1>6. \A k \in LegacyKeys : k \in ExpectedNamed <=> k[1] /= "certificate"
  BY <1>3, <1>4
<1>7. ASSUME NEW kind, NEW name, NEW t
      PROVE  <<kind, name, t>> \in LegacyKeys <=>
               /\ t \in Tags
               /\ \/ kind = "service" /\ name = LegacyService(t)
                  \/ kind = "route" /\ name = LegacyRoute(t)
                  \/ kind = "plugin" /\ <<name, t>> \in LEGACY_API_PLUGIN_ROUTE_TAGS
                  \/ kind = "certificate" /\ name = t
  <2>1. (\E p \in LEGACY_API_PLUGIN_ROUTE_TAGS : <<kind, name, t>> = <<"plugin", p[1], p[2]>>)
          <=> kind = "plugin" /\ <<name, t>> \in LEGACY_API_PLUGIN_ROUTE_TAGS
    BY <1>2
  <2> QED BY <1>1, <1>3, <1>4, <2>1
<1> QED BY <1>4, <1>5, <1>6, <1>7

\* What a row must say to be the delete of the legacy entity k.
Bound(row, idOf, k) ==
    /\ row.id = idOf[k]
    /\ k[1] = "service" => row.cert = idOf[<<"certificate", k[3], k[3]>>] /\ row.cas = <<SHARED_API_CA_ID>>
    /\ k[1] \in {"route", "plugin"} =>
         row.service = Rel(idOf[<<"service", LegacyService(k[3]), k[3]>>], LegacyService(k[3]))

\* A delete means the legacy entity k when it is named and bound as k.
LEMMA DeleteMeaning ==
    ASSUME NEW V, NEW row \in ReportRows(V), NEW idOf, NEW k \in LegacyKeys
    PROVE  Meaning(row, TRUE) = Meaning(OldRow(idOf, k), TRUE)
             <=> DeleteNamed(row) /\ LegacyKey(row) = k /\ Bound(row, idOf, k)
<1> DEFINE kind == canonical_entity_kind(row.kind)
           tag == _legacy_route_tag(row)
           service == LegacyService(k[3])
<1>1. Meaning(row, TRUE) = Meaning(OldRow(idOf, k), TRUE)
        <=> /\ kind = k[1] /\ Len(row.tags) = 2 /\ Range(row.tags) = {"fapi2-demo", k[3]}
            /\ k[1] /= "certificate" =>
                 row.name = k[2] /\ row.label = IF k[1] = "plugin" THEN <<k[2], "service", service>> ELSE <<k[2]>>
            /\ Bound(row, idOf, k)
  <2> DEFINE Fields(r, c) == <<r.id, c, Len(r.tags), Range(r.tags),
                               IF c = "certificate" THEN Null ELSE <<r.name, r.label>>,
                               IF c = "route" \/ c = "plugin" THEN r.service ELSE Null,
                               IF c = "service" THEN <<r.cert, r.cas>> ELSE Null>>
  <2>1. PICK m : m = OldRow(idOf, k)
    OBVIOUS
  <2>2. Meaning(row, TRUE) = Meaning(m, TRUE) <=> Fields(row, kind) = Fields(m, canonical_entity_kind(m.kind))
    BY DEF Meaning
  <2>3. canonical_entity_kind(m.kind) = k[1]
    <3>1. canonical_entity_kind(k[1]) = k[1]
      BY KeyShape, SpelledKinds
    <3>2. m.kind = k[1]
      BY <2>1 DEF OldRow, Blank
    <3> QED BY <3>1, <3>2
  <2>4. Fields(row, kind) = Fields(m, k[1])
          <=> /\ row.id = m.id /\ kind = k[1] /\ Len(row.tags) = Len(m.tags) /\ Range(row.tags) = Range(m.tags)
              /\ k[1] /= "certificate" => row.name = m.name /\ row.label = m.label
              /\ k[1] \in {"route", "plugin"} => row.service = m.service
              /\ k[1] = "service" => row.cert = m.cert /\ row.cas = m.cas
    OBVIOUS
  <2>5. /\ m.name = k[2] /\ m.id = idOf[k]
        /\ Len(m.tags) = 2 /\ Range(m.tags) = {"fapi2-demo", k[3]}
        /\ m.label = IF k[1] = "plugin" THEN <<k[2], "service", LegacyService(k[3])>> ELSE <<k[2]>>
        /\ k[1] \in {"route", "plugin"} =>
             m.service = Rel(idOf[<<"service", LegacyService(k[3]), k[3]>>], LegacyService(k[3]))
        /\ k[1] = "service" => m.cert = idOf[<<"certificate", k[3], k[3]>>] /\ m.cas = <<SHARED_API_CA_ID>>
    <3>1. Len(<<"fapi2-demo", k[3]>>) = 2 /\ Range(<<"fapi2-demo", k[3]>>) = {"fapi2-demo", k[3]}
      BY DEF Range
    <3>2. m.tags = <<"fapi2-demo", k[3]>> /\ m.name = k[2] /\ m.id = idOf[k]
      BY <2>1 DEF OldRow, Blank
    <3>3. m.label = IF k[1] = "plugin" THEN <<k[2], "service", LegacyService(k[3])>> ELSE <<k[2]>>
      BY <2>1 DEF OldRow, Blank
    <3>4. k[1] \in {"route", "plugin"} =>
            m.service = Rel(idOf[<<"service", LegacyService(k[3]), k[3]>>], LegacyService(k[3]))
      BY <2>1 DEF OldRow, Blank
    <3>5. k[1] = "service" => m.cert = idOf[<<"certificate", k[3], k[3]>>] /\ m.cas = <<SHARED_API_CA_ID>>
      BY <2>1 DEF OldRow, Blank
    <3> QED BY <3>1, <3>2, <3>3, <3>4, <3>5
  <2>6. Bound(row, idOf, k)
          <=> /\ row.id = m.id
              /\ k[1] \in {"route", "plugin"} => row.service = m.service
              /\ k[1] = "service" => row.cert = m.cert /\ row.cas = m.cas
    BY <2>5 DEF Bound
  <2>7. Meaning(row, TRUE) = Meaning(m, TRUE) <=> Fields(row, kind) = Fields(m, k[1])
    BY <2>2, <2>3
  <2> HIDE DEF Fields
  <2>8. Meaning(row, TRUE) = Meaning(m, TRUE)
        <=> /\ kind = k[1] /\ Len(row.tags) = 2 /\ Range(row.tags) = {"fapi2-demo", k[3]}
            /\ k[1] /= "certificate" =>
                 row.name = k[2] /\ row.label = IF k[1] = "plugin" THEN <<k[2], "service", service>> ELSE <<k[2]>>
            /\ Bound(row, idOf, k)
    BY <2>4, <2>5, <2>6, <2>7
  <2> QED BY <2>1, <2>8
<1>2. /\ tag = k[3] <=> Len(row.tags) = 2 /\ Range(row.tags) = {"fapi2-demo", k[3]}
      /\ k[3] \in Tags /\ k[3] /= Null
  <2>1. k[3] \in Tags /\ k[3] /= Null
    BY KeyShape, ReportAssumption
  <2>2. row.tags \in Seq(V)
    BY DEF ReportRows
  <2>3. \A t \in Tags : tag = t <=> Len(row.tags) = 2 /\ Range(row.tags) = {"fapi2-demo", t}
    BY <2>2, TagOfRow
  <2> QED BY <2>1, <2>3
<1>3. DeleteNamed(row) /\ LegacyKey(row) = k
        <=> /\ kind = k[1] /\ tag = k[3]
            /\ k[1] /= "certificate" =>
                 row.name = k[2] /\ row.label = IF k[1] = "plugin" THEN <<k[2], "service", service>> ELSE <<k[2]>>
  <2>1. LegacyKey(row) = k <=> kind = k[1] /\ tag = k[3] /\ (IF kind = "certificate" THEN tag ELSE row.name) = k[2]
    BY KeyShape DEF LegacyKey
  <2>2. k = <<k[1], k[2], k[3]>> /\ k[1] \in {"service", "route", "plugin", "certificate"} /\ Null /= k[1]
    BY KeyShape, ReportAssumption
  <2>3. /\ k[1] = "service" => k[2] = LegacyService(k[3])
        /\ k[1] = "route" => k[2] = LegacyRoute(k[3])
        /\ k[1] = "plugin" => <<k[2], k[3]>> \in LEGACY_API_PLUGIN_ROUTE_TAGS
        /\ k[1] = "certificate" => k[2] = k[3]
    BY <2>2, KeyShape
  <2> QED BY <1>2, <2>1, <2>2, <2>3 DEF DeleteNamed, identity
<1> QED BY <1>1, <1>2, <1>3

\* The row of a named delete has the key of a legacy entity.
LEMMA NamedKey ==
    ASSUME NEW V, NEW row \in ReportRows(V), DeleteNamed(row)
    PROVE  /\ LegacyKey(row) \in LegacyKeys
           /\ LegacyKey(row)[1] = canonical_entity_kind(row.kind) /\ LegacyKey(row)[3] = _legacy_route_tag(row)
           /\ _legacy_route_tag(row) \in Tags
           /\ canonical_entity_kind(row.kind) = "certificate" =>
                LegacyKey(row) = <<"certificate", _legacy_route_tag(row), _legacy_route_tag(row)>>
           /\ canonical_entity_kind(row.kind) = "service" =>
                LegacyKey(row) = <<"service", LegacyService(_legacy_route_tag(row)), _legacy_route_tag(row)>>
<1> DEFINE kind == canonical_entity_kind(row.kind)
           tag == _legacy_route_tag(row)
           name == IF kind = "certificate" THEN tag ELSE row.name
<1>1. LegacyKey(row) = <<kind, name, tag>>
  BY DEF LegacyKey
<1>2. tag \in Tags /\ kind \in {"service", "route", "plugin", "certificate"}
  <2>1. row.tags \in Seq(V)
    BY DEF ReportRows
  <2>2. tag /= Null /\ kind /= Null
    BY DEF DeleteNamed
  <2> QED BY <2>1, <2>2, TagOfRow, KindsKnown
<1>3. \/ kind = "service" /\ name = LegacyService(tag)
      \/ kind = "route" /\ name = LegacyRoute(tag)
      \/ kind = "plugin" /\ <<name, tag>> \in LEGACY_API_PLUGIN_ROUTE_TAGS
      \/ kind = "certificate" /\ name = tag
  BY <1>2 DEF DeleteNamed
<1>4. <<kind, name, tag>> \in LegacyKeys
  BY <1>2, <1>3, KeyShape
<1> QED BY <1>1, <1>2, <1>3, <1>4

\* The rows that are not certificates have the eleven named keys.
LEMMA KeyParts ==
    ASSUME NEW V, NEW rows \in Seq(ReportRows(V)), \A i \in DOMAIN rows : DeleteNamed(rows[i])
    PROVE  /\ IsFiniteSet(DOMAIN rows) /\ IsFiniteSet(NamedRows(rows)) /\ IsFiniteSet(CertificateRows(rows))
           /\ DOMAIN rows = NamedRows(rows) \cup CertificateRows(rows)
           /\ NamedRows(rows) \cap CertificateRows(rows) = {}
           /\ \A i \in DOMAIN rows : LegacyKey(rows[i]) \in LegacyKeys
           /\ \A i \in NamedRows(rows) : LegacyKey(rows[i]) \in ExpectedNamed
           /\ \A i \in CertificateRows(rows) :
                /\ LegacyKey(rows[i]) = <<"certificate", _legacy_route_tag(rows[i]), _legacy_route_tag(rows[i])>>
                /\ _legacy_route_tag(rows[i]) \in Tags
<1> DEFINE I == DOMAIN rows
           N == NamedRows(rows)
           C == CertificateRows(rows)
<1>1. \A i \in I : rows[i] \in ReportRows(V)
  OBVIOUS
<1>2. IsFiniteSet(I) /\ IsFiniteSet(N) /\ IsFiniteSet(C)
  <2>1. I = 1 .. Len(rows) /\ Len(rows) \in Nat
    OBVIOUS
  <2>2. IsFiniteSet(I)
    <3>1. IsFiniteSet(1 .. Len(rows))
      BY <2>1, FS_Interval
    <3> QED BY <2>1, <3>1
  <2>3. N \subseteq I /\ C \subseteq I
    BY DEF NamedRows, CertificateRows
  <2> QED BY <2>2, <2>3, FS_Subset
<1>3. I = N \cup C /\ N \cap C = {}
  BY DEF NamedRows, CertificateRows
<1>4. \A i \in I : LegacyKey(rows[i]) \in LegacyKeys
  BY <1>1, NamedKey
<1>5. \A i \in N : LegacyKey(rows[i]) \in ExpectedNamed
  <2>1. \A i \in N : LegacyKey(rows[i])[1] /= "certificate"
    BY <1>1, <1>3, NamedKey DEF NamedRows
  <2> QED BY <2>1, <1>3, <1>4, KeyShape
<1>6. \A i \in C : /\ LegacyKey(rows[i]) = <<"certificate", _legacy_route_tag(rows[i]), _legacy_route_tag(rows[i])>>
                   /\ _legacy_route_tag(rows[i]) \in Tags
  BY <1>1, <1>3, NamedKey DEF NamedRows, CertificateRows
<1> QED BY <1>2, <1>3, <1>4, <1>5, <1>6

\* DeletesComplete: each named key and each certificate tag once.
LEMMA CountsOnce ==
    ASSUME NEW V, NEW rows \in Seq(ReportRows(V)), \A i \in DOMAIN rows : DeleteNamed(rows[i]),
           NEW rep, rep.deleting = rows
    PROVE  DeletesComplete(rep)
             <=> /\ [i \in NamedRows(rows) |-> LegacyKey(rows[i])] \in Bijection(NamedRows(rows), ExpectedNamed)
                 /\ [i \in CertificateRows(rows) |-> _legacy_route_tag(rows[i])] \in Bijection(CertificateRows(rows), Tags)
<1> DEFINE N == NamedRows(rows)
           C == CertificateRows(rows)
           f == [i \in N |-> LegacyKey(rows[i])]
           g == [i \in C |-> _legacy_route_tag(rows[i])]
<1>1. /\ IsFiniteSet(N) /\ IsFiniteSet(C)
      /\ \A i \in N : LegacyKey(rows[i]) \in ExpectedNamed
      /\ \A i \in C : _legacy_route_tag(rows[i]) \in Tags
  BY KeyParts
<1>2. f \in [N -> ExpectedNamed] /\ g \in [C -> Tags]
  BY <1>1
<1>3. Counter(f) = SetToBag(ExpectedNamed) <=> f \in Bijection(N, ExpectedNamed)
  BY <1>1, <1>2, CountedOnce
<1>4. Counter(g) = SetToBag(Tags) <=> g \in Bijection(C, Tags)
  BY <1>1, <1>2, CountedOnce
<1> QED BY <1>3, <1>4 DEF DeletesComplete

\* DeletesComplete: each of the thirteen keys once.
LEMMA KeysOnce ==
    ASSUME NEW V, NEW rows \in Seq(ReportRows(V)), \A i \in DOMAIN rows : DeleteNamed(rows[i]),
           NEW rep, rep.deleting = rows
    PROVE  DeletesComplete(rep)
             <=> [i \in DOMAIN rows |-> LegacyKey(rows[i])] \in Bijection(DOMAIN rows, LegacyKeys)
<1> DEFINE I == DOMAIN rows
           N == NamedRows(rows)
           C == CertificateRows(rows)
           F == [i \in I |-> LegacyKey(rows[i])]
           f == [i \in N |-> LegacyKey(rows[i])]
           g == [i \in C |-> _legacy_route_tag(rows[i])]
<1>1. /\ I = N \cup C /\ N \cap C = {}
      /\ \A i \in I : LegacyKey(rows[i]) \in LegacyKeys
      /\ \A i \in N : LegacyKey(rows[i]) \in ExpectedNamed
      /\ \A i \in C : /\ LegacyKey(rows[i]) = <<"certificate", _legacy_route_tag(rows[i]), _legacy_route_tag(rows[i])>>
                       /\ _legacy_route_tag(rows[i]) \in Tags
  BY KeyParts
<1>7. DeletesComplete(rep) <=> f \in Bijection(N, ExpectedNamed) /\ g \in Bijection(C, Tags)
  BY CountsOnce
<1>8. \A k \in LegacyKeys : k \in ExpectedNamed \/ \E t \in Tags : k = <<"certificate", t, t>>
  BY DEF LegacyKeys
<1>9. \A t \in Tags : <<"certificate", t, t>> \in LegacyKeys \ ExpectedNamed
  <2> SUFFICES ASSUME NEW t \in Tags
               PROVE  <<"certificate", t, t>> \in LegacyKeys \ ExpectedNamed
    OBVIOUS
  <2>1. <<"certificate", t, t>> \in LegacyKeys
    BY KeyShape
  <2>2. <<"certificate", t, t>>[1] = "certificate"
    OBVIOUS
  <2> QED BY <2>1, <2>2, KeyShape
<1>10. ExpectedNamed \subseteq LegacyKeys
  BY KeyShape
<1> HIDE DEF I, N, C
<1>11. F \in Bijection(I, LegacyKeys) <=> /\ \A i, j \in I : LegacyKey(rows[i]) = LegacyKey(rows[j]) => i = j
                                          /\ \A k \in LegacyKeys : \E i \in I : LegacyKey(rows[i]) = k
  BY <1>1 DEF Bijection, Injection, Surjection, IsInjective
<1>12. f \in Bijection(N, ExpectedNamed) <=> /\ \A i, j \in N : LegacyKey(rows[i]) = LegacyKey(rows[j]) => i = j
                                             /\ \A k \in ExpectedNamed : \E i \in N : LegacyKey(rows[i]) = k
  BY <1>1 DEF Bijection, Injection, Surjection, IsInjective
<1>13. g \in Bijection(C, Tags) <=> /\ \A i, j \in C : LegacyKey(rows[i]) = LegacyKey(rows[j]) => i = j
                                    /\ \A t \in Tags : \E i \in C : LegacyKey(rows[i]) = <<"certificate", t, t>>
  <2>1. g \in Bijection(C, Tags) <=> /\ \A i, j \in C : _legacy_route_tag(rows[i]) = _legacy_route_tag(rows[j]) => i = j
                                     /\ \A t \in Tags : \E i \in C : _legacy_route_tag(rows[i]) = t
    BY <1>1 DEF Bijection, Injection, Surjection, IsInjective
  <2>2. \A i \in C : \A t : LegacyKey(rows[i]) = <<"certificate", t, t>> <=> _legacy_route_tag(rows[i]) = t
    BY <1>1
  <2>3. \A i, j \in C : LegacyKey(rows[i]) = LegacyKey(rows[j]) <=> _legacy_route_tag(rows[i]) = _legacy_route_tag(rows[j])
    BY <1>1
  <2>4. (\A i, j \in C : LegacyKey(rows[i]) = LegacyKey(rows[j]) => i = j)
          <=> \A i, j \in C : _legacy_route_tag(rows[i]) = _legacy_route_tag(rows[j]) => i = j
    BY <2>3
  <2>5. (\A t \in Tags : \E i \in C : LegacyKey(rows[i]) = <<"certificate", t, t>>)
          <=> \A t \in Tags : \E i \in C : _legacy_route_tag(rows[i]) = t
    BY <2>2
  <2> HIDE DEF g
  <2> QED BY <2>1, <2>4, <2>5
<1> HIDE DEF F, f, g
<1>14. F \in Bijection(I, LegacyKeys) => f \in Bijection(N, ExpectedNamed) /\ g \in Bijection(C, Tags)
  <2> SUFFICES ASSUME F \in Bijection(I, LegacyKeys)
               PROVE  f \in Bijection(N, ExpectedNamed) /\ g \in Bijection(C, Tags)
    OBVIOUS
  <2>1. (\A i, j \in N : LegacyKey(rows[i]) = LegacyKey(rows[j]) => i = j)
        /\ (\A i, j \in C : LegacyKey(rows[i]) = LegacyKey(rows[j]) => i = j)
    BY <1>1, <1>11
  <2>2. \A k \in ExpectedNamed : \E i \in N : LegacyKey(rows[i]) = k
    <3> SUFFICES ASSUME NEW k \in ExpectedNamed
                 PROVE  \E i \in N : LegacyKey(rows[i]) = k
      OBVIOUS
    <3>1. PICK i \in I : LegacyKey(rows[i]) = k
      BY <1>10, <1>11
    <3>2. i \notin C
      BY <1>1, <1>9, <3>1
    <3> QED BY <1>1, <3>1, <3>2
  <2>3. \A t \in Tags : \E i \in C : LegacyKey(rows[i]) = <<"certificate", t, t>>
    <3> SUFFICES ASSUME NEW t \in Tags
                 PROVE  \E i \in C : LegacyKey(rows[i]) = <<"certificate", t, t>>
      OBVIOUS
    <3>1. PICK i \in I : LegacyKey(rows[i]) = <<"certificate", t, t>>
      BY <1>9, <1>11
    <3>2. i \notin N
      BY <1>1, <1>9, <3>1
    <3> QED BY <1>1, <3>1, <3>2
  <2> QED BY <2>1, <2>2, <2>3, <1>12, <1>13
<1>15. f \in Bijection(N, ExpectedNamed) /\ g \in Bijection(C, Tags) => F \in Bijection(I, LegacyKeys)
  <2> SUFFICES ASSUME f \in Bijection(N, ExpectedNamed), g \in Bijection(C, Tags)
               PROVE  F \in Bijection(I, LegacyKeys)
    OBVIOUS
  <2>1. \A i \in N : \A j \in C : LegacyKey(rows[i]) /= LegacyKey(rows[j])
    BY <1>1, <1>9
  <2>2. \A i, j \in I : LegacyKey(rows[i]) = LegacyKey(rows[j]) => i = j
    BY <1>1, <1>12, <1>13, <2>1
  <2>3. \A k \in LegacyKeys : \E i \in I : LegacyKey(rows[i]) = k
    BY <1>1, <1>8, <1>12, <1>13
  <2> QED BY <1>11, <2>2, <2>3
<1> QED BY <1>7, <1>14, <1>15 DEF F, f, g, I, N, C

\* The deletes of rep are the legacy entities, each of them once.
EachOnce(rep) ==
    /\ \A i \in DOMAIN rep.deleting : DeleteNamed(rep.deleting[i])
    /\ [i \in DOMAIN rep.deleting |-> LegacyKey(rep.deleting[i])] \in Bijection(DOMAIN rep.deleting, LegacyKeys)

\* Each legacy entity is the key of exactly one delete.
LEMMA KeysUnique ==
    ASSUME NEW rep, EachOnce(rep)
    PROVE  /\ \A i \in DOMAIN rep.deleting : LegacyKey(rep.deleting[i]) \in LegacyKeys
           /\ \A i, j \in DOMAIN rep.deleting : LegacyKey(rep.deleting[i]) = LegacyKey(rep.deleting[j]) => i = j
           /\ \A k \in LegacyKeys : \E i \in DOMAIN rep.deleting : LegacyKey(rep.deleting[i]) = k
<1> DEFINE I == DOMAIN rep.deleting
           F == [i \in I |-> LegacyKey(rep.deleting[i])]
<1>1. F \in Bijection(I, LegacyKeys)
  BY DEF EachOnce
<1>2. \A i \in I : F[i] = LegacyKey(rep.deleting[i])
  OBVIOUS
<1> HIDE DEF F
<1>3. /\ \A i \in I : F[i] \in LegacyKeys
      /\ \A i, j \in I : F[i] = F[j] => i = j
      /\ \A k \in LegacyKeys : \E i \in I : F[i] = k
  BY <1>1 DEF Bijection, Injection, Surjection, IsInjective
<1> QED BY <1>2, <1>3

\* LegacyIds gives each key the id of its row.
LEMMA IdOfKey ==
    ASSUME NEW rep, EachOnce(rep), NEW i \in DOMAIN rep.deleting
    PROVE  LegacyIds(rep)[LegacyKey(rep.deleting[i])] = rep.deleting[i].id
<1> DEFINE k == LegacyKey(rep.deleting[i])
           Chosen == CHOOSE row \in Rows(rep, "deleting") : LegacyKey(row) = k
<1>1. rep.deleting[i] \in Rows(rep, "deleting")
  BY DEF Rows, Range
<1>2. Chosen \in Rows(rep, "deleting") /\ LegacyKey(Chosen) = k
  BY <1>1
<1>3. PICK j \in DOMAIN rep.deleting : rep.deleting[j] = Chosen
  BY <1>2 DEF Rows, Range
<1>4. j = i
  BY <1>2, <1>3, KeysUnique
<1>5. k \in LegacyKeys
  BY KeysUnique
<1> QED BY <1>3, <1>4, <1>5 DEF LegacyIds

\* The id the second loop looks up for a route is that of the route's entity.
LEMMA IdOfRoute ==
    ASSUME NEW V, NEW rep, rep.deleting \in Seq(ReportRows(V)), EachOnce(rep), NEW t \in Tags,
           NEW kind, NEW k \in LegacyKeys, k[1] = kind, k[3] = t, kind \in {"service", "certificate"}
    PROVE  IdByRoute(rep, kind, t) = LegacyIds(rep)[k]
<1> DEFINE rows == rep.deleting
           Chosen == CHOOSE row \in OfKind(rep, kind) : _legacy_route_tag(row) = t
<1>1. PICK i \in DOMAIN rows : LegacyKey(rows[i]) = k
  BY KeysUnique
<1>2. \A j \in DOMAIN rows : rows[j] \in ReportRows(V) /\ DeleteNamed(rows[j])
  BY DEF EachOnce
<1>3. rows[i] \in OfKind(rep, kind) /\ _legacy_route_tag(rows[i]) = t
  <2>1. canonical_entity_kind(rows[i].kind) = kind /\ _legacy_route_tag(rows[i]) = t
    BY <1>1, <1>2, NamedKey
  <2> QED BY <2>1 DEF OfKind, Rows, Range
<1>4. Chosen \in OfKind(rep, kind) /\ _legacy_route_tag(Chosen) = t
  BY <1>3
<1>5. PICK j \in DOMAIN rows : rows[j] = Chosen
  BY <1>4 DEF OfKind, Rows, Range
<1>6. canonical_entity_kind(rows[j].kind) = kind /\ _legacy_route_tag(rows[j]) = t
  BY <1>4, <1>5 DEF OfKind
<1>7. LegacyKey(rows[j]) = LegacyKey(rows[i])
  <2>1. canonical_entity_kind(rows[i].kind) = kind /\ _legacy_route_tag(rows[i]) = t
    BY <1>1, <1>2, NamedKey
  <2>2. CASE kind = "service"
    BY <1>2, <1>6, <2>1, <2>2, NamedKey
  <2>3. CASE kind = "certificate"
    BY <1>2, <1>6, <2>1, <2>3, NamedKey
  <2> QED BY <2>2, <2>3
<1>8. j = i
  BY <1>7, KeysUnique
<1>9. LegacyIds(rep)[LegacyKey(rows[i])] = rows[i].id
  BY IdOfKey
<1> QED BY <1>1, <1>5, <1>8, <1>9 DEF IdByRoute

\* Each route has a service and a certificate.
LEMMA RouteKeys ==
    ASSUME NEW t \in Tags
    PROVE  <<"service", LegacyService(t), t>> \in LegacyKeys /\ <<"certificate", t, t>> \in LegacyKeys
BY DEF LegacyKeys, ExpectedNamed

\* The second loop accepts exactly the rows bound to their own route.
LEMMA RelationsBound ==
    ASSUME NEW V, NEW rep, rep.deleting \in Seq(ReportRows(V)), EachOnce(rep), NullIsNoRelation,
           \A i \in DOMAIN rep.deleting : rep.deleting[i].id /= Null
    PROVE  DeleteRelations(rep)
             <=> \A i \in DOMAIN rep.deleting : Bound(rep.deleting[i], LegacyIds(rep), LegacyKey(rep.deleting[i]))
<1> DEFINE rows == rep.deleting
           ids == LegacyIds(rep)
           Related(row) ==
             LET kind == canonical_entity_kind(row.kind)
                 tag == _legacy_route_tag(row)
             IN  /\ kind = "service" => ServiceRelations(rep, row)
                 /\ kind \in {"route", "plugin"} =>
                      _relation_id(row.service, LegacyService(tag)) = IdByRoute(rep, "service", tag)
<1>1. DeleteRelations(rep) <=> \A i \in DOMAIN rows : Related(rows[i])
  <2>1. DeleteRelations(rep) <=> \A row \in Rows(rep, "deleting") : Related(row)
    BY DEF DeleteRelations, OfKind
  <2> HIDE DEF Related
  <2> QED BY <2>1 DEF Rows, Range
<1>2. ASSUME NEW i \in DOMAIN rows
      PROVE  Related(rows[i]) <=> Bound(rows[i], ids, LegacyKey(rows[i]))
  <2> DEFINE row == rows[i]
             k == LegacyKey(row)
             kind == canonical_entity_kind(row.kind)
             tag == _legacy_route_tag(row)
  <2>1. row \in ReportRows(V) /\ DeleteNamed(row)
    BY <1>2 DEF EachOnce
  <2>2. k \in LegacyKeys /\ k[1] = kind /\ k[3] = tag /\ tag \in Tags
    BY <2>1, NamedKey
  <2>3. ids[k] = row.id
    BY <1>2, IdOfKey
  <2>4. /\ IdByRoute(rep, "service", tag) = ids[<<"service", LegacyService(tag), tag>>]
        /\ IdByRoute(rep, "certificate", tag) = ids[<<"certificate", tag, tag>>]
    <3>1. <<"service", LegacyService(tag), tag>> \in LegacyKeys /\ <<"certificate", tag, tag>> \in LegacyKeys
      BY <2>2, RouteKeys
    <3>2. IdByRoute(rep, "service", tag) = ids[<<"service", LegacyService(tag), tag>>]
      BY <2>2, <3>1, IdOfRoute
    <3>3. IdByRoute(rep, "certificate", tag) = ids[<<"certificate", tag, tag>>]
      BY <2>2, <3>1, IdOfRoute
    <3> QED BY <3>2, <3>3
  <2>5. ids[<<"service", LegacyService(tag), tag>>] /= Null
    <3>1. <<"service", LegacyService(tag), tag>> \in LegacyKeys
      BY <2>2, RouteKeys
    <3>2. PICK j \in DOMAIN rows : LegacyKey(rows[j]) = <<"service", LegacyService(tag), tag>>
      BY <3>1, KeysUnique
    <3> QED BY <3>2, IdOfKey
  <2>6. _relation_id(row.service, LegacyService(tag)) = ids[<<"service", LegacyService(tag), tag>>]
          <=> row.service = Rel(ids[<<"service", LegacyService(tag), tag>>], LegacyService(tag))
    <3>1. row.service \in Relations(V)
      BY <2>1 DEF ReportRows
    <3> QED BY <2>5, <3>1, RelationId
  <2>7. ServiceRelations(rep, row) <=> row.cert = ids[<<"certificate", tag, tag>>] /\ row.cas = <<SHARED_API_CA_ID>>
    BY <2>4 DEF ServiceRelations
  <2> HIDE DEF row, k, kind, tag, ids
  <2>8. Related(row) <=> Bound(row, ids, k)
    BY <2>2, <2>3, <2>4, <2>6, <2>7 DEF Bound, kind, tag
  <2> QED BY <2>8 DEF row, k, ids
<1> HIDE DEF Related
<1> QED BY <1>1, <1>2

\* There are six runtime names.
LEMMA SixNames == IsFiniteSet(RuntimeNames) /\ Cardinality(RuntimeNames) = 6
<1> DEFINE e1 == "pre-function"
           e2 == "openid-connect"
           e3 == "tls-handshake-modifier"
           e4 == "tls-metadata-headers"
           e5 == "fapi-api-resource-server"
           e6 == "fapi-api-resource-server-route"
<1> DEFINE S0 == {}
           S1 == S0 \cup {e1}
           S2 == S1 \cup {e2}
           S3 == S2 \cup {e3}
           S4 == S3 \cup {e4}
           S5 == S4 \cup {e5}
           S6 == S5 \cup {e6}
<1>0. RuntimeNames = S6
  BY DEF RuntimeNames, RuntimePlugins, RUNTIME_SERVICE_NAME, RUNTIME_ROUTE_NAME
<1>a. IsFiniteSet(S0) /\ Cardinality(S0) = 0
  BY FS_EmptySet
<1>1. IsFiniteSet(S1) /\ Cardinality(S1) = 1
  <2>1. e1 \notin S0
    OBVIOUS
  <2> HIDE DEF S0, e1
  <2> QED BY <2>1, <1>a, FS_AddElement
<1>2. IsFiniteSet(S2) /\ Cardinality(S2) = 2
  <2>1. e2 \notin S1
    OBVIOUS
  <2> HIDE DEF S1, e2
  <2> QED BY <2>1, <1>1, FS_AddElement
<1>3. IsFiniteSet(S3) /\ Cardinality(S3) = 3
  <2>1. e3 \notin S2
    OBVIOUS
  <2> HIDE DEF S2, e3
  <2> QED BY <2>1, <1>2, FS_AddElement
<1>4. IsFiniteSet(S4) /\ Cardinality(S4) = 4
  <2>1. e4 \notin S3
    OBVIOUS
  <2> HIDE DEF S3, e4
  <2> QED BY <2>1, <1>3, FS_AddElement
<1>5. IsFiniteSet(S5) /\ Cardinality(S5) = 5
  <2>1. e5 \notin S4
    OBVIOUS
  <2> HIDE DEF S4, e5
  <2> QED BY <2>1, <1>4, FS_AddElement
<1>6. IsFiniteSet(S6) /\ Cardinality(S6) = 6
  <2>1. e6 \notin S5
    OBVIOUS
  <2> HIDE DEF S5, e6
  <2> QED BY <2>1, <1>5, FS_AddElement
<1> HIDE DEF S6
<1> QED BY <1>0, <1>6

\* There are thirteen legacy entities.
LEMMA ThirteenKeys == IsFiniteSet(LegacyKeys) /\ Cardinality(LegacyKeys) = 13
<1> DEFINE e1 == <<"service", "fapi-mtls-service", "route-a">>
           e2 == <<"service", "fapi-pkj-mtls-service", "route-b">>
           e3 == <<"route", "fapi-mtls-route", "route-a">>
           e4 == <<"route", "fapi-pkj-mtls-route", "route-b">>
           e5 == <<"plugin", "cors", "route-a">>
           e6 == <<"plugin", "cors", "route-b">>
           e7 == <<"plugin", "request-transformer", "route-a">>
           e8 == <<"plugin", "request-transformer", "route-b">>
           e9 == <<"plugin", "openid-connect", "route-a">>
           e10 == <<"plugin", "openid-connect", "route-b">>
           e11 == <<"plugin", "fapi-client-auth-bridge", "route-b">>
           e12 == <<"certificate", "route-a", "route-a">>
           e13 == <<"certificate", "route-b", "route-b">>
<1> DEFINE S0 == {}
           S1 == S0 \cup {e1}
           S2 == S1 \cup {e2}
           S3 == S2 \cup {e3}
           S4 == S3 \cup {e4}
           S5 == S4 \cup {e5}
           S6 == S5 \cup {e6}
           S7 == S6 \cup {e7}
           S8 == S7 \cup {e8}
           S9 == S8 \cup {e9}
           S10 == S9 \cup {e10}
           S11 == S10 \cup {e11}
           S12 == S11 \cup {e12}
           S13 == S12 \cup {e13}
<1>0. LegacyKeys = S13
  <2>1. {<<"plugin", p[1], p[2]>> : p \in LEGACY_API_PLUGIN_ROUTE_TAGS}
          = {<<"plugin", "cors", "route-a">>, <<"plugin", "cors", "route-b">>,
             <<"plugin", "request-transformer", "route-a">>, <<"plugin", "request-transformer", "route-b">>,
             <<"plugin", "openid-connect", "route-a">>, <<"plugin", "openid-connect", "route-b">>,
             <<"plugin", "fapi-client-auth-bridge", "route-b">>}
    <3>1. LEGACY_API_PLUGIN_ROUTE_TAGS
            = {<<"cors", "route-a">>, <<"cors", "route-b">>,
               <<"request-transformer", "route-a">>, <<"request-transformer", "route-b">>,
               <<"openid-connect", "route-a">>, <<"openid-connect", "route-b">>,
               <<"fapi-client-auth-bridge", "route-b">>}
      BY DEF LEGACY_API_PLUGIN_ROUTE_TAGS, Tags
    <3> QED BY <3>1
  <2>2. {<<"service", LegacyService(t), t>> : t \in Tags}
          = {<<"service", "fapi-mtls-service", "route-a">>, <<"service", "fapi-pkj-mtls-service", "route-b">>}
    BY DEF Tags, LegacyService
  <2>3. {<<"route", LegacyRoute(t), t>> : t \in Tags}
          = {<<"route", "fapi-mtls-route", "route-a">>, <<"route", "fapi-pkj-mtls-route", "route-b">>}
    BY DEF Tags, LegacyRoute
  <2>4. {<<"certificate", t, t>> : t \in Tags}
          = {<<"certificate", "route-a", "route-a">>, <<"certificate", "route-b", "route-b">>}
    BY DEF Tags
  <2> QED BY <2>1, <2>2, <2>3, <2>4, Zenon DEF LegacyKeys, ExpectedNamed
<1>a. IsFiniteSet(S0) /\ Cardinality(S0) = 0
  BY FS_EmptySet
<1>1. IsFiniteSet(S1) /\ Cardinality(S1) = 1
  <2>1. e1 \notin S0
    OBVIOUS
  <2> HIDE DEF S0, e1
  <2> QED BY <2>1, <1>a, FS_AddElement
<1>2. IsFiniteSet(S2) /\ Cardinality(S2) = 2
  <2>1. e2 \notin S1
    OBVIOUS
  <2> HIDE DEF S1, e2
  <2> QED BY <2>1, <1>1, FS_AddElement
<1>3. IsFiniteSet(S3) /\ Cardinality(S3) = 3
  <2>1. e3 \notin S2
    OBVIOUS
  <2> HIDE DEF S2, e3
  <2> QED BY <2>1, <1>2, FS_AddElement
<1>4. IsFiniteSet(S4) /\ Cardinality(S4) = 4
  <2>1. e4 \notin S3
    OBVIOUS
  <2> HIDE DEF S3, e4
  <2> QED BY <2>1, <1>3, FS_AddElement
<1>5. IsFiniteSet(S5) /\ Cardinality(S5) = 5
  <2>1. e5 \notin S4
    OBVIOUS
  <2> HIDE DEF S4, e5
  <2> QED BY <2>1, <1>4, FS_AddElement
<1>6. IsFiniteSet(S6) /\ Cardinality(S6) = 6
  <2>1. e6 \notin S5
    OBVIOUS
  <2> HIDE DEF S5, e6
  <2> QED BY <2>1, <1>5, FS_AddElement
<1>7. IsFiniteSet(S7) /\ Cardinality(S7) = 7
  <2>1. e7 \notin S6
    OBVIOUS
  <2> HIDE DEF S6, e7
  <2> QED BY <2>1, <1>6, FS_AddElement
<1>8. IsFiniteSet(S8) /\ Cardinality(S8) = 8
  <2>1. e8 \notin S7
    OBVIOUS
  <2> HIDE DEF S7, e8
  <2> QED BY <2>1, <1>7, FS_AddElement
<1>9. IsFiniteSet(S9) /\ Cardinality(S9) = 9
  <2>1. e9 \notin S8
    OBVIOUS
  <2> HIDE DEF S8, e9
  <2> QED BY <2>1, <1>8, FS_AddElement
<1>10. IsFiniteSet(S10) /\ Cardinality(S10) = 10
  <2>1. e10 \notin S9
    OBVIOUS
  <2> HIDE DEF S9, e10
  <2> QED BY <2>1, <1>9, FS_AddElement
<1>11. IsFiniteSet(S11) /\ Cardinality(S11) = 11
  <2>1. e11 \notin S10
    OBVIOUS
  <2> HIDE DEF S10, e11
  <2> QED BY <2>1, <1>10, FS_AddElement
<1>12. IsFiniteSet(S12) /\ Cardinality(S12) = 12
  <2>1. e12 \notin S11
    OBVIOUS
  <2> HIDE DEF S11, e12
  <2> QED BY <2>1, <1>11, FS_AddElement
<1>13. IsFiniteSet(S13) /\ Cardinality(S13) = 13
  <2>1. e13 \notin S12
    OBVIOUS
  <2> HIDE DEF S12, e13
  <2> QED BY <2>1, <1>12, FS_AddElement
<1> HIDE DEF S13
<1> QED BY <1>0, <1>13

\* Each create of rep is in scope and has the fixed id of its own name.
EachCreated(rep) ==
    /\ \A i \in DOMAIN rep.creating : /\ CreateInScope(rep.creating[i]) /\ rep.creating[i].name \in RuntimeNames
                                      /\ rep.creating[i].id = RUNTIME_ENTITY_IDS[rep.creating[i].name]
    /\ \A n \in RuntimeNames : \E i \in DOMAIN rep.creating : rep.creating[i].name = n

\* A create in scope is identified by its own name.
LEMMA IdentifiedByName ==
    ASSUME NEW row, CreateInScope(row)
    PROVE  identity(row).name = <<row.name>> /\ row.name \in RuntimeNames
BY DEF CreateInScope

\* The validator of the creates accepts each runtime entity once.
LEMMA CreatesByName ==
    ASSUME NEW rep
    PROVE  CreatesInScope(rep) <=> EachCreated(rep)
<1> DEFINE I == DOMAIN rep.creating
           row(i) == rep.creating[i]
           Found == {<<identity(r).name, r.id>> : r \in Rows(rep, "creating")}
           Fixed == {<<<<n>>, RUNTIME_ENTITY_IDS[n]>> : n \in RuntimeNames}
<1>1. CreatesInScope(rep) <=> Found = Fixed /\ \A i \in I : CreateInScope(row(i))
  BY DEF CreatesInScope, Rows, Range
<1>2. SUFFICES ASSUME \A i \in I : CreateInScope(row(i))
               PROVE  Found = Fixed <=> EachCreated(rep)
  BY <1>1 DEF EachCreated
<1>3. \A i \in I : identity(row(i)).name = <<row(i).name>> /\ row(i).name \in RuntimeNames
  BY <1>2, IdentifiedByName
<1>4. Found = {<<<<row(i).name>>, row(i).id>> : i \in I}
  BY <1>3 DEF Rows, Range
<1>5. ASSUME Found = Fixed
      PROVE  EachCreated(rep)
  <2>1. ASSUME NEW i \in I
        PROVE  row(i).id = RUNTIME_ENTITY_IDS[row(i).name]
    <3>1. <<<<row(i).name>>, row(i).id>> \in Fixed
      BY <1>4, <1>5, <2>1
    <3>2. PICK n \in RuntimeNames : <<<<row(i).name>>, row(i).id>> = <<<<n>>, RUNTIME_ENTITY_IDS[n]>>
      BY <3>1
    <3> QED BY <3>2
  <2>2. ASSUME NEW n \in RuntimeNames
        PROVE  \E i \in I : row(i).name = n
    <3>1. <<<<n>>, RUNTIME_ENTITY_IDS[n]>> \in Found
      BY <1>5, <2>2
    <3>2. PICK i \in I : <<<<n>>, RUNTIME_ENTITY_IDS[n]>> = <<<<row(i).name>>, row(i).id>>
      BY <1>4, <3>1
    <3> QED BY <3>2
  <2> QED BY <1>2, <1>3, <2>1, <2>2 DEF EachCreated
<1>6. ASSUME EachCreated(rep)
      PROVE  Found = Fixed
  <2>1. \A i \in I : row(i).id = RUNTIME_ENTITY_IDS[row(i).name]
    BY <1>6 DEF EachCreated
  <2>2. \A n \in RuntimeNames : \E i \in I : row(i).name = n
    BY <1>6 DEF EachCreated
  <2> QED BY <1>3, <1>4, <2>1, <2>2
<1> QED BY <1>5, <1>6

\* So does the comparison with the reviewed creates.
LEMMA CreatesByMeaning ==
    ASSUME NEW V, NEW rep, rep.creating \in Seq(ReportRows(V)), NullIsNoRelation
    PROVE  {Meaning(r, FALSE) : r \in Rows(rep, "creating")} = {Meaning(NewRow(n), FALSE) : n \in RuntimeNames}
             <=> EachCreated(rep)
<1> DEFINE I == DOMAIN rep.creating
           row(i) == rep.creating[i]
           Is(i, n) == CreateInScope(row(i)) /\ row(i).name = n /\ row(i).id = RUNTIME_ENTITY_IDS[n]
           Found == {Meaning(r, FALSE) : r \in Rows(rep, "creating")}
           Fixed == {Meaning(NewRow(n), FALSE) : n \in RuntimeNames}
<1>1. \A i \in I : \A n \in RuntimeNames : Meaning(row(i), FALSE) = Meaning(NewRow(n), FALSE) <=> Is(i, n)
  <2> SUFFICES ASSUME NEW i \in I, NEW n \in RuntimeNames
               PROVE  Meaning(row(i), FALSE) = Meaning(NewRow(n), FALSE) <=> Is(i, n)
    OBVIOUS
  <2>1. row(i) \in ReportRows(V)
    OBVIOUS
  <2>2. NullIsNoRelation
    OBVIOUS
  <2> HIDE DEF row
  <2> QED BY <2>1, <2>2, CreateMeaning, Zenon
<1>2. Found = {Meaning(row(i), FALSE) : i \in I}
  BY DEF Rows, Range
<1>3. Found = Fixed <=> /\ \A i \in I : \E n \in RuntimeNames : Meaning(row(i), FALSE) = Meaning(NewRow(n), FALSE)
                        /\ \A n \in RuntimeNames : \E i \in I : Meaning(row(i), FALSE) = Meaning(NewRow(n), FALSE)
  <2>1. \A x : x \in Found <=> \E i \in I : x = Meaning(row(i), FALSE)
    BY <1>2
  <2>2. \A x : x \in Fixed <=> \E n \in RuntimeNames : x = Meaning(NewRow(n), FALSE)
    OBVIOUS
  <2>3. Found = Fixed <=> \A x : x \in Found <=> x \in Fixed
    OBVIOUS
  <2> HIDE DEF Found, Fixed, row
  <2> QED BY <2>1, <2>2, <2>3
<1>4. Found = Fixed <=> /\ \A i \in I : \E n \in RuntimeNames : Is(i, n)
                        /\ \A n \in RuntimeNames : \E i \in I : Is(i, n)
  <2> HIDE DEF Found, Fixed, row, Is
  <2> QED BY <1>1, <1>3
<1>5. (/\ \A i \in I : \E n \in RuntimeNames : Is(i, n)
       /\ \A n \in RuntimeNames : \E i \in I : Is(i, n)) <=> EachCreated(rep)
  BY DEF EachCreated
<1> QED BY <1>4, <1>5

\* The comparison with the reviewed deletes, row by row.
LEMMA DeletesByMeaning ==
    ASSUME NEW V, NEW rep, rep.deleting \in Seq(ReportRows(V)), NEW ids
    PROVE  {Meaning(r, TRUE) : r \in Rows(rep, "deleting")} = {Meaning(OldRow(ids, k), TRUE) : k \in LegacyKeys}
             <=> /\ \A i \in DOMAIN rep.deleting :
                      /\ DeleteNamed(rep.deleting[i]) /\ LegacyKey(rep.deleting[i]) \in LegacyKeys
                      /\ Bound(rep.deleting[i], ids, LegacyKey(rep.deleting[i]))
                 /\ \A k \in LegacyKeys : \E i \in DOMAIN rep.deleting : LegacyKey(rep.deleting[i]) = k
<1> DEFINE I == DOMAIN rep.deleting
           row(i) == rep.deleting[i]
           Is(i, k) == DeleteNamed(row(i)) /\ LegacyKey(row(i)) = k /\ Bound(row(i), ids, k)
           Found == {Meaning(r, TRUE) : r \in Rows(rep, "deleting")}
           Fixed == {Meaning(OldRow(ids, k), TRUE) : k \in LegacyKeys}
<1>1. \A i \in I : \A k \in LegacyKeys : Meaning(row(i), TRUE) = Meaning(OldRow(ids, k), TRUE) <=> Is(i, k)
  <2> SUFFICES ASSUME NEW i \in I, NEW k \in LegacyKeys
               PROVE  Meaning(row(i), TRUE) = Meaning(OldRow(ids, k), TRUE) <=> Is(i, k)
    OBVIOUS
  <2>1. row(i) \in ReportRows(V)
    OBVIOUS
  <2> QED BY <2>1, DeleteMeaning
<1>2. Found = {Meaning(row(i), TRUE) : i \in I}
  BY DEF Rows, Range
<1>3. Found = Fixed <=> /\ \A i \in I : \E k \in LegacyKeys : Meaning(row(i), TRUE) = Meaning(OldRow(ids, k), TRUE)
                        /\ \A k \in LegacyKeys : \E i \in I : Meaning(row(i), TRUE) = Meaning(OldRow(ids, k), TRUE)
  <2>1. \A x : x \in Found <=> \E i \in I : x = Meaning(row(i), TRUE)
    BY <1>2
  <2>2. \A x : x \in Fixed <=> \E k \in LegacyKeys : x = Meaning(OldRow(ids, k), TRUE)
    OBVIOUS
  <2>3. Found = Fixed <=> \A x : x \in Found <=> x \in Fixed
    OBVIOUS
  <2> HIDE DEF Found, Fixed, row
  <2> QED BY <2>1, <2>2, <2>3
<1>4. Found = Fixed <=> /\ \A i \in I : \E k \in LegacyKeys : Is(i, k)
                        /\ \A k \in LegacyKeys : \E i \in I : Is(i, k)
  <2> HIDE DEF Found, Fixed, row, Is
  <2> QED BY <1>1, <1>3
<1>5. (/\ \A i \in I : \E k \in LegacyKeys : Is(i, k)
       /\ \A k \in LegacyKeys : \E i \in I : Is(i, k))
      <=> /\ \A i \in I : /\ DeleteNamed(row(i)) /\ LegacyKey(row(i)) \in LegacyKeys
                          /\ Bound(row(i), ids, LegacyKey(row(i)))
          /\ \A k \in LegacyKeys : \E i \in I : LegacyKey(row(i)) = k
  OBVIOUS
<1> QED BY <1>4, <1>5

\* Distinct ids of the whole report, by list.
LEMMA IdsApart ==
    ASSUME NEW V, NEW rep, rep.creating \in Seq(ReportRows(V)), rep.deleting \in Seq(ReportRows(V))
    PROVE  Distinct(OperationIds(rep))
             <=> /\ \A i, j \in DOMAIN rep.creating : rep.creating[i].id = rep.creating[j].id => i = j
                 /\ \A i, j \in DOMAIN rep.deleting : rep.deleting[i].id = rep.deleting[j].id => i = j
                 /\ \A i \in DOMAIN rep.creating, j \in DOMAIN rep.deleting : rep.creating[i].id /= rep.deleting[j].id
<1> DEFINE m == Len(rep.creating)
           n == Len(rep.deleting)
           s == [i \in DOMAIN rep.creating |-> rep.creating[i].id]
           t == [i \in DOMAIN rep.deleting |-> rep.deleting[i].id]
<1>1. /\ m \in Nat /\ n \in Nat /\ DOMAIN rep.creating = 1 .. m /\ DOMAIN rep.deleting = 1 .. n
      /\ \A i \in 1 .. m : rep.creating[i] \in ReportRows(V)
      /\ \A i \in 1 .. n : rep.deleting[i] \in ReportRows(V)
  OBVIOUS
<1>2. \A row \in ReportRows(V) : row.id \in V
  BY DEF ReportRows
<1>3. s \in [1 .. m -> V] /\ t \in [1 .. n -> V]
  BY <1>1, <1>2
<1>4. /\ \A i \in 1 .. m : s[i] = rep.creating[i].id
      /\ \A i \in 1 .. n : t[i] = rep.deleting[i].id
  BY <1>1
<1>5. OperationIds(rep) = s \o t
  BY DEF OperationIds
<1> HIDE DEF s, t, m, n
<1>6. s \in Seq(V) /\ t \in Seq(V) /\ Len(s) = m /\ Len(t) = n
  BY <1>1, <1>3
<1>7. /\ s \o t \in Seq(V) /\ Len(s \o t) = m + n
      /\ \A i \in 1 .. m : (s \o t)[i] = s[i]
      /\ \A i \in 1 .. n : (s \o t)[m + i] = t[i]
  <2>1. /\ s \o t \in Seq(V) /\ Len(s \o t) = m + n
        /\ \A i \in 1 .. (m + n) : (s \o t)[i] = IF i <= m THEN s[i] ELSE t[i - m]
    BY <1>6, ConcatProperties
  <2>2. \A i \in 1 .. m : i \in 1 .. (m + n) /\ i <= m
    BY <1>1
  <2>3. \A i \in 1 .. n : m + i \in 1 .. (m + n) /\ ~(m + i <= m) /\ (m + i) - m = i
    BY <1>1
  <2>4. \A i \in 1 .. n : (s \o t)[m + i] = t[(m + i) - m]
    BY <2>1, <2>3
  <2> QED BY <2>1, <2>2, <2>3, <2>4
<1>8. Distinct(s \o t) <=> \A i, j \in 1 .. (m + n) : (s \o t)[i] = (s \o t)[j] => i = j
  BY <1>7, DistinctInjective
<1>9. ASSUME Distinct(s \o t)
      PROVE  /\ \A i, j \in 1 .. m : s[i] = s[j] => i = j
             /\ \A i, j \in 1 .. n : t[i] = t[j] => i = j
             /\ \A i \in 1 .. m, j \in 1 .. n : s[i] /= t[j]
  <2>1. \A i, j \in 1 .. (m + n) : (s \o t)[i] = (s \o t)[j] => i = j
    BY <1>8, <1>9
  <2>2. \A i, j \in 1 .. m : s[i] = s[j] => i = j
    <3>1. \A i \in 1 .. m : i \in 1 .. (m + n)
      BY <1>1
    <3> QED BY <1>7, <2>1, <3>1
  <2>3. ASSUME NEW i \in 1 .. n, NEW j \in 1 .. n, t[i] = t[j]
        PROVE  i = j
    <3>1. m + i \in 1 .. (m + n) /\ m + j \in 1 .. (m + n)
      BY <1>1
    <3>2. (s \o t)[m + i] = (s \o t)[m + j]
      BY <1>7, <2>3
    <3>3. m + i = m + j
      BY <2>1, <3>1, <3>2
    <3> QED BY <1>1, <3>3
  <2>4. ASSUME NEW i \in 1 .. m, NEW j \in 1 .. n, s[i] = t[j]
        PROVE  FALSE
    <3>1. i \in 1 .. (m + n) /\ m + j \in 1 .. (m + n)
      BY <1>1
    <3>2. (s \o t)[i] = (s \o t)[m + j]
      BY <1>7, <2>4
    <3>3. i = m + j
      BY <2>1, <3>1, <3>2
    <3> QED BY <1>1, <3>3
  <2> QED BY <2>2, <2>3, <2>4
<1>10. ASSUME \A i, j \in 1 .. m : s[i] = s[j] => i = j,
              \A i, j \in 1 .. n : t[i] = t[j] => i = j,
              \A i \in 1 .. m, j \in 1 .. n : s[i] /= t[j]
       PROVE  Distinct(s \o t)
  <2> SUFFICES ASSUME NEW i \in 1 .. (m + n), NEW j \in 1 .. (m + n), (s \o t)[i] = (s \o t)[j]
               PROVE  i = j
    BY <1>8
  <2>1. CASE i <= m /\ j <= m
    <3>1. i \in 1 .. m /\ j \in 1 .. m
      BY <1>1, <2>1
    <3> QED BY <1>7, <1>10, <3>1
  <2>2. CASE i > m /\ j > m
    <3>1. i - m \in 1 .. n /\ j - m \in 1 .. n /\ m + (i - m) = i /\ m + (j - m) = j
      BY <1>1, <2>2
    <3>2. t[i - m] = t[j - m]
      BY <1>7, <3>1
    <3>3. i - m = j - m
      BY <1>10, <3>1, <3>2
    <3> QED BY <1>1, <3>3
  <2>3. CASE i <= m /\ j > m
    <3>1. i \in 1 .. m /\ j - m \in 1 .. n /\ m + (j - m) = j
      BY <1>1, <2>3
    <3>2. s[i] = t[j - m]
      BY <1>7, <3>1
    <3> QED BY <1>10, <3>1, <3>2
  <2>4. CASE i > m /\ j <= m
    <3>1. j \in 1 .. m /\ i - m \in 1 .. n /\ m + (i - m) = i
      BY <1>1, <2>4
    <3>2. s[j] = t[i - m]
      BY <1>7, <3>1
    <3> QED BY <1>10, <3>1, <3>2
  <2> QED BY <1>1, <2>1, <2>2, <2>3, <2>4
<1>11. Distinct(s \o t) <=> /\ \A i, j \in 1 .. m : s[i] = s[j] => i = j
                            /\ \A i, j \in 1 .. n : t[i] = t[j] => i = j
                            /\ \A i \in 1 .. m, j \in 1 .. n : s[i] /= t[j]
  BY <1>9, <1>10
<1>12. /\ (\A i, j \in 1 .. m : s[i] = s[j] => i = j)
           <=> \A i, j \in 1 .. m : rep.creating[i].id = rep.creating[j].id => i = j
       /\ (\A i, j \in 1 .. n : t[i] = t[j] => i = j)
           <=> \A i, j \in 1 .. n : rep.deleting[i].id = rep.deleting[j].id => i = j
       /\ (\A i \in 1 .. m, j \in 1 .. n : s[i] /= t[j])
           <=> \A i \in 1 .. m, j \in 1 .. n : rep.creating[i].id /= rep.deleting[j].id
  BY <1>4
<1>13. DOMAIN rep.creating = 1 .. m /\ DOMAIN rep.deleting = 1 .. n
  BY <1>1
<1> QED BY <1>5, <1>11, <1>12, <1>13

\* Six creates of six names name each once.
LEMMA NamesOnce ==
    ASSUME NEW V, NEW rep, rep.creating \in Seq(ReportRows(V)), Len(rep.creating) = 6, EachCreated(rep)
    PROVE  \A i, j \in DOMAIN rep.creating : rep.creating[i].name = rep.creating[j].name => i = j
<1> DEFINE I == DOMAIN rep.creating
           F == [i \in I |-> rep.creating[i].name]
<1>1. IsFiniteSet(I) /\ Cardinality(I) = 6
  <2>1. I = 1 .. Len(rep.creating)
    OBVIOUS
  <2> QED BY <2>1, CountTo
<1>2. F \in Surjection(I, RuntimeNames)
  BY DEF EachCreated, Surjection
<1>3. \A i \in I : F[i] = rep.creating[i].name
  OBVIOUS
<1> HIDE DEF I, F
<1>4. F \in Injection(I, RuntimeNames)
  BY <1>1, <1>2, SixNames, FS_SurjSameCardinalityImpliesInj
<1>5. \A i, j \in I : F[i] = F[j] => i = j
  BY <1>4 DEF Injection, IsInjective
<1> QED BY <1>3, <1>5 DEF I

\* Thirteen deletes of thirteen keys delete each once.
LEMMA KeysCover ==
    ASSUME NEW V, NEW rep, rep.deleting \in Seq(ReportRows(V)), Len(rep.deleting) = 13,
           \A i \in DOMAIN rep.deleting : DeleteNamed(rep.deleting[i]) /\ LegacyKey(rep.deleting[i]) \in LegacyKeys,
           \A k \in LegacyKeys : \E i \in DOMAIN rep.deleting : LegacyKey(rep.deleting[i]) = k
    PROVE  EachOnce(rep)
<1> DEFINE I == DOMAIN rep.deleting
           F == [i \in I |-> LegacyKey(rep.deleting[i])]
<1>1. IsFiniteSet(I) /\ Cardinality(I) = 13
  <2>1. I = 1 .. Len(rep.deleting)
    OBVIOUS
  <2> QED BY <2>1, CountTo
<1>2. F \in Surjection(I, LegacyKeys)
  BY DEF Surjection
<1> HIDE DEF I, F
<1>3. F \in Injection(I, LegacyKeys)
  BY <1>1, <1>2, ThirteenKeys, FS_SurjSameCardinalityImpliesInj
<1>4. F \in Bijection(I, LegacyKeys)
  BY <1>2, <1>3 DEF Bijection
<1> QED BY <1>4 DEF I, F, EachOnce

\* The lists and the summary of a report.
LEMMA ReportTypes ==
    ASSUME NEW V, NEW rep \in Reports(V)
    PROVE  /\ rep.creating \in Seq(ReportRows(V)) /\ rep.updating \in Seq(ReportRows(V)) /\ rep.deleting \in Seq(ReportRows(V))
           /\ rep.summary \in [creating : Nat, updating : Nat, deleting : Nat, total : Nat]
BY DEF Reports

\* A delete of a well-formed report has an id.
LEMMA DeletesHaveIds ==
    ASSUME NEW rep, WellFormed(rep)
    PROVE  \A i \in DOMAIN rep.deleting : rep.deleting[i].id /= Null
<1>1. \A row \in Rows(rep, "deleting") : row.id /= Null
  BY DEF WellFormed, OperationNames
<1> QED BY <1>1 DEF Rows, Range

\* What validate_runtime_diff_scope accepts, apart from the no-op.
InScope(rep) ==
    /\ \A op \in OperationNames : Len(rep[op]) = EXPECTED_RUNTIME_MIGRATION_SUMMARY[op]
    /\ CreatesInScope(rep) /\ Distinct(OperationIds(rep))
    /\ \A row \in Rows(rep, "deleting") : DeleteInScope(row)
    /\ DeletesComplete(rep) /\ DeleteRelations(rep)

\* What the validator accepts, as facts about the rows.
LEMMA ScopeFacts ==
    ASSUME NEW V, NEW rep \in Reports(V), WellFormed(rep), NullIsNoRelation
    PROVE  InScope(rep) <=>
             /\ Len(rep.creating) = 6 /\ rep.updating = <<>> /\ Len(rep.deleting) = 13
             /\ EachCreated(rep) /\ EachOnce(rep)
             /\ \A i \in DOMAIN rep.deleting : /\ rep.deleting[i].id \notin protected_ids
                                               /\ Bound(rep.deleting[i], LegacyIds(rep), LegacyKey(rep.deleting[i]))
             /\ \A i, j \in DOMAIN rep.deleting : rep.deleting[i].id = rep.deleting[j].id => i = j
<1> DEFINE D == rep.deleting
           Unprotected == \A i \in DOMAIN D : D[i].id \notin protected_ids
           AllBound == \A i \in DOMAIN D : Bound(D[i], LegacyIds(rep), LegacyKey(D[i]))
           Apart == \A i, j \in DOMAIN D : D[i].id = D[j].id => i = j
<1>1. rep.creating \in Seq(ReportRows(V)) /\ rep.updating \in Seq(ReportRows(V)) /\ D \in Seq(ReportRows(V))
  BY ReportTypes
<1>2. (\A op \in OperationNames : Len(rep[op]) = EXPECTED_RUNTIME_MIGRATION_SUMMARY[op])
        <=> Len(rep.creating) = 6 /\ rep.updating = <<>> /\ Len(D) = 13
  <2>1. (\A op \in OperationNames : Len(rep[op]) = EXPECTED_RUNTIME_MIGRATION_SUMMARY[op])
          <=> Len(rep.creating) = 6 /\ Len(rep.updating) = 0 /\ Len(D) = 13
    BY DEF OperationNames, EXPECTED_RUNTIME_MIGRATION_SUMMARY
  <2>2. Len(rep.updating) = 0 <=> rep.updating = <<>>
    BY <1>1, EmptySeq
  <2> QED BY <2>1, <2>2
<1>3. CreatesInScope(rep) <=> EachCreated(rep)
  BY CreatesByName
<1>4. (\A row \in Rows(rep, "deleting") : DeleteInScope(row)) <=> (\A i \in DOMAIN D : DeleteNamed(D[i])) /\ Unprotected
  BY DEF Rows, Range, DeleteInScope
<1>5. (\A i \in DOMAIN D : DeleteNamed(D[i])) => (DeletesComplete(rep) <=> EachOnce(rep))
  BY <1>1, KeysOnce DEF EachOnce
<1>6. EachOnce(rep) => \A i \in DOMAIN D : DeleteNamed(D[i])
  BY DEF EachOnce
<1>7. EachOnce(rep) => (DeleteRelations(rep) <=> AllBound)
  BY <1>1, DeletesHaveIds, RelationsBound
<1>8. Distinct(OperationIds(rep)) => Apart
  BY <1>1, IdsApart
<1>9. ASSUME Len(rep.creating) = 6, EachCreated(rep), Unprotected, Apart
      PROVE  Distinct(OperationIds(rep))
  <2>1. \A i \in DOMAIN rep.creating : /\ rep.creating[i].name \in RuntimeNames
                                       /\ rep.creating[i].id = RUNTIME_ENTITY_IDS[rep.creating[i].name]
    BY <1>9 DEF EachCreated
  <2>2. \A i \in DOMAIN rep.creating : /\ rep.creating[i].id = <<"runtime", rep.creating[i].name>>
                                       /\ rep.creating[i].id \in protected_ids
    BY <2>1, RuntimeKinds
  <2>3. \A i, j \in DOMAIN rep.creating : rep.creating[i].id = rep.creating[j].id => i = j
    <3>1. \A i, j \in DOMAIN rep.creating : rep.creating[i].id = rep.creating[j].id => rep.creating[i].name = rep.creating[j].name
      BY <2>2
    <3>2. \A i, j \in DOMAIN rep.creating : rep.creating[i].name = rep.creating[j].name => i = j
      BY <1>1, <1>9, NamesOnce
    <3> QED BY <3>1, <3>2
  <2>4. \A i \in DOMAIN rep.creating, j \in DOMAIN D : rep.creating[i].id /= D[j].id
    BY <1>9, <2>2
  <2> QED BY <1>1, <1>9, <2>3, <2>4, IdsApart
<1> HIDE DEF Unprotected, AllBound, Apart, D
<1>10. InScope(rep) <=> /\ Len(rep.creating) = 6 /\ rep.updating = <<>> /\ Len(D) = 13
                        /\ EachCreated(rep) /\ EachOnce(rep) /\ Unprotected /\ AllBound /\ Apart
  BY <1>2, <1>3, <1>4, <1>5, <1>6, <1>7, <1>8, <1>9 DEF InScope
<1> QED BY <1>10 DEF Unprotected, AllBound, Apart, D

\* What the reviewer approves, as the same facts.
LEMMA ReviewFacts ==
    ASSUME NEW V, NEW rep \in Reports(V), NullIsNoRelation
    PROVE  Reviewed(rep) <=>
             /\ Len(rep.creating) = 6 /\ rep.updating = <<>> /\ Len(rep.deleting) = 13
             /\ EachCreated(rep) /\ EachOnce(rep)
             /\ \A i \in DOMAIN rep.deleting : /\ rep.deleting[i].id \notin protected_ids
                                               /\ Bound(rep.deleting[i], LegacyIds(rep), LegacyKey(rep.deleting[i]))
             /\ \A i, j \in DOMAIN rep.deleting : rep.deleting[i].id = rep.deleting[j].id => i = j
<1> DEFINE D == rep.deleting
           ids == LegacyIds(rep)
           Lengths == rep.updating = <<>> /\ Len(rep.creating) = 6 /\ Len(D) = 13
           News == {Meaning(row, FALSE) : row \in Rows(rep, "creating")} = {Meaning(NewRow(n), FALSE) : n \in RuntimeNames}
           Keys == {LegacyKey(row) : row \in Rows(rep, "deleting")} = LegacyKeys
           FreeIds == \A j, k \in LegacyKeys : ids[j] \notin protected_ids /\ (ids[j] = ids[k] => j = k)
           Olds == {Meaning(row, TRUE) : row \in Rows(rep, "deleting")} = {Meaning(OldRow(ids, k), TRUE) : k \in LegacyKeys}
           Unprotected == \A i \in DOMAIN D : D[i].id \notin protected_ids
           AllBound == \A i \in DOMAIN D : Bound(D[i], ids, LegacyKey(D[i]))
           Apart == \A i, j \in DOMAIN D : D[i].id = D[j].id => i = j
<1>1. rep.creating \in Seq(ReportRows(V)) /\ D \in Seq(ReportRows(V))
  BY ReportTypes
<1>2. Reviewed(rep) <=> Lengths /\ News /\ Keys /\ FreeIds /\ Olds
  BY DEF Reviewed
<1>3. News <=> EachCreated(rep)
  BY <1>1, CreatesByMeaning
<1>4. Olds <=> /\ \A i \in DOMAIN D : DeleteNamed(D[i]) /\ LegacyKey(D[i]) \in LegacyKeys
               /\ AllBound
               /\ \A k \in LegacyKeys : \E i \in DOMAIN D : LegacyKey(D[i]) = k
  <2>1. Olds <=> /\ \A i \in DOMAIN D : /\ DeleteNamed(D[i]) /\ LegacyKey(D[i]) \in LegacyKeys
                                        /\ Bound(D[i], ids, LegacyKey(D[i]))
                 /\ \A k \in LegacyKeys : \E i \in DOMAIN D : LegacyKey(D[i]) = k
    BY <1>1, DeletesByMeaning
  <2> HIDE DEF Olds, ids, D
  <2> QED BY <2>1
<1>5. Lengths /\ Olds => EachOnce(rep)
  BY <1>1, <1>4, KeysCover
<1>6. ASSUME EachOnce(rep)
      PROVE  /\ Keys
             /\ AllBound => Olds
             /\ FreeIds <=> Unprotected /\ Apart
  <2>1. /\ \A i \in DOMAIN D : LegacyKey(D[i]) \in LegacyKeys
        /\ \A i, j \in DOMAIN D : LegacyKey(D[i]) = LegacyKey(D[j]) => i = j
        /\ \A k \in LegacyKeys : \E i \in DOMAIN D : LegacyKey(D[i]) = k
    BY <1>6, KeysUnique
  <2>2. Keys
    BY <2>1 DEF Rows, Range
  <2>3. AllBound => Olds
    BY <1>4, <1>6, <2>1 DEF EachOnce
  <2>4. \A i \in DOMAIN D : ids[LegacyKey(D[i])] = D[i].id
    BY <1>6, IdOfKey
  <2> HIDE DEF D, ids
  <2>5. FreeIds <=> Unprotected /\ Apart
    BY <2>1, <2>4
  <2> QED BY <2>2, <2>3, <2>5
<1> HIDE DEF Lengths, News, Keys, FreeIds, Olds, Unprotected, AllBound, Apart
<1>7. Olds => AllBound
  BY <1>4
<1>8. Reviewed(rep) <=> Lengths /\ EachCreated(rep) /\ EachOnce(rep) /\ Unprotected /\ AllBound /\ Apart
  BY <1>2, <1>3, <1>5, <1>6, <1>7
<1> QED BY <1>8 DEF Lengths, Unprotected, AllBound, Apart

(* validate_runtime_diff_scope, for every well-formed report, whatever names, *)
(* labels, ids, tags and relations V its rows hold and however many it has:   *)
(* it accepts the no-op, the reviewed migration, and nothing else.            *)
THEOREM ScopeIsExact ==
    ASSUME NEW V, report \in Reports(V), NullIsNoRelation
    PROVE  ExactScope
<1> SUFFICES ASSUME WellFormed(report)
             PROVE  parse_deck_diff_report(report) <=> NoOp(report) \/ Reviewed(report)
  BY DEF ExactScope
<1>1. parse_deck_diff_report(report) <=> NoOp(report) \/ InScope(report)
  BY DEF parse_deck_diff_report, validate_runtime_diff_scope, InScope
<1>2. InScope(report) <=> Reviewed(report)
  BY ScopeFacts, ReviewFacts
<1> QED BY <1>1, <1>2

\* The receipt lists the kind, id and name of every row.
LEMMA IdentitiesOf ==
    ASSUME NEW rep, NEW op \in OperationNames
    PROVE  /\ DOMAIN operations(rep)[op] = DOMAIN rep[op]
           /\ \A i \in DOMAIN rep[op] : /\ operations(rep)[op][i] = identity(rep[op][i])
                                        /\ operations(rep)[op][i].kind = rep[op][i].kind
                                        /\ operations(rep)[op][i].id = rep[op][i].id
                                        /\ operations(rep)[op][i].name = identity(rep[op][i]).name
<1>1. operations(rep)[op] = [i \in DOMAIN rep[op] |-> identity(rep[op][i])]
  BY DEF operations
<1>2. \A i \in DOMAIN rep[op] : identity(rep[op][i]).kind = rep[op][i].kind /\ identity(rep[op][i]).id = rep[op][i].id
  BY DEF identity
<1> QED BY <1>1, <1>2

\* The receipt's count of the creates is the expected one.
LEMMA CreatesApproved ==
    ASSUME NEW V, NEW rep, rep.creating \in Seq(ReportRows(V)), Len(rep.creating) = 6, EachCreated(rep)
    PROVE  Counter([i \in DOMAIN operations(rep).creating |->
                      <<canonical_entity_kind(operations(rep).creating[i].kind),
                        operations(rep).creating[i].name, operations(rep).creating[i].id>>])
             = SetToBag({<<EXPECTED_RUNTIME_CREATE_KINDS[n], <<n>>, RUNTIME_ENTITY_IDS[n]>> : n \in RuntimeNames})
<1> DEFINE I == DOMAIN rep.creating
           C(i) == rep.creating[i]
           E(n) == <<EXPECTED_RUNTIME_CREATE_KINDS[n], <<n>>, RUNTIME_ENTITY_IDS[n]>>
           S == {E(n) : n \in RuntimeNames}
           ops == operations(rep)
           f == [i \in DOMAIN ops.creating |->
                   <<canonical_entity_kind(ops.creating[i].kind), ops.creating[i].name, ops.creating[i].id>>]
<1>1. /\ DOMAIN ops.creating = I
      /\ \A i \in I : /\ ops.creating[i].kind = C(i).kind /\ ops.creating[i].id = C(i).id
                      /\ ops.creating[i].name = identity(C(i)).name
  BY IdentitiesOf DEF OperationNames
<1>2. \A i \in I : /\ C(i).name \in RuntimeNames
                   /\ <<canonical_entity_kind(C(i).kind), identity(C(i)).name, C(i).id>> = E(C(i).name)
  BY IdentifiedByName DEF EachCreated, CreateInScope
<1>3. \A n \in RuntimeNames : \E i \in I : C(i).name = n
  BY DEF EachCreated
<1>4. \A i, j \in I : C(i).name = C(j).name => i = j
  BY NamesOnce
<1>5. IsFiniteSet(I)
  <2>1. I = 1 .. Len(rep.creating)
    OBVIOUS
  <2> QED BY <2>1, CountTo
<1>6. DOMAIN f = I /\ f = [i \in I |-> f[i]] /\ \A i \in I : f[i] = E(C(i).name)
  BY <1>1, <1>2
<1>7. \A n, m : E(n) = E(m) => n = m
  <2> SUFFICES ASSUME NEW n, NEW m, E(n) = E(m)
               PROVE  n = m
    OBVIOUS
  <2>1. <<n>> = <<m>>
    OBVIOUS
  <2> QED BY <2>1
<1> HIDE DEF I, C, E, f
<1>8. f \in [I -> S]
  BY <1>2, <1>6
<1>9. f \in Bijection(I, S)
  <2>1. \A i, j \in I : f[i] = f[j] => i = j
    BY <1>4, <1>6, <1>7
  <2>2. \A x \in S : \E i \in I : f[i] = x
    BY <1>3, <1>6
  <2> HIDE DEF S
  <2> QED BY <1>8, <2>1, <2>2 DEF Bijection, Injection, Surjection, IsInjective
<1>10. Counter(f) = SetToBag(S)
  BY <1>5, <1>8, <1>9, CountedOnce
<1> QED BY <1>10 DEF f, E

\* A bijection preserves the number of members.
LEMMA SameCount ==
    ASSUME NEW F, NEW S, NEW T, IsFiniteSet(S), F \in Bijection(S, T)
    PROVE  IsFiniteSet(T) /\ Cardinality(S) = Cardinality(T)
<1>1. ExistsBijection(S, T)
  BY DEF ExistsBijection
<1> QED BY <1>1, FS_Bijection

\* The receipt's count of the deletes by kind and name is the expected one.
LEMMA DeletesApproved ==
    ASSUME NEW V, NEW rep, rep.deleting \in Seq(ReportRows(V)), EachOnce(rep)
    PROVE  /\ NamedRows(operations(rep).deleting) = NamedRows(rep.deleting)
           /\ CertificateRows(operations(rep).deleting) = CertificateRows(rep.deleting)
           /\ Counter([i \in NamedRows(operations(rep).deleting) |->
                         <<canonical_entity_kind(operations(rep).deleting[i].kind), operations(rep).deleting[i].name>>])
                = ApprovedNames
           /\ Cardinality(CertificateRows(rep.deleting)) = 2
<1> DEFINE D == rep.deleting
           N == NamedRows(D)
           C == CertificateRows(D)
           ops == operations(rep)
           Short(x) == <<x[1], <<x[2]>>>>
           f == [i \in NamedRows(ops.deleting) |-> <<canonical_entity_kind(ops.deleting[i].kind), ops.deleting[i].name>>]
           F == [i \in N |-> LegacyKey(D[i])]
           G == [i \in C |-> _legacy_route_tag(D[i])]
<1>1. /\ DOMAIN ops.deleting = DOMAIN D
      /\ \A i \in DOMAIN D : /\ ops.deleting[i].kind = D[i].kind
                             /\ ops.deleting[i].name = identity(D[i]).name
  BY IdentitiesOf DEF OperationNames
<1>2. NamedRows(ops.deleting) = N /\ CertificateRows(ops.deleting) = C
  BY <1>1 DEF NamedRows, CertificateRows
<1>3. \A i \in DOMAIN D : DeleteNamed(D[i])
  BY DEF EachOnce
<1>4. IsFiniteSet(N) /\ IsFiniteSet(C) /\ \A i \in N : LegacyKey(D[i]) \in ExpectedNamed
  BY <1>3, KeyParts
<1>5. F \in Bijection(N, ExpectedNamed) /\ G \in Bijection(C, Tags)
  <2>1. DeletesComplete(rep)
    BY <1>3, KeysOnce DEF EachOnce
  <2> QED BY <1>3, <2>1, CountsOnce
<1>6. Cardinality(C) = 2
  BY <1>4, <1>5, SameCount, TwoTags
<1>7. \A i \in N : <<canonical_entity_kind(D[i].kind), identity(D[i]).name>> = Short(LegacyKey(D[i]))
  <2> SUFFICES ASSUME NEW i \in N
               PROVE  <<canonical_entity_kind(D[i].kind), identity(D[i]).name>> = Short(LegacyKey(D[i]))
    OBVIOUS
  <2>1. i \in DOMAIN D /\ canonical_entity_kind(D[i].kind) /= "certificate"
    BY DEF NamedRows
  <2>2. identity(D[i]).name = <<D[i].name>>
    BY <1>3, <2>1 DEF DeleteNamed
  <2>3. LegacyKey(D[i]) = <<canonical_entity_kind(D[i].kind), D[i].name, _legacy_route_tag(D[i])>>
    BY <2>1 DEF LegacyKey
  <2> QED BY <2>2, <2>3
<1>8. DOMAIN f = N /\ \A i \in N : f[i] = Short(F[i])
  <2>1. N \subseteq DOMAIN D
    BY DEF NamedRows
  <2> QED BY <1>1, <1>2, <1>7, <2>1
<1> HIDE DEF N, C, f, F, G, Short, D
<1>9. Range(f) = {Short(x) : x \in ExpectedNamed}
  <2>1. \A i \in N : F[i] \in ExpectedNamed
    BY <1>5 DEF Bijection, Injection
  <2>2. \A x \in ExpectedNamed : \E i \in N : F[i] = x
    BY <1>5 DEF Bijection, Surjection
  <2>3. Range(f) = {f[i] : i \in N}
    BY <1>8 DEF Range
  <2> QED BY <1>8, <2>1, <2>2, <2>3
<1>10. \A y : Cardinality({i \in N : f[i] = y}) = Cardinality({x \in ExpectedNamed : y = Short(x)})
  <2> SUFFICES ASSUME NEW y
               PROVE  Cardinality({i \in N : f[i] = y}) = Cardinality({x \in ExpectedNamed : y = Short(x)})
    OBVIOUS
  <2> DEFINE A == {i \in N : f[i] = y}
             B == {x \in ExpectedNamed : y = Short(x)}
             H == [i \in A |-> F[i]]
  <2>1. IsFiniteSet(A)
    BY <1>4, FS_Subset
  <2>2. /\ \A i \in N : F[i] \in ExpectedNamed
        /\ \A i, j \in N : F[i] = F[j] => i = j
        /\ \A x \in ExpectedNamed : \E i \in N : F[i] = x
    BY <1>5 DEF Bijection, Injection, Surjection, IsInjective
  <2>3. \A i \in A : i \in N /\ F[i] \in B
    BY <1>8, <2>2
  <2>4. \A x \in B : \E i \in A : F[i] = x
    BY <1>8, <2>2
  <2>5. H \in [A -> B] /\ \A i \in A : H[i] = F[i]
    BY <2>3
  <2> HIDE DEF A, B, H
  <2>6. H \in Bijection(A, B)
    BY <2>2, <2>3, <2>4, <2>5 DEF Bijection, Injection, Surjection, IsInjective
  <2>7. Cardinality(A) = Cardinality(B)
    BY <2>1, <2>6, SameCount
  <2> QED BY <2>7 DEF A, B
<1>11. Counter(f) = [y \in {Short(x) : x \in ExpectedNamed} |-> Cardinality({x \in ExpectedNamed : y = Short(x)})]
  BY <1>8, <1>9, <1>10 DEF Counter
<1>12. Counter(f) = ApprovedNames
  BY <1>11 DEF ApprovedNames, Short
<1> QED BY <1>2, <1>6, <1>12 DEF f, D, N, C

\* The receipt has the ids of the report.
LEMMA SameIds ==
    ASSUME NEW rep
    PROVE  OperationIds(operations(rep)) = OperationIds(rep)
<1> DEFINE ops == operations(rep)
<1>1. /\ DOMAIN ops.creating = DOMAIN rep.creating
      /\ \A i \in DOMAIN rep.creating : ops.creating[i].id = rep.creating[i].id
  BY IdentitiesOf DEF OperationNames
<1>2. /\ DOMAIN ops.deleting = DOMAIN rep.deleting
      /\ \A i \in DOMAIN rep.deleting : ops.deleting[i].id = rep.deleting[i].id
  BY IdentitiesOf DEF OperationNames
<1>3. [i \in DOMAIN ops.creating |-> ops.creating[i].id] = [i \in DOMAIN rep.creating |-> rep.creating[i].id]
  BY <1>1
<1>4. [i \in DOMAIN ops.deleting |-> ops.deleting[i].id] = [i \in DOMAIN rep.deleting |-> rep.deleting[i].id]
  BY <1>2
<1> QED BY <1>3, <1>4 DEF OperationIds

\* What is in scope can be approved.
LEMMA ScopeIsApprovable ==
    ASSUME NEW V, NEW rep \in Reports(V), WellFormed(rep), NullIsNoRelation, InScope(rep)
    PROVE  Approvable(rep)
<1> DEFINE ops == operations(rep)
<1>1. rep.creating \in Seq(ReportRows(V)) /\ rep.deleting \in Seq(ReportRows(V))
      /\ rep.summary \in [creating : Nat, updating : Nat, deleting : Nat, total : Nat]
  BY ReportTypes
<1>2. /\ Len(rep.creating) = 6 /\ rep.updating = <<>> /\ Len(rep.deleting) = 13
      /\ EachCreated(rep) /\ EachOnce(rep)
      /\ \A i \in DOMAIN rep.deleting : rep.deleting[i].id \notin protected_ids
  BY ScopeFacts
<1>3. rep.summary = EXPECTED_RUNTIME_MIGRATION_SUMMARY
  <2>1. /\ rep.summary.creating = 6 /\ rep.summary.updating = 0 /\ rep.summary.deleting = 13
    BY <1>2 DEF WellFormed, OperationNames
  <2>2. rep.summary.total = 19
    BY <2>1 DEF WellFormed
  <2>3. rep.summary = [creating |-> rep.summary.creating, updating |-> rep.summary.updating,
                       deleting |-> rep.summary.deleting, total |-> rep.summary.total]
    BY <1>1
  <2> QED BY <2>1, <2>2, <2>3 DEF EXPECTED_RUNTIME_MIGRATION_SUMMARY
<1>4. ops.updating = <<>>
  BY <1>2 DEF operations, OperationNames
<1>5. /\ DOMAIN ops.deleting = DOMAIN rep.deleting
      /\ \A i \in DOMAIN rep.deleting : ops.deleting[i].id = rep.deleting[i].id
  BY IdentitiesOf DEF OperationNames
<1>6. Len(ops.deleting) = 13
  <2>1. ops.deleting = [i \in 1 .. 13 |-> ops.deleting[i]]
    BY <1>1, <1>2 DEF operations, OperationNames
  <2> QED BY <2>1
<1>7. Distinct(OperationIds(ops))
  BY SameIds DEF InScope
<1>8. \A op \in OperationNames : \A row \in Rows(rep, op) : row.id /= Null
  <2>1. \A i \in DOMAIN rep.creating : rep.creating[i].id /= Null
    BY <1>2, RuntimeKinds, ReportAssumption DEF EachCreated
  <2>2. \A i \in DOMAIN rep.deleting : rep.deleting[i].id /= Null
    BY DeletesHaveIds
  <2>3. DOMAIN rep.updating = {}
    BY <1>2
  <2> QED BY <2>1, <2>2, <2>3 DEF Rows, Range, OperationNames
<1>9. validate_migration_approval_operations(rep.summary, ops)
  <2>1. Cardinality(CertificateRows(ops.deleting)) = 2
    BY <1>1, <1>2, DeletesApproved
  <2>2. \A i \in DOMAIN ops.deleting : ops.deleting[i].id \notin protected_ids
    BY <1>2, <1>5
  <2>3. Counter([i \in DOMAIN ops.creating |->
                   <<canonical_entity_kind(ops.creating[i].kind), ops.creating[i].name, ops.creating[i].id>>])
          = SetToBag({<<EXPECTED_RUNTIME_CREATE_KINDS[n], <<n>>, RUNTIME_ENTITY_IDS[n]>> : n \in RuntimeNames})
    BY <1>1, <1>2, CreatesApproved
  <2>4. Counter([i \in NamedRows(ops.deleting) |-> <<canonical_entity_kind(ops.deleting[i].kind), ops.deleting[i].name>>])
          = ApprovedNames
    BY <1>1, <1>2, DeletesApproved
  <2> HIDE DEF ops
  <2> QED BY <1>3, <1>4, <1>6, <1>7, <2>1, <2>2, <2>3, <2>4 DEF validate_migration_approval_operations
<1> QED BY <1>8, <1>9 DEF Approvable

(* The two validators, for the same reports: a receipt copied from any report *)
(* the parser accepts passes validate_migration_approval_operations, and none *)
(* passes for a no-op.                                                        *)
THEOREM ReviewIsApprovable ==
    ASSUME NEW V, report \in Reports(V), NullIsNoRelation
    PROVE  ReviewAgrees
<1>1. ASSUME parse_deck_diff_report(report), ~NoOp(report)
      PROVE  Approvable(report)
  <2>1. WellFormed(report) /\ InScope(report)
    BY <1>1 DEF parse_deck_diff_report, validate_runtime_diff_scope, InScope
  <2> QED BY <2>1, ScopeIsApprovable
<1>2. ASSUME NoOp(report)
      PROVE  ~Approvable(report)
  <2>1. report.deleting = <<>>
    BY <1>2 DEF NoOp, OperationNames
  <2>2. operations(report).deleting = <<>>
    BY <2>1 DEF operations, OperationNames
  <2>3. Len(operations(report).deleting) /= 13
    BY <2>2
  <2> QED BY <2>3 DEF Approvable, validate_migration_approval_operations
<1> QED BY <1>1, <1>2 DEF ReviewAgrees
=============================================================================
