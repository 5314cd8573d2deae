--------------------------- MODULE AsTransportProofs ---------------------------
(***************************************************************************)
(* What leaves the worker, for any number of requests and calls, any calls *)
(* that are made, and any interleaving of them.                            *)
(***************************************************************************)
EXTENDS AsTransport, SequenceTheorems, FiniteSetTheorems, TLAPS

(***************************************************************************)
(* The inductive invariant.  At most once is not inductive by itself: that *)
(* an operation is not on the wire yet is known only because everything on *)
(* the wire has its key in sent_operations (Recorded).                     *)
(***************************************************************************)
WireType ==
    wire \in Seq(Messages) /\ sent \in [Contexts -> SUBSET OperationKeys]

Recorded ==
    \A i \in 1 .. Len(wire) :
        wire[i].key # <<>> => /\ wire[i].ctx \in Contexts
                              /\ wire[i].key \in sent[wire[i].ctx]

IInv == WireType /\ Recorded /\ AtMostOnce /\ WireIdentity

\* The fields that decide what happens to a call, typed.
LEMMA CallIsTyped ==
    ASSUME NEW k \in Calls \cup {DiscoveryCall}
    PROVE  k \in CallType
<1>1. DiscoveryCall \in CallType
  BY DEF DiscoveryCall, CallType, Targets, Metadata, Posts, Grants, Assertions
<1> QED BY <1>1, CallsAssumption

\* A call that is neither external nor metadata is admitted only in a context.
LEMMA AdmittedPost ==
    ASSUME NEW c \in Contexts \cup {NoContext}, NEW k \in CallType,
           Admissible(c, k), k.target \in Posts
    PROVE  /\ classify(k) = "route" /\ c \in Contexts /\ RouteOf[c] \in Routes
           /\ validate_form_for_operation(RouteOf[c], k)
           /\ operation_key(RouteOf[c], k) \notin sent[c]
<1>1. classify(k) = "route"
  BY DEF Admissible, classify, Posts, Metadata
<1>2. c \in Contexts
  BY <1>1 DEF Admissible, context_is_valid
<1>3. prepare_post(c, k)
  BY <1>1 DEF Admissible
<1> QED BY <1>1, <1>2, <1>3, CallsAssumption DEF prepare_post

\* An admitted call to anything else is a metadata call.
LEMMA AdmittedMetadata ==
    ASSUME NEW c, NEW k \in CallType, Admissible(c, k), k.target \notin Posts
    PROVE  classify(k) = "metadata" /\ k.target \in Metadata
BY DEF Admissible, classify

\* operation_key yields a key of the right shape, never the empty one.
LEMMA KeyType ==
    ASSUME NEW k \in CallType, NEW r \in Routes, k.target \in Posts
    PROVE  operation_key(r, k) \in OperationKeys
BY DEF CallType, operation_key, OperationKeys, Grants

\* MarkSent only adds keys.
LEMMA MarkSentGrows ==
    ASSUME WireType, NEW c \in Contexts \cup {NoContext}, NEW k \in CallType,
           Admissible(c, k), MarkSent(c, k)
    PROVE  /\ sent' \in [Contexts -> SUBSET OperationKeys]
           /\ \A d \in Contexts : sent[d] \subseteq sent'[d]
           /\ k.target \in Posts => operation_key(RouteOf[c], k) \in sent'[c]
<1>1. CASE k.target \in Posts
  <2>1. c \in Contexts /\ RouteOf[c] \in Routes /\ classify(k) = "route"
    BY <1>1, AdmittedPost
  <2>2. operation_key(RouteOf[c], k) \in OperationKeys
    BY <1>1, <2>1, KeyType
  <2>3. sent' = [sent EXCEPT ![c] = @ \cup {operation_key(RouteOf[c], k)}]
    BY <2>1 DEF MarkSent
  <2> QED BY <2>1, <2>2, <2>3 DEF WireType
<1>2. CASE k.target \notin Posts
  BY <1>2, AdmittedMetadata DEF MarkSent, WireType
<1> QED BY <1>1, <1>2

\* A step that sends nothing and only adds keys keeps the invariant.
LEMMA QuietStep ==
    ASSUME IInv, wire' = wire, sent' \in [Contexts -> SUBSET OperationKeys],
           \A d \in Contexts : sent[d] \subseteq sent'[d]
    PROVE  IInv'
BY DEF IInv, WireType, Recorded, AtMostOnce, WireIdentity
-----------------------------------------------------------------------------
(***************************************************************************)
(* The one action that reaches the wire.                                   *)
(***************************************************************************)
Good(m) ==
    /\ m.target # "external" => m.gate = "open"
    /\ IF m.target \in Posts
         THEN /\ m.ctx # NoContext
              /\ m.cert = RouteOf[m.ctx]
              /\ m.client_id \in {"absent", RouteOf[m.ctx]}
              /\ RouteOf[m.ctx] = "A" => m.assertion.present = "no"
              /\ RouteOf[m.ctx] = "B" =>
                    LET a == m.assertion IN
                    /\ a.present = "full" /\ a.life <= 60 /\ a.age >= 0
                    /\ a.life - a.age >= 5
                    /\ m.target = "token" => a.life = 60
         ELSE IF m.target = "external" THEN m.ctx = NoContext
         ELSE m.cert = "metadata"

\* What Send hands to the original request_uri is well formed and carries the
\* identity of its route; its key is fresh.
LEMMA SentMessage ==
    ASSUME WireType, NEW c \in Contexts \cup {NoContext}, NEW k \in CallType, Send(c, k)
    PROVE  LET m == Message(c, k) IN
           /\ m \in Messages /\ Good(m)
           /\ sent' \in [Contexts -> SUBSET OperationKeys]
           /\ \A d \in Contexts : sent[d] \subseteq sent'[d]
           /\ m.key # <<>> => /\ m.ctx \in Contexts
                              /\ m.key \notin sent[m.ctx] /\ m.key \in sent'[m.ctx]
<1> DEFINE m == Message(c, k)
<1>1. m = [ctx |-> c, target |-> k.target, gate |-> Gate, cert |-> m.cert, client_id |-> k.client_id,
           assertion |-> m.assertion, key |-> m.key]
  BY DEF Message
<1>2. /\ k.target \in Targets /\ k.client_id \in {"absent", "A", "B"}
      /\ k.assertion \in Assertions /\ create_assertion \in Assertions
  BY DEF CallType, create_assertion, Assertions
<1>3. m.assertion \in Assertions /\ Gate \in {"open", "shut"}
  BY <1>2 DEF Message, Gate
<1>7. Admissible(c, k) => Gate = "open"
  BY DEF Admissible, Gate
<1>4. CASE PassThrough(c, k)
  <2>1. k.target = "external" /\ c = NoContext /\ UNCHANGED sent
    BY <1>4 DEF PassThrough, Send
  <2>2. m.cert = "none" /\ m.key = <<>>
    BY <1>4 DEF Message
  <2>3. m \in Messages
    BY <1>1, <1>2, <1>3, <2>2 DEF Messages
  <2>4. Good(m)
    BY <1>1, <2>1 DEF Good, Posts
  <2> QED BY <2>1, <2>2, <2>3, <2>4 DEF WireType
<1>5. CASE ~PassThrough(c, k) /\ k.target \in Posts
  <2>1. Admissible(c, k) /\ MarkSent(c, k)
    BY <1>5 DEF Send
  <2>2. /\ classify(k) = "route" /\ c \in Contexts /\ RouteOf[c] \in Routes
        /\ validate_form_for_operation(RouteOf[c], k)
        /\ operation_key(RouteOf[c], k) \notin sent[c]
    BY <1>5, <2>1, AdmittedPost
  <2>3. m.cert = RouteOf[c] /\ m.key = operation_key(RouteOf[c], k)
    BY <1>5, <2>2 DEF Message, identity_of
  <2>4. m.key \in OperationKeys
    BY <1>5, <2>2, <2>3, KeyType
  <2>5. m \in Messages
    BY <1>1, <1>2, <1>3, <2>2, <2>3, <2>4 DEF Messages
  <2>6. Good(m)
    <3>1. k.client_id \in {"absent", RouteOf[c]}
            /\ (RouteOf[c] = "A" => k.assertion.present = "no")
      BY <2>2 DEF validate_form_for_operation
    <3>2. RouteOf[c] = "A" => m.assertion.present = "no"
      BY <3>1 DEF Message, NeedsSigner
    <3>3. ASSUME RouteOf[c] = "B", k.target = "token"
          PROVE  m.assertion = [present |-> "full", age |-> 0, life |-> 60]
      <4>1. NeedsSigner(c, k)
        BY <2>2, <3>3, CallsAssumption DEF NeedsSigner
      <4> QED BY <4>1 DEF Message, create_assertion
    <3>4. ASSUME RouteOf[c] = "B", k.target # "token"
          PROVE  m.assertion = k.assertion /\ assertion_summary(k.assertion, FALSE)
      <4>1. ~NeedsSigner(c, k)
        BY <3>4 DEF NeedsSigner
      <4>2. assertion_summary(k.assertion, FALSE)
        BY <2>2, <3>4 DEF validate_form_for_operation
      <4> QED BY <4>1, <4>2 DEF Message
    <3>5. ASSUME RouteOf[c] = "B"
          PROVE  /\ m.assertion.present = "full" /\ m.assertion.life <= 60
                 /\ m.assertion.age >= 0 /\ m.assertion.life - m.assertion.age >= 5
                 /\ k.target = "token" => m.assertion.life = 60
      <4>1. CASE k.target = "token"
        BY <3>3, <3>5, <4>1
      <4>2. CASE k.target # "token"
        BY <1>2, <3>4, <3>5, <4>2 DEF assertion_summary, Assertions
      <4> QED BY <4>1, <4>2
    <3>6. /\ c # NoContext /\ m.ctx = c /\ m.target = k.target /\ m.client_id = k.client_id
          /\ m.gate = "open"
      BY <1>1, <1>7, <2>1, <2>2, CallsAssumption
    <3> HIDE DEF m
    <3> QED BY <1>5, <2>3, <3>1, <3>2, <3>5, <3>6 DEF Good
  <2>7. /\ sent' \in [Contexts -> SUBSET OperationKeys]
        /\ \A d \in Contexts : sent[d] \subseteq sent'[d]
        /\ operation_key(RouteOf[c], k) \in sent'[c]
    BY <1>5, <2>1, MarkSentGrows
  <2> QED BY <1>1, <2>2, <2>3, <2>5, <2>6, <2>7
<1>6. CASE ~PassThrough(c, k) /\ k.target \notin Posts
  <2>1. Admissible(c, k) /\ MarkSent(c, k)
    BY <1>6 DEF Send
  <2>2. classify(k) = "metadata" /\ k.target \in Metadata
    BY <1>6, <2>1, AdmittedMetadata
  <2>3. m.cert = "metadata" /\ m.key = <<>>
    BY <1>6, <2>2 DEF Message, identity_of
  <2>4. m \in Messages
    BY <1>1, <1>2, <1>3, <2>3 DEF Messages
  <2>5. Good(m)
    BY <1>1, <1>6, <1>7, <2>1, <2>2, <2>3 DEF Good, Metadata
  <2>6. /\ sent' \in [Contexts -> SUBSET OperationKeys]
        /\ \A d \in Contexts : sent[d] \subseteq sent'[d]
    BY <2>1, MarkSentGrows
  <2> QED BY <2>3, <2>4, <2>5, <2>6
<1> QED BY <1>4, <1>5, <1>6

\* Send keeps the invariant.
LEMMA SendKeeps ==
    ASSUME IInv, NEW c \in Contexts \cup {NoContext}, NEW k \in CallType, Send(c, k)
    PROVE  IInv'
<1> DEFINE m == Message(c, k)
           n == Len(wire) + 1
<1>1. /\ m \in Messages /\ Good(m)
      /\ sent' \in [Contexts -> SUBSET OperationKeys]
      /\ \A d \in Contexts : sent[d] \subseteq sent'[d]
      /\ m.key # <<>> => /\ m.ctx \in Contexts
                         /\ m.key \notin sent[m.ctx] /\ m.key \in sent'[m.ctx]
  BY SentMessage DEF IInv
<1>2. wire' = Append(wire, m)
  BY DEF Send
<1> HIDE DEF m
<1>3. /\ Len(wire) \in Nat /\ wire' \in Seq(Messages) /\ Len(wire') = n /\ wire'[n] = m
      /\ \A i \in 1 .. Len(wire) : wire'[i] = wire[i]
      /\ \A i \in 1 .. n : i # n => i \in 1 .. Len(wire)
  BY <1>1, <1>2 DEF IInv, WireType
<1>4. WireType'
  BY <1>1, <1>3 DEF WireType
<1>5. Recorded'
  <2> SUFFICES ASSUME NEW i \in 1 .. n, wire'[i].key # <<>>
               PROVE  wire'[i].ctx \in Contexts /\ wire'[i].key \in sent'[wire'[i].ctx]
    BY <1>3 DEF Recorded
  <2>1. CASE i = n
    BY <1>1, <1>3, <2>1
  <2>2. CASE i # n
    BY <1>1, <1>3, <2>2 DEF IInv, Recorded
  <2> QED BY <2>1, <2>2
<1>6. AtMostOnce'
  <2> SUFFICES ASSUME NEW i \in 1 .. n, NEW j \in 1 .. n, wire'[i].key # <<>>,
                      wire'[i].ctx = wire'[j].ctx, wire'[i].key = wire'[j].key
               PROVE  i = j
    BY <1>3 DEF AtMostOnce
  <2>1. CASE i # n /\ j # n
    BY <1>3, <2>1 DEF IInv, AtMostOnce
  <2>2. CASE i = n /\ j # n
    BY <1>1, <1>3, <2>2 DEF IInv, Recorded
  <2>3. CASE i # n /\ j = n
    BY <1>1, <1>3, <2>3 DEF IInv, Recorded
  <2> QED BY <2>1, <2>2, <2>3
<1>7. WireIdentity'
  <2>1. \A i \in 1 .. Len(wire) : Good(wire[i])
    BY DEF IInv, WireIdentity, Good
  <2>2. \A i \in 1 .. Len(wire') : Good(wire'[i])
    <3> SUFFICES ASSUME NEW i \in 1 .. n PROVE Good(wire'[i])
      BY <1>3
    <3>1. CASE i = n
      BY <1>1, <1>3, <3>1
    <3>2. CASE i # n
      BY <1>3, <2>1, <3>2
    <3> QED BY <3>1, <3>2
  <2> QED BY <2>2 DEF WireIdentity, Good
<1> QED BY <1>4, <1>5, <1>6, <1>7 DEF IInv

\* Every other step leaves the wire alone.
LEMMA NextIInv == IInv /\ [Next]_vars => IInv'
<1> SUFFICES ASSUME IInv, [Next]_vars PROVE IInv'
  OBVIOUS
<1>1. sent \in [Contexts -> SUBSET OperationKeys]
  BY DEF IInv, WireType
<1>2. CASE UNCHANGED vars
  BY <1>1, <1>2, QuietStep DEF vars
<1>3. ASSUME NEW c \in Contexts, Access(c) \/ BridgeAccess(c) PROVE IInv'
  BY <1>1, <1>3, QuietStep DEF Access, BridgeAccess
<1>4. ASSUME NEW c \in Contexts \cup {NoContext}, NEW k \in Calls \cup {DiscoveryCall},
             CallRefused(c, k) \/ SignerFails(c, k) \/ Send(c, k)
      PROVE  IInv'
  <2>1. k \in CallType
    BY CallIsTyped
  <2>2. CASE CallRefused(c, k)
    BY <1>1, <2>2, QuietStep DEF CallRefused
  <2>3. CASE SignerFails(c, k)
    <3>1. Admissible(c, k) /\ MarkSent(c, k) /\ wire' = wire
      BY <2>3 DEF SignerFails
    <3>2. /\ sent' \in [Contexts -> SUBSET OperationKeys]
          /\ \A d \in Contexts : sent[d] \subseteq sent'[d]
      BY <2>1, <3>1, MarkSentGrows DEF IInv
    <3> QED BY <3>1, <3>2, QuietStep
  <2>4. CASE Send(c, k)
    BY <2>1, <2>4, SendKeeps
  <2> QED BY <1>4, <2>2, <2>3, <2>4
<1>5. ASSUME NEW p \in pending, NEW r \in Results, Response(p, r) PROVE IInv'
  BY <1>1, <1>5, QuietStep DEF Response
<1>6. CASE RegistryFails \/ MarkerChanges
  BY <1>1, <1>6, QuietStep DEF RegistryFails, MarkerChanges
<1> QED BY <1>2, <1>3, <1>4, <1>5, <1>6 DEF Next

\* The strengthened invariant holds in every reachable state.
THEOREM Invariance == Spec => []IInv
<1>1. Init => IInv
  <2> SUFFICES ASSUME Init PROVE IInv
    OBVIOUS
  <2>1. wire = <<>> /\ Len(wire) = 0 /\ wire \in Seq(Messages)
    BY DEF Init
  <2>2. 1 .. 0 = {}
    OBVIOUS
  <2> QED BY <2>1, <2>2 DEF Init, IInv, WireType, Recorded, AtMostOnce, WireIdentity
<1>2. IInv /\ [Next]_vars => IInv'
  BY NextIInv
<1> QED BY <1>1, <1>2, PTL DEF Spec

\* In one request context PAR, each token grant and each token's revocation are
\* handed to the network at most once, whatever fails or overlaps (wrap_request_uri
\* marks sent_operations before the signer and before the network call).
THEOREM SendsAtMostOnce == Spec => []AtMostOnce
<1>1. IInv => AtMostOnce
  BY DEF IInv
<1> QED BY <1>1, Invariance, PTL

\* Everything handed to the network carries the certificate, client and assertion
\* of the route of its own request (set_mtls_options, validate_form_for_operation).
THEOREM WireIsIdentified == Spec => []WireIdentity
<1>1. IInv => WireIdentity
  BY DEF IInv
<1> QED BY <1>1, Invariance, PTL
-----------------------------------------------------------------------------
(***************************************************************************)
(* The evidence log.  That it is settled once all calls of a context have  *)
(* returned needs to know which pending call owes which entry a result     *)
(* (Owed and Awaited): the entry is written before the network call and    *)
(* completed by index after it, when other calls have appended theirs.     *)
(***************************************************************************)
Entries == [target : Targets, sent : BOOLEAN, result : Results \cup {"not_sent"}]
Waits   == [ctx : Contexts \cup {NoContext}, msg : Nat, obs : Nat]

LogTypes ==
    /\ evidence \in BOOLEAN
    /\ log \in [Contexts -> Seq(Entries)]
    /\ truncated \in [Contexts -> BOOLEAN]
    /\ pending \subseteq Waits

Owed ==
    \A p \in pending : p.obs # 0 =>
        p.ctx \in Contexts /\ p.obs \in 1 .. Len(log[p.ctx]) /\ log[p.ctx][p.obs].sent

Awaited ==
    \A c \in Contexts : \A i \in 1 .. Len(log[c]) :
        /\ log[c][i].result # "not_sent" => log[c][i].sent
        /\ log[c][i].sent /\ log[c][i].result = "not_sent" =>
             \E p \in pending : p.ctx = c /\ p.obs = i

EInv == LogTypes /\ Owed /\ Awaited /\ EvidenceComplete

\* What LoggedSent and SentBy count, and how one more entry or message changes it.
SentEntries(s)    == {i \in 1 .. Len(s) : s[i].sent}
FromContext(s, c) == {i \in 1 .. Len(s) : s[i].ctx = c}

LEMMA CountEntries ==
    ASSUME NEW s \in Seq(Entries), NEW e \in Entries
    PROVE  /\ Cardinality(SentEntries(s)) \in Nat
           /\ Cardinality(SentEntries(Append(s, e))) =
                Cardinality(SentEntries(s)) + (IF e.sent THEN 1 ELSE 0)
<1>1. /\ Len(s) \in Nat /\ Len(Append(s, e)) = Len(s) + 1 /\ Append(s, e)[Len(s) + 1] = e
      /\ \A i \in 1 .. Len(s) : Append(s, e)[i] = s[i]
  OBVIOUS
<1>2. IsFiniteSet(1 .. Len(s))
  BY <1>1, FS_Interval
<1>3. IsFiniteSet(SentEntries(s))
  BY <1>2, FS_Subset DEF SentEntries
<1>4. Cardinality(SentEntries(s)) \in Nat
  BY <1>3, FS_CardinalityType
<1>5. Len(s) + 1 \notin SentEntries(s)
  BY <1>1 DEF SentEntries
<1>6. CASE e.sent
  <2>1. SentEntries(Append(s, e)) = SentEntries(s) \cup {Len(s) + 1}
    BY <1>1, <1>6 DEF SentEntries
  <2> QED BY <1>3, <1>4, <1>5, <1>6, <2>1, FS_AddElement
<1>7. CASE ~e.sent
  <2>1. SentEntries(Append(s, e)) = SentEntries(s)
    BY <1>1, <1>7 DEF SentEntries
  <2> QED BY <1>4, <1>7, <2>1
<1> QED BY <1>4, <1>6, <1>7

LEMMA CountMessages ==
    ASSUME NEW s \in Seq(Messages), NEW m \in Messages, NEW c
    PROVE  /\ Cardinality(FromContext(s, c)) \in Nat
           /\ Cardinality(FromContext(Append(s, m), c)) =
                Cardinality(FromContext(s, c)) + (IF m.ctx = c THEN 1 ELSE 0)
<1>1. /\ Len(s) \in Nat /\ Len(Append(s, m)) = Len(s) + 1 /\ Append(s, m)[Len(s) + 1] = m
      /\ \A i \in 1 .. Len(s) : Append(s, m)[i] = s[i]
  OBVIOUS
<1>2. IsFiniteSet(1 .. Len(s))
  BY <1>1, FS_Interval
<1>3. IsFiniteSet(FromContext(s, c))
  BY <1>2, FS_Subset DEF FromContext
<1>4. Cardinality(FromContext(s, c)) \in Nat
  BY <1>3, FS_CardinalityType
<1>5. Len(s) + 1 \notin FromContext(s, c)
  BY <1>1 DEF FromContext
<1>6. CASE m.ctx = c
  <2>1. FromContext(Append(s, m), c) = FromContext(s, c) \cup {Len(s) + 1}
    BY <1>1, <1>6 DEF FromContext
  <2> QED BY <1>3, <1>4, <1>5, <1>6, <2>1, FS_AddElement
<1>7. CASE m.ctx # c
  <2>1. FromContext(Append(s, m), c) = FromContext(s, c)
    BY <1>1, <1>7 DEF FromContext
  <2> QED BY <1>4, <1>7, <2>1
<1> QED BY <1>4, <1>6, <1>7

LEMMA CountsOf ==
    ASSUME NEW c
    PROVE  LoggedSent(c) = SentEntries(log[c]) /\ SentBy(c) = FromContext(wire, c)
BY DEF LoggedSent, SentBy, SentEntries, FromContext

\* A step that touches neither log, wire nor pending calls.
LEMMA EvidenceFrame ==
    ASSUME EInv, UNCHANGED <<evidence, log, truncated, pending, wire>>
    PROVE  EInv'
<1>1. (LogTypes /\ Owed /\ Awaited)'
  BY DEF EInv, LogTypes, Owed, Awaited
<1>2. EvidenceComplete'
  BY DEF EInv, EvidenceComplete, LoggedSent, SentBy
<1> QED BY <1>1, <1>2 DEF EInv

\* A refused call, or one whose signer fails, is logged as not sent.
LEMMA RefusalKeeps ==
    ASSUME EInv, NEW c \in Contexts \cup {NoContext}, NEW k \in CallType,
           append_observation(c, Observation(k, FALSE)),
           UNCHANGED <<evidence, pending, wire>>
    PROVE  EInv'
<1> DEFINE e == Observation(k, FALSE)
<1>1. e \in Entries /\ ~e.sent /\ e.result = "not_sent"
  BY DEF Observation, Entries, CallType
<1> HIDE DEF e
<1>2. CASE UNCHANGED <<log, truncated>>
  BY <1>2, EvidenceFrame
<1>3. CASE c \in Contexts /\ truncated' = [truncated EXCEPT ![c] = TRUE] /\ UNCHANGED log
  <2>1. (LogTypes /\ Owed /\ Awaited)'
    BY <1>3 DEF EInv, LogTypes, Owed, Awaited
  <2>2. EvidenceComplete'
    BY <1>3 DEF EInv, LogTypes, EvidenceComplete, LoggedSent, SentBy
  <2> QED BY <2>1, <2>2 DEF EInv
<1>4. CASE c \in Contexts /\ log' = [log EXCEPT ![c] = Append(@, e)] /\ UNCHANGED truncated
  <2>1. /\ log[c] \in Seq(Entries) /\ log'[c] = Append(log[c], e)
        /\ \A d \in Contexts : d # c => log'[d] = log[d]
    BY <1>4 DEF EInv, LogTypes
  <2>2. /\ Len(log[c]) \in Nat /\ Len(log'[c]) = Len(log[c]) + 1
        /\ log'[c][Len(log[c]) + 1] = e /\ \A i \in 1 .. Len(log[c]) : log'[c][i] = log[c][i]
        /\ \A i \in 1 .. Len(log'[c]) : i \in 1 .. Len(log[c]) \/ i = Len(log[c]) + 1
    BY <1>1, <2>1
  <2>3. LogTypes'
    BY <1>1, <1>4, <2>1 DEF EInv, LogTypes
  <2>4. Owed'
    BY <2>1, <2>2, SMTT(30) DEF EInv, Owed
  <2>5. Awaited'
    <3> SUFFICES ASSUME NEW d \in Contexts, NEW i \in 1 .. Len(log'[d])
                 PROVE  /\ log'[d][i].result # "not_sent" => log'[d][i].sent
                        /\ log'[d][i].sent /\ log'[d][i].result = "not_sent" =>
                             \E p \in pending : p.ctx = d /\ p.obs = i
      BY DEF Awaited
    <3>1. CASE d = c /\ i = Len(log[c]) + 1
      BY <1>1, <2>2, <3>1
    <3>2. CASE ~(d = c /\ i = Len(log[c]) + 1)
      <4>1. i \in 1 .. Len(log[d]) /\ log'[d][i] = log[d][i]
        BY <2>1, <2>2, <3>2
      <4> QED BY <4>1 DEF EInv, Awaited
    <3> QED BY <3>1, <3>2
  <2>6. EvidenceComplete'
    <3>1. ASSUME NEW d \in Contexts
          PROVE  Cardinality(LoggedSent(d)') = Cardinality(LoggedSent(d))
                   /\ SentBy(d)' = SentBy(d)
      <4>1. LoggedSent(d)' = SentEntries(log'[d]) /\ SentBy(d)' = SentBy(d)
        BY DEF LoggedSent, SentEntries, SentBy
      <4>2. CASE d = c
        <5>1. Cardinality(SentEntries(Append(log[c], e))) = Cardinality(SentEntries(log[c]))
          BY <1>1, <2>1, CountEntries
        <5> QED BY <2>1, <4>1, <4>2, <5>1, CountsOf
      <4>3. CASE d # c
        BY <2>1, <4>1, <4>3, CountsOf
      <4> QED BY <4>2, <4>3
    <3> QED BY <1>4, <3>1 DEF EInv, EvidenceComplete
  <2> QED BY <2>3, <2>4, <2>5, <2>6 DEF EInv
<1> QED BY <1>2, <1>3, <1>4 DEF append_observation, Recording, e

\* A call that leaves is logged as sent, and waits for its result.
LEMMA SendEvidence ==
    ASSUME EInv, WireType, NEW c \in Contexts \cup {NoContext}, NEW k \in CallType, Send(c, k)
    PROVE  EInv'
<1> DEFINE e == Observation(k, TRUE)
           m == Message(c, k)
           n == IF c = NoContext \/ ~Recording(c) \/ Len(log[c]) >= MaxObservations
                  THEN 0 ELSE Len(log[c]) + 1
           q == [ctx |-> c, msg |-> Len(wire) + 1, obs |-> n]
<1>1. e \in Entries /\ e.sent = TRUE /\ e.result = "not_sent"
  BY DEF Observation, Entries, CallType
<1>2. m \in Messages /\ m.ctx = c /\ wire' = Append(wire, m) /\ wire \in Seq(Messages)
  BY SentMessage DEF Message, Send, WireType
<1>3. pending' = pending \cup {q} /\ evidence' = evidence
  BY DEF Send
<1>4. q.ctx = c /\ q.obs = n
  OBVIOUS
<1>5. append_observation(c, e)
  BY DEF Send
<1>6. c \in Contexts => registry = "ready" /\ c # NoContext
  BY CallsAssumption DEF Send, PassThrough, Admissible
<1>7. n \in Nat /\ q \in Waits
  <2>1. c # NoContext => Len(log[c]) \in Nat
    BY CallsAssumption DEF EInv, LogTypes
  <2>2. n \in Nat
    BY <2>1
  <2>3. Len(wire) + 1 \in Nat
    BY <1>2
  <2> HIDE DEF n
  <2> QED BY <2>2, <2>3 DEF Waits
<1>8. ASSUME NEW d \in Contexts
      PROVE  /\ Cardinality(SentBy(d)) \in Nat
             /\ Cardinality(SentBy(d)') = Cardinality(SentBy(d)) + (IF d = c THEN 1 ELSE 0)
             /\ Cardinality(LoggedSent(d)) \in Nat
             /\ LoggedSent(d)' = SentEntries(log'[d])
  <2>1. SentBy(d)' = FromContext(Append(wire, m), d) /\ SentBy(d) = FromContext(wire, d)
    BY <1>2 DEF SentBy, FromContext
  <2>2. Cardinality(FromContext(wire, d)) \in Nat
          /\ Cardinality(FromContext(Append(wire, m), d)) =
               Cardinality(FromContext(wire, d)) + (IF m.ctx = d THEN 1 ELSE 0)
    BY <1>2, CountMessages
  <2>3. LoggedSent(d)' = SentEntries(log'[d])
    BY DEF LoggedSent, SentEntries
  <2>4. log[d] \in Seq(Entries)
    BY DEF EInv, LogTypes
  <2>5. Cardinality(LoggedSent(d)) \in Nat
    BY <1>1, <2>4, CountEntries, CountsOf
  <2> QED BY <1>2, <2>1, <2>2, <2>3, <2>5
<1> HIDE DEF e, m, q
<1>9. ASSUME UNCHANGED log, n = 0, truncated' \in [Contexts -> BOOLEAN],
             \A d \in Contexts : truncated[d] => truncated'[d],
             evidence /\ c \in Contexts => truncated'[c]
      PROVE  EInv'
  <2>1. LogTypes'
    BY <1>3, <1>7, <1>9 DEF EInv, LogTypes
  <2>2. Owed'
    BY <1>3, <1>4, <1>9 DEF EInv, Owed
  <2>3. Awaited'
    BY <1>3, <1>9 DEF EInv, Awaited
  <2>4. EvidenceComplete'
    <3> SUFFICES ASSUME evidence, NEW d \in Contexts
                 PROVE  /\ Cardinality(LoggedSent(d)') <= Cardinality(SentBy(d)')
                        /\ ~truncated'[d] => Cardinality(LoggedSent(d)') = Cardinality(SentBy(d)')
      BY <1>3 DEF EvidenceComplete
    <3>1. LoggedSent(d)' = LoggedSent(d)
      BY <1>8, <1>9, CountsOf
    <3>2. /\ Cardinality(LoggedSent(d)) <= Cardinality(SentBy(d))
          /\ ~truncated[d] => Cardinality(LoggedSent(d)) = Cardinality(SentBy(d))
      BY DEF EInv, EvidenceComplete
    <3>3. d = c => truncated'[d]
      BY <1>9
    <3>4. d # c => (~truncated'[d] => ~truncated[d])
      BY <1>9
    <3> QED BY <1>8, <3>1, <3>2, <3>3, <3>4
  <2> QED BY <2>1, <2>2, <2>3, <2>4 DEF EInv
<1>10. ASSUME c \in Contexts, log' = [log EXCEPT ![c] = Append(@, e)], UNCHANGED truncated,
              n = Len(log[c]) + 1
       PROVE  EInv'
  <2>1. /\ log[c] \in Seq(Entries) /\ log'[c] = Append(log[c], e)
        /\ \A d \in Contexts : d # c => log'[d] = log[d]
    BY <1>10 DEF EInv, LogTypes
  <2>2. /\ Len(log[c]) \in Nat /\ Len(log'[c]) = Len(log[c]) + 1
        /\ log'[c][Len(log[c]) + 1] = e /\ \A i \in 1 .. Len(log[c]) : log'[c][i] = log[c][i]
        /\ \A i \in 1 .. Len(log'[c]) : i \in 1 .. Len(log[c]) \/ i = Len(log[c]) + 1
    BY <1>1, <2>1
  <2>3. LogTypes'
    BY <1>1, <1>3, <1>7, <1>10, <2>1 DEF EInv, LogTypes
  <2>4. Owed'
    <3> SUFFICES ASSUME NEW p \in pending', p.obs # 0
                 PROVE  /\ p.ctx \in Contexts /\ p.obs \in 1 .. Len(log'[p.ctx])
                        /\ log'[p.ctx][p.obs].sent
      BY DEF Owed
    <3>1. CASE p = q
      BY <1>1, <1>4, <1>10, <2>2, <3>1
    <3>2. CASE p \in pending
      <4>1. p.ctx \in Contexts /\ p.obs \in 1 .. Len(log[p.ctx]) /\ log[p.ctx][p.obs].sent
        BY <3>2 DEF EInv, Owed
      <4> QED BY <4>1, <2>1, <2>2
    <3> QED BY <1>3, <3>1, <3>2
  <2>5. Awaited'
    <3> SUFFICES ASSUME NEW d \in Contexts, NEW i \in 1 .. Len(log'[d])
                 PROVE  /\ log'[d][i].result # "not_sent" => log'[d][i].sent
                        /\ log'[d][i].sent /\ log'[d][i].result = "not_sent" =>
                             \E p \in pending' : p.ctx = d /\ p.obs = i
      BY DEF Awaited
    <3>1. CASE d = c /\ i = Len(log[c]) + 1
      BY <1>1, <1>3, <1>4, <1>10, <2>2, <3>1
    <3>2. CASE ~(d = c /\ i = Len(log[c]) + 1)
      <4>1. i \in 1 .. Len(log[d]) /\ log'[d][i] = log[d][i]
        BY <2>1, <2>2, <3>2
      <4> QED BY <1>3, <4>1 DEF EInv, Awaited
    <3> QED BY <3>1, <3>2
  <2>6. EvidenceComplete'
    <3> SUFFICES ASSUME evidence, NEW d \in Contexts
                 PROVE  /\ Cardinality(LoggedSent(d)') <= Cardinality(SentBy(d)')
                        /\ ~truncated'[d] => Cardinality(LoggedSent(d)') = Cardinality(SentBy(d)')
      BY <1>3 DEF EvidenceComplete
    <3>1. /\ Cardinality(LoggedSent(d)) <= Cardinality(SentBy(d))
          /\ ~truncated[d] => Cardinality(LoggedSent(d)) = Cardinality(SentBy(d))
      BY DEF EInv, EvidenceComplete
    <3>2. Cardinality(LoggedSent(d)') = Cardinality(LoggedSent(d)) + (IF d = c THEN 1 ELSE 0)
      <4>1. CASE d = c
        <5>1. Cardinality(SentEntries(Append(log[c], e))) = Cardinality(SentEntries(log[c])) + 1
          BY <1>1, <2>1, CountEntries
        <5> QED BY <1>8, <2>1, <4>1, <5>1, CountsOf
      <4>2. CASE d # c
        <5>1. LoggedSent(d)' = LoggedSent(d)
          BY <1>8, <2>1, <4>2, CountsOf
        <5> QED BY <1>8, <4>2, <5>1
      <4> QED BY <4>1, <4>2
    <3> QED BY <1>8, <1>10, <3>1, <3>2
  <2> QED BY <2>3, <2>4, <2>5, <2>6 DEF EInv
<1>11. CASE c = NoContext \/ ~Recording(c)
  <2>1. UNCHANGED <<log, truncated>> /\ n = 0
    BY <1>5, <1>11 DEF append_observation, Recording
  <2>2. c \in Contexts => ~evidence
    BY <1>6, <1>11 DEF Recording
  <2> QED BY <1>9, <2>1, <2>2 DEF EInv, LogTypes
<1>12. CASE Recording(c) /\ Len(log[c]) >= MaxObservations
  <2>1. c \in Contexts /\ UNCHANGED log /\ truncated' = [truncated EXCEPT ![c] = TRUE] /\ n = 0
    BY <1>5, <1>12 DEF append_observation, Recording
  <2> QED BY <1>9, <2>1 DEF EInv, LogTypes
<1>13. CASE c # NoContext /\ Recording(c) /\ ~(Len(log[c]) >= MaxObservations)
  <2>1. /\ c \in Contexts /\ UNCHANGED truncated /\ log' = [log EXCEPT ![c] = Append(@, e)]
        /\ n = Len(log[c]) + 1
    BY <1>5, <1>13 DEF append_observation
  <2> QED BY <1>10, <2>1
<1> QED BY <1>11, <1>12, <1>13

\* The response completes the entry its own call wrote, and no other.
LEMMA ResponseEvidence ==
    ASSUME EInv, NEW p \in pending, NEW r \in Results, Response(p, r)
    PROVE  EInv'
<1>1. /\ pending' = pending \ {p} /\ UNCHANGED <<evidence, truncated, wire>>
      /\ p \in Waits /\ r \in Results /\ r # "not_sent"
  BY DEF Response, EInv, LogTypes, Results
<1>2. CASE p.obs = 0
  <2>1. log' = log
    BY <1>2 DEF Response
  <2>2. LogTypes' /\ Owed'
    BY <1>1, <2>1 DEF EInv, LogTypes, Owed
  <2>3. Awaited'
    <3> SUFFICES ASSUME NEW d \in Contexts, NEW i \in 1 .. Len(log[d]),
                        log[d][i].sent /\ log[d][i].result = "not_sent"
                 PROVE  \E x \in pending' : x.ctx = d /\ x.obs = i
      BY <2>1 DEF EInv, Awaited
    <3>1. PICK x \in pending : x.ctx = d /\ x.obs = i
      BY DEF EInv, Awaited
    <3>2. x # p
      BY <1>2, <3>1
    <3> QED BY <1>1, <3>1, <3>2
  <2>4. EvidenceComplete'
    BY <1>1, <2>1 DEF EInv, EvidenceComplete, LoggedSent, SentBy
  <2> QED BY <2>2, <2>3, <2>4 DEF EInv
<1>3. CASE p.obs # 0
  <2> DEFINE c == p.ctx
             j == p.obs
             f == [log[c][j] EXCEPT !.result = r]
  <2>1. c \in Contexts /\ j \in 1 .. Len(log[c]) /\ log[c][j].sent
    BY <1>3 DEF EInv, Owed
  <2>2. log[c] \in Seq(Entries) /\ log[c][j] \in Entries
    BY <2>1 DEF EInv, LogTypes
  <2>3. f \in Entries /\ f.sent = log[c][j].sent /\ f.result = r
    BY <1>1, <2>2 DEF Entries
  <2>4. log' = [log EXCEPT ![c] = [log[c] EXCEPT ![j] = f]]
    BY <1>3 DEF Response
  <2> HIDE DEF f
  <2>5. /\ log'[c] = [log[c] EXCEPT ![j] = f] /\ \A d \in Contexts : d # c => log'[d] = log[d]
        /\ log' \in [Contexts -> Seq(Entries)]
    BY <2>1, <2>2, <2>3, <2>4 DEF EInv, LogTypes
  <2>6. /\ Len(log'[c]) = Len(log[c]) /\ log'[c][j] = f
        /\ \A i \in 1 .. Len(log[c]) : i # j => log'[c][i] = log[c][i]
    BY <2>1, <2>2, <2>3, <2>5
  <2>7. \A d \in Contexts : /\ Len(log'[d]) = Len(log[d])
                            /\ \A i \in 1 .. Len(log[d]) : log'[d][i].sent = log[d][i].sent
    BY <2>3, <2>5, <2>6
  <2>8. LogTypes'
    BY <1>1, <2>5 DEF EInv, LogTypes
  <2>9. Owed'
    BY <1>1, <2>7 DEF EInv, Owed
  <2>10. Awaited'
    <3> SUFFICES ASSUME NEW d \in Contexts, NEW i \in 1 .. Len(log'[d])
                 PROVE  /\ log'[d][i].result # "not_sent" => log'[d][i].sent
                        /\ log'[d][i].sent /\ log'[d][i].result = "not_sent" =>
                             \E x \in pending' : x.ctx = d /\ x.obs = i
      BY DEF Awaited
    <3>1. CASE d = c /\ i = j
      BY <1>1, <2>1, <2>3, <2>6, <3>1
    <3>2. CASE ~(d = c /\ i = j)
      <4>1. i \in 1 .. Len(log[d]) /\ log'[d][i] = log[d][i]
        BY <2>5, <2>6, <3>2
      <4>2. ASSUME log[d][i].sent, log[d][i].result = "not_sent"
            PROVE  \E x \in pending' : x.ctx = d /\ x.obs = i
        <5>1. PICK x \in pending : x.ctx = d /\ x.obs = i
          BY <4>1, <4>2 DEF EInv, Awaited
        <5>2. x # p
          BY <3>2, <5>1
        <5> QED BY <1>1, <5>1, <5>2
      <4> QED BY <4>1, <4>2 DEF EInv, Awaited
    <3> QED BY <3>1, <3>2
  <2>11. EvidenceComplete'
    <3>1. \A d \in Contexts : LoggedSent(d)' = LoggedSent(d) /\ SentBy(d)' = SentBy(d)
      BY <1>1, <2>7 DEF LoggedSent, SentBy
    <3> QED BY <1>1, <3>1 DEF EInv, EvidenceComplete
  <2> QED BY <2>8, <2>9, <2>10, <2>11 DEF EInv
<1> QED BY <1>2, <1>3

\* The log, the pending calls and the wire stay in step.
THEOREM EvidenceInvariant == Spec => []EInv
<1>1. Init => EInv
  <2> SUFFICES ASSUME Init PROVE EInv
    OBVIOUS
  <2>1. LogTypes /\ Owed /\ Awaited
    BY DEF Init, LogTypes, Owed, Awaited, Waits
  <2>2. ASSUME NEW c \in Contexts
        PROVE  LoggedSent(c) = {} /\ SentBy(c) = {}
    BY DEF Init, LoggedSent, SentBy
  <2>3. EvidenceComplete
    BY <2>2, FS_EmptySet DEF EvidenceComplete
  <2> QED BY <2>1, <2>3 DEF EInv
<1>2. IInv /\ EInv /\ [Next]_vars => EInv'
  <2> SUFFICES ASSUME IInv, EInv, [Next]_vars PROVE EInv'
    OBVIOUS
  <2>1. ASSUME NEW c \in Contexts, Access(c) \/ BridgeAccess(c) PROVE EInv'
    BY <2>1, EvidenceFrame DEF Access, BridgeAccess
  <2>2. ASSUME NEW c \in Contexts \cup {NoContext}, NEW k \in Calls \cup {DiscoveryCall},
               CallRefused(c, k) \/ SignerFails(c, k)
        PROVE  EInv'
    BY <2>2, CallIsTyped, RefusalKeeps DEF CallRefused, SignerFails
  <2>3. ASSUME NEW c \in Contexts \cup {NoContext}, NEW k \in Calls \cup {DiscoveryCall},
               Send(c, k)
        PROVE  EInv'
    BY <2>3, CallIsTyped, SendEvidence DEF IInv
  <2>4. ASSUME NEW p \in pending, NEW r \in Results, Response(p, r) PROVE EInv'
    BY <2>4, ResponseEvidence
  <2>5. CASE RegistryFails \/ MarkerChanges \/ UNCHANGED vars
    BY <2>5, EvidenceFrame DEF RegistryFails, MarkerChanges, vars
  <2> QED BY <2>1, <2>2, <2>3, <2>4, <2>5 DEF Next
<1> QED BY <1>1, <1>2, Invariance, PTL DEF Spec

\* The evidence log of a request says exactly what the request sent, or that it was
\* cut, and every entry of a finished call has that call's result, whatever calls
\* overlapped (append_observation, the result written by index after the call).
THEOREM EvidenceIsHonest == Spec => []EvidenceHonest
<1>1. EInv => EvidenceHonest
  BY DEF EInv, Awaited, EvidenceHonest, EvidenceSettles
<1> QED BY <1>1, EvidenceInvariant, PTL
=============================================================================
