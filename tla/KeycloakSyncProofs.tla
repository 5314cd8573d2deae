--------------------------- MODULE KeycloakSyncProofs ---------------------------
(***************************************************************************)
(* What the Keycloak synchronisation promises, for any number of clients,  *)
(* users, overlapping runs, lost or late requests and edits.               *)
(***************************************************************************)
EXTENDS KeycloakSync, SequenceTheorems, TLAPS

(***************************************************************************)
(* The program, request by request.                                        *)
(***************************************************************************)
N == Len(Clients)
U == Len(Users)
Request(op, S) == [op |-> op, on |-> S]

LEMMA Lengths == N \in Nat /\ U \in Nat /\ DOMAIN Clients = 1 .. N /\ DOMAIN Users = 1 .. U
BY SyncAssumption DEF N, U

\* A stage of one request per name, and the two stages with several.
LEMMA Stages ==
    /\ Steps(<<"plan">>, Client, Clients) = [i \in 1 .. N |-> Request("plan", {Client(Clients[i])})]
    /\ Steps(<<"plan">>, Mapper, Clients) = [i \in 1 .. N |-> Request("plan", {Mapper(Clients[i])})]
    /\ Steps(<<"apply">>, Mapper, Clients) = [i \in 1 .. N |-> Request("apply", {Mapper(Clients[i])})]
    /\ Steps(<<"verify">>, Client, Clients) = [i \in 1 .. N |-> Request("verify", {Client(Clients[i])})]
    /\ Steps(<<"verify">>, Mapper, Clients) = [i \in 1 .. N |-> Request("verify", {Mapper(Clients[i])})]
<1>1. \A i \in 1 .. N : (i - 1) % 1 = 0 /\ (i - 1) \div 1 = i - 1
  BY Lengths
<1>2. \A i \in 1 .. N : 1 + ((i - 1) % 1) = 1 /\ 1 + ((i - 1) \div 1) = i
  BY <1>1, Lengths
<1>3. \A x : Len(<<x>>) = 1 /\ <<x>>[1] = x
  OBVIOUS
<1>4. 1 * N = N
  BY Lengths
<1> QED BY <1>2, <1>3, <1>4 DEF Steps, Request, N

LEMMA FunctionIsSequence ==
    ASSUME NEW T, NEW m \in Nat, NEW s \in [1 .. m -> T]
    PROVE  s \in Seq(T) /\ Len(s) = m
<1>1. s \in Seq(T)
  BY SeqDef
<1>2. DOMAIN s = 1 .. m
  OBVIOUS
<1>3. Len(s) \in Nat /\ DOMAIN s = 1 .. Len(s)
  BY <1>1, LenProperties
<1>4. 1 .. Len(s) = 1 .. m
  BY <1>2, <1>3
<1>5. Len(s) = m
  BY <1>3, <1>4
<1> QED BY <1>1, <1>5

Ops == {"plan", "apply", "created", "verify"}
Requests == [op : Ops, on : SUBSET Objects]

LEMMA ClientStage ==
    LET s == Steps(<<"apply", "created">>, Client, Clients) IN
    /\ s \in Seq(Requests) /\ Len(s) = 2 * N
    /\ \A k \in 1 .. N : /\ s[2 * k - 1] = Request("apply", {Client(Clients[k])})
                         /\ s[2 * k] = Request("created", {Client(Clients[k])})
<1> DEFINE ops == <<"apply", "created">>
           s == Steps(ops, Client, Clients)
<1>1. ops[1] = "apply" /\ ops[2] = "created" /\ Len(ops) = 2
  OBVIOUS
<1>2. s = [i \in 1 .. Len(ops) * N |-> [op |-> ops[1 + ((i - 1) % Len(ops))],
                                        on |-> {Client(Clients[1 + ((i - 1) \div Len(ops))])}]]
  BY DEF Steps, N
<1> HIDE DEF ops, s
<1>3. s = [i \in 1 .. 2 * N |-> [op |-> ops[1 + ((i - 1) % 2)],
                                 on |-> {Client(Clients[1 + ((i - 1) \div 2)])}]]
  BY <1>1, <1>2
<1>4. \A i \in 1 .. 2 * N : s[i] \in Requests
  <2> SUFFICES ASSUME NEW i \in 1 .. 2 * N PROVE s[i] \in Requests
    OBVIOUS
  <2>1. (1 + ((i - 1) % 2) = 1 \/ 1 + ((i - 1) % 2) = 2) /\ 1 + ((i - 1) \div 2) \in 1 .. N
    BY Lengths
  <2>2. ops[1 + ((i - 1) % 2)] \in Ops
    BY <1>1, <2>1 DEF Ops
  <2>3. Client(Clients[1 + ((i - 1) \div 2)]) \in Objects
    BY <2>1, Lengths DEF Objects, Range
  <2> QED BY <1>3, <2>2, <2>3 DEF Requests
<1>5. s \in Seq(Requests) /\ Len(s) = 2 * N
  <2>1. s \in [1 .. 2 * N -> Requests] /\ 2 * N \in Nat
    BY <1>3, <1>4, Lengths
  <2> QED BY <2>1, FunctionIsSequence
<1>6. ASSUME NEW k \in 1 .. N
      PROVE  /\ s[2 * k - 1] = Request("apply", {Client(Clients[k])})
             /\ s[2 * k] = Request("created", {Client(Clients[k])})
  <2>1. 2 * k - 1 \in 1 .. 2 * N /\ 2 * k \in 1 .. 2 * N
    BY Lengths
  <2>2. 1 + ((2 * k - 1 - 1) % 2) = 1 /\ 1 + ((2 * k - 1 - 1) \div 2) = k
    BY Lengths
  <2>3. 1 + ((2 * k - 1) % 2) = 2 /\ 1 + ((2 * k - 1) \div 2) = k
    BY Lengths
  <2>4. s[2 * k - 1] = [op |-> ops[1], on |-> {Client(Clients[k])}]
    BY <1>3, <2>1, <2>2
  <2>5. s[2 * k] = [op |-> ops[2], on |-> {Client(Clients[k])}]
    BY <1>3, <2>1, <2>3
  <2> QED BY <1>1, <2>4, <2>5 DEF Request
<1> QED BY <1>5, <1>6 DEF s, ops

LEMMA UserStage ==
    LET s == Steps(<<"plan", "apply", "verify">>, User, Users) IN
    /\ s \in Seq(Requests) /\ Len(s) = 3 * U
    /\ \A k \in 1 .. U : /\ s[3 * k - 2] = Request("plan", {User(Users[k])})
                         /\ s[3 * k - 1] = Request("apply", {User(Users[k])})
                         /\ s[3 * k] = Request("verify", {User(Users[k])})
<1> DEFINE ops == <<"plan", "apply", "verify">>
           s == Steps(ops, User, Users)
<1>1. ops[1] = "plan" /\ ops[2] = "apply" /\ ops[3] = "verify" /\ Len(ops) = 3
  OBVIOUS
<1>2. s = [i \in 1 .. Len(ops) * U |-> [op |-> ops[1 + ((i - 1) % Len(ops))],
                                        on |-> {User(Users[1 + ((i - 1) \div Len(ops))])}]]
  BY DEF Steps, U
<1> HIDE DEF ops, s
<1>3. s = [i \in 1 .. 3 * U |-> [op |-> ops[1 + ((i - 1) % 3)],
                                 on |-> {User(Users[1 + ((i - 1) \div 3)])}]]
  BY <1>1, <1>2
<1>4. \A i \in 1 .. 3 * U : s[i] \in Requests
  <2> SUFFICES ASSUME NEW i \in 1 .. 3 * U PROVE s[i] \in Requests
    OBVIOUS
  <2>1. /\ 1 + ((i - 1) % 3) = 1 \/ 1 + ((i - 1) % 3) = 2 \/ 1 + ((i - 1) % 3) = 3
        /\ 1 + ((i - 1) \div 3) \in 1 .. U
    BY Lengths
  <2>2. ops[1 + ((i - 1) % 3)] \in Ops
    BY <1>1, <2>1 DEF Ops
  <2>3. User(Users[1 + ((i - 1) \div 3)]) \in Objects
    BY <2>1, Lengths DEF Objects, Range
  <2> QED BY <1>3, <2>2, <2>3 DEF Requests
<1>5. s \in Seq(Requests) /\ Len(s) = 3 * U
  <2>1. s \in [1 .. 3 * U -> Requests] /\ 3 * U \in Nat
    BY <1>3, <1>4, Lengths
  <2> QED BY <2>1, FunctionIsSequence
<1>6. ASSUME NEW k \in 1 .. U
      PROVE  /\ s[3 * k - 2] = Request("plan", {User(Users[k])})
             /\ s[3 * k - 1] = Request("apply", {User(Users[k])})
             /\ s[3 * k] = Request("verify", {User(Users[k])})
  <2>1. 3 * k - 2 \in 1 .. 3 * U /\ 3 * k - 1 \in 1 .. 3 * U /\ 3 * k \in 1 .. 3 * U
    BY Lengths
  <2>2. 1 + ((3 * k - 2 - 1) % 3) = 1 /\ 1 + ((3 * k - 2 - 1) \div 3) = k
    BY Lengths
  <2>3. 1 + ((3 * k - 1 - 1) % 3) = 2 /\ 1 + ((3 * k - 1 - 1) \div 3) = k
    BY Lengths
  <2>4. 1 + ((3 * k - 1) % 3) = 3 /\ 1 + ((3 * k - 1) \div 3) = k
    BY Lengths
  <2>5. s[3 * k - 2] = [op |-> ops[1], on |-> {User(Users[k])}]
    BY <1>3, <2>1, <2>2
  <2>6. s[3 * k - 1] = [op |-> ops[2], on |-> {User(Users[k])}]
    BY <1>3, <2>1, <2>3
  <2>7. s[3 * k] = [op |-> ops[3], on |-> {User(Users[k])}]
    BY <1>3, <2>1, <2>4
  <2> QED BY <1>1, <2>5, <2>6, <2>7 DEF Request
<1> QED BY <1>5, <1>6 DEF s, ops

LEMMA Concatenation ==
    ASSUME NEW a \in Seq(Requests), NEW b \in Seq(Requests)
    PROVE  /\ a \o b \in Seq(Requests) /\ Len(a \o b) = Len(a) + Len(b)
           /\ \A i \in 1 .. Len(a) : (a \o b)[i] = a[i]
           /\ \A i \in 1 .. Len(b) : (a \o b)[Len(a) + i] = b[i]
OBVIOUS

LEMMA Joined ==
    ASSUME NEW a \in Seq(Requests), NEW b \in Seq(Requests), NEW m, NEW n, Len(a) = m, Len(b) = n
    PROVE  /\ a \o b \in Seq(Requests) /\ Len(a \o b) = m + n
           /\ \A i \in 1 .. m : (a \o b)[i] = a[i]
           /\ \A i \in 1 .. n : (a \o b)[m + i] = b[i]
BY Concatenation

LEMMA AfterOne ==
    ASSUME NEW a \in Seq(Requests), NEW b \in Seq(Requests), NEW n, Len(a) = 1, n = Len(b)
    PROVE  /\ a \o b \in Seq(Requests) /\ Len(a \o b) = 1 + n
           /\ (a \o b)[1] = a[1]
           /\ \A i \in 1 .. n : (a \o b)[1 + i] = b[i]
<1>1. /\ a \o b \in Seq(Requests) /\ Len(a \o b) = Len(a) + Len(b)
      /\ \A i \in 1 .. Len(a) : (a \o b)[i] = a[i]
      /\ \A i \in 1 .. Len(b) : (a \o b)[Len(a) + i] = b[i]
  BY Concatenation, Zenon
<1>2. 1 \in 1 .. Len(a)
  OBVIOUS
<1> QED BY <1>1, <1>2

LEMMA ThenOne ==
    ASSUME NEW a \in Seq(Requests), NEW b \in Seq(Requests), NEW m, m = Len(a), Len(b) = 1
    PROVE  /\ a \o b \in Seq(Requests) /\ Len(a \o b) = m + 1
           /\ \A i \in 1 .. m : (a \o b)[i] = a[i]
           /\ (a \o b)[m + 1] = b[1]
<1>1. /\ a \o b \in Seq(Requests) /\ Len(a \o b) = Len(a) + Len(b)
      /\ \A i \in 1 .. Len(a) : (a \o b)[i] = a[i]
      /\ \A i \in 1 .. Len(b) : (a \o b)[Len(a) + i] = b[i]
  BY Concatenation, Zenon
<1>2. 1 \in 1 .. Len(b)
  OBVIOUS
<1> QED BY <1>1, <1>2

LEMMA OneRequest ==
    ASSUME NEW op \in Ops, NEW S \in SUBSET Objects
    PROVE  One(op, S) \in Seq(Requests) /\ Len(One(op, S)) = 1 /\ One(op, S)[1] = Request(op, S)
BY DEF One, Requests, Request

\* One request for each client, or for its mapper.
LEMMA NameStage ==
    ASSUME NEW op \in Ops, NEW s,
           \/ s = [i \in 1 .. N |-> Request(op, {Client(Clients[i])})]
           \/ s = [i \in 1 .. N |-> Request(op, {Mapper(Clients[i])})]
    PROVE  s \in Seq(Requests) /\ Len(s) = N
<1>1. \A i \in 1 .. N : Clients[i] \in Range(Clients)
  BY Lengths DEF Range
<1>2. \A i \in 1 .. N : Client(Clients[i]) \in Objects /\ Mapper(Clients[i]) \in Objects
  BY <1>1 DEF Objects
<1>3. s \in [1 .. N -> Requests]
  BY <1>2 DEF Request, Requests
<1> QED BY <1>3, Lengths, FunctionIsSequence

LEMMA RealmObjects ==
    Provider \in Objects /\ Fields \in Objects /\ Policies \in Objects /\ Profile \in Objects
BY DEF Objects

LEMMA PlanningShape ==
    /\ Planning \in Seq(Requests) /\ Len(Planning) = 2 * N + 2
    /\ Planning[1] = Request("plan", {Fields, Policies})
    /\ \A k \in 1 .. N : /\ Planning[1 + k] = Request("plan", {Client(Clients[k])})
                         /\ Planning[N + 1 + k] = Request("plan", {Mapper(Clients[k])})
    /\ Planning[2 * N + 2] = Request("plan", {Provider})
<1> DEFINE a == One("plan", {Fields, Policies})
           b == Steps(<<"plan">>, Client, Clients)
           c == Steps(<<"plan">>, Mapper, Clients)
           d == One("plan", {Provider})
<1>1. /\ a \in Seq(Requests) /\ Len(a) = 1 /\ a[1] = Request("plan", {Fields, Policies})
      /\ d \in Seq(Requests) /\ Len(d) = 1 /\ d[1] = Request("plan", {Provider})
  BY OneRequest, RealmObjects DEF Ops
<1>2. b = [i \in 1 .. N |-> Request("plan", {Client(Clients[i])})]
  BY Stages
<1>3. c = [i \in 1 .. N |-> Request("plan", {Mapper(Clients[i])})]
  BY Stages
<1> HIDE DEF a, b, c, d
<1>4. /\ b \in Seq(Requests) /\ Len(b) = N
      /\ \A k \in 1 .. N : b[k] = Request("plan", {Client(Clients[k])})
  BY <1>2, NameStage DEF Ops
<1>5. /\ c \in Seq(Requests) /\ Len(c) = N
      /\ \A k \in 1 .. N : c[k] = Request("plan", {Mapper(Clients[k])})
  BY <1>3, NameStage DEF Ops
<1> DEFINE ab == a \o b
           abc == ab \o c
           abcd == abc \o d
<1>6. /\ ab \in Seq(Requests) /\ Len(ab) = 1 + N /\ ab[1] = a[1]
      /\ \A i \in 1 .. N : ab[1 + i] = b[i]
  BY <1>1, <1>4, AfterOne
<1> HIDE DEF ab
<1>7. /\ abc \in Seq(Requests) /\ Len(abc) = 1 + N + N /\ \A i \in 1 .. 1 + N : abc[i] = ab[i]
      /\ \A i \in 1 .. N : abc[1 + N + i] = c[i]
  BY <1>5, <1>6, Joined
<1> HIDE DEF abc
<1>8. /\ abcd \in Seq(Requests) /\ Len(abcd) = 1 + N + N + 1
      /\ \A i \in 1 .. 1 + N + N : abcd[i] = abc[i]
      /\ abcd[1 + N + N + 1] = d[1]
  BY <1>1, <1>7, ThenOne
<1> HIDE DEF abcd
<1>9. Planning = abcd
  BY DEF Planning, abcd, abc, ab, a, b, c, d
<1>10. /\ 1 + N + N + 1 = 2 * N + 2 /\ 1 \in 1 .. 1 + N /\ 1 \in 1 .. 1 + N + N
       /\ \A k \in 1 .. N : /\ 1 + k \in 1 .. 1 + N /\ 1 + k \in 1 .. 1 + N + N
                            /\ N + 1 + k = 1 + N + k /\ 1 + N + k \in 1 .. 1 + N + N
  BY Lengths
<1>11. abcd[1] = a[1] /\ abcd[1 + N + N + 1] = d[1]
  BY <1>6, <1>7, <1>8, <1>10
<1>12. \A k \in 1 .. N : abcd[1 + k] = b[k] /\ abcd[1 + N + k] = c[k]
  BY <1>6, <1>7, <1>8, <1>10
<1> QED BY <1>1, <1>4, <1>5, <1>8, <1>9, <1>10, <1>11, <1>12

LEMMA ApplyingShape ==
    /\ Applying \in Seq(Requests) /\ Len(Applying) = 3 * N + 2
    /\ Applying[1] = Request("apply", {Provider})
    /\ \A k \in 1 .. N : /\ Applying[2 * k] = Request("apply", {Client(Clients[k])})
                         /\ Applying[2 * k + 1] = Request("created", {Client(Clients[k])})
                         /\ Applying[2 * N + 1 + k] = Request("apply", {Mapper(Clients[k])})
    /\ Applying[3 * N + 2] = Request("apply", {Fields, Policies})
<1> DEFINE a == One("apply", {Provider})
           b == Steps(<<"apply", "created">>, Client, Clients)
           c == Steps(<<"apply">>, Mapper, Clients)
           d == One("apply", {Fields, Policies})
<1>1. /\ a \in Seq(Requests) /\ Len(a) = 1 /\ a[1] = Request("apply", {Provider})
      /\ d \in Seq(Requests) /\ Len(d) = 1 /\ d[1] = Request("apply", {Fields, Policies})
  BY OneRequest, RealmObjects DEF Ops
<1>2. /\ b \in Seq(Requests) /\ Len(b) = 2 * N
      /\ \A k \in 1 .. N : /\ b[2 * k - 1] = Request("apply", {Client(Clients[k])})
                           /\ b[2 * k] = Request("created", {Client(Clients[k])})
  BY ClientStage
<1>3. c = [i \in 1 .. N |-> Request("apply", {Mapper(Clients[i])})]
  BY Stages
<1> HIDE DEF a, b, c, d
<1>4. /\ c \in Seq(Requests) /\ Len(c) = N
      /\ \A k \in 1 .. N : c[k] = Request("apply", {Mapper(Clients[k])})
  BY <1>3, NameStage DEF Ops
<1> DEFINE ab == a \o b
           abc == ab \o c
           abcd == abc \o d
<1>5. /\ ab \in Seq(Requests) /\ Len(ab) = 1 + 2 * N /\ ab[1] = a[1]
      /\ \A i \in 1 .. 2 * N : ab[1 + i] = b[i]
  BY <1>1, <1>2, AfterOne
<1> HIDE DEF ab
<1>6. /\ abc \in Seq(Requests) /\ Len(abc) = 1 + 2 * N + N
      /\ \A i \in 1 .. 1 + 2 * N : abc[i] = ab[i]
      /\ \A i \in 1 .. N : abc[1 + 2 * N + i] = c[i]
  BY <1>4, <1>5, Joined
<1> HIDE DEF abc
<1>7. /\ abcd \in Seq(Requests) /\ Len(abcd) = 1 + 2 * N + N + 1
      /\ \A i \in 1 .. 1 + 2 * N + N : abcd[i] = abc[i]
      /\ abcd[1 + 2 * N + N + 1] = d[1]
  BY <1>1, <1>6, ThenOne
<1> HIDE DEF abcd
<1>8. Applying = abcd
  BY DEF Applying, abcd, abc, ab, a, b, c, d
<1>9. /\ 1 + 2 * N + N + 1 = 3 * N + 2 /\ 1 \in 1 .. 1 + 2 * N /\ 1 \in 1 .. 1 + 2 * N + N
      /\ \A i \in 1 .. 2 * N : 1 + i \in 1 .. 1 + 2 * N /\ 1 + i \in 1 .. 1 + 2 * N + N
      /\ \A k \in 1 .. N : /\ 2 * k - 1 \in 1 .. 2 * N /\ 2 * k \in 1 .. 2 * N
                           /\ 1 + (2 * k - 1) = 2 * k /\ 1 + 2 * k = 2 * k + 1
                           /\ 2 * N + 1 + k = 1 + 2 * N + k /\ 1 + 2 * N + k \in 1 .. 1 + 2 * N + N
  BY Lengths
<1>10. abcd[1] = a[1] /\ abcd[1 + 2 * N + N + 1] = d[1]
  BY <1>5, <1>6, <1>7, <1>9
<1>11. \A i \in 1 .. 2 * N : abcd[1 + i] = b[i]
  BY <1>5, <1>6, <1>7, <1>9
<1>12. \A k \in 1 .. N : abcd[1 + 2 * N + k] = c[k]
  BY <1>6, <1>7, <1>9
<1>13. \A k \in 1 .. N : abcd[2 * k] = b[2 * k - 1] /\ abcd[2 * k + 1] = b[2 * k]
  <2> SUFFICES ASSUME NEW k \in 1 .. N
               PROVE  abcd[2 * k] = b[2 * k - 1] /\ abcd[2 * k + 1] = b[2 * k]
    OBVIOUS
  <2>1. abcd[1 + (2 * k - 1)] = b[2 * k - 1] /\ abcd[1 + 2 * k] = b[2 * k]
    BY <1>9, <1>11
  <2> QED BY <1>9, <2>1
<1> QED BY <1>1, <1>2, <1>4, <1>7, <1>8, <1>9, <1>10, <1>12, <1>13

LEMMA CheckingShape ==
    /\ Checking \in Seq(Requests) /\ Len(Checking) = 2 * N + 2
    /\ \A k \in 1 .. N : /\ Checking[k] = Request("verify", {Client(Clients[k])})
                         /\ Checking[N + k] = Request("verify", {Mapper(Clients[k])})
    /\ Checking[2 * N + 1] = Request("verify", {Fields, Policies})
    /\ Checking[2 * N + 2] = Request("verify", {Provider})
<1> DEFINE a == Steps(<<"verify">>, Client, Clients)
           b == Steps(<<"verify">>, Mapper, Clients)
           c == One("verify", {Fields, Policies})
           d == One("verify", {Provider})
<1>1. /\ c \in Seq(Requests) /\ Len(c) = 1 /\ c[1] = Request("verify", {Fields, Policies})
      /\ d \in Seq(Requests) /\ Len(d) = 1 /\ d[1] = Request("verify", {Provider})
  BY OneRequest, RealmObjects DEF Ops
<1>2. a = [i \in 1 .. N |-> Request("verify", {Client(Clients[i])})]
  BY Stages
<1>3. b = [i \in 1 .. N |-> Request("verify", {Mapper(Clients[i])})]
  BY Stages
<1> HIDE DEF a, b, c, d
<1>4. /\ a \in Seq(Requests) /\ Len(a) = N
      /\ \A k \in 1 .. N : a[k] = Request("verify", {Client(Clients[k])})
  BY <1>2, NameStage DEF Ops
<1>5. /\ b \in Seq(Requests) /\ Len(b) = N
      /\ \A k \in 1 .. N : b[k] = Request("verify", {Mapper(Clients[k])})
  BY <1>3, NameStage DEF Ops
<1> DEFINE ab == a \o b
           abc == ab \o c
           abcd == abc \o d
<1>6. /\ ab \in Seq(Requests) /\ Len(ab) = N + N /\ \A i \in 1 .. N : ab[i] = a[i]
      /\ \A i \in 1 .. N : ab[N + i] = b[i]
  BY <1>4, <1>5, Joined
<1> HIDE DEF ab
<1>7. /\ abc \in Seq(Requests) /\ Len(abc) = N + N + 1 /\ \A i \in 1 .. N + N : abc[i] = ab[i]
      /\ abc[N + N + 1] = c[1]
  BY <1>1, <1>6, ThenOne
<1> HIDE DEF abc
<1>8. /\ abcd \in Seq(Requests) /\ Len(abcd) = N + N + 1 + 1
      /\ \A i \in 1 .. N + N + 1 : abcd[i] = abc[i]
      /\ abcd[N + N + 1 + 1] = d[1]
  BY <1>1, <1>7, ThenOne
<1> HIDE DEF abcd
<1>9. Checking = abcd
  BY DEF Checking, abcd, abc, ab, a, b, c, d
<1>10. /\ N + N + 1 + 1 = 2 * N + 2 /\ N + N + 1 = 2 * N + 1 /\ N + N + 1 \in 1 .. N + N + 1
       /\ \A k \in 1 .. N : /\ k \in 1 .. N + N /\ k \in 1 .. N + N + 1
                            /\ N + k \in 1 .. N + N /\ N + k \in 1 .. N + N + 1
  BY Lengths
<1>11. abcd[N + N + 1] = c[1] /\ abcd[N + N + 1 + 1] = d[1]
  BY <1>7, <1>8, <1>10
<1>12. \A k \in 1 .. N : abcd[k] = a[k] /\ abcd[N + k] = b[k]
  BY <1>6, <1>7, <1>8, <1>10
<1> QED BY <1>1, <1>4, <1>5, <1>8, <1>9, <1>10, <1>11, <1>12

LEMMA EndingShape ==
    /\ Ending \in Seq(Requests) /\ Len(Ending) = 2 + 3 * U
    /\ Ending[1] = Request("plan", {Profile}) /\ Ending[2] = Request("apply", {Profile})
    /\ \A k \in 1 .. U : /\ Ending[3 * k] = Request("plan", {User(Users[k])})
                         /\ Ending[3 * k + 1] = Request("apply", {User(Users[k])})
                         /\ Ending[3 * k + 2] = Request("verify", {User(Users[k])})
<1> DEFINE a == One("plan", {Profile})
           b == One("apply", {Profile})
           c == Steps(<<"plan", "apply", "verify">>, User, Users)
<1>1. /\ a \in Seq(Requests) /\ Len(a) = 1 /\ a[1] = Request("plan", {Profile})
      /\ b \in Seq(Requests) /\ Len(b) = 1 /\ b[1] = Request("apply", {Profile})
  BY OneRequest, RealmObjects DEF Ops
<1>2. /\ c \in Seq(Requests) /\ Len(c) = 3 * U
      /\ \A k \in 1 .. U : /\ c[3 * k - 2] = Request("plan", {User(Users[k])})
                           /\ c[3 * k - 1] = Request("apply", {User(Users[k])})
                           /\ c[3 * k] = Request("verify", {User(Users[k])})
  BY UserStage
<1> HIDE DEF a, b, c
<1> DEFINE ab == a \o b
           abc == ab \o c
<1>3. ab \in Seq(Requests) /\ Len(ab) = 2 /\ ab[1] = a[1] /\ ab[2] = b[1]
  <2>1. /\ ab \in Seq(Requests) /\ Len(ab) = Len(a) + Len(b)
        /\ \A i \in 1 .. Len(a) : ab[i] = a[i]
        /\ \A i \in 1 .. Len(b) : ab[Len(a) + i] = b[i]
    BY <1>1, Concatenation
  <2>2. 1 \in 1 .. Len(a) /\ 1 \in 1 .. Len(b) /\ Len(a) + 1 = 2 /\ Len(a) + Len(b) = 2
    BY <1>1
  <2> HIDE DEF ab
  <2> QED BY <2>1, <2>2, Zenon
<1> HIDE DEF ab
<1>4. /\ abc \in Seq(Requests) /\ Len(abc) = Len(ab) + 3 * U
      /\ \A i \in 1 .. Len(ab) : abc[i] = ab[i]
      /\ \A i \in 1 .. 3 * U : abc[Len(ab) + i] = c[i]
  <2>1. /\ abc \in Seq(Requests) /\ Len(abc) = Len(ab) + Len(c)
        /\ \A i \in 1 .. Len(ab) : abc[i] = ab[i]
        /\ \A i \in 1 .. Len(c) : abc[Len(ab) + i] = c[i]
    BY <1>2, <1>3, Concatenation
  <2> HIDE DEF abc
  <2> QED BY <1>2, <2>1, Zenon
<1> HIDE DEF abc
<1>5. 1 \in 1 .. Len(ab) /\ 2 \in 1 .. Len(ab)
  BY <1>3
<1>6. Len(abc) = 2 + 3 * U /\ abc[1] = ab[1] /\ abc[2] = ab[2]
  BY <1>3, <1>4, <1>5
<1>7. \A i \in 1 .. 3 * U : abc[2 + i] = c[i]
  BY <1>3, <1>4
<1>8. Ending = abc
  BY DEF Ending, abc, ab, a, b, c
<1>9. \A k \in 1 .. U :
        /\ 3 * k - 2 \in 1 .. 3 * U /\ 3 * k - 1 \in 1 .. 3 * U /\ 3 * k \in 1 .. 3 * U
        /\ 2 + (3 * k - 2) = 3 * k /\ 2 + (3 * k - 1) = 3 * k + 1 /\ 2 + 3 * k = 3 * k + 2
  BY Lengths
<1>10. \A k \in 1 .. U : abc[3 * k] = c[3 * k - 2] /\ abc[3 * k + 1] = c[3 * k - 1]
                           /\ abc[3 * k + 2] = c[3 * k]
  <2> SUFFICES ASSUME NEW k \in 1 .. U
               PROVE  /\ abc[3 * k] = c[3 * k - 2] /\ abc[3 * k + 1] = c[3 * k - 1]
                      /\ abc[3 * k + 2] = c[3 * k]
    OBVIOUS
  <2>1. /\ abc[2 + (3 * k - 2)] = c[3 * k - 2] /\ abc[2 + (3 * k - 1)] = c[3 * k - 1]
        /\ abc[2 + 3 * k] = c[3 * k]
    BY <1>7, <1>9
  <2> QED BY <1>9, <2>1
<1> QED BY <1>1, <1>2, <1>3, <1>4, <1>6, <1>8, <1>10

\* The parts one after the other.
LEMMA ProgramParts ==
    /\ Program \in Seq(Requests) /\ Len(Program) = 7 * N + 8 + 3 * U /\ LastPlanned = 5 * N + 4
    /\ \A i \in 1 .. 2 * N + 2 : Program[i] = Planning[i]
    /\ \A i \in 1 .. 3 * N + 2 : Program[2 * N + 2 + i] = Applying[i]
    /\ \A i \in 1 .. 2 * N + 2 : Program[5 * N + 4 + i] = Checking[i]
    /\ \A i \in 1 .. 2 + 3 * U : Program[7 * N + 6 + i] = Ending[i]
<1> DEFINE p == Planning \o Applying
           q == p \o Checking
           t == q \o Ending
<1>1. /\ p \in Seq(Requests) /\ Len(p) = (2 * N + 2) + (3 * N + 2)
      /\ \A i \in 1 .. 2 * N + 2 : p[i] = Planning[i]
      /\ \A i \in 1 .. 3 * N + 2 : p[(2 * N + 2) + i] = Applying[i]
  BY PlanningShape, ApplyingShape, Joined, SMTT(30)
<1>2. Len(p) = 5 * N + 4 /\ Len(p) = Len(Planning) + Len(Applying)
  BY <1>1, PlanningShape, ApplyingShape, Lengths
<1> HIDE DEF p
<1>3. /\ q \in Seq(Requests) /\ Len(q) = (5 * N + 4) + (2 * N + 2)
      /\ \A i \in 1 .. 5 * N + 4 : q[i] = p[i]
      /\ \A i \in 1 .. 2 * N + 2 : q[(5 * N + 4) + i] = Checking[i]
  <2>1. PICK m, n : m = 5 * N + 4 /\ n = 2 * N + 2
    OBVIOUS
  <2>2. Len(p) = m /\ Len(Checking) = n /\ Checking \in Seq(Requests)
    BY <1>2, <2>1, CheckingShape
  <2>3. /\ q \in Seq(Requests) /\ Len(q) = m + n
        /\ \A i \in 1 .. m : q[i] = p[i]
        /\ \A i \in 1 .. n : q[m + i] = Checking[i]
    BY <1>1, <2>2, Joined, SMTT(30)
  <2> QED BY <2>1, <2>3
<1>4. Len(q) = 7 * N + 6
  BY <1>3, Lengths
<1> HIDE DEF q
<1>5. /\ t \in Seq(Requests) /\ Len(t) = (7 * N + 6) + (2 + 3 * U)
      /\ \A i \in 1 .. 7 * N + 6 : t[i] = q[i]
      /\ \A i \in 1 .. 2 + 3 * U : t[(7 * N + 6) + i] = Ending[i]
  <2>1. PICK m, n : m = 7 * N + 6 /\ n = 2 + 3 * U
    OBVIOUS
  <2>2. Len(q) = m /\ Len(Ending) = n /\ Ending \in Seq(Requests)
    BY <1>4, <2>1, EndingShape
  <2>3. /\ t \in Seq(Requests) /\ Len(t) = m + n
        /\ \A i \in 1 .. m : t[i] = q[i]
        /\ \A i \in 1 .. n : t[m + i] = Ending[i]
    BY <1>3, <2>2, Joined, SMTT(30)
  <2> QED BY <2>1, <2>3
<1>6. Len(t) = 7 * N + 8 + 3 * U
  BY <1>5, Lengths
<1> HIDE DEF t
<1>7. Program = t
  BY DEF Program, p, q, t
<1>8. LastPlanned = 5 * N + 4
  BY <1>2 DEF LastPlanned
<1>9. \A i \in 1 .. 2 * N + 2 : /\ i \in 1 .. 5 * N + 4 /\ i \in 1 .. 7 * N + 6
                                /\ (5 * N + 4) + i \in 1 .. 7 * N + 6
  BY Lengths
<1>10. \A i \in 1 .. 3 * N + 2 : /\ (2 * N + 2) + i \in 1 .. 5 * N + 4
                                 /\ (2 * N + 2) + i \in 1 .. 7 * N + 6
  BY Lengths
<1>11. \A i \in 1 .. 2 * N + 2 : t[i] = Planning[i] /\ t[(5 * N + 4) + i] = Checking[i]
  BY <1>1, <1>3, <1>5, <1>9
<1>12. \A i \in 1 .. 3 * N + 2 : t[(2 * N + 2) + i] = Applying[i]
  BY <1>1, <1>3, <1>5, <1>10
<1> QED BY <1>5, <1>6, <1>7, <1>8, <1>11, <1>12

LEMMA ProgramAt ==
    /\ Program[1] = Request("plan", {Fields, Policies})
    /\ Program[2 * N + 2] = Request("plan", {Provider})
    /\ Program[2 * N + 3] = Request("apply", {Provider})
    /\ Program[5 * N + 4] = Request("apply", {Fields, Policies})
    /\ Program[7 * N + 5] = Request("verify", {Fields, Policies})
    /\ Program[7 * N + 6] = Request("verify", {Provider})
    /\ Program[7 * N + 7] = Request("plan", {Profile})
    /\ Program[7 * N + 8] = Request("apply", {Profile})
    /\ \A k \in 1 .. N :
         /\ Program[1 + k] = Request("plan", {Client(Clients[k])})
         /\ Program[N + 1 + k] = Request("plan", {Mapper(Clients[k])})
         /\ Program[2 * N + 2 + 2 * k] = Request("apply", {Client(Clients[k])})
         /\ Program[2 * N + 3 + 2 * k] = Request("created", {Client(Clients[k])})
         /\ Program[4 * N + 3 + k] = Request("apply", {Mapper(Clients[k])})
         /\ Program[5 * N + 4 + k] = Request("verify", {Client(Clients[k])})
         /\ Program[6 * N + 4 + k] = Request("verify", {Mapper(Clients[k])})
    /\ \A k \in 1 .. U :
         /\ Program[7 * N + 6 + 3 * k] = Request("plan", {User(Users[k])})
         /\ Program[7 * N + 7 + 3 * k] = Request("apply", {User(Users[k])})
         /\ Program[7 * N + 8 + 3 * k] = Request("verify", {User(Users[k])})
<1>1. /\ 1 \in 1 .. 2 * N + 2 /\ 2 * N + 2 \in 1 .. 2 * N + 2
      /\ 1 \in 1 .. 3 * N + 2 /\ 3 * N + 2 \in 1 .. 3 * N + 2
      /\ 2 * N + 1 \in 1 .. 2 * N + 2 /\ 1 \in 1 .. 2 + 3 * U /\ 2 \in 1 .. 2 + 3 * U
      /\ 2 * N + 2 + 1 = 2 * N + 3 /\ 2 * N + 2 + (3 * N + 2) = 5 * N + 4
      /\ 5 * N + 4 + (2 * N + 1) = 7 * N + 5 /\ 5 * N + 4 + (2 * N + 2) = 7 * N + 6
      /\ 7 * N + 6 + 1 = 7 * N + 7 /\ 7 * N + 6 + 2 = 7 * N + 8
  BY Lengths
<1>2. Program[1] = Planning[1] /\ Program[2 * N + 2] = Planning[2 * N + 2]
  BY <1>1, ProgramParts
<1>3. /\ Program[2 * N + 2 + 1] = Applying[1]
      /\ Program[2 * N + 2 + (3 * N + 2)] = Applying[3 * N + 2]
  BY <1>1, ProgramParts
<1>4. /\ Program[5 * N + 4 + (2 * N + 1)] = Checking[2 * N + 1]
      /\ Program[5 * N + 4 + (2 * N + 2)] = Checking[2 * N + 2]
  BY <1>1, ProgramParts
<1>5. Program[7 * N + 6 + 1] = Ending[1] /\ Program[7 * N + 6 + 2] = Ending[2]
  BY <1>1, ProgramParts
<1>6. ASSUME NEW k \in 1 .. N
      PROVE  /\ Program[1 + k] = Planning[1 + k] /\ Program[N + 1 + k] = Planning[N + 1 + k]
             /\ Program[2 * N + 2 + 2 * k] = Applying[2 * k]
             /\ Program[2 * N + 3 + 2 * k] = Applying[2 * k + 1]
             /\ Program[4 * N + 3 + k] = Applying[2 * N + 1 + k]
             /\ Program[5 * N + 4 + k] = Checking[k]
             /\ Program[6 * N + 4 + k] = Checking[N + k]
  <2>1. /\ 1 + k \in 1 .. 2 * N + 2 /\ N + 1 + k \in 1 .. 2 * N + 2
        /\ 2 * k \in 1 .. 3 * N + 2 /\ 2 * k + 1 \in 1 .. 3 * N + 2
        /\ 2 * N + 1 + k \in 1 .. 3 * N + 2 /\ k \in 1 .. 2 * N + 2 /\ N + k \in 1 .. 2 * N + 2
        /\ 2 * N + 2 + (2 * k + 1) = 2 * N + 3 + 2 * k
        /\ 2 * N + 2 + (2 * N + 1 + k) = 4 * N + 3 + k /\ 5 * N + 4 + (N + k) = 6 * N + 4 + k
    BY Lengths
  <2>2. Program[1 + k] = Planning[1 + k] /\ Program[N + 1 + k] = Planning[N + 1 + k]
    BY <2>1, ProgramParts
  <2>3. /\ Program[2 * N + 2 + 2 * k] = Applying[2 * k]
        /\ Program[2 * N + 2 + (2 * k + 1)] = Applying[2 * k + 1]
        /\ Program[2 * N + 2 + (2 * N + 1 + k)] = Applying[2 * N + 1 + k]
    BY <2>1, ProgramParts
  <2>4. Program[5 * N + 4 + k] = Checking[k] /\ Program[5 * N + 4 + (N + k)] = Checking[N + k]
    BY <2>1, ProgramParts
  <2> QED BY <2>1, <2>2, <2>3, <2>4
<1>7. ASSUME NEW k \in 1 .. U
      PROVE  /\ Program[7 * N + 6 + 3 * k] = Ending[3 * k]
             /\ Program[7 * N + 7 + 3 * k] = Ending[3 * k + 1]
             /\ Program[7 * N + 8 + 3 * k] = Ending[3 * k + 2]
  <2>1. /\ 3 * k \in 1 .. 2 + 3 * U /\ 3 * k + 1 \in 1 .. 2 + 3 * U /\ 3 * k + 2 \in 1 .. 2 + 3 * U
        /\ 7 * N + 6 + (3 * k + 1) = 7 * N + 7 + 3 * k
        /\ 7 * N + 6 + (3 * k + 2) = 7 * N + 8 + 3 * k
    BY Lengths
  <2>2. /\ Program[7 * N + 6 + 3 * k] = Ending[3 * k]
        /\ Program[7 * N + 6 + (3 * k + 1)] = Ending[3 * k + 1]
        /\ Program[7 * N + 6 + (3 * k + 2)] = Ending[3 * k + 2]
    BY <2>1, ProgramParts
  <2> QED BY <2>1, <2>2
<1>8. /\ Program[1] = Request("plan", {Fields, Policies})
      /\ Program[2 * N + 2] = Request("plan", {Provider})
  BY <1>2, PlanningShape
<1>9. /\ Program[2 * N + 3] = Request("apply", {Provider})
      /\ Program[5 * N + 4] = Request("apply", {Fields, Policies})
  BY <1>1, <1>3, ApplyingShape
<1>10. /\ Program[7 * N + 5] = Request("verify", {Fields, Policies})
       /\ Program[7 * N + 6] = Request("verify", {Provider})
  BY <1>1, <1>4, CheckingShape
<1>11. /\ Program[7 * N + 7] = Request("plan", {Profile})
       /\ Program[7 * N + 8] = Request("apply", {Profile})
  BY <1>1, <1>5, EndingShape
<1>12. \A k \in 1 .. N :
         /\ Program[1 + k] = Request("plan", {Client(Clients[k])})
         /\ Program[N + 1 + k] = Request("plan", {Mapper(Clients[k])})
  BY <1>6, PlanningShape
<1>13. \A k \in 1 .. N :
         /\ Program[2 * N + 2 + 2 * k] = Request("apply", {Client(Clients[k])})
         /\ Program[2 * N + 3 + 2 * k] = Request("created", {Client(Clients[k])})
         /\ Program[4 * N + 3 + k] = Request("apply", {Mapper(Clients[k])})
  BY <1>6, ApplyingShape
<1>14. \A k \in 1 .. N :
         /\ Program[5 * N + 4 + k] = Request("verify", {Client(Clients[k])})
         /\ Program[6 * N + 4 + k] = Request("verify", {Mapper(Clients[k])})
  BY <1>6, CheckingShape
<1>15. \A k \in 1 .. U :
         /\ Program[7 * N + 6 + 3 * k] = Request("plan", {User(Users[k])})
         /\ Program[7 * N + 7 + 3 * k] = Request("apply", {User(Users[k])})
         /\ Program[7 * N + 8 + 3 * k] = Request("verify", {User(Users[k])})
  BY <1>7, EndingShape
<1> QED BY <1>8, <1>9, <1>10, <1>11, <1>12, <1>13, <1>14, <1>15

\* Every position is one of those.
LEMMA Positions ==
    ASSUME NEW i \in 1 .. Len(Program)
    PROVE  \/ i \in {1, 2 * N + 2, 2 * N + 3, 5 * N + 4, 7 * N + 5, 7 * N + 6, 7 * N + 7, 7 * N + 8}
           \/ \E k \in 1 .. N : i \in {1 + k, N + 1 + k, 2 * N + 2 + 2 * k, 2 * N + 3 + 2 * k,
                                       4 * N + 3 + k, 5 * N + 4 + k, 6 * N + 4 + k}
           \/ \E k \in 1 .. U : i \in {7 * N + 6 + 3 * k, 7 * N + 7 + 3 * k, 7 * N + 8 + 3 * k}
<1>1. i \in Nat /\ 1 <= i /\ i <= 7 * N + 8 + 3 * U
  BY ProgramParts, Lengths
<1>2. CASE i \in 2 .. N + 1
  <2>1. i - 1 \in 1 .. N /\ i = 1 + (i - 1)
    BY <1>2, Lengths
  <2> QED BY <2>1
<1>3. CASE i \in N + 2 .. 2 * N + 1
  <2>1. i - N - 1 \in 1 .. N /\ i = N + 1 + (i - N - 1)
    BY <1>3, Lengths
  <2> QED BY <2>1
<1>4. CASE i \in 2 * N + 4 .. 4 * N + 3
  <2> DEFINE k == (i - 2 * N - 2) \div 2
  <2>1. k \in 1 .. N /\ (i = 2 * N + 2 + 2 * k \/ i = 2 * N + 3 + 2 * k)
    BY <1>4, Lengths
  <2> HIDE DEF k
  <2> QED BY <2>1
<1>5. CASE i \in 4 * N + 4 .. 5 * N + 3
  <2>1. i - 4 * N - 3 \in 1 .. N /\ i = 4 * N + 3 + (i - 4 * N - 3)
    BY <1>5, Lengths
  <2> QED BY <2>1
<1>6. CASE i \in 5 * N + 5 .. 6 * N + 4
  <2>1. i - 5 * N - 4 \in 1 .. N /\ i = 5 * N + 4 + (i - 5 * N - 4)
    BY <1>6, Lengths
  <2> QED BY <2>1
<1>7. CASE i \in 6 * N + 5 .. 7 * N + 4
  <2>1. i - 6 * N - 4 \in 1 .. N /\ i = 6 * N + 4 + (i - 6 * N - 4)
    BY <1>7, Lengths
  <2> QED BY <2>1
<1>8. CASE i > 7 * N + 8
  <2> DEFINE k == (i - 7 * N - 6) \div 3
  <2>1. k \in 1 .. U /\ (i = 7 * N + 6 + 3 * k \/ i = 7 * N + 7 + 3 * k \/ i = 7 * N + 8 + 3 * k)
    BY <1>1, <1>8, Lengths
  <2> HIDE DEF k
  <2> QED BY <2>1
<1> QED BY <1>1, <1>2, <1>3, <1>4, <1>5, <1>6, <1>7, <1>8, Lengths

(***************************************************************************)
(* What the order of the requests guarantees.                              *)
(***************************************************************************)
LEMMA Kinds ==
    /\ Provider[1] = "provider" /\ Fields[1] = "fields" /\ Policies[1] = "policies"
    /\ Profile[1] = "profile"
    /\ \A x : Client(x)[1] = "client" /\ Mapper(x)[1] = "mapper" /\ User(x)[1] = "user"
    /\ \A x, y : Mapper(x) = Mapper(y) => x = y
    /\ \A x : Mapper(x)[2] = x
BY DEF Provider, Fields, Policies, Profile, Client, Mapper, User

LEMMA RequestFields == \A op, S : Request(op, S).op = op /\ Request(op, S).on = S
BY DEF Request

LEMMA RealmAt ==
    /\ Program[1].op = "plan" /\ Program[1].on = {Fields, Policies}
    /\ Program[2 * N + 2].op = "plan" /\ Program[2 * N + 2].on = {Provider}
    /\ Program[2 * N + 3].op = "apply" /\ Program[2 * N + 3].on = {Provider}
    /\ Program[5 * N + 4].op = "apply" /\ Program[5 * N + 4].on = {Fields, Policies}
    /\ Program[7 * N + 5].op = "verify" /\ Program[7 * N + 5].on = {Fields, Policies}
    /\ Program[7 * N + 6].op = "verify" /\ Program[7 * N + 6].on = {Provider}
    /\ Program[7 * N + 7].op = "plan" /\ Program[7 * N + 7].on = {Profile}
    /\ Program[7 * N + 8].op = "apply" /\ Program[7 * N + 8].on = {Profile}
BY ProgramAt, RequestFields

LEMMA ClientAt ==
    ASSUME NEW k \in 1 .. N
    PROVE  /\ Program[1 + k].op = "plan" /\ Program[1 + k].on = {Client(Clients[k])}
           /\ Program[N + 1 + k].op = "plan" /\ Program[N + 1 + k].on = {Mapper(Clients[k])}
           /\ Program[2 * N + 2 + 2 * k].op = "apply" /\ Program[2 * N + 2 + 2 * k].on = {Client(Clients[k])}
           /\ Program[2 * N + 3 + 2 * k].op = "created" /\ Program[2 * N + 3 + 2 * k].on = {Client(Clients[k])}
           /\ Program[4 * N + 3 + k].op = "apply" /\ Program[4 * N + 3 + k].on = {Mapper(Clients[k])}
           /\ Program[5 * N + 4 + k].op = "verify" /\ Program[5 * N + 4 + k].on = {Client(Clients[k])}
           /\ Program[6 * N + 4 + k].op = "verify" /\ Program[6 * N + 4 + k].on = {Mapper(Clients[k])}
<1>1. /\ Program[1 + k] = Request("plan", {Client(Clients[k])})
      /\ Program[N + 1 + k] = Request("plan", {Mapper(Clients[k])})
      /\ Program[2 * N + 2 + 2 * k] = Request("apply", {Client(Clients[k])})
      /\ Program[2 * N + 3 + 2 * k] = Request("created", {Client(Clients[k])})
      /\ Program[4 * N + 3 + k] = Request("apply", {Mapper(Clients[k])})
      /\ Program[5 * N + 4 + k] = Request("verify", {Client(Clients[k])})
      /\ Program[6 * N + 4 + k] = Request("verify", {Mapper(Clients[k])})
  BY ProgramAt
<1> QED BY <1>1, RequestFields

LEMMA UserAt ==
    ASSUME NEW k \in 1 .. U
    PROVE  /\ Program[7 * N + 6 + 3 * k].op = "plan" /\ Program[7 * N + 6 + 3 * k].on = {User(Users[k])}
           /\ Program[7 * N + 7 + 3 * k].op = "apply" /\ Program[7 * N + 7 + 3 * k].on = {User(Users[k])}
           /\ Program[7 * N + 8 + 3 * k].op = "verify" /\ Program[7 * N + 8 + 3 * k].on = {User(Users[k])}
<1>1. /\ Program[7 * N + 6 + 3 * k] = Request("plan", {User(Users[k])})
      /\ Program[7 * N + 7 + 3 * k] = Request("apply", {User(Users[k])})
      /\ Program[7 * N + 8 + 3 * k] = Request("verify", {User(Users[k])})
  BY ProgramAt
<1> QED BY <1>1, RequestFields

LEMMA ApplyCases ==
    ASSUME NEW i \in 1 .. Len(Program), Program[i].op = "apply"
    PROVE  \/ i = 2 * N + 3 /\ Program[i].on = {Provider}
           \/ \E k \in 1 .. N : i = 2 * N + 2 + 2 * k /\ Program[i].on = {Client(Clients[k])}
           \/ \E k \in 1 .. N : i = 4 * N + 3 + k /\ Program[i].on = {Mapper(Clients[k])}
           \/ i = 5 * N + 4 /\ Program[i].on = {Fields, Policies}
           \/ i = 7 * N + 8 /\ Program[i].on = {Profile}
           \/ \E k \in 1 .. U : i = 7 * N + 7 + 3 * k /\ Program[i].on = {User(Users[k])}
<1>1. CASE i \in {1, 2 * N + 2, 2 * N + 3, 5 * N + 4, 7 * N + 5, 7 * N + 6, 7 * N + 7, 7 * N + 8}
  BY <1>1, RealmAt, SMTT(30)
<1>2. ASSUME NEW k \in 1 .. N, i \in {1 + k, N + 1 + k, 2 * N + 2 + 2 * k, 2 * N + 3 + 2 * k,
                                      4 * N + 3 + k, 5 * N + 4 + k, 6 * N + 4 + k}
      PROVE  (i = 2 * N + 2 + 2 * k /\ Program[i].on = {Client(Clients[k])})
               \/ (i = 4 * N + 3 + k /\ Program[i].on = {Mapper(Clients[k])})
  BY <1>2, ClientAt, SMTT(30)
<1>3. ASSUME NEW k \in 1 .. U, i \in {7 * N + 6 + 3 * k, 7 * N + 7 + 3 * k, 7 * N + 8 + 3 * k}
      PROVE  i = 7 * N + 7 + 3 * k /\ Program[i].on = {User(Users[k])}
  BY <1>3, UserAt
<1> QED BY <1>1, <1>2, <1>3, Positions, Zenon

LEMMA VerifyCases ==
    ASSUME NEW i \in 1 .. Len(Program), Program[i].op = "verify"
    PROVE  \/ i \in 5 * N + 5 .. 7 * N + 6
           \/ \E k \in 1 .. U : i = 7 * N + 8 + 3 * k /\ Program[i].on = {User(Users[k])}
<1>1. CASE i \in {1, 2 * N + 2, 2 * N + 3, 5 * N + 4, 7 * N + 5, 7 * N + 6, 7 * N + 7, 7 * N + 8}
  <2>1. i = 7 * N + 5 \/ i = 7 * N + 6
    BY <1>1, RealmAt
  <2> QED BY <2>1, Lengths
<1>2. ASSUME NEW k \in 1 .. N, i \in {1 + k, N + 1 + k, 2 * N + 2 + 2 * k, 2 * N + 3 + 2 * k,
                                      4 * N + 3 + k, 5 * N + 4 + k, 6 * N + 4 + k}
      PROVE  i \in 5 * N + 5 .. 7 * N + 6
  <2>1. i = 5 * N + 4 + k \/ i = 6 * N + 4 + k
    BY <1>2, ClientAt
  <2> QED BY <2>1, Lengths
<1>3. ASSUME NEW k \in 1 .. U, i \in {7 * N + 6 + 3 * k, 7 * N + 7 + 3 * k, 7 * N + 8 + 3 * k}
      PROVE  i = 7 * N + 8 + 3 * k /\ Program[i].on = {User(Users[k])}
  BY <1>3, UserAt
<1> QED BY <1>1, <1>2, <1>3, Positions, Zenon

LEMMA VerifyIsLate ==
    ASSUME NEW i \in 1 .. Len(Program), Program[i].op = "verify"
    PROVE  i > 5 * N + 4
<1>1. CASE i \in 5 * N + 5 .. 7 * N + 6
  BY <1>1, Lengths
<1>2. ASSUME NEW k \in 1 .. U, i = 7 * N + 8 + 3 * k
      PROVE  i > 5 * N + 4
  BY <1>2, Lengths
<1> QED BY <1>1, <1>2, VerifyCases, Zenon

LEMMA CreatedCases ==
    ASSUME NEW i \in 1 .. Len(Program), Program[i].op = "created"
    PROVE  \E k \in 1 .. N : i = 2 * N + 3 + 2 * k /\ Program[i].on = {Client(Clients[k])}
<1>1. CASE i \in {1, 2 * N + 2, 2 * N + 3, 5 * N + 4, 7 * N + 5, 7 * N + 6, 7 * N + 7, 7 * N + 8}
  BY <1>1, RealmAt
<1>2. ASSUME NEW k \in 1 .. N, i \in {1 + k, N + 1 + k, 2 * N + 2 + 2 * k, 2 * N + 3 + 2 * k,
                                      4 * N + 3 + k, 5 * N + 4 + k, 6 * N + 4 + k}
      PROVE  i = 2 * N + 3 + 2 * k /\ Program[i].on = {Client(Clients[k])}
  BY <1>2, ClientAt
<1>3. ASSUME NEW k \in 1 .. U, i \in {7 * N + 6 + 3 * k, 7 * N + 7 + 3 * k, 7 * N + 8 + 3 * k}
      PROVE  FALSE
  BY <1>3, UserAt
<1> QED BY <1>1, <1>2, <1>3, Positions, Zenon

\* What is read stays in the plan until it is applied, or until something is
\* verified; a client stays.
Keeps(q, o) == o[1] = "client" \/ (q.op # "verify" /\ (q.op = "apply" => o \notin q.on))
HeldAt(i, o) ==
    \E j \in 1 .. i - 1 : /\ Program[j].op = "plan" /\ o \in Program[j].on
                          /\ \A l \in j + 1 .. i - 1 : Keeps(Program[l], o)

\* Everything that is applied has been read, and is still in the plan.
LEMMA AppliedIsHeld ==
    ASSUME NEW i \in 1 .. Len(Program), Program[i].op = "apply", NEW o \in Program[i].on
    PROVE  HeldAt(i, o)
<1>1. CASE i = 2 * N + 3 /\ Program[i].on = {Provider}
  <2>1. Program[2 * N + 2].op = "plan" /\ o \in Program[2 * N + 2].on
    BY <1>1, RealmAt
  <2>2. 2 * N + 2 \in 1 .. i - 1 /\ \A l \in 2 * N + 2 + 1 .. i - 1 : FALSE
    BY <1>1, Lengths
  <2> QED BY <2>1, <2>2 DEF HeldAt
<1>2. ASSUME NEW k \in 1 .. N, i = 2 * N + 2 + 2 * k, Program[i].on = {Client(Clients[k])}
      PROVE  HeldAt(i, o)
  <2>1. Program[1 + k].op = "plan" /\ o \in Program[1 + k].on /\ o[1] = "client"
    BY <1>2, ClientAt, Kinds
  <2>2. 1 + k \in 1 .. i - 1
    BY <1>2, Lengths
  <2> QED BY <2>1, <2>2 DEF HeldAt, Keeps
<1>3. ASSUME NEW k \in 1 .. N, i = 4 * N + 3 + k, Program[i].on = {Mapper(Clients[k])}
      PROVE  HeldAt(i, o)
  <2>1. Program[N + 1 + k].op = "plan" /\ o \in Program[N + 1 + k].on /\ o = Mapper(Clients[k])
    BY <1>3, ClientAt
  <2>2. N + 1 + k \in 1 .. i - 1
    BY <1>3, Lengths
  <2>3. ASSUME NEW l \in N + 1 + k + 1 .. i - 1 PROVE Keeps(Program[l], o)
    <3>1. l \in 1 .. Len(Program) /\ l < 4 * N + 3 + k /\ l \in Nat
      <4>1. Len(Program) = 7 * N + 8 + 3 * U
        BY ProgramParts
      <4> QED BY <1>3, <4>1, Lengths
    <3>2. Program[l].op # "verify"
      <4>1. ~(l > 5 * N + 4)
        BY <3>1, Lengths
      <4> QED BY <3>1, <4>1, VerifyIsLate
    <3>3. ASSUME Program[l].op = "apply" PROVE o \notin Program[l].on
      <4>1. \/ Program[l].on = {Provider} \/ \E k2 \in 1 .. N : Program[l].on = {Client(Clients[k2])}
            \/ \E k2 \in 1 .. N : l = 4 * N + 3 + k2 /\ Program[l].on = {Mapper(Clients[k2])}
            \/ l >= 5 * N + 4
        BY <3>1, <3>3, ApplyCases, Lengths
      <4>2. ASSUME NEW k2 \in 1 .. N, l = 4 * N + 3 + k2, Program[l].on = {Mapper(Clients[k2])}
            PROVE  o \notin Program[l].on
        <5>1. k2 # k
          BY <3>1, <4>2, Lengths
        <5>2. Clients[k2] # Clients[k]
          BY <5>1, Lengths, SyncAssumption DEF IsInjective
        <5> QED BY <2>1, <4>2, <5>2, Kinds
      <4>3. l < 5 * N + 4
        BY <3>1, Lengths
      <4>4. o[1] = "mapper"
        BY <2>1, Kinds
      <4>5. Provider[1] # "mapper" /\ \A x : Client(x)[1] # "mapper"
        BY Kinds
      <4>6. ~(l >= 5 * N + 4)
        BY <3>1, <4>3, Lengths
      <4>7. ASSUME NEW x, Program[l].on = {x}, x[1] # "mapper" PROVE o \notin Program[l].on
        BY <4>4, <4>7
      <4> QED BY <4>1, <4>2, <4>5, <4>6, <4>7, Zenon
    <3> QED BY <3>2, <3>3 DEF Keeps
  <2> QED BY <2>1, <2>2, <2>3 DEF HeldAt
<1>4. CASE i = 5 * N + 4 /\ Program[i].on = {Fields, Policies}
  <2>1. Program[1].op = "plan" /\ o \in Program[1].on
    BY <1>4, RealmAt
  <2>2. 1 \in 1 .. i - 1
    BY <1>4, Lengths
  <2>3. ASSUME NEW l \in 1 + 1 .. i - 1 PROVE Keeps(Program[l], o)
    <3>1. l \in 1 .. Len(Program) /\ l < 5 * N + 4 /\ l \in Nat
      BY <1>4, ProgramParts, Lengths
    <3>2. Program[l].op # "verify"
      <4>1. ~(l > 5 * N + 4)
        BY <3>1, Lengths
      <4> QED BY <3>1, <4>1, VerifyIsLate
    <3>3. ASSUME Program[l].op = "apply" PROVE o \notin Program[l].on
      <4>1. \/ Program[l].on = {Provider} \/ \E k2 \in 1 .. N : Program[l].on = {Client(Clients[k2])}
            \/ \E k2 \in 1 .. N : Program[l].on = {Mapper(Clients[k2])}
            \/ l >= 5 * N + 4
        BY <3>1, <3>3, ApplyCases, Lengths
      <4>2. o[1] = "fields" \/ o[1] = "policies"
        BY <1>4, Kinds
      <4> QED BY <3>1, <4>1, <4>2, Kinds, Lengths
    <3> QED BY <3>2, <3>3 DEF Keeps
  <2> QED BY <2>1, <2>2, <2>3 DEF HeldAt
<1>5. CASE i = 7 * N + 8 /\ Program[i].on = {Profile}
  <2>1. Program[7 * N + 7].op = "plan" /\ o \in Program[7 * N + 7].on
    BY <1>5, RealmAt
  <2>2. 7 * N + 7 \in 1 .. i - 1 /\ \A l \in 7 * N + 7 + 1 .. i - 1 : FALSE
    BY <1>5, Lengths
  <2> QED BY <2>1, <2>2 DEF HeldAt
<1>6. ASSUME NEW k \in 1 .. U, i = 7 * N + 7 + 3 * k, Program[i].on = {User(Users[k])}
      PROVE  HeldAt(i, o)
  <2>1. Program[7 * N + 6 + 3 * k].op = "plan" /\ o \in Program[7 * N + 6 + 3 * k].on
    BY <1>6, UserAt
  <2>2. /\ 7 * N + 6 + 3 * k \in 1 .. i - 1
        /\ \A l \in 7 * N + 6 + 3 * k + 1 .. i - 1 : FALSE
    BY <1>6, Lengths
  <2> QED BY <2>1, <2>2 DEF HeldAt
<1> QED BY <1>1, <1>2, <1>3, <1>4, <1>5, <1>6, ApplyCases, Zenon

\* After the last planned write every object is verified or, the profile, written.
LEMMA EverythingIsChecked ==
    ASSUME NEW o \in Objects
    PROVE  \E i \in LastPlanned + 1 .. Len(Program) :
             Program[i].op \in {"verify", "apply"} /\ o \in Program[i].on
<1>1. LastPlanned + 1 = 5 * N + 5 /\ Len(Program) = 7 * N + 8 + 3 * U
  BY ProgramParts, Lengths
<1>2. CASE o = Provider
  <2>1. 7 * N + 6 \in LastPlanned + 1 .. Len(Program)
    BY <1>1, Lengths
  <2> QED BY <1>2, <2>1, RealmAt
<1>3. CASE o = Fields \/ o = Policies
  <2>1. 7 * N + 5 \in LastPlanned + 1 .. Len(Program)
    BY <1>1, Lengths
  <2> QED BY <1>3, <2>1, RealmAt
<1>4. CASE o = Profile
  <2>1. 7 * N + 8 \in LastPlanned + 1 .. Len(Program)
    BY <1>1, Lengths
  <2> QED BY <1>4, <2>1, RealmAt
<1>5. ASSUME NEW k \in 1 .. N, o = Client(Clients[k])
      PROVE  \E i \in LastPlanned + 1 .. Len(Program) :
               Program[i].op \in {"verify", "apply"} /\ o \in Program[i].on
  <2>1. 5 * N + 4 + k \in LastPlanned + 1 .. Len(Program)
    BY <1>1, Lengths
  <2> QED BY <1>5, <2>1, ClientAt
<1>6. ASSUME NEW k \in 1 .. N, o = Mapper(Clients[k])
      PROVE  \E i \in LastPlanned + 1 .. Len(Program) :
               Program[i].op \in {"verify", "apply"} /\ o \in Program[i].on
  <2>1. 6 * N + 4 + k \in LastPlanned + 1 .. Len(Program)
    BY <1>1, Lengths
  <2> QED BY <1>6, <2>1, ClientAt
<1>7. ASSUME NEW k \in 1 .. U, o = User(Users[k])
      PROVE  \E i \in LastPlanned + 1 .. Len(Program) :
               Program[i].op \in {"verify", "apply"} /\ o \in Program[i].on
  <2>1. 7 * N + 8 + 3 * k \in LastPlanned + 1 .. Len(Program)
    BY <1>1, Lengths
  <2> QED BY <1>7, <2>1, UserAt
<1>8. \/ o = Provider \/ o = Fields \/ o = Policies \/ o = Profile
      \/ \E k \in 1 .. N : o = Client(Clients[k]) \/ o = Mapper(Clients[k])
      \/ \E k \in 1 .. U : o = User(Users[k])
  BY Lengths DEF Objects, Range
<1> QED BY <1>2, <1>3, <1>4, <1>5, <1>6, <1>7, <1>8, Zenon
-----------------------------------------------------------------------------
(***************************************************************************)
(* The inductive invariant.  A plan is a memory of the realm that may be   *)
(* stale when it is written, so both promises need to say what a pending   *)
(* plan still knows (Planned): ids only grow, an entry whose id is the one *)
(* read has not become a foreign component, and unless the object was      *)
(* edited since, the unmanaged part read is the one the administrator left.*)
(***************************************************************************)
Shapes == [copies : Nat, m : {"desired", "drifted", "foreign"}, other : Nat, id : Nat]
Views  == UNION {[D -> Shapes] : D \in SUBSET Objects}
Execution == [pc : Nat, phase : {"idle", "running", "done", "failed"}, tries : Nat, view : Views]

SyncTypes ==
    /\ store \in [Objects -> Shapes]
    /\ run \in [Runs -> Execution]
    /\ late \subseteq [on : SUBSET Objects, view : Views]
    /\ edits \in Nat
    /\ once \in [Runs -> SUBSET Objects]
    /\ outside \in [Objects -> Nat]

\* The realm stays one Keycloak can hold, and what is not there is not owed anything.
RealmOK == Realm(store) /\ \A o \in Objects : store[o].copies = 0 => outside[o] = 0

KeptOK ==
    \A o \in Objects : store[o].copies >= 1 /\ (o \notin raced \/ ~Echoes(o)) =>
        store[o].other = outside[o]

Planned(o, v) ==
    /\ v.copies <= 1 /\ v.id <= store[o].id
    /\ o[1] = "user" => v.copies = 1
    /\ v.copies = 1 /\ store[o].copies >= 1 /\ v.id = store[o].id => store[o].m # "foreign"
    /\ v.copies = 1 /\ o \notin raced /\ Echoes(o) => v.other = outside[o]

\* What a run knows at its place in the program.  Success is reported from once
\* (O): it holds what is desired now, and what was verified or written since the
\* check began.
Fit(e, O) ==
    /\ \A o \in DOMAIN e.view : Planned(o, e.view[o])
    /\ \A o \in Objects : HeldAt(e.pc, o) => o \in DOMAIN e.view
    /\ Good(store) \subseteq O
    /\ \A i \in LastPlanned + 1 .. Len(Program) :
         i < e.pc /\ Program[i].op \in {"verify", "apply"} => Program[i].on \subseteq O

RunsOK == \A r \in Running : Fit(run[r], once[r])

LateFit(w) ==
    /\ Provider \in w.on => w.on = {Provider}
    /\ \A o \in w.on : o \in DOMAIN w.view /\ Planned(o, w.view[o])

LateOK == \A w \in late : LateFit(w)

SyncInv == SyncTypes /\ RealmOK /\ KeptOK /\ RunsOK /\ LateOK

LEMMA ViewFacts ==
    ASSUME NEW v \in Views
    PROVE  /\ DOMAIN v \subseteq Objects /\ v \in [DOMAIN v -> Shapes]
           /\ \A o \in DOMAIN v : v[o] \in Shapes
<1>1. PICK D \in SUBSET Objects : v \in [D -> Shapes]
  BY DEF Views
<1>2. DOMAIN v = D
  BY <1>1
<1> QED BY <1>1, <1>2

LEMMA IsView ==
    ASSUME NEW D \in SUBSET Objects, NEW v \in [D -> Shapes]
    PROVE  v \in Views
BY DEF Views

LEMMA ParentIsObject ==
    ASSUME NEW o \in Objects, o[1] = "mapper"
    PROVE  Client(o[2]) \in Objects /\ Client(o[2]) # Provider /\ o # Provider
BY Kinds DEF Objects

\* One write, as the server carries it out.
LEMMA WrittenFields ==
    ASSUME NEW o \in Objects, store[o] \in Shapes, NEW v \in Shapes
    PROVE  /\ Written(o, v) \in Shapes
           /\ Written(o, v).id = store[o].id /\ Written(o, v).m = "desired"
           /\ Written(o, v).copies = IF v.copies = 0 THEN store[o].copies + 1 ELSE store[o].copies
           /\ Written(o, v).other = IF v.copies = 0
                                      THEN (IF store[o].copies = 0 THEN 0 ELSE store[o].other)
                                      ELSE Body(o, v)
<1>1. Body(o, v) \in Nat
  BY DEF Body, Shapes
<1> DEFINE b == Body(o, v)
           z == IF store[o].copies = 0 THEN 0 ELSE store[o].other
<1>2. z \in Nat /\ b \in Nat /\ store[o].copies + 1 \in Nat /\ store[o].copies \in Nat
  BY <1>1 DEF Shapes
<1>3. CASE v.copies = 0
  <2>1. Written(o, v) = [store[o] EXCEPT !.copies = store[o].copies + 1, !.m = "desired", !.other = z]
    BY <1>3 DEF Written
  <2> HIDE DEF z
  <2> QED BY <1>2, <1>3, <2>1 DEF Shapes, z
<1>4. CASE v.copies # 0
  <2>1. Written(o, v) = [store[o] EXCEPT !.m = "desired", !.other = b]
    BY <1>4 DEF Written
  <2> HIDE DEF b
  <2> QED BY <1>2, <1>4, <2>1 DEF Shapes, b
<1> QED BY <1>3, <1>4

\* What a request of the script that is carried out does to the realm, however
\* stale its plan is.
Carried(S, view) ==
    /\ S \subseteq Objects /\ view \in Views /\ S \subseteq DOMAIN view
    /\ \A o \in S : Planned(o, view[o]) /\ Accepts(o, view)
    /\ Provider \in S => S = {Provider}

LEMMA WriteEffect ==
    ASSUME SyncTypes, RealmOK, KeptOK, NEW S, NEW view, Carried(S, view),
           store' = StoreAfter(S, view), UNCHANGED <<outside, raced>>
    PROVE  /\ store' \in [Objects -> Shapes]
           /\ \A o \in Objects \ S : store'[o] = store[o]
           /\ \A o \in Objects : store'[o].id = store[o].id /\ store'[o].copies >= store[o].copies
           /\ \A o \in S : /\ store'[o].m = "desired" /\ store'[o].copies >= 1
                           /\ o # Provider => store'[o].copies = 1
                           /\ store[o].copies >= 1 => (store'[o].copies = store[o].copies
                                \/ (o = Provider /\ store'[o].copies > 1))
                           /\ store[o].copies >= 1 /\ store'[o].copies = store[o].copies =>
                                store[o].m # "foreign"
                           /\ o[1] = "user" => store[o].copies = 1
<1> USE DEF SyncTypes
<1>1. ASSUME NEW o \in S PROVE o \in Objects /\ view[o] \in Shapes /\ store[o] \in Shapes
  BY ViewFacts DEF Carried
<1>2. ASSUME NEW o \in S PROVE store'[o] = Written(o, view[o])
  BY <1>1 DEF StoreAfter
<1>3. \A o \in Objects \ S : store'[o] = store[o]
  BY DEF StoreAfter
<1>4. store' \in [Objects -> Shapes]
  <2>1. \A o \in Objects : store'[o] \in Shapes
    BY <1>1, <1>2, <1>3, WrittenFields
  <2> QED BY <2>1 DEF StoreAfter
<1>5. ASSUME NEW o \in S
      PROVE  /\ store'[o].id = store[o].id /\ store'[o].copies >= store[o].copies
             /\ store'[o].m = "desired" /\ store'[o].copies >= 1
             /\ o # Provider => store'[o].copies = 1
             /\ store[o].copies >= 1 => (store'[o].copies = store[o].copies
                  \/ (o = Provider /\ store'[o].copies > 1))
             /\ store[o].copies >= 1 /\ store'[o].copies = store[o].copies =>
                  store[o].m # "foreign"
             /\ o[1] = "user" => store[o].copies = 1
  <2> DEFINE v == view[o]
  <2>1. /\ o \in Objects /\ v \in Shapes /\ store[o] \in Shapes
        /\ v.copies \in Nat /\ store[o].copies \in Nat /\ v.copies <= 1
        /\ Planned(o, v)
    BY <1>1 DEF Carried, Planned, Shapes
  <2>2. /\ store'[o].id = store[o].id /\ store'[o].m = "desired"
        /\ store'[o].copies = IF v.copies = 0 THEN store[o].copies + 1 ELSE store[o].copies
    BY <1>2, <2>1, WrittenFields
  <2>3. /\ v.copies = 0 => o = Provider \/ store[o].copies = 0
        /\ v.copies # 0 => store[o].copies >= 1 /\ store[o].id = v.id
    BY DEF Carried, Accepts
  <2>4. o # Provider => store[o].copies <= 1
    BY <2>1 DEF RealmOK, Realm
  <2>5. /\ o[1] = "user" => v.copies = 1
        /\ v.copies = 1 /\ store[o].copies >= 1 /\ v.id = store[o].id => store[o].m # "foreign"
    BY <2>1 DEF Planned
  <2>6. o[1] = "user" => o # Provider
    BY Kinds
  <2>7. store[o].id \in Nat
    BY <2>1 DEF Shapes
  <2> HIDE DEF v
  <2>8. CASE v.copies = 0
    BY <2>1, <2>2, <2>3, <2>4, <2>5, <2>6, <2>8
  <2>9. CASE v.copies = 1
    BY <2>1, <2>2, <2>3, <2>4, <2>5, <2>6, <2>9
  <2> QED BY <2>1, <2>8, <2>9
<1>6. \A o \in Objects : store'[o].id = store[o].id /\ store'[o].copies >= store[o].copies
  <2> SUFFICES ASSUME NEW o \in Objects
               PROVE  store'[o].id = store[o].id /\ store'[o].copies >= store[o].copies
    OBVIOUS
  <2>1. store[o].copies \in Nat
    BY DEF Shapes
  <2> QED BY <1>3, <1>5, <2>1
<1> QED BY <1>3, <1>4, <1>5, <1>6

LEMMA WriteKeeps ==
    ASSUME SyncTypes, RealmOK, KeptOK, NEW S, NEW view, Carried(S, view),
           store' = StoreAfter(S, view), UNCHANGED <<outside, raced>>
    PROVE  /\ RealmOK' /\ KeptOK'
           /\ \A o \in Objects : \A v \in Shapes : Planned(o, v) => Planned(o, v)'
<1> USE DEF SyncTypes
<1>1. /\ store' \in [Objects -> Shapes]
      /\ \A o \in Objects \ S : store'[o] = store[o]
      /\ \A o \in Objects : store'[o].id = store[o].id /\ store'[o].copies >= store[o].copies
  BY WriteEffect
<1>2. \A o \in S : /\ store'[o].m = "desired" /\ store'[o].copies >= 1
                   /\ o # Provider => store'[o].copies = 1
  BY WriteEffect
<1>3. ASSUME NEW o \in Objects
      PROVE  store[o] \in Shapes /\ store'[o] \in Shapes /\ store[o].copies \in Nat
               /\ store'[o].copies \in Nat /\ store[o].id \in Nat
  BY <1>1 DEF Shapes
<1>4. RealmOK'
  <2> SUFFICES ASSUME NEW o \in Objects
               PROVE  /\ o # Provider => store'[o].copies <= 1 /\ store'[o].m # "foreign"
                      /\ store'[o].copies = 0 => store'[o].m = "drifted" /\ store'[o].other = 0
                      /\ o[1] = "mapper" /\ store'[o].copies > 0 => store'[Client(o[2])].copies = 1
                      /\ store'[o].copies = 0 => outside'[o] = 0
    BY DEF RealmOK, Realm
  <2>1. /\ o # Provider => store[o].copies <= 1 /\ store[o].m # "foreign"
        /\ store[o].copies = 0 => store[o].m = "drifted" /\ store[o].other = 0
        /\ o[1] = "mapper" /\ store[o].copies > 0 => store[Client(o[2])].copies = 1
        /\ store[o].copies = 0 => outside[o] = 0
    BY DEF RealmOK, Realm
  <2>2. o # Provider => store'[o].copies <= 1 /\ store'[o].m # "foreign"
    BY <1>1, <1>2, <1>3, <2>1
  <2>3. store'[o].copies = 0 => store'[o].m = "drifted" /\ store'[o].other = 0 /\ outside'[o] = 0
    BY <1>1, <1>2, <1>3, <2>1
  <2>4. ASSUME o[1] = "mapper", store'[o].copies > 0 PROVE store'[Client(o[2])].copies = 1
    <3> DEFINE c == Client(o[2])
    <3>1. c \in Objects /\ c # Provider
      BY <2>4, ParentIsObject
    <3>2. store[c].copies = 1
      <4>1. CASE o \in S
        BY <2>4, <4>1 DEF Carried, Accepts, ParentKept
      <4>2. CASE o \notin S
        BY <1>1, <2>1, <2>4, <4>2
      <4> QED BY <4>1, <4>2
    <3>3. store'[c].copies = store[c].copies \/ store'[c].copies = 1
      BY <1>1, <1>2, <3>1
    <3> QED BY <3>2, <3>3
  <2> QED BY <2>2, <2>3, <2>4
<1>5. KeptOK'
  <2> SUFFICES ASSUME NEW o \in Objects, store'[o].copies >= 1, o \notin raced \/ ~Echoes(o)
               PROVE  store'[o].other = outside[o]
    BY DEF KeptOK
  <2>1. CASE o \notin S
    BY <1>1, <2>1 DEF KeptOK
  <2>2. CASE o \in S
    <3> DEFINE v == view[o]
    <3>1. v \in Shapes /\ Planned(o, v) /\ v.copies \in Nat /\ v.copies <= 1
      BY <2>2, ViewFacts DEF Carried, Planned, Shapes
    <3>2. store'[o] = Written(o, v)
      BY <2>2 DEF StoreAfter
    <3>3. store'[o].other = IF v.copies = 0 THEN (IF store[o].copies = 0 THEN 0 ELSE store[o].other)
                            ELSE Body(o, v)
      BY <1>3, <3>1, <3>2, WrittenFields
    <3>4. CASE v.copies = 0
      <4>1. CASE store[o].copies = 0
        BY <3>3, <3>4, <4>1 DEF RealmOK
      <4>2. CASE store[o].copies # 0
        <5>1. store[o].copies >= 1
          BY <1>3, <4>2
        <5> QED BY <3>3, <3>4, <4>2, <5>1 DEF KeptOK
      <4> QED BY <4>1, <4>2
    <3>5. CASE v.copies = 1
      <4>1. store[o].copies >= 1
        BY <2>2, <3>5 DEF Carried, Accepts
      <4>2. store'[o].other = Body(o, v)
        BY <3>3, <3>5
      <4>3. CASE Echoes(o)
        BY <3>1, <3>5, <4>2, <4>3 DEF Planned, Body
      <4>4. CASE ~Echoes(o)
        BY <4>1, <4>2, <4>4 DEF KeptOK, Body
      <4> QED BY <4>3, <4>4
    <3> HIDE DEF v
    <3> QED BY <3>1, <3>4, <3>5
  <2> QED BY <2>1, <2>2
<1>6. ASSUME NEW o \in Objects, NEW v \in Shapes, Planned(o, v)
      PROVE  Planned(o, v)'
  <2>1. /\ v.copies <= 1 /\ v.id <= store'[o].id
        /\ o[1] = "user" => v.copies = 1
        /\ v.copies = 1 /\ o \notin raced' /\ Echoes(o) => v.other = outside'[o]
    BY <1>1, <1>6 DEF Planned
  <2>2. v.copies = 1 /\ store'[o].copies >= 1 /\ v.id = store'[o].id => store'[o].m # "foreign"
    <3>1. CASE o \in S
      BY <1>2, <3>1
    <3>2. CASE o \notin S
      BY <1>1, <1>6, <3>2 DEF Planned
    <3> QED BY <3>1, <3>2
  <2> QED BY <2>1, <2>2 DEF Planned
<1> QED BY <1>4, <1>5, <1>6

(***************************************************************************)
(* Steps.                                                                  *)
(***************************************************************************)
\* A step keeps the invariant if it leaves plans as good as they were.
LEMMA StepKeeps ==
    ASSUME SyncInv, SyncTypes', RealmOK', KeptOK',
           \A o \in Objects : \A v \in Shapes : Pending(o) /\ Planned(o, v) => Planned(o, v)',
           \A q \in Runs : (run[q].phase = "running")' =>
               \/ run'[q] = run[q] /\ once[q] \subseteq once'[q] /\ Good(store') \subseteq once'[q]
               \/ Fit(run[q], once[q])',
           \A w \in late' : w \in late \/ LateFit(w)'
    PROVE  SyncInv'
<1>1. ASSUME NEW q \in Runs, (run[q].phase = "running")' PROVE Fit(run[q], once[q])'
  <2> SUFFICES ASSUME run'[q] = run[q], once[q] \subseteq once'[q], Good(store') \subseteq once'[q]
               PROVE  Fit(run[q], once[q])'
    BY <1>1
  <2>1. q \in Running /\ Fit(run[q], once[q])
    BY <1>1 DEF Running, SyncInv, RunsOK
  <2>2. ASSUME NEW o \in DOMAIN run[q].view PROVE Planned(o, run[q].view[o])'
    <3>1. run[q].view \in Views
      BY DEF SyncInv, SyncTypes, Execution
    <3>2. o \in Objects /\ run[q].view[o] \in Shapes
      BY <3>1, ViewFacts
    <3>3. Pending(o) /\ Planned(o, run[q].view[o])
      BY <2>1 DEF Pending, Fit
    <3>4. \A v \in Shapes : v = run[q].view[o] => Planned(o, v)'
      BY <3>2, <3>3
    <3>5. PICK v \in Shapes : v = run[q].view[o]
      BY <3>2
    <3>6. run'[q].view[o] = v /\ Planned(o, v)'
      BY <3>4, <3>5
    <3> QED BY <3>6 DEF Planned
  <2>3. \A o \in DOMAIN run'[q].view : Planned(o, run[q].view[o])'
    BY <2>2
  <2> QED BY <2>1, <2>3 DEF Fit, Good
<1>2. RunsOK'
  BY <1>1 DEF RunsOK, Running
<1>3. ASSUME NEW w \in late PROVE LateFit(w)'
  <2>1. LateFit(w) /\ w.view \in Views
    BY DEF SyncInv, SyncTypes, LateOK
  <2>2. ASSUME NEW o \in w.on PROVE o \in DOMAIN w.view /\ Planned(o, w.view[o])'
    <3>1. o \in DOMAIN w.view /\ Planned(o, w.view[o]) /\ Pending(o)
      BY <2>1 DEF LateFit, Pending
    <3>2. o \in Objects /\ w.view[o] \in Shapes
      BY <2>1, <3>1, ViewFacts
    <3> QED BY <3>1, <3>2
  <2> QED BY <2>1, <2>2 DEF LateFit
<1>4. LateOK'
  BY <1>3 DEF LateOK
<1> QED BY <1>2, <1>4 DEF SyncInv

LEMMA EmptyView == << >> \in Views /\ DOMAIN << >> = {}
<1>1. << >> \in [{} -> Shapes] /\ DOMAIN << >> = {}
  OBVIOUS
<1> QED BY <1>1, IsView

LEMMA IdleForms ==
    /\ Idle \in Execution
    /\ [Idle EXCEPT !.phase = "failed"] \in Execution /\ [Idle EXCEPT !.phase = "failed"].phase = "failed"
    /\ [Idle EXCEPT !.phase = "done"] \in Execution /\ [Idle EXCEPT !.phase = "done"].phase = "done"
    /\ [Idle EXCEPT !.phase = "running"] =
         [pc |-> 0, phase |-> "running", tries |-> 0, view |-> << >>]
    /\ [Idle EXCEPT !.phase = "running"] \in Execution
BY EmptyView DEF Idle, Execution

\* A step of one run that changes nothing else.
LEMMA LocalStep ==
    ASSUME SyncInv, NEW r \in Runs, NEW e \in Execution, run' = [run EXCEPT ![r] = e],
           UNCHANGED <<store, late, edits, once, outside, raced>>,
           e.phase = "running" => Fit(e, once[r])
    PROVE  SyncInv'
<1>1. run' \in [Runs -> Execution] /\ run'[r] = e /\ \A q \in Runs \ {r} : run'[q] = run[q]
  BY DEF SyncInv, SyncTypes
<1>2. SyncTypes' /\ RealmOK' /\ KeptOK'
  BY <1>1 DEF SyncInv, SyncTypes, RealmOK, KeptOK
<1>3. \A o \in Objects : \A v \in Shapes : Planned(o, v) => Planned(o, v)'
  BY DEF Planned
<1>4. ASSUME NEW q \in Runs, (run[q].phase = "running")'
      PROVE  \/ run'[q] = run[q] /\ once[q] \subseteq once'[q] /\ Good(store') \subseteq once'[q]
             \/ Fit(run[q], once[q])'
  <2>1. CASE q = r
    <3>1. Fit(e, once[r])
      BY <1>1, <1>4, <2>1
    <3>2. Fit(run[r], once[r])'
      BY <1>1, <3>1 DEF Fit, Planned
    <3> QED BY <2>1, <3>2
  <2>2. CASE q # r
    BY <1>1, <1>4, <2>2 DEF SyncInv, RunsOK, Running, Fit
  <2> QED BY <2>1, <2>2
<1> QED BY <1>2, <1>3, <1>4, StepKeeps

LEMMA FailKeeps ==
    ASSUME SyncInv, NEW r \in Runs, Fail(r), UNCHANGED <<store, late, edits, once, outside, raced>>
    PROVE  SyncInv'
<1>1. [Idle EXCEPT !.phase = "failed"].phase # "running"
  BY IdleForms
<1> QED BY <1>1, IdleForms, LocalStep DEF Fail

\* How the plan follows the program.
LEMMA HeldNext ==
    ASSUME NEW i \in Nat, NEW o, HeldAt(i + 1, o)
    PROVE  i >= 1 /\ ((Program[i].op = "plan" /\ o \in Program[i].on)
                        \/ (HeldAt(i, o) /\ Keeps(Program[i], o)))
<1>1. PICK j \in 1 .. i + 1 - 1 : /\ Program[j].op = "plan" /\ o \in Program[j].on
                                  /\ \A l \in j + 1 .. i + 1 - 1 : Keeps(Program[l], o)
  BY DEF HeldAt
<1>2. j \in 1 .. i /\ i >= 1 /\ i + 1 - 1 = i
  BY <1>1
<1>3. CASE j = i
  BY <1>1, <1>2, <1>3
<1>4. CASE j # i
  <2>1. j \in 1 .. i - 1 /\ i \in j + 1 .. i + 1 - 1
    BY <1>2, <1>4
  <2>2. \A l \in j + 1 .. i - 1 : l \in j + 1 .. i + 1 - 1
    BY <1>2
  <2> QED BY <1>1, <1>2, <2>1, <2>2 DEF HeldAt
<1> QED BY <1>3, <1>4

LEMMA NothingHeld == \A o : ~HeldAt(0, o) /\ ~HeldAt(1, o)
BY DEF HeldAt

LEMMA CurrentRequest ==
    ASSUME SyncInv, NEW r \in Runs, NEW op, At(r, op)
    PROVE  /\ run[r].pc \in 1 .. Len(Program) /\ Program[run[r].pc].op = op
           /\ Cur(r) = Program[run[r].pc] /\ Cur(r) \in Requests
           /\ Cur(r).on \subseteq Objects /\ r \in Running
           /\ run[r] \in Execution /\ run[r].view \in Views /\ run[r].pc \in Nat
           /\ once[r] \subseteq Objects
           /\ Fit(run[r], once[r])
<1>1. DOMAIN Program = 1 .. Len(Program)
  BY ProgramParts
<1>2. run[r].pc \in 1 .. Len(Program)
  BY <1>1 DEF At
<1>3. Program[run[r].pc] \in Requests
  BY <1>2, ProgramParts
<1>4. run[r] \in Execution /\ once[r] \subseteq Objects
  BY DEF SyncInv, SyncTypes
<1>5. r \in Running
  BY DEF At, Running
<1> QED BY <1>2, <1>3, <1>4, <1>5 DEF At, Cur, Requests, Execution, SyncInv, RunsOK

\* The state after a request that succeeded.
Advanced(r, view) == [pc |-> run[r].pc + 1, phase |-> "running", tries |-> 0, view |-> view]

LEMMA AdvancedForm ==
    ASSUME NEW r, run[r].pc \in Nat, NEW view \in Views
    PROVE  /\ Advanced(r, view) \in Execution /\ Advanced(r, view).phase = "running"
           /\ Advanced(r, view).pc = run[r].pc + 1 /\ Advanced(r, view).view = view
BY DEF Advanced, Execution

LEMMA BeginKeeps == ASSUME SyncInv, NEW r \in Runs, Begin(r) PROVE SyncInv'
<1> DEFINE e == [Idle EXCEPT !.phase = "running"]
<1>1. e \in Execution /\ e.phase = "running" /\ e.pc = 0 /\ e.view = << >>
  BY IdleForms
<1>2. /\ run' = [run EXCEPT ![r] = e] /\ once' = [once EXCEPT ![r] = Good(store)]
      /\ UNCHANGED <<store, late, edits, outside, raced>>
  BY DEF Begin
<1> HIDE DEF e
<1>3. /\ run' \in [Runs -> Execution] /\ run'[r] = e /\ \A q \in Runs \ {r} : run'[q] = run[q]
      /\ once' \in [Runs -> SUBSET Objects] /\ once'[r] = Good(store)
      /\ \A q \in Runs \ {r} : once'[q] = once[q]
  BY <1>1, <1>2 DEF SyncInv, SyncTypes, Good
<1>4. SyncTypes' /\ RealmOK' /\ KeptOK'
  BY <1>2, <1>3 DEF SyncInv, SyncTypes, RealmOK, KeptOK
<1>5. \A o \in Objects : \A v \in Shapes : Planned(o, v) => Planned(o, v)'
  BY <1>2 DEF Planned
<1>6. Fit(run[r], once[r])'
  <2>1. \A i \in LastPlanned + 1 .. Len(Program) : ~(i < 0)
    BY ProgramParts, Lengths
  <2> QED BY <1>1, <1>2, <1>3, <2>1, EmptyView, NothingHeld DEF Fit
<1>7. \A q \in Runs \ {r} : (run[q].phase = "running")' =>
        run'[q] = run[q] /\ once[q] \subseteq once'[q] /\ Good(store') \subseteq once'[q]
  BY <1>2, <1>3 DEF SyncInv, RunsOK, Running, Fit
<1> QED BY <1>2, <1>4, <1>5, <1>6, <1>7, StepKeeps

LEMMA TokenFailsKeeps == ASSUME SyncInv, NEW r \in Runs, TokenFails(r) PROVE SyncInv'
<1>1. UNCHANGED <<store, late, edits, once, outside, raced>>
  BY DEF TokenFails
<1>2. CASE Fail(r)
  BY <1>1, <1>2, FailKeeps
<1>3. CASE run' = [run EXCEPT ![r].tries = @ + 1]
  <2> DEFINE e == [run[r] EXCEPT !.tries = @ + 1]
  <2>1. run[r] \in Execution /\ run[r].tries + 1 \in Nat
    BY DEF SyncInv, SyncTypes, Execution
  <2>2. /\ e \in Execution /\ e.pc = run[r].pc /\ e.view = run[r].view
        /\ run' = [run EXCEPT ![r] = e]
    BY <1>3, <2>1 DEF Execution
  <2>3. Fit(run[r], once[r])
    BY DEF TokenFails, SyncInv, RunsOK, Running
  <2> HIDE DEF e
  <2>4. Fit(e, once[r])
    BY <2>2, <2>3 DEF Fit
  <2> QED BY <1>1, <2>2, <2>4, LocalStep
<1> QED BY <1>2, <1>3 DEF TokenFails

LEMMA TokenKeeps == ASSUME SyncInv, NEW r \in Runs, Token(r) PROVE SyncInv'
<1>1. /\ run[r].pc = 0 /\ r \in Running /\ run' = [run EXCEPT ![r] = Advanced(r, << >>)]
      /\ UNCHANGED <<store, late, edits, once, outside, raced>>
  BY DEF Token, Advance, Advanced, ReadOnly, Running
<1> DEFINE e == Advanced(r, << >>)
<1>2. e \in Execution /\ e.pc = 1 /\ e.view = << >>
  BY <1>1, EmptyView, AdvancedForm
<1>3. Fit(run[r], once[r])
  BY <1>1 DEF SyncInv, RunsOK
<1> HIDE DEF e
<1>4. \A i \in LastPlanned + 1 .. Len(Program) : ~(i < 1)
  BY ProgramParts, Lengths
<1>5. Fit(e, once[r])
  BY <1>2, <1>3, <1>4, EmptyView, NothingHeld DEF Fit
<1> QED BY <1>1, <1>2, <1>5, LocalStep DEF e

LEMMA FinishKeeps == ASSUME SyncInv, NEW r \in Runs, Finish(r) PROVE SyncInv'
<1>1. /\ run' = [run EXCEPT ![r] = [Idle EXCEPT !.phase = "done"]]
      /\ UNCHANGED <<store, late, edits, once, outside, raced>>
  BY DEF Finish, ReadOnly
<1>2. [Idle EXCEPT !.phase = "done"].phase # "running"
  BY IdleForms
<1> QED BY <1>1, <1>2, IdleForms, LocalStep

\* The part of Fit that is about what was verified, one request further.
LEMMA NotedNext ==
    ASSUME NEW n \in Nat, NEW O,
           \A i \in LastPlanned + 1 .. Len(Program) :
             i < n /\ Program[i].op \in {"verify", "apply"} => Program[i].on \subseteq O,
           n > LastPlanned /\ Program[n].op \in {"verify", "apply"} => Program[n].on \subseteq O
    PROVE  \A i \in LastPlanned + 1 .. Len(Program) :
             i < n + 1 /\ Program[i].op \in {"verify", "apply"} => Program[i].on \subseteq O
<1>1. LastPlanned \in Nat /\ Len(Program) \in Nat
  BY ProgramParts, Lengths
<1> SUFFICES ASSUME NEW i \in LastPlanned + 1 .. Len(Program), i < n + 1,
                    Program[i].op \in {"verify", "apply"}
             PROVE  Program[i].on \subseteq O
  OBVIOUS
<1>2. i < n \/ (i = n /\ n > LastPlanned)
  BY <1>1
<1> QED BY <1>2

\* What is read is what the plan will be judged by.
LEMMA ReadIsPlanned ==
    ASSUME SyncInv, NEW view \in Views, NEW S \in SUBSET Objects, NEW o \in S,
           ~Blocked(o, ReadNow(o, view))
    PROVE  ReadNow(o, view) \in Shapes /\ Planned(o, ReadNow(o, view))
<1>1. store[o] \in Shapes /\ store[o].copies \in Nat /\ store[o].id \in Nat
  BY DEF SyncInv, SyncTypes, Shapes
<1>2. CASE ReadNow(o, view) = Absent /\ o[1] = "mapper"
  <2>1. Absent \in Shapes /\ Absent.copies = 0 /\ Absent.id = 0
    BY DEF Absent, Shapes
  <2> QED BY <1>1, <1>2, <2>1 DEF Planned
<1>3. CASE ReadNow(o, view) = store[o]
  <2>1. /\ ~(store[o].copies > 1) /\ store[o].m # "foreign"
        /\ ~(o[1] = "user" /\ store[o].copies # 1)
    BY <1>3 DEF Blocked
  <2>2. store[o].copies = 1 /\ o \notin raced => store[o].other = outside[o]
    BY <1>1 DEF SyncInv, KeptOK
  <2> QED BY <1>1, <1>3, <2>1, <2>2 DEF Planned
<1> QED BY <1>2, <1>3 DEF ReadNow

LEMMA PlanKeeps == ASSUME SyncInv, NEW r \in Runs, Plan(r) PROVE SyncInv'
<1> DEFINE S == Cur(r).on
           i == run[r].pc
           v == run[r].view
           w == Read(S, v)
           e == Advanced(r, w)
<1>1. At(r, "plan") /\ UNCHANGED <<store, late, edits, once, outside, raced>>
  BY DEF Plan, ReadOnly
<1>2. /\ i \in 1 .. Len(Program) /\ Program[i].op = "plan" /\ S = Program[i].on
      /\ S \subseteq Objects /\ v \in Views /\ i \in Nat /\ Fit(run[r], once[r])
  BY <1>1, CurrentRequest
<1>3. CASE Fail(r)
  BY <1>1, <1>3, FailKeeps
<1>4. CASE run' = [run EXCEPT ![r] = e] /\ \A o \in S : ~Blocked(o, w[o])
  <2>1. /\ DOMAIN w = S \cup DOMAIN v
        /\ \A o \in S : w[o] = ReadNow(o, v)
        /\ \A o \in DOMAIN v \ S : w[o] = v[o]
    BY DEF Read
  <2>2. \A o \in S : w[o] \in Shapes /\ Planned(o, w[o])
    BY <1>2, <1>4, <2>1, ReadIsPlanned
  <2>3. \A o \in DOMAIN v : v[o] \in Shapes /\ Planned(o, v[o])
    BY <1>2, ViewFacts DEF Fit
  <2>4. \A o \in DOMAIN w : w[o] \in Shapes /\ Planned(o, w[o])
    BY <2>1, <2>2, <2>3
  <2>5. w \in Views
    <3>1. DOMAIN w \in SUBSET Objects
      BY <1>2, <2>1, ViewFacts
    <3>2. w \in [DOMAIN w -> Shapes]
      BY <2>4 DEF Read
    <3> QED BY <3>1, <3>2, IsView
  <2> HIDE DEF w
  <2>6. e \in Execution /\ e.pc = i + 1 /\ e.view = w
    BY <1>2, <2>5, AdvancedForm
  <2>7. \A o \in Objects : HeldAt(i + 1, o) => o \in DOMAIN w
    BY <1>2, <2>1, HeldNext DEF Fit
  <2>8. /\ Good(store) \subseteq once[r]
        /\ \A l \in LastPlanned + 1 .. Len(Program) :
             l < i /\ Program[l].op \in {"verify", "apply"} => Program[l].on \subseteq once[r]
    BY <1>2 DEF Fit
  <2>9. \A l \in LastPlanned + 1 .. Len(Program) :
          l < i + 1 /\ Program[l].op \in {"verify", "apply"} => Program[l].on \subseteq once[r]
    <3> HIDE DEF i
    <3> QED BY <1>2, <2>8, NotedNext
  <2> HIDE DEF e, i
  <2>10. Fit(e, once[r])
    BY <2>4, <2>6, <2>7, <2>8, <2>9 DEF Fit
  <2> QED BY <1>1, <1>4, <2>6, <2>10, LocalStep
<1> QED BY <1>3, <1>4 DEF Plan, Advance, Advanced

LEMMA WithoutFacts ==
    ASSUME NEW v \in Views, NEW S
    PROVE  /\ Without(v, S) \in Views /\ DOMAIN Without(v, S) = DOMAIN v \ S
           /\ \A o \in DOMAIN v \ S : Without(v, S)[o] = v[o]
<1>1. /\ DOMAIN Without(v, S) = DOMAIN v \ S
      /\ \A o \in DOMAIN v \ S : Without(v, S)[o] = v[o]
  BY DEF Without
<1>2. DOMAIN v \ S \in SUBSET Objects /\ \A o \in DOMAIN v \ S : v[o] \in Shapes
  BY ViewFacts
<1>3. Without(v, S) \in [DOMAIN v \ S -> Shapes]
  BY <1>2 DEF Without
<1> QED BY <1>1, <1>2, <1>3, IsView

LEMMA VerifyKeeps == ASSUME SyncInv, NEW r \in Runs, Verify(r) PROVE SyncInv'
<1> DEFINE i == run[r].pc
           v == run[r].view
           X == {o \in Objects : o[1] # "client"}
           w == Without(v, X)
           e == Advanced(r, w)
<1>1. At(r, "verify") /\ UNCHANGED <<store, late, edits, once, outside, raced>>
  BY DEF Verify, ReadOnly
<1>2. /\ i \in 1 .. Len(Program) /\ Program[i].op = "verify" /\ Cur(r).on = Program[i].on
      /\ Cur(r).on \subseteq Objects /\ v \in Views /\ i \in Nat /\ Fit(run[r], once[r])
  BY <1>1, CurrentRequest
<1>3. CASE Fail(r)
  BY <1>1, <1>3, FailKeeps
<1>4. CASE run' = [run EXCEPT ![r] = e] /\ \A o \in Cur(r).on : Verified(o)
  <2>1. /\ w \in Views /\ DOMAIN w = DOMAIN v \ X /\ \A o \in DOMAIN w : w[o] = v[o]
    <3> HIDE DEF X, v
    <3>1. /\ Without(v, X) \in Views /\ DOMAIN Without(v, X) = DOMAIN v \ X
          /\ \A o \in DOMAIN v \ X : Without(v, X)[o] = v[o]
      BY <1>2, WithoutFacts
    <3> QED BY <3>1
  <2> HIDE DEF w
  <2>2. e \in Execution /\ e.pc = i + 1 /\ e.view = w
    BY <1>2, <2>1, AdvancedForm
  <2>3. ASSUME NEW o \in Objects, HeldAt(i + 1, o) PROVE o \in DOMAIN w
    <3>1. HeldAt(i, o) /\ Keeps(Program[i], o)
      BY <1>2, <2>3, HeldNext
    <3>2. o[1] = "client" /\ o \in DOMAIN v
      BY <1>2, <3>1 DEF Keeps, Fit
    <3> QED BY <2>1, <3>2
  <2>4. /\ Good(store) \subseteq once[r]
        /\ \A l \in LastPlanned + 1 .. Len(Program) :
             l < i /\ Program[l].op \in {"verify", "apply"} => Program[l].on \subseteq once[r]
        /\ \A o \in DOMAIN v : Planned(o, v[o])
    BY <1>2 DEF Fit
  <2>5. Program[i].on \subseteq once[r]
    BY <1>2, <1>4, <2>4 DEF Verified, Good
  <2>6. \A l \in LastPlanned + 1 .. Len(Program) :
          l < i + 1 /\ Program[l].op \in {"verify", "apply"} => Program[l].on \subseteq once[r]
    <3> HIDE DEF i
    <3> QED BY <1>2, <2>4, <2>5, NotedNext
  <2> HIDE DEF e, i, v
  <2>7. \A o \in DOMAIN w : Planned(o, w[o])
    BY <2>1, <2>4
  <2>8. Fit(e, once[r])
    BY <2>2, <2>3, <2>4, <2>6, <2>7 DEF Fit
  <2> QED BY <1>1, <1>4, <2>2, <2>8, LocalStep
<1> QED BY <1>3, <1>4 DEF Verify, Forget, Advance, Advanced

LEMMA CreatedKeeps == ASSUME SyncInv, NEW r \in Runs, Created(r) PROVE SyncInv'
<1> DEFINE i == run[r].pc
           v == run[r].view
           c == CHOOSE o \in Cur(r).on : TRUE
<1>1. At(r, "created") /\ UNCHANGED <<store, late, edits, once, outside, raced>>
  BY DEF Created, ReadOnly
<1>2. /\ i \in 1 .. Len(Program) /\ Program[i].op = "created" /\ Cur(r).on = Program[i].on
      /\ Cur(r).on \subseteq Objects /\ v \in Views /\ i \in Nat /\ Fit(run[r], once[r])
  BY <1>1, CurrentRequest
<1>3. c \in Objects /\ c # Provider /\ c[1] = "client"
  <2>1. PICK k \in 1 .. N : Program[i].on = {Client(Clients[k])}
    BY <1>2, CreatedCases
  <2>2. c = Client(Clients[k])
    BY <1>2, <2>1
  <2>3. c \in Objects
    BY <1>2, <2>1, <2>2
  <2> QED BY <2>2, <2>3, Kinds
<1>4. /\ Good(store) \subseteq once[r]
      /\ \A l \in LastPlanned + 1 .. Len(Program) :
           l < i /\ Program[l].op \in {"verify", "apply"} => Program[l].on \subseteq once[r]
      /\ \A o \in DOMAIN v : Planned(o, v[o])
      /\ \A o \in Objects : HeldAt(i, o) => o \in DOMAIN v
  BY <1>2 DEF Fit
<1>5. \A l \in LastPlanned + 1 .. Len(Program) :
        l < i + 1 /\ Program[l].op \in {"verify", "apply"} => Program[l].on \subseteq once[r]
  <2> HIDE DEF i
  <2> QED BY <1>2, <1>4, NotedNext
<1>6. \A o \in Objects : HeldAt(i + 1, o) => o \in DOMAIN v
  BY <1>2, <1>4, HeldNext
<1>7. ASSUME NEW w \in Views, DOMAIN w = DOMAIN v, run' = [run EXCEPT ![r] = Advanced(r, w)],
             \A o \in DOMAIN w : Planned(o, w[o])
      PROVE  SyncInv'
  <2> DEFINE e == Advanced(r, w)
  <2>1. e \in Execution /\ e.pc = i + 1 /\ e.view = w
    BY <1>2, AdvancedForm
  <2> HIDE DEF e, i, v
  <2>2. Fit(e, once[r])
    BY <1>4, <1>5, <1>6, <1>7, <2>1 DEF Fit
  <2>3. run' = [run EXCEPT ![r] = e]
    BY <1>7 DEF e
  <2> QED BY <1>1, <2>1, <2>2, <2>3, LocalStep
<1>8. CASE Fail(r)
  BY <1>1, <1>8, FailKeeps
<1>9. CASE run' = [run EXCEPT ![r] = Advanced(r, v)]
  BY <1>2, <1>4, <1>7, <1>9
<1>10. CASE run' = [run EXCEPT ![r] = Advanced(r, [v EXCEPT ![c] = store[c]])] /\ store[c].copies = 1
  <2> DEFINE w == [v EXCEPT ![c] = store[c]]
  <2>1. store[c] \in Shapes /\ store[c].id \in Nat
    BY <1>3 DEF SyncInv, SyncTypes, Shapes
  <2>2. Planned(c, store[c])
    <3>1. store[c].m # "foreign"
      BY <1>3 DEF SyncInv, RealmOK, Realm
    <3>2. c \notin raced => store[c].other = outside[c]
      BY <1>3, <1>10 DEF SyncInv, KeptOK
    <3> QED BY <1>3, <1>10, <2>1, <3>1, <3>2 DEF Planned
  <2>3. DOMAIN v \subseteq Objects /\ v \in [DOMAIN v -> Shapes]
    BY <1>2, ViewFacts
  <2>4. w \in [DOMAIN v -> Shapes] /\ DOMAIN w = DOMAIN v
    BY <2>1, <2>3
  <2>5. w \in Views
    BY <2>3, <2>4, IsView
  <2>6. \A o \in DOMAIN w : w[o] = v[o] \/ (o = c /\ w[o] = store[c])
    BY <2>3
  <2>7. \A o \in DOMAIN w : Planned(o, w[o])
    <3> HIDE DEF w, c, v
    <3> QED BY <1>4, <2>2, <2>4, <2>6
  <2> QED BY <1>7, <1>10, <2>4, <2>5, <2>7
<1> QED BY <1>8, <1>9, <1>10 DEF Created, Advance, Advanced

\* What a run that is about to write, or whose write timed out, wants to write.
LEMMA PayloadFits ==
    ASSUME SyncInv, NEW r \in Runs, At(r, "apply")
    PROVE  LET S == Payload(Cur(r).on, run[r].view) IN
           /\ S \subseteq Cur(r).on /\ S \subseteq Objects /\ S \subseteq DOMAIN run[r].view
           /\ \A o \in S : Planned(o, run[r].view[o])
           /\ Provider \in S => S = {Provider}
<1> DEFINE S == Payload(Cur(r).on, run[r].view)
           i == run[r].pc
<1>1. /\ i \in 1 .. Len(Program) /\ Program[i].op = "apply" /\ Cur(r).on = Program[i].on
      /\ Cur(r).on \subseteq Objects /\ Fit(run[r], once[r])
  BY CurrentRequest
<1>2. S \subseteq Cur(r).on
  BY DEF Payload
<1>3. \A o \in Cur(r).on : HeldAt(i, o)
  BY <1>1, AppliedIsHeld
<1>4. \A o \in Cur(r).on : o \in DOMAIN run[r].view /\ Planned(o, run[r].view[o])
  BY <1>1, <1>3 DEF Fit
<1>5. ASSUME Provider \in Cur(r).on PROVE Cur(r).on = {Provider}
  <2>1. \/ Program[i].on = {Provider} \/ Program[i].on = {Fields, Policies} \/ Program[i].on = {Profile}
        \/ \E x : Program[i].on = {Client(x)} \/ Program[i].on = {Mapper(x)} \/ Program[i].on = {User(x)}
    BY <1>1, ApplyCases
  <2>2. /\ Provider # Fields /\ Provider # Policies /\ Provider # Profile
        /\ \A x : Provider # Client(x) /\ Provider # Mapper(x) /\ Provider # User(x)
    BY Kinds
  <2> QED BY <1>1, <1>5, <2>1, <2>2
<1> HIDE DEF S
<1>6. Provider \in S => S = {Provider}
  BY <1>2, <1>5
<1>7. S \subseteq DOMAIN run[r].view /\ \A o \in S : Planned(o, run[r].view[o])
  BY <1>2, <1>4
<1> QED BY <1>1, <1>2, <1>6, <1>7 DEF S

LEMMA RequestFailsKeeps == ASSUME SyncInv, NEW r \in Runs, RequestFails(r) PROVE SyncInv'
<1>1. Fail(r) /\ UNCHANGED <<store, edits, once, outside, raced>>
  BY DEF RequestFails
<1>2. CASE late' = late
  BY <1>1, <1>2, FailKeeps
<1>3. CASE /\ At(r, "apply")
           /\ late' = late \cup {[on |-> Payload(Cur(r).on, run[r].view), view |-> run[r].view]}
  <2> DEFINE S == Payload(Cur(r).on, run[r].view)
             e == [Idle EXCEPT !.phase = "failed"]
  <2>1. /\ S \subseteq Objects /\ S \subseteq DOMAIN run[r].view
        /\ \A o \in S : Planned(o, run[r].view[o])
        /\ Provider \in S => S = {Provider}
    BY <1>3, PayloadFits
  <2>2. run[r].view \in Views
    BY <1>3, CurrentRequest
  <2>3. e \in Execution /\ e.phase = "failed" /\ run' = [run EXCEPT ![r] = e]
    BY <1>1, IdleForms DEF Fail
  <2>0. PICK w : w = [on |-> S, view |-> run[r].view]
    OBVIOUS
  <2>4. late' = late \cup {w} /\ w.on = S /\ w.view = run[r].view
    BY <1>3, <2>0
  <2>5. w \in [on : SUBSET Objects, view : Views]
    BY <2>0, <2>1, <2>2
  <2> HIDE DEF S, e
  <2>6. run' \in [Runs -> Execution] /\ run'[r] = e /\ \A q \in Runs \ {r} : run'[q] = run[q]
    BY <2>3 DEF SyncInv, SyncTypes
  <2>7. SyncTypes' /\ RealmOK' /\ KeptOK'
    BY <1>1, <2>4, <2>5, <2>6 DEF SyncInv, SyncTypes, RealmOK, KeptOK
  <2>8. \A o \in Objects : \A v \in Shapes : Planned(o, v) => Planned(o, v)'
    BY <1>1 DEF Planned
  <2>9. LateFit(w)'
    <3>1. \A o \in w.on : o \in DOMAIN w.view /\ Planned(o, w.view[o])
      BY <2>1, <2>4
    <3>2. \A o \in w.on : Planned(o, w.view[o])'
      BY <1>1, <3>1 DEF Planned
    <3> QED BY <2>1, <2>4, <3>1, <3>2 DEF LateFit
  <2>10. \A q \in Runs : (run[q].phase = "running")' =>
           run'[q] = run[q] /\ once[q] \subseteq once'[q] /\ Good(store') \subseteq once'[q]
    BY <1>1, <2>3, <2>6 DEF SyncInv, RunsOK, Running, Fit
  <2> QED BY <2>4, <2>7, <2>8, <2>9, <2>10, StepKeeps
<1> QED BY <1>2, <1>3 DEF RequestFails

LEMMA LateKeeps == ASSUME SyncInv, LateArrives PROVE SyncInv'
<1>1. PICK w \in late :
        LET ok == \A o \in w.on : Accepts(o, w.view)
            s == IF ok THEN StoreAfter(w.on, w.view) ELSE store
        IN  /\ late' = late \ {w} /\ store' = s /\ Note(s)
            /\ UNCHANGED <<run, faults, edits, outside, raced>>
  BY DEF LateArrives
<1>2. w.on \subseteq Objects /\ w.view \in Views /\ LateFit(w)
  BY DEF SyncInv, SyncTypes, LateOK
<1>3. /\ late' \subseteq late /\ Note(store') /\ UNCHANGED <<run, edits, outside, raced>>
  BY <1>1
<1>4. /\ store' \in [Objects -> Shapes] /\ RealmOK' /\ KeptOK'
      /\ \A o \in Objects : \A v \in Shapes : Planned(o, v) => Planned(o, v)'
  <2>1. CASE store' = store
    BY <1>3, <2>1 DEF SyncInv, SyncTypes, RealmOK, KeptOK, Planned
  <2>2. CASE store' = StoreAfter(w.on, w.view) /\ \A o \in w.on : Accepts(o, w.view)
    <3>1. Carried(w.on, w.view)
      BY <1>2, <2>2 DEF Carried, LateFit
    <3> QED BY <1>3, <2>2, <3>1, WriteEffect, WriteKeeps DEF SyncInv
  <2> QED BY <1>1, <2>1, <2>2
<1>5. /\ once' \in [Runs -> SUBSET Objects]
      /\ \A q \in Running : once'[q] = once[q] \cup Good(store')
  BY <1>3 DEF Note, Good, SyncInv, SyncTypes, Running
<1>6. SyncTypes'
  BY <1>3, <1>4, <1>5 DEF SyncInv, SyncTypes
<1>7. \A q \in Runs : (run[q].phase = "running")' =>
        run'[q] = run[q] /\ once[q] \subseteq once'[q] /\ Good(store') \subseteq once'[q]
  BY <1>3, <1>5 DEF Running
<1> QED BY <1>3, <1>4, <1>6, <1>7, StepKeeps

LEMMA ApplyKeeps == ASSUME SyncInv, NEW r \in Runs, Apply(r) PROVE SyncInv'
<1> DEFINE i == run[r].pc
           view == run[r].view
           S == Payload(Cur(r).on, view)
           X == {o \in Cur(r).on : o[1] # "client"}
           w == Without(view, X)
           e == Advanced(r, w)
<1>1. At(r, "apply") /\ UNCHANGED <<late, edits, outside, raced>>
  BY DEF Apply
<1>2. /\ i \in 1 .. Len(Program) /\ Program[i].op = "apply" /\ Cur(r).on = Program[i].on
      /\ Cur(r).on \subseteq Objects /\ view \in Views /\ i \in Nat /\ Fit(run[r], once[r])
      /\ r \in Running
  BY <1>1, CurrentRequest
<1>3. CASE Fail(r) /\ UNCHANGED <<store, once>>
  BY <1>1, <1>3, FailKeeps
<1>4. CASE /\ \A o \in S : Accepts(o, view)
           /\ run' = [run EXCEPT ![r] = e] /\ store' = StoreAfter(S, view)
           /\ once' = [q \in Runs |-> IF q = r /\ i = LastPlanned THEN Good(store')
                                      ELSE IF q \in Running THEN once[q] \cup Good(store') ELSE once[q]]
  <2>1. /\ S \subseteq Cur(r).on /\ S \subseteq Objects /\ S \subseteq DOMAIN view
        /\ \A o \in S : Planned(o, view[o])
        /\ Provider \in S => S = {Provider}
    BY <1>1, PayloadFits
  <2>2. Carried(S, view)
    BY <1>2, <1>4, <2>1 DEF Carried
  <2>3. S = Payload(Program[i].on, view)
    BY <1>2
  <2>4. /\ w \in Views /\ DOMAIN w = DOMAIN view \ X /\ \A o \in DOMAIN w : w[o] = view[o]
    <3> HIDE DEF X, view
    <3>1. /\ Without(view, X) \in Views /\ DOMAIN Without(view, X) = DOMAIN view \ X
          /\ \A o \in DOMAIN view \ X : Without(view, X)[o] = view[o]
      BY <1>2, WithoutFacts
    <3> QED BY <3>1
  <2>5. e \in Execution /\ e.pc = i + 1 /\ e.view = w
    <3> HIDE DEF w
    <3> QED BY <1>2, <2>4, AdvancedForm
  <2> HIDE DEF S, w, e
  <2>6. /\ RealmOK' /\ KeptOK'
        /\ \A o \in Objects : \A v \in Shapes : Planned(o, v) => Planned(o, v)'
    BY <1>1, <1>4, <2>2, WriteKeeps DEF SyncInv
  <2>7. /\ store' \in [Objects -> Shapes]
        /\ \A o \in S : store'[o].m = "desired" /\ (o # Provider => store'[o].copies = 1)
    BY <1>1, <1>4, <2>2, WriteEffect DEF SyncInv
  <2>8. run' \in [Runs -> Execution] /\ run'[r] = e /\ \A q \in Runs \ {r} : run'[q] = run[q]
    BY <1>4, <2>5 DEF SyncInv, SyncTypes
  <2>9. /\ once' \in [Runs -> SUBSET Objects]
        /\ \A q \in Running \ {r} : once'[q] = once[q] \cup Good(store')
        /\ once'[r] = IF i = LastPlanned THEN Good(store') ELSE once[r] \cup Good(store')
    BY <1>2, <1>4 DEF SyncInv, SyncTypes, Good, Running
  <2>10. SyncTypes'
    BY <1>1, <2>7, <2>8, <2>9 DEF SyncInv, SyncTypes
  <2>0. PICK x : x = w
    OBVIOUS
  <2>11. \A o \in DOMAIN x : Planned(o, x[o])'
    <3> SUFFICES ASSUME NEW o \in DOMAIN x PROVE Planned(o, x[o])'
      OBVIOUS
    <3>1. o \in DOMAIN view /\ x[o] = view[o]
      BY <2>0, <2>4
    <3>2. o \in Objects /\ x[o] \in Shapes /\ Planned(o, x[o])
      BY <1>2, <3>1, ViewFacts DEF Fit
    <3> QED BY <2>6, <3>2
  <2>12. ASSUME NEW o \in Objects, HeldAt(i + 1, o) PROVE o \in DOMAIN w
    <3>1. HeldAt(i, o) /\ Keeps(Program[i], o)
      BY <1>2, <2>12, HeldNext
    <3>2. (o[1] = "client" \/ o \notin Cur(r).on) /\ o \in DOMAIN view
      BY <1>2, <3>1 DEF Keeps, Fit
    <3> QED BY <2>4, <3>2
  <2>13. \A l \in LastPlanned + 1 .. Len(Program) :
           l < i + 1 /\ Program[l].op \in {"verify", "apply"} => Program[l].on \subseteq once'[r]
    <3>1. CASE i = LastPlanned
      <4>1. \A l \in LastPlanned + 1 .. Len(Program) : ~(l < i + 1)
        BY <1>2, <3>1, ProgramParts, Lengths
      <4> QED BY <4>1
    <3>2. CASE i # LastPlanned
      <4>1. once'[r] = once[r] \cup Good(store')
        BY <2>9, <3>2
      <4>2. \A l \in LastPlanned + 1 .. Len(Program) :
              l < i /\ Program[l].op \in {"verify", "apply"} => Program[l].on \subseteq once'[r]
        BY <1>2, <4>1 DEF Fit
      <4>3. ASSUME i > LastPlanned PROVE Program[i].on \subseteq once'[r]
        <5>1. Program[i].on = {Profile} \/ \E k \in 1 .. U : Program[i].on = {User(Users[k])}
          <6>1. LastPlanned = 5 * N + 4
            BY ProgramParts
          <6>2. i # 2 * N + 3 /\ (\A k \in 1 .. N : i # 2 * N + 2 + 2 * k /\ i # 4 * N + 3 + k)
                  /\ i # 5 * N + 4
            <7>1. PICK j \in Nat : j = i /\ j > 5 * N + 4
              BY <1>2, <4>3, <6>1, ProgramParts, Lengths
            <7> HIDE DEF i
            <7> QED BY <7>1, Lengths
          <6>3. Program[i].op = "apply" /\ i \in 1 .. Len(Program)
            BY <1>2
          <6> HIDE DEF i
          <6> QED BY <6>2, <6>3, ApplyCases, SMTT(30)
        <5>2. \A o \in Program[i].on : o[1] \in {"profile", "user"} /\ o # Provider
          BY <5>1, Kinds
        <5>3. S = Program[i].on
          BY <2>3, <5>2 DEF Payload, NeedsWrite
        <5>4. \A o \in S : o \in Objects /\ Matches(store'[o])
          BY <2>1, <2>7, <5>2, <5>3 DEF Matches
        <5> QED BY <4>1, <5>3, <5>4 DEF Good
      <4> HIDE DEF i
      <4> QED BY <1>2, <4>2, <4>3, NotedNext
    <3> QED BY <3>1, <3>2
  <2>14. Good(store') \subseteq once'[r]
    BY <2>9
  <2>15. Fit(run[r], once[r])'
    <3>1. run'[r].view = x /\ run'[r].pc = i + 1
      BY <2>0, <2>5, <2>8
    <3>2. \A o \in DOMAIN run'[r].view : Planned(o, run[r].view[o])'
      BY <2>11, <3>1 DEF Planned
    <3>3. \A o \in Objects : HeldAt(run'[r].pc, o) => o \in DOMAIN run'[r].view
      BY <2>0, <2>12, <3>1
    <3>4. \A l \in LastPlanned + 1 .. Len(Program) :
            l < run'[r].pc /\ Program[l].op \in {"verify", "apply"} => Program[l].on \subseteq once'[r]
      BY <2>13, <3>1
    <3> QED BY <2>14, <3>2, <3>3, <3>4 DEF Fit
  <2>16. \A q \in Runs : (run[q].phase = "running")' =>
           \/ run'[q] = run[q] /\ once[q] \subseteq once'[q] /\ Good(store') \subseteq once'[q]
           \/ Fit(run[q], once[q])'
    BY <2>8, <2>9, <2>15 DEF Running
  <2> QED BY <1>1, <2>6, <2>10, <2>16, StepKeeps
<1> QED BY <1>3, <1>4 DEF Apply, Forget, Advance, Advanced, Note

\* An edit may make plans stale, and then marks what it edited as raced.
LEMMA EditToKeeps ==
    ASSUME SyncInv, NEW s \in [Objects -> Shapes], NEW S \in SUBSET Objects, EditTo(s, S), Realm(s),
           \A o \in Objects : s[o].id >= store[o].id,
           \A o \in Objects \ S : s[o].other = store[o].other /\ s[o].copies = store[o].copies,
           \A o \in Objects : s[o].id = store[o].id /\ s[o].copies >= 1 =>
               store[o].copies >= 1 /\ (s[o].m = "foreign" => store[o].m = "foreign")
    PROVE  SyncInv'
<1>1. /\ store' = s /\ Note(s) /\ edits' = edits + 1 /\ UNCHANGED <<run, late>>
      /\ outside' = [o \in Objects |-> IF o \in S THEN s[o].other ELSE outside[o]]
      /\ raced' = raced \cup {o \in S : Pending(o)}
  BY DEF EditTo
<1>2. \A o \in Objects : s[o].other \in Nat /\ s[o].copies \in Nat /\ s[o].id \in Nat
                         /\ store[o].id \in Nat /\ store[o].copies \in Nat
  BY DEF SyncInv, SyncTypes, Shapes
<1>3. outside' \in [Objects -> Nat]
  BY <1>1, <1>2 DEF SyncInv, SyncTypes
<1>4. /\ once' \in [Runs -> SUBSET Objects]
      /\ \A q \in Running : once'[q] = once[q] \cup Good(store')
  BY <1>1 DEF Note, Good, SyncInv, SyncTypes, Running
<1>5. SyncTypes'
  BY <1>1, <1>3, <1>4 DEF SyncInv, SyncTypes
<1>6. RealmOK'
  <2>1. ASSUME NEW o \in Objects, s[o].copies = 0 PROVE outside'[o] = 0
    <3>1. CASE o \in S
      BY <1>1, <2>1, <3>1 DEF Realm
    <3>2. CASE o \notin S
      BY <1>1, <2>1, <3>2 DEF SyncInv, RealmOK
    <3> QED BY <3>1, <3>2
  <2> QED BY <1>1, <2>1 DEF RealmOK
<1>7. KeptOK'
  <2> SUFFICES ASSUME NEW o \in Objects, s[o].copies >= 1, o \notin raced' \/ ~Echoes(o)
               PROVE  s[o].other = outside'[o]
    BY <1>1 DEF KeptOK
  <2>1. CASE o \in S
    BY <1>1, <2>1
  <2>2. CASE o \notin S
    BY <1>1, <2>2 DEF SyncInv, KeptOK
  <2> QED BY <2>1, <2>2
<1>8. ASSUME NEW o \in Objects, NEW v \in Shapes, Pending(o), Planned(o, v)
      PROVE  Planned(o, v)'
  <2>1. v.id \in Nat /\ v.id <= store[o].id /\ v.copies <= 1 /\ (o[1] = "user" => v.copies = 1)
    BY <1>8 DEF Planned, Shapes
  <2>2. v.id <= s[o].id
    BY <1>2, <2>1
  <2>3. v.copies = 1 /\ s[o].copies >= 1 /\ v.id = s[o].id => s[o].m # "foreign"
    <3> SUFFICES ASSUME v.copies = 1, s[o].copies >= 1, v.id = s[o].id
                 PROVE  s[o].m # "foreign"
      OBVIOUS
    <3>1. s[o].id = store[o].id
      BY <1>2, <2>1
    <3> QED BY <1>8, <3>1 DEF Planned
  <2>4. v.copies = 1 /\ o \notin raced' /\ Echoes(o) => v.other = outside'[o]
    BY <1>1, <1>8 DEF Planned
  <2> QED BY <1>1, <2>1, <2>2, <2>3, <2>4 DEF Planned
<1>9. \A q \in Runs : (run[q].phase = "running")' =>
        run'[q] = run[q] /\ once[q] \subseteq once'[q] /\ Good(store') \subseteq once'[q]
  BY <1>1, <1>4 DEF Running
<1> QED BY <1>1, <1>5, <1>6, <1>7, <1>8, <1>9, StepKeeps

\* One field of an object that exists.
LEMMA ChangedObject ==
    ASSUME SyncInv, NEW o \in Objects, NEW x \in Shapes, x.copies = 1, store[o].copies = 1,
           o # Provider => x.m # "foreign"
    PROVE  LET s == [store EXCEPT ![o] = x] IN
           /\ s \in [Objects -> Shapes] /\ Realm(s) /\ s[o] = x
           /\ \A p \in Objects \ {o} : s[p] = store[p]
           /\ \A p \in Objects : store[p].id \in Nat /\ store[p].copies \in Nat
           /\ \A p \in Objects : s[p].copies = store[p].copies
<1> DEFINE s == [store EXCEPT ![o] = x]
<1>1. s \in [Objects -> Shapes] /\ s[o] = x /\ \A p \in Objects \ {o} : s[p] = store[p]
  BY DEF SyncInv, SyncTypes
<1>2. \A p \in Objects : store[p].id \in Nat /\ store[p].copies \in Nat
  BY DEF SyncInv, SyncTypes, Shapes
<1> HIDE DEF s
<1>3. \A p \in Objects : s[p].copies = store[p].copies
  BY <1>1
<1>4. Realm(s)
  <2> SUFFICES ASSUME NEW p \in Objects
               PROVE  /\ p # Provider => s[p].copies <= 1 /\ s[p].m # "foreign"
                      /\ s[p].copies = 0 => s[p].m = "drifted" /\ s[p].other = 0
                      /\ p[1] = "mapper" /\ s[p].copies > 0 => s[Client(p[2])].copies = 1
    BY DEF Realm
  <2>1. /\ p # Provider => store[p].copies <= 1 /\ store[p].m # "foreign"
        /\ store[p].copies = 0 => store[p].m = "drifted" /\ store[p].other = 0
        /\ p[1] = "mapper" /\ store[p].copies > 0 => store[Client(p[2])].copies = 1
    BY DEF SyncInv, RealmOK, Realm
  <2>2. p[1] = "mapper" => Client(p[2]) \in Objects
    BY ParentIsObject
  <2>3. p[1] = "mapper" /\ s[p].copies > 0 => s[Client(p[2])].copies = 1
    BY <1>3, <2>1, <2>2
  <2> QED BY <1>1, <1>3, <2>1, <2>3
<1> QED BY <1>1, <1>2, <1>3, <1>4 DEF s

LEMMA EditKeeps == ASSUME SyncInv, Edit PROVE SyncInv'
<1>1. PICK o \in Objects : Touch(o) \/ Spoil(o) \/ Occupy(o) \/ Drop(o)
  BY DEF Edit
<1>2. /\ store[o] \in Shapes /\ edits + 1 \in Nat /\ store[o].id \in Nat /\ store[o].copies = 1
      /\ store[o].id + 1 \in Nat /\ store \in [Objects -> Shapes]
  BY <1>1 DEF SyncInv, SyncTypes, Shapes, Touch, Spoil, Occupy, Drop
<1>3. o # Provider => store[o].m # "foreign"
  BY DEF SyncInv, RealmOK, Realm
<1>4. CASE Touch(o)
  <2> DEFINE x == [store[o] EXCEPT !.other = edits + 1]
             s == [store EXCEPT ![o] = x]
  <2>1. x \in Shapes /\ x.copies = 1 /\ x.id = store[o].id /\ x.m = store[o].m
    BY <1>2 DEF Shapes
  <2>2. EditTo(s, {o})
    BY <1>2, <1>4 DEF Touch
  <2> HIDE DEF x
  <2>3. /\ s \in [Objects -> Shapes] /\ Realm(s) /\ s[o] = x
        /\ \A p \in Objects \ {o} : s[p] = store[p]
        /\ \A p \in Objects : store[p].id \in Nat /\ store[p].copies \in Nat
    BY <1>2, <1>3, <2>1, ChangedObject
  <2> HIDE DEF s
  <2>4. /\ \A p \in Objects : s[p].id >= store[p].id
        /\ \A p \in Objects \ {o} : s[p].other = store[p].other /\ s[p].copies = store[p].copies
        /\ \A p \in Objects : s[p].id = store[p].id /\ s[p].copies >= 1 =>
               store[p].copies >= 1 /\ (s[p].m = "foreign" => store[p].m = "foreign")
    BY <1>2, <2>1, <2>3
  <2> QED BY <2>2, <2>3, <2>4, EditToKeeps
<1>5. CASE Spoil(o)
  <2> DEFINE x == [store[o] EXCEPT !.m = "drifted"]
             s == [store EXCEPT ![o] = x]
  <2>1. /\ x \in Shapes /\ x.copies = 1 /\ x.id = store[o].id /\ x.m = "drifted"
        /\ x.other = store[o].other
    BY <1>2 DEF Shapes
  <2>2. EditTo(s, {})
    BY <1>2, <1>5 DEF Spoil
  <2> HIDE DEF x
  <2>3. /\ s \in [Objects -> Shapes] /\ Realm(s) /\ s[o] = x
        /\ \A p \in Objects \ {o} : s[p] = store[p]
        /\ \A p \in Objects : store[p].id \in Nat /\ store[p].copies \in Nat
    BY <1>2, <1>3, <2>1, ChangedObject
  <2> HIDE DEF s
  <2>4. /\ \A p \in Objects : s[p].id >= store[p].id
        /\ \A p \in Objects \ {} : s[p].other = store[p].other /\ s[p].copies = store[p].copies
        /\ \A p \in Objects : s[p].id = store[p].id /\ s[p].copies >= 1 =>
               store[p].copies >= 1 /\ (s[p].m = "foreign" => store[p].m = "foreign")
    BY <1>2, <2>1, <2>3
  <2> QED BY <2>2, <2>3, <2>4, EditToKeeps
<1>6. CASE Occupy(o)
  <2> DEFINE y == IF store[o].m = "foreign" THEN "drifted" ELSE "foreign"
             x == [store[o] EXCEPT !.m = y, !.id = @ + 1]
             s == [store EXCEPT ![o] = x]
  <2>1. y \in {"desired", "drifted", "foreign"} /\ o = Provider
    BY <1>6 DEF Occupy
  <2>2. EditTo(s, {})
    BY <1>2, <1>6 DEF Occupy
  <2> HIDE DEF y
  <2>3. x \in Shapes /\ x.copies = 1 /\ x.id = store[o].id + 1 /\ x.other = store[o].other
    BY <1>2, <2>1 DEF Shapes
  <2> HIDE DEF x
  <2>4. /\ s \in [Objects -> Shapes] /\ Realm(s) /\ s[o] = x
        /\ \A p \in Objects \ {o} : s[p] = store[p]
        /\ \A p \in Objects : store[p].id \in Nat /\ store[p].copies \in Nat
    BY <1>2, <2>1, <2>3, ChangedObject
  <2> HIDE DEF s
  <2>5. /\ \A p \in Objects : s[p].id >= store[p].id
        /\ \A p \in Objects \ {} : s[p].other = store[p].other /\ s[p].copies = store[p].copies
        /\ \A p \in Objects : s[p].id = store[p].id /\ s[p].copies >= 1 =>
               store[p].copies >= 1 /\ (s[p].m = "foreign" => store[p].m = "foreign")
    BY <1>2, <2>3, <2>4
  <2> QED BY <2>2, <2>4, <2>5, EditToKeeps
<1>7. CASE Drop(o)
  <2> DEFINE S == {o} \cup {x \in Objects : o[1] = "client" /\ x = Mapper(o[2])}
             s == [x \in Objects |-> IF x \in S THEN Gone(x) ELSE store[x]]
  <2>1. EditTo(s, S)
    BY <1>7 DEF Drop
  <2>2. \A p \in Objects : store[p] \in Shapes /\ store[p].id \in Nat /\ store[p].copies \in Nat
    BY DEF SyncInv, SyncTypes, Shapes
  <2>3. \A p \in Objects : /\ Gone(p) \in Shapes /\ Gone(p).copies = 0 /\ Gone(p).m = "drifted"
                           /\ Gone(p).other = 0 /\ Gone(p).id = store[p].id + 1
    BY <2>2 DEF Gone, Absent, Shapes
  <2>4. S \in SUBSET Objects /\ o \in S
    OBVIOUS
  <2>5. /\ s \in [Objects -> Shapes] /\ \A p \in S : s[p] = Gone(p)
        /\ \A p \in Objects \ S : s[p] = store[p]
    BY <2>2, <2>3
  <2>6. ASSUME NEW p \in Objects, p[1] = "mapper", p \notin S PROVE Client(p[2]) \notin S
    <3>1. \A x : Client(x)[1] = "client" /\ Client(x)[2] = x /\ Mapper(x)[1] = "mapper"
      BY DEF Client, Mapper
    <3>2. p = Mapper(p[2])
      BY <2>6, Kinds DEF Objects
    <3>3. Client(p[2]) # o
      BY <2>6, <3>1, <3>2
    <3>4. \A x \in S : x = o \/ x[1] = "mapper"
      BY <3>1
    <3> QED BY <3>1, <3>3, <3>4
  <2> HIDE DEF S, s
  <2>7. Realm(s)
    <3> SUFFICES ASSUME NEW p \in Objects
                 PROVE  /\ p # Provider => s[p].copies <= 1 /\ s[p].m # "foreign"
                        /\ s[p].copies = 0 => s[p].m = "drifted" /\ s[p].other = 0
                        /\ p[1] = "mapper" /\ s[p].copies > 0 => s[Client(p[2])].copies = 1
      BY DEF Realm
    <3>1. CASE p \in S
      BY <2>3, <2>4, <2>5, <3>1
    <3>2. CASE p \notin S
      <4>1. /\ p # Provider => store[p].copies <= 1 /\ store[p].m # "foreign"
            /\ store[p].copies = 0 => store[p].m = "drifted" /\ store[p].other = 0
            /\ p[1] = "mapper" /\ store[p].copies > 0 => store[Client(p[2])].copies = 1
        BY DEF SyncInv, RealmOK, Realm
      <4>2. p[1] = "mapper" => Client(p[2]) \in Objects \ S
        BY <2>6, <3>2, ParentIsObject
      <4> QED BY <2>5, <3>2, <4>1, <4>2
    <3> QED BY <3>1, <3>2
  <2>8. /\ \A p \in Objects : s[p].id >= store[p].id
        /\ \A p \in Objects \ S : s[p].other = store[p].other /\ s[p].copies = store[p].copies
        /\ \A p \in Objects : s[p].id = store[p].id /\ s[p].copies >= 1 =>
               store[p].copies >= 1 /\ (s[p].m = "foreign" => store[p].m = "foreign")
    BY <2>2, <2>3, <2>4, <2>5
  <2> QED BY <2>1, <2>4, <2>5, <2>7, <2>8, EditToKeeps
<1> QED BY <1>1, <1>4, <1>5, <1>6, <1>7

-----------------------------------------------------------------------------
LEMMA InitialSync == ASSUME Init PROVE SyncInv
<1>1. store \in [Objects -> Entries] /\ Realm(store)
  BY SyncAssumption DEF Init
<1>2. \A o \in Objects : store[o] \in Shapes
  <2>1. Entries \subseteq Shapes
    BY DEF Entries, Shapes
  <2> QED BY <1>1, <2>1
<1>3. store \in [Objects -> Shapes] /\ \A o \in Objects : store[o].other \in Nat
  <2>1. \A o \in Objects : store[o].other \in Nat
    BY <1>2 DEF Shapes
  <2> QED BY <1>1, <1>2, <2>1
<1>4. Idle \in Execution /\ Idle.phase = "idle"
  <2>1. << >> \in Views
    BY EmptyView
  <2> QED BY <2>1 DEF Idle, Execution
<1>5. outside = [o \in Objects |-> store[o].other] /\ late = {} /\ run = [r \in Runs |-> Idle]
  BY DEF Init
<1>6. SyncTypes
  BY <1>3, <1>4, <1>5 DEF Init, SyncTypes
<1>7. RealmOK /\ KeptOK
  BY <1>1, <1>5 DEF RealmOK, Realm, KeptOK
<1>8. Running = {}
  BY <1>4, <1>5 DEF Running
<1> QED BY <1>5, <1>6, <1>7, <1>8 DEF SyncInv, RunsOK, LateOK

LEMMA UnchangedSync == ASSUME SyncInv, UNCHANGED vars PROVE SyncInv'
BY DEF vars, SyncInv, SyncTypes, RealmOK, Realm, KeptOK, Planned, Fit, RunsOK, Running, LateFit,
       LateOK, Good, Matches, Echoes

LEMMA NextSync == ASSUME SyncInv, Next PROVE SyncInv'
<1>1. ASSUME NEW r \in Runs, Begin(r) \/ Script(r) \/ TokenFails(r) \/ RequestFails(r)
      PROVE  SyncInv'
  BY <1>1, BeginKeeps, TokenKeeps, PlanKeeps, ApplyKeeps, CreatedKeeps, VerifyKeeps, FinishKeeps,
     TokenFailsKeeps, RequestFailsKeeps, Zenon DEF Script
<1> QED BY <1>1, LateKeeps, EditKeeps, Zenon DEF Next

(* Whatever requests are lost or late, whatever runs overlap and whatever the *)
(* administrator does meanwhile: sync-keycloak-demo-data.py keeps the realm   *)
(* one Keycloak can hold, and every pending plan, also one whose write timed  *)
(* out, is still the memory of the realm that SyncInv describes.              *)
THEOREM SyncInvariant == Spec => []SyncInv
<1>1. Init => SyncInv
  BY InitialSync
<1>2. SyncInv /\ [Next]_vars => SyncInv'
  BY NextSync, UnchangedSync
<1> QED BY <1>1, <1>2, PTL DEF Spec

(* The unmanaged part of every object, which the script sends back as it read *)
(* it (clients, policies, profile, users) or leaves to the server's merge     *)
(* (components, realm fields), is the administrator's unless an edit raced a  *)
(* pending plan: for every number of runs, faults and edits.                  *)
THEOREM UnmanagedSurvives == Spec => []UnmanagedKept
<1>1. SyncInv => UnmanagedKept
  <2> SUFFICES ASSUME SyncInv, NEW o \in Objects, store[o].copies = 1, o \notin raced \/ ~Echoes(o)
               PROVE  store[o].other = outside[o]
    BY DEF UnmanagedKept
  <2> QED BY DEF SyncInv, KeptOK
<1> QED BY <1>1, SyncInvariant, PTL

-----------------------------------------------------------------------------
(***************************************************************************)
(* The refinement.  Each step of the script is a step of Reconcile, or     *)
(* leaves what Reconcile sees alone.                                       *)
(***************************************************************************)
Shown == [o \in Objects |-> Seen(o)]
Stage == [r \in Runs |-> Phase(r)]
SeenStates == {"drifted", "desired", "blocked"}

LEMMA ShownIs ==
    /\ Shown \in [Objects -> SeenStates]
    /\ \A o \in Objects : Shown[o] = Seen(o)
    /\ \A o \in Objects : Seen(o) = "desired" <=> Matches(store[o])
    /\ Promise!Desired(Shown) = Good(store)
<1>1. \A o \in Objects : Seen(o) \in SeenStates
  BY DEF Seen, SeenStates
<1>2. \A o \in Objects : Matches(store[o]) => ~Blocked(o, store[o])
  BY DEF Matches, Blocked
<1>3. \A o \in Objects : Seen(o) = "desired" <=> Matches(store[o])
  BY <1>2 DEF Seen
<1>4. Promise!Desired(Shown) = Good(store)
  BY <1>3 DEF Promise!Desired, Good, Shown
<1> QED BY <1>1, <1>3, <1>4 DEF Shown

LEMMA ShownNext ==
    /\ Shown' \in [Objects -> SeenStates]
    /\ \A o \in Objects : Shown'[o] = Seen(o)'
    /\ \A o \in Objects : Seen(o)' = "desired" <=> Matches(store'[o])
    /\ Promise!Desired(Shown') = Good(store')
<1>1. \A o \in Objects : Seen(o)' \in SeenStates
  BY DEF Seen, SeenStates
<1>2. \A o \in Objects : Matches(store'[o]) => ~Blocked(o, store'[o])
  BY DEF Matches, Blocked
<1>3. \A o \in Objects : Seen(o)' = "desired" <=> Matches(store'[o])
  BY <1>2 DEF Seen
<1>4. Promise!Desired(Shown') = Good(store')
  BY <1>3 DEF Promise!Desired, Good, Shown
<1> QED BY <1>1, <1>3, <1>4 DEF Shown

LEMMA ShownUnchanged == ASSUME UNCHANGED store PROVE Shown' = Shown
BY DEF Shown, Seen, Blocked, Matches

LEMMA PromiseRunning ==
    ASSUME SyncInv PROVE Promise!Running = Running
<1>1. \A r \in Runs : run[r].phase \in {"idle", "running", "done", "failed"}
  BY DEF SyncInv, SyncTypes, Execution
<1> QED BY <1>1 DEF Promise!Running, Running, Phase

\* Phases follow the one run that moves.
PhaseOf(e) == IF e.phase = "running" /\ e.pc > LastPlanned THEN "checking" ELSE e.phase
LEMMA StageNext ==
    ASSUME SyncInv, NEW r \in Runs, NEW e, run' = [run EXCEPT ![r] = e]
    PROVE  Stage' = [Stage EXCEPT ![r] = PhaseOf(e)]
<1>1. DOMAIN run = Runs
  BY DEF SyncInv, SyncTypes
<1>2. run'[r] = e /\ \A q \in Runs \ {r} : run'[q] = run[q]
  BY <1>1
<1>3. Phase(r)' = PhaseOf(e)
  BY <1>2 DEF Phase, PhaseOf
<1>4. \A q \in Runs \ {r} : Phase(q)' = Phase(q)
  BY <1>2 DEF Phase
<1> QED BY <1>3, <1>4 DEF Stage

LEMMA StageSame ==
    ASSUME SyncInv, NEW r \in Runs, NEW e, run' = [run EXCEPT ![r] = e], PhaseOf(e) = PhaseOf(run[r])
    PROVE  Stage' = Stage
<1>1. Stage' = [Stage EXCEPT ![r] = PhaseOf(e)]
  BY StageNext
<1>2. Stage[r] = PhaseOf(run[r])
  BY DEF Stage, Phase, PhaseOf
<1> QED BY <1>1, <1>2 DEF Stage

\* A request that is not the last planned write moves a run within its phase.
LEMMA SamePhase ==
    ASSUME SyncInv, NEW r \in Runs, run[r].phase = "running", run[r].pc # LastPlanned, NEW view
    PROVE  PhaseOf(Advanced(r, view)) = PhaseOf(run[r])
<1>1. run[r].pc \in Nat /\ LastPlanned \in Nat
  BY ProgramParts, Lengths DEF SyncInv, SyncTypes, Execution
<1>2. Advanced(r, view).pc = run[r].pc + 1 /\ Advanced(r, view).phase = "running"
  BY DEF Advanced
<1> HIDE DEF Advanced
<1>3. run[r].pc + 1 > LastPlanned <=> run[r].pc > LastPlanned
  BY <1>1
<1> QED BY <1>2, <1>3 DEF PhaseOf

LEMMA Stutter ==
    ASSUME Shown' = Shown, Stage' = Stage, once' = once, edits' = edits
    PROVE  UNCHANGED Promise!vars
BY DEF Promise!vars, Shown, Stage

LEMMA Aborts ==
    ASSUME SyncInv, NEW r \in Runs, r \in Running, Fail(r), UNCHANGED <<store, once, edits>>
    PROVE  Promise!Next
<1>1. [Idle EXCEPT !.phase = "failed"].phase = "failed"
  BY IdleForms
<1>2. Stage' = [Stage EXCEPT ![r] = "failed"]
  BY <1>1, StageNext DEF Fail, PhaseOf
<1>3. Shown' = Shown /\ r \in Promise!Running
  BY ShownUnchanged, PromiseRunning
<1>4. Promise!Abort(r)
  BY <1>2, <1>3 DEF Promise!Abort, Stage, Shown
<1> QED BY <1>4 DEF Promise!Next

LEMMA BeginStarts == ASSUME SyncInv, NEW r \in Runs, Begin(r) PROVE Promise!Next
<1> DEFINE e == [Idle EXCEPT !.phase = "running"]
<1>1. e.phase = "running" /\ e.pc = 0 /\ LastPlanned \in Nat
  BY IdleForms, ProgramParts, Lengths
<1>2. /\ run' = [run EXCEPT ![r] = e] /\ once' = [once EXCEPT ![r] = Good(store)]
      /\ UNCHANGED <<store, edits>> /\ r \notin Running
  BY DEF Begin, Running
<1> HIDE DEF e
<1>3. PhaseOf(e) = "running"
  <2>1. ~(e.pc > LastPlanned)
    BY <1>1
  <2> QED BY <1>1, <2>1 DEF PhaseOf
<1>4. Stage' = [Stage EXCEPT ![r] = "running"]
  BY <1>2, <1>3, StageNext
<1>5. Shown' = Shown /\ r \notin Promise!Running /\ once' = [once EXCEPT ![r] = Promise!Desired(Shown)]
  BY <1>2, ShownUnchanged, PromiseRunning, ShownIs
<1>6. Promise!Start(r)
  BY <1>2, <1>4, <1>5 DEF Promise!Start, Stage, Shown
<1> QED BY <1>6 DEF Promise!Next

LEMMA FinishReports == ASSUME SyncInv, NEW r \in Runs, Finish(r) PROVE Promise!Next
<1>1. /\ run' = [run EXCEPT ![r] = [Idle EXCEPT !.phase = "done"]]
      /\ run[r].phase = "running" /\ run[r].pc = Len(Program) + 1
      /\ UNCHANGED <<store, once, edits>>
  BY DEF Finish, ReadOnly
<1>2. [Idle EXCEPT !.phase = "done"].phase = "done"
  BY IdleForms
<1>3. Stage' = [Stage EXCEPT ![r] = "done"]
  <2>1. PhaseOf([Idle EXCEPT !.phase = "done"]) = "done"
    BY <1>2 DEF PhaseOf
  <2> QED BY <1>1, <2>1, StageNext
<1>4. Stage[r] = "checking"
  <2>1. Len(Program) + 1 > LastPlanned
    BY ProgramParts, Lengths
  <2> QED BY <1>1, <2>1 DEF Stage, Phase
<1>5. once[r] = Objects
  <2>1. Fit(run[r], once[r]) /\ once[r] \subseteq Objects
    BY <1>1 DEF SyncInv, RunsOK, Running, SyncTypes
  <2>2. ASSUME NEW o \in Objects PROVE o \in once[r]
    <3>1. PICK i \in LastPlanned + 1 .. Len(Program) :
            Program[i].op \in {"verify", "apply"} /\ o \in Program[i].on
      BY EverythingIsChecked
    <3>2. i < run[r].pc
      BY <1>1, ProgramParts, Lengths
    <3> QED BY <2>1, <3>1, <3>2 DEF Fit
  <2> QED BY <2>1, <2>2
<1>6. Shown' = Shown
  BY <1>1, ShownUnchanged
<1>7. Promise!Report(r)
  BY <1>1, <1>3, <1>4, <1>5, <1>6 DEF Promise!Report, Stage, Shown
<1> QED BY <1>7 DEF Promise!Next

\* Requests that only read.
LEMMA ReadingStutters ==
    ASSUME SyncInv, NEW r \in Runs, run[r].phase = "running", run[r].pc # LastPlanned, NEW view,
           Advance(r, view), ReadOnly
    PROVE  UNCHANGED Promise!vars
<1>1. run' = [run EXCEPT ![r] = Advanced(r, view)] /\ UNCHANGED <<store, once, edits>>
  BY DEF Advance, Advanced, ReadOnly
<1>2. Stage' = Stage
  BY <1>1, SamePhase, StageSame
<1> QED BY <1>1, <1>2, ShownUnchanged, Stutter

LEMMA LastPlannedIsWrite ==
    ASSUME SyncInv, NEW r \in Runs, NEW op, op # "apply", At(r, op)
    PROVE  run[r].pc # LastPlanned
BY CurrentRequest, ProgramParts, RealmAt

LEMMA ScriptReads ==
    ASSUME SyncInv, NEW r \in Runs, Token(r) \/ Plan(r) \/ Created(r) \/ Verify(r)
    PROVE  Promise!Next \/ UNCHANGED Promise!vars
<1>1. ReadOnly /\ run[r].phase = "running" /\ r \in Running
  BY DEF Token, Plan, Created, Verify, At, Running
<1>2. run[r].pc # LastPlanned
  <2>1. CASE Token(r)
    <3>1. LastPlanned # 0
      BY ProgramParts, Lengths
    <3> QED BY <2>1, <3>1 DEF Token
  <2>2. CASE Plan(r)
    BY <2>2, LastPlannedIsWrite DEF Plan
  <2>3. CASE Created(r)
    BY <2>3, LastPlannedIsWrite DEF Created
  <2>4. CASE Verify(r)
    BY <2>4, LastPlannedIsWrite DEF Verify
  <2> QED BY <2>1, <2>2, <2>3, <2>4
<1>3. Fail(r) \/ \E view : Advance(r, view)
  <2>1. CASE Token(r)
    BY <2>1, Zenon DEF Token
  <2>2. CASE Plan(r)
    BY <2>2, Zenon DEF Plan
  <2>3. CASE Created(r)
    BY <2>3, Zenon DEF Created
  <2>4. CASE Verify(r)
    BY <2>4, Zenon DEF Verify, Forget
  <2> QED BY <2>1, <2>2, <2>3, <2>4
<1>4. CASE Fail(r)
  <2>1. UNCHANGED <<store, once, edits>>
    BY <1>1 DEF ReadOnly
  <2> QED BY <1>1, <1>4, <2>1, Aborts
<1>5. ASSUME NEW view, Advance(r, view) PROVE UNCHANGED Promise!vars
  BY <1>1, <1>2, <1>5, ReadingStutters
<1> QED BY <1>3, <1>4, <1>5, Zenon

LEMMA TokenFailsIs ==
    ASSUME SyncInv, NEW r \in Runs, TokenFails(r)
    PROVE  Promise!Next \/ UNCHANGED Promise!vars
<1>1. r \in Running /\ UNCHANGED <<store, once, edits>>
  BY DEF TokenFails, Running
<1>2. CASE Fail(r)
  BY <1>1, <1>2, Aborts
<1>3. CASE run' = [run EXCEPT ![r].tries = @ + 1]
  <2> DEFINE e == [run[r] EXCEPT !.tries = @ + 1]
  <2>1. run[r] \in Execution
    BY DEF SyncInv, SyncTypes
  <2>2. e.pc = run[r].pc /\ e.phase = run[r].phase /\ run' = [run EXCEPT ![r] = e]
    BY <1>3, <2>1 DEF Execution
  <2> HIDE DEF e
  <2>3. Stage' = Stage
    BY <2>2, StageSame DEF PhaseOf
  <2> QED BY <1>1, <2>3, ShownUnchanged, Stutter
<1> QED BY <1>2, <1>3 DEF TokenFails

\* A write of the script improves what it writes, or duplicates the provider.
LEMMA WriteIsSeen ==
    ASSUME SyncInv, NEW S, NEW view, Carried(S, view),
           store' = StoreAfter(S, view), UNCHANGED <<outside, raced>>
    PROVE  \/ \A o \in Objects : Seen(o)' = Seen(o) \/ (Seen(o) = "drifted" /\ Seen(o)' = "desired")
           \/ /\ S = {Provider} /\ Seen(Provider)' = "blocked"
              /\ \A o \in Objects \ {Provider} : Seen(o)' = Seen(o)
              /\ Good(store') \subseteq Good(store)
<1>1. /\ \A o \in Objects \ S : store'[o] = store[o]
      /\ \A o \in S : /\ store'[o].m = "desired" /\ store'[o].copies >= 1
                      /\ o # Provider => store'[o].copies = 1
                      /\ store[o].copies >= 1 => (store'[o].copies = store[o].copies
                           \/ (o = Provider /\ store'[o].copies > 1))
                      /\ store[o].copies >= 1 /\ store'[o].copies = store[o].copies =>
                           store[o].m # "foreign"
                      /\ o[1] = "user" => store[o].copies = 1
      /\ store' \in [Objects -> Shapes] /\ S \subseteq Objects
  BY WriteEffect DEF SyncInv, Carried
<1>2. \A o \in Objects \ S : Seen(o)' = Seen(o)
  BY <1>1 DEF Seen, Blocked, Matches
<1>3. ASSUME NEW o \in S, store'[o].copies = 1
      PROVE  Seen(o)' = "desired" /\ Seen(o) \in {"desired", "drifted"}
  <2>1. store'[o].m = "desired" /\ o \in Objects
    BY <1>1
  <2>2. Seen(o)' = "desired"
    BY <1>3, <2>1 DEF Seen, Blocked, Matches
  <2>3. store[o].copies \in Nat
    BY <2>1 DEF SyncInv, SyncTypes, Shapes
  <2>4. /\ o # Provider => store[o].copies <= 1 /\ store[o].m # "foreign"
        /\ store[o].copies = 0 => store[o].m = "drifted"
    BY <2>1 DEF SyncInv, RealmOK, Realm
  <2>5. store[o].copies <= 1 /\ store[o].m # "foreign" /\ (o[1] = "user" => store[o].copies = 1)
    <3>1. /\ store[o].copies >= 1 => (store'[o].copies = store[o].copies
               \/ (o = Provider /\ store'[o].copies > 1))
          /\ store[o].copies >= 1 /\ store'[o].copies = store[o].copies => store[o].m # "foreign"
          /\ o[1] = "user" => store[o].copies = 1
      BY <1>1
    <3>2. CASE store[o].copies = 0
      BY <2>4, <3>1, <3>2
    <3>3. CASE store[o].copies >= 1
      BY <1>3, <3>1, <3>3
    <3> QED BY <2>3, <3>2, <3>3
  <2>6. ~Blocked(o, store[o])
    BY <2>3, <2>5 DEF Blocked
  <2> QED BY <2>2, <2>6 DEF Seen
<1>4. CASE \A o \in S : store'[o].copies = 1
  BY <1>2, <1>3, <1>4
<1>5. ASSUME NEW x \in S, store'[x].copies # 1
      PROVE  /\ S = {Provider} /\ Seen(Provider)' = "blocked"
             /\ \A o \in Objects \ {Provider} : Seen(o)' = Seen(o)
             /\ Good(store') \subseteq Good(store)
  <2>1. x = Provider /\ S = {Provider} /\ store'[Provider].copies >= 1
    BY <1>1, <1>5 DEF Carried
  <2>2. store'[Provider].copies \in Nat
    BY <1>1, <2>1 DEF Shapes
  <2>3. store'[Provider].copies > 1
    BY <1>5, <2>1, <2>2
  <2>4. Seen(Provider)' = "blocked"
    BY <2>3 DEF Seen, Blocked
  <2>5. Good(store') \subseteq Good(store)
    <3> SUFFICES ASSUME NEW o \in Objects, Matches(store'[o]) PROVE Matches(store[o])
      BY DEF Good
    <3>1. o # Provider
      BY <1>5, <2>1 DEF Matches
    <3> QED BY <1>1, <2>1, <3>1
  <2> QED BY <1>2, <2>1, <2>4, <2>5
<1> QED BY <1>4, <1>5

LEMMA NotedIs ==
    ASSUME SyncInv
    PROVE  Promise!Noted(Shown') =
             [q \in Runs |-> IF q \in Running THEN once[q] \cup Good(store') ELSE once[q]]
BY PromiseRunning, ShownNext DEF Promise!Noted

\* A run that is under way has seen all that is desired now.
LEMMA NothingNew ==
    ASSUME SyncInv, Good(store') \subseteq Good(store), Note(store') PROVE once' = once
<1>1. \A q \in Running : Good(store') \subseteq once[q]
  BY DEF SyncInv, RunsOK, Fit
<1>2. once = [q \in Runs |-> once[q]]
  BY DEF SyncInv, SyncTypes
<1>3. \A q \in Runs : (IF q \in Running THEN once[q] \cup Good(store') ELSE once[q]) = once[q]
  BY <1>1
<1> QED BY <1>2, <1>3 DEF Note

LEMMA WriteImproves ==
    ASSUME SyncInv, NEW S, NEW view, Carried(S, view), store' = StoreAfter(S, view), Note(store'),
           Stage' = Stage, UNCHANGED <<edits, outside, raced>>
    PROVE  Promise!Next
<1>1. CASE \A o \in Objects : Seen(o)' = Seen(o) \/ (Seen(o) = "drifted" /\ Seen(o)' = "desired")
  <2>1. \A o \in Objects : Shown'[o] = Shown[o] \/ (Shown[o] = "drifted" /\ Shown'[o] = "desired")
    BY <1>1, ShownIs, ShownNext
  <2>2. Promise!Better
    BY <2>1, ShownNext DEF Promise!Better, Shown, SeenStates
  <2>3. once' = Promise!Noted(Shown')
    BY NotedIs DEF Note
  <2>4. Promise!Improve
    BY <2>2, <2>3 DEF Promise!Improve, Shown, Stage
  <2> QED BY <2>4 DEF Promise!Next
<1>2. CASE /\ S = {Provider} /\ Seen(Provider)' = "blocked"
           /\ \A o \in Objects \ {Provider} : Seen(o)' = Seen(o)
           /\ Good(store') \subseteq Good(store)
  <2>1. Shown' = [Shown EXCEPT ![Provider] = "blocked"]
    BY <1>2 DEF Shown
  <2>2. once' = once
    BY <1>2, NothingNew
  <2>3. Promise!Duplicate
    BY <2>1, <2>2 DEF Promise!Duplicate, Shown, Stage
  <2> QED BY <2>3 DEF Promise!Next
<1> QED BY <1>1, <1>2, WriteIsSeen

LEMMA ApplyIs == ASSUME SyncInv, NEW r \in Runs, Apply(r) PROVE Promise!Next
<1> DEFINE i == run[r].pc
           view == run[r].view
           S == Payload(Cur(r).on, view)
           w == Without(view, {o \in Cur(r).on : o[1] # "client"})
<1>1. At(r, "apply") /\ UNCHANGED <<edits, outside, raced>>
  BY DEF Apply
<1>2. /\ i \in 1 .. Len(Program) /\ Cur(r).on = Program[i].on /\ r \in Running /\ view \in Views
      /\ run[r].phase = "running" /\ i \in Nat
  BY <1>1, CurrentRequest DEF At
<1>3. CASE Fail(r) /\ UNCHANGED <<store, once>>
  BY <1>1, <1>2, <1>3, Aborts
<1>4. CASE /\ \A o \in S : Accepts(o, view)
           /\ run' = [run EXCEPT ![r] = Advanced(r, w)] /\ store' = StoreAfter(S, view)
           /\ IF i = LastPlanned
              THEN once' = [q \in Runs |-> IF q = r THEN Good(store')
                              ELSE IF q \in Running THEN once[q] \cup Good(store') ELSE once[q]]
              ELSE Note(store')
  <2>1. /\ S \subseteq Cur(r).on /\ S \subseteq Objects /\ S \subseteq DOMAIN view
        /\ \A o \in S : Planned(o, view[o])
        /\ Provider \in S => S = {Provider}
    BY <1>1, PayloadFits
  <2>2. Carried(S, view)
    BY <1>2, <1>4, <2>1 DEF Carried
  <2> HIDE DEF w
  <2>3. CASE i # LastPlanned
    <3>1. Stage' = Stage
      BY <1>2, <1>4, <2>3, SamePhase, StageSame
    <3> QED BY <1>1, <1>4, <2>2, <2>3, <3>1, WriteImproves
  <2>4. CASE i = LastPlanned
    <3>1. Program[LastPlanned].on = {Fields, Policies} /\ Provider \notin {Fields, Policies}
      BY ProgramParts, RealmAt, Kinds
    <3>2. Provider \notin S
      BY <1>2, <2>1, <2>4, <3>1
    <3> HIDE DEF S
    <3>3. \A o \in Objects : Seen(o)' = Seen(o) \/ (Seen(o) = "drifted" /\ Seen(o)' = "desired")
      BY <1>1, <1>4, <2>2, <3>2, WriteIsSeen
    <3>4. \A o \in Objects : Shown'[o] = Shown[o] \/ (Shown[o] = "drifted" /\ Shown'[o] = "desired")
      BY <3>3, ShownIs, ShownNext
    <3>5. Promise!Better
      BY <3>4, ShownNext DEF Promise!Better, Shown, SeenStates
    <3>6. PhaseOf(Advanced(r, w)) = "checking" /\ PhaseOf(run[r]) = "running"
      <4>1. Advanced(r, w).pc = i + 1 /\ Advanced(r, w).phase = "running"
        BY DEF Advanced
      <4>2. i + 1 > LastPlanned /\ ~(i > LastPlanned)
        BY <1>2, <2>4
      <4> QED BY <1>2, <4>1, <4>2 DEF PhaseOf
    <3>7. Stage' = [Stage EXCEPT ![r] = "checking"]
      BY <1>4, <3>6, StageNext
    <3>8. Stage[r] = "running"
      BY <3>6 DEF Stage, Phase, PhaseOf
    <3>9. once' = [Promise!Noted(Shown') EXCEPT ![r] = Promise!Desired(Shown')]
      <4>1. once' = [q \in Runs |-> IF q = r THEN Good(store')
                       ELSE IF q \in Running THEN once[q] \cup Good(store') ELSE once[q]]
        BY <1>4, <2>4
      <4>2. [[q \in Runs |-> IF q \in Running THEN once[q] \cup Good(store') ELSE once[q]]
               EXCEPT ![r] = Good(store')]
            = [q \in Runs |-> IF q = r THEN Good(store')
                 ELSE IF q \in Running THEN once[q] \cup Good(store') ELSE once[q]]
        OBVIOUS
      <4> QED BY <4>1, <4>2, NotedIs, ShownNext
    <3>10. Promise!Recheck(r)
      BY <1>1, <3>5, <3>7, <3>8, <3>9 DEF Promise!Recheck, Shown, Stage
    <3> QED BY <3>10 DEF Promise!Next
  <2> QED BY <2>3, <2>4
<1> QED BY <1>3, <1>4 DEF Apply, Forget, Advance, Advanced

LEMMA LateIs == ASSUME SyncInv, LateArrives PROVE Promise!Next \/ UNCHANGED Promise!vars
<1>1. PICK w \in late :
        LET ok == \A o \in w.on : Accepts(o, w.view)
            s == IF ok THEN StoreAfter(w.on, w.view) ELSE store
        IN  store' = s /\ Note(s) /\ UNCHANGED <<run, edits, outside, raced>>
  BY DEF LateArrives
<1>2. w.on \subseteq Objects /\ w.view \in Views /\ LateFit(w)
  BY DEF SyncInv, SyncTypes, LateOK
<1>3. Stage' = Stage
  BY <1>1 DEF Stage, Phase
<1>4. CASE store' = store
  <2>1. once' = once
    BY <1>1, <1>4, NothingNew
  <2> QED BY <1>1, <1>3, <1>4, <2>1, ShownUnchanged, Stutter
<1>5. CASE store' = StoreAfter(w.on, w.view) /\ \A o \in w.on : Accepts(o, w.view)
  <2>1. Carried(w.on, w.view)
    BY <1>2, <1>5 DEF Carried, LateFit
  <2> QED BY <1>1, <1>3, <1>5, <2>1, WriteImproves
<1> QED BY <1>1, <1>4, <1>5

\* No edit makes an object desired.
LEMMA EditIsOutside == ASSUME SyncInv, Edit PROVE Promise!Next
<1>1. PICK o \in Objects : Touch(o) \/ Spoil(o) \/ Occupy(o) \/ Drop(o)
  BY DEF Edit
<1>2. Note(store') /\ edits' = edits + 1 /\ UNCHANGED run
  BY <1>1 DEF Touch, Spoil, Occupy, Drop, EditTo
<1>3. store[o] \in Shapes /\ store \in [Objects -> Shapes]
  BY DEF SyncInv, SyncTypes
<1>4. ASSUME NEW p \in Objects, Matches(store'[p]) PROVE Matches(store[p])
  <2>1. CASE Touch(o)
    <3>1. store' = [store EXCEPT ![o].other = edits + 1]
      BY <2>1 DEF Touch, EditTo
    <3>2. store'[p] = store[p] \/ (p = o /\ store'[p] = [store[o] EXCEPT !.other = edits + 1])
      BY <1>3, <3>1
    <3>3. [store[o] EXCEPT !.other = edits + 1].m = store[o].m
          /\ [store[o] EXCEPT !.other = edits + 1].copies = store[o].copies
      BY <1>3 DEF Shapes
    <3> QED BY <1>4, <3>2, <3>3 DEF Matches
  <2>2. CASE Spoil(o)
    <3>1. store' = [store EXCEPT ![o].m = "drifted"]
      BY <2>2 DEF Spoil, EditTo
    <3>2. store'[p] = store[p] \/ (p = o /\ store'[p] = [store[o] EXCEPT !.m = "drifted"])
      BY <1>3, <3>1
    <3>3. [store[o] EXCEPT !.m = "drifted"].m = "drifted"
      BY <1>3 DEF Shapes
    <3> QED BY <1>4, <3>2, <3>3 DEF Matches
  <2>3. CASE Occupy(o)
    <3> DEFINE y == IF store[o].m = "foreign" THEN "drifted" ELSE "foreign"
    <3>1. store' = [store EXCEPT ![o] = [store[o] EXCEPT !.m = y, !.id = @ + 1]]
      BY <1>3, <2>3 DEF Occupy, EditTo
    <3>2. store'[p] = store[p] \/ (p = o /\ store'[p] = [store[o] EXCEPT !.m = y, !.id = @ + 1])
      BY <1>3, <3>1
    <3>3. y # "desired"
      OBVIOUS
    <3> HIDE DEF y
    <3>4. [store[o] EXCEPT !.m = y, !.id = @ + 1].m = y
      BY <1>3 DEF Shapes
    <3> QED BY <1>4, <3>2, <3>3, <3>4 DEF Matches
  <2>4. CASE Drop(o)
    <3> DEFINE S == {o} \cup {x \in Objects : o[1] = "client" /\ x = Mapper(o[2])}
    <3>1. store' = [x \in Objects |-> IF x \in S THEN Gone(x) ELSE store[x]]
      BY <2>4 DEF Drop, EditTo
    <3>2. store'[p] = store[p] \/ store'[p] = Gone(p)
      BY <3>1
    <3>3. Gone(p).copies = 0
      BY DEF Gone, Absent
    <3> QED BY <1>4, <3>2, <3>3 DEF Matches
  <2> QED BY <1>1, <2>1, <2>2, <2>3, <2>4
<1>5. Good(store') \subseteq Good(store)
  BY <1>4 DEF Good
<1>6. once' = once
  BY <1>2, <1>5, NothingNew
<1>7. Promise!Desired(Shown') \subseteq Promise!Desired(Shown)
  BY <1>5, ShownIs, ShownNext
<1>8. Stage' = Stage
  BY <1>2 DEF Stage, Phase
<1>9. Promise!Outside
  BY <1>2, <1>6, <1>7, <1>8, ShownNext DEF Promise!Outside, Shown, Stage, SeenStates
<1> QED BY <1>9 DEF Promise!Next

LEMMA StepRefines ==
    ASSUME SyncInv, Next PROVE Promise!Next \/ UNCHANGED Promise!vars
<1>1. ASSUME NEW r \in Runs, RequestFails(r) PROVE Promise!Next
  <2>1. r \in Running /\ Fail(r) /\ UNCHANGED <<store, once, edits>>
    BY <1>1 DEF RequestFails, Running
  <2> QED BY <2>1, Aborts
<1>2. ASSUME NEW r \in Runs, Begin(r) \/ Script(r) \/ TokenFails(r) \/ RequestFails(r)
      PROVE  Promise!Next \/ UNCHANGED Promise!vars
  BY <1>1, <1>2, BeginStarts, ScriptReads, ApplyIs, FinishReports, TokenFailsIs, Zenon DEF Script
<1> QED BY <1>2, LateIs, EditIsOutside, Zenon DEF Next

(* sync-keycloak-demo-data.py implements Reconcile: with any number of        *)
(* clients, users, overlapping runs, lost and late requests and edits, its    *)
(* writes only make objects desired or duplicate the key provider, and it     *)
(* prints success only if, after its last planned write, every object was     *)
(* desired at some moment.                                                    *)
THEOREM SyncReconciles == Spec => Reconciles
<1>1. Init => Promise!Init
  <2> SUFFICES ASSUME Init PROVE Promise!Init
    OBVIOUS
  <2>1. Shown \in [Objects -> SeenStates]
    BY ShownIs
  <2>2. Stage = [r \in Runs |-> "idle"]
    <3>1. \A r \in Runs : run[r].phase = "idle"
      BY DEF Init, Idle
    <3> QED BY <3>1 DEF Stage, Phase
  <2> QED BY <2>1, <2>2 DEF Init, Promise!Init, Shown, Stage, SeenStates
<1>2. SyncInv /\ [Next]_vars => [Promise!Next]_(Promise!vars)
  <2> SUFFICES ASSUME SyncInv, [Next]_vars PROVE Promise!Next \/ UNCHANGED Promise!vars
    OBVIOUS
  <2>1. CASE Next
    BY <2>1, StepRefines
  <2>2. CASE UNCHANGED vars
    <3>1. Shown' = Shown
      BY <2>2, ShownUnchanged DEF vars
    <3>2. Stage' = Stage
      BY <2>2 DEF vars, Stage, Phase
    <3> QED BY <2>2, <3>1, <3>2, Stutter DEF vars
  <2> QED BY <2>1, <2>2
<1> QED BY <1>1, <1>2, SyncInvariant, PTL DEF Spec, Reconciles, Promise!Spec

-----------------------------------------------------------------------------
(***************************************************************************)
(* A run that nothing disturbs.  While it is under way it is the only one, *)
(* no late write is pending, its plan is still accurate, and what it has   *)
(* applied is desired; so only a blocked object can stop it.               *)
(***************************************************************************)
Same(o, v) == /\ v.copies = store[o].copies /\ v.m = store[o].m
              /\ v.copies > 0 => v.id = store[o].id
AppliedBefore(i, o) == \E j \in 1 .. i - 1 : Program[j].op = "apply" /\ o \in Program[j].on
Accurate(e) ==
    /\ \A o \in DOMAIN e.view : Same(o, e.view[o]) \/ (o[1] = "client" /\ AppliedBefore(e.pc, o))
    /\ \A o \in DOMAIN e.view : o[1] = "client" => e.view[o].id = store[o].id
    /\ \A o \in Objects : AppliedBefore(e.pc, o) => Matches(store[o])
SomeBlocked == \E o \in Objects : Blocked(o, store[o])
AloneFit(r) ==
    /\ run[r].phase = "failed" => SomeBlocked
    /\ run[r].phase = "running" => Running = {r} /\ late = {} /\ Accurate(run[r])
AloneOK == alone \in [Runs -> BOOLEAN] /\ \A r \in Runs : alone[r] => AloneFit(r)

LEMMA AppliedNext ==
    ASSUME NEW i \in 1 .. Len(Program), NEW o
    PROVE  AppliedBefore(i + 1, o) <=>
             AppliedBefore(i, o) \/ (Program[i].op = "apply" /\ o \in Program[i].on)
<1>1. i \in Nat /\ \A j \in 1 .. i : j \in 1 .. i - 1 \/ j = i
  BY ProgramParts, Lengths
<1>2. i + 1 - 1 = i /\ i \in 1 .. i /\ 1 .. i - 1 \subseteq 1 .. i
  BY <1>1, ProgramParts, Lengths
<1> QED BY <1>1, <1>2 DEF AppliedBefore

LEMMA NothingApplied == \A o : ~AppliedBefore(0, o) /\ ~AppliedBefore(1, o)
BY DEF AppliedBefore

\* Verification only looks at what was written before it.
LEMMA VerifiedIsApplied ==
    ASSUME NEW i \in 1 .. Len(Program), Program[i].op = "verify", NEW o \in Program[i].on
    PROVE  AppliedBefore(i, o)
<1>1. CASE i \in {1, 2 * N + 2, 2 * N + 3, 5 * N + 4, 7 * N + 5, 7 * N + 6, 7 * N + 7, 7 * N + 8}
  <2>1. i = 7 * N + 5 \/ i = 7 * N + 6
    BY <1>1, RealmAt
  <2>2. CASE i = 7 * N + 5
    <3>1. 5 * N + 4 \in 1 .. i - 1
      BY <2>2, Lengths
    <3> QED BY <2>2, <3>1, RealmAt DEF AppliedBefore
  <2>3. CASE i = 7 * N + 6
    <3>1. 2 * N + 3 \in 1 .. i - 1
      BY <2>3, Lengths
    <3> QED BY <2>3, <3>1, RealmAt DEF AppliedBefore
  <2> QED BY <2>1, <2>2, <2>3
<1>2. ASSUME NEW k \in 1 .. N, i \in {1 + k, N + 1 + k, 2 * N + 2 + 2 * k, 2 * N + 3 + 2 * k,
                                      4 * N + 3 + k, 5 * N + 4 + k, 6 * N + 4 + k}
      PROVE  AppliedBefore(i, o)
  <2>1. i = 5 * N + 4 + k \/ i = 6 * N + 4 + k
    BY <1>2, ClientAt
  <2>2. CASE i = 5 * N + 4 + k
    <3>1. 2 * N + 2 + 2 * k \in 1 .. i - 1
      BY <2>2, Lengths
    <3> QED BY <2>2, <3>1, ClientAt DEF AppliedBefore
  <2>3. CASE i = 6 * N + 4 + k
    <3>1. 4 * N + 3 + k \in 1 .. i - 1
      BY <2>3, Lengths
    <3> QED BY <2>3, <3>1, ClientAt DEF AppliedBefore
  <2> QED BY <2>1, <2>2, <2>3
<1>3. ASSUME NEW k \in 1 .. U, i \in {7 * N + 6 + 3 * k, 7 * N + 7 + 3 * k, 7 * N + 8 + 3 * k}
      PROVE  AppliedBefore(i, o)
  <2>1. i = 7 * N + 8 + 3 * k
    BY <1>3, UserAt
  <2>2. 7 * N + 7 + 3 * k \in 1 .. i - 1
    BY <2>1, Lengths
  <2> QED BY <2>1, <2>2, UserAt DEF AppliedBefore
<1> QED BY <1>1, <1>2, <1>3, Positions, Zenon

\* A client is written once.
LEMMA ClientAppliedOnce ==
    ASSUME NEW i \in 1 .. Len(Program), Program[i].op = "apply", NEW o \in Program[i].on,
           o[1] = "client"
    PROVE  ~AppliedBefore(i, o)
<1> SUFFICES ASSUME NEW j \in 1 .. i - 1, Program[j].op = "apply", o \in Program[j].on
             PROVE  FALSE
  BY DEF AppliedBefore
<1>1. j \in 1 .. Len(Program) /\ j # i
  BY ProgramParts, Lengths
<1>2. ASSUME NEW l \in 1 .. Len(Program), Program[l].op = "apply", o \in Program[l].on
      PROVE  \E k \in 1 .. N : l = 2 * N + 2 + 2 * k /\ o = Client(Clients[k])
  <2>1. \/ Program[l].on = {Provider}
        \/ \E k \in 1 .. N : l = 2 * N + 2 + 2 * k /\ Program[l].on = {Client(Clients[k])}
        \/ \E x : Program[l].on = {Mapper(x)} \/ Program[l].on = {User(x)}
        \/ Program[l].on = {Fields, Policies} \/ Program[l].on = {Profile}
    BY <1>2, ApplyCases, Zenon
  <2> QED BY <1>2, <2>1, Kinds
<1>3. PICK k \in 1 .. N : i = 2 * N + 2 + 2 * k /\ o = Client(Clients[k])
  BY <1>2
<1>4. PICK l \in 1 .. N : j = 2 * N + 2 + 2 * l /\ o = Client(Clients[l])
  BY <1>1, <1>2
<1>5. Clients[k] = Clients[l]
  <2>1. \A x : Client(x)[2] = x
    BY DEF Client
  <2>2. o[2] = Clients[k] /\ o[2] = Clients[l]
    BY <1>3, <1>4, <2>1, Zenon
  <2> QED BY <2>2
<1>6. k = l
  BY <1>5, Lengths, SyncAssumption DEF IsInjective
<1> QED BY <1>1, <1>3, <1>4, <1>6

\* A mapper is read before anything is written, and after its client was read.
LEMMA MapperPlanned ==
    ASSUME NEW i \in 1 .. Len(Program), Program[i].op = "plan", NEW o \in Program[i].on,
           o[1] = "mapper"
    PROVE  HeldAt(i, Client(o[2])) /\ \A x : ~AppliedBefore(i, x)
<1>1. PICK k \in 1 .. N : i = N + 1 + k /\ o = Mapper(Clients[k])
  <2>1. CASE i \in {1, 2 * N + 2, 2 * N + 3, 5 * N + 4, 7 * N + 5, 7 * N + 6, 7 * N + 7, 7 * N + 8}
    BY <2>1, RealmAt, Kinds
  <2>2. ASSUME NEW k \in 1 .. N, i \in {1 + k, N + 1 + k, 2 * N + 2 + 2 * k, 2 * N + 3 + 2 * k,
                                        4 * N + 3 + k, 5 * N + 4 + k, 6 * N + 4 + k}
        PROVE  i = N + 1 + k /\ o = Mapper(Clients[k])
    <3>1. i = 1 + k \/ i = N + 1 + k
      BY <2>2, ClientAt
    <3> QED BY <3>1, ClientAt, Kinds
  <2>3. ASSUME NEW k \in 1 .. U, i \in {7 * N + 6 + 3 * k, 7 * N + 7 + 3 * k, 7 * N + 8 + 3 * k}
        PROVE  FALSE
    BY <2>3, UserAt, Kinds
  <2> QED BY <2>1, <2>2, <2>3, Positions, Zenon
<1>2. HeldAt(i, Client(o[2]))
  <2>1. Client(o[2]) = Client(Clients[k]) /\ Client(o[2])[1] = "client"
    BY <1>1, Kinds
  <2>2. 1 + k \in 1 .. i - 1
    BY <1>1, Lengths
  <2>3. Program[1 + k].op = "plan" /\ Client(o[2]) \in Program[1 + k].on
    BY <2>1, ClientAt
  <2> QED BY <2>1, <2>2, <2>3 DEF HeldAt, Keeps
<1>3. ASSUME NEW j \in 1 .. i - 1, Program[j].op = "apply" PROVE FALSE
  <2>1. j \in 1 .. Len(Program) /\ j < 2 * N + 3 /\ j \in Nat
    <3>1. Len(Program) = 7 * N + 8 + 3 * U
      BY ProgramParts
    <3> QED BY <1>1, <3>1, Lengths
  <2>2. \/ j = 2 * N + 3 \/ j = 5 * N + 4 \/ j = 7 * N + 8
        \/ \E l \in 1 .. N : j = 2 * N + 2 + 2 * l \/ j = 4 * N + 3 + l
        \/ \E l \in 1 .. U : j = 7 * N + 7 + 3 * l
    BY <1>3, <2>1, ApplyCases, Zenon
  <2> QED BY <2>1, <2>2, Lengths
<1> QED BY <1>2, <1>3 DEF AppliedBefore

\* A mapper is written after its client.
LEMMA MapperApplied ==
    ASSUME NEW i \in 1 .. Len(Program), Program[i].op = "apply", NEW o \in Program[i].on,
           o[1] = "mapper"
    PROVE  HeldAt(i, Client(o[2])) /\ AppliedBefore(i, Client(o[2]))
<1>1. PICK k \in 1 .. N : i = 4 * N + 3 + k /\ o = Mapper(Clients[k])
  <2>1. \/ Program[i].on = {Provider}
        \/ \E k \in 1 .. N : i = 4 * N + 3 + k /\ Program[i].on = {Mapper(Clients[k])}
        \/ \E x : Program[i].on = {Client(x)} \/ Program[i].on = {User(x)}
        \/ Program[i].on = {Fields, Policies} \/ Program[i].on = {Profile}
    BY ApplyCases, Zenon
  <2> QED BY <2>1, Kinds
<1>2. Client(o[2]) = Client(Clients[k]) /\ Client(o[2])[1] = "client"
  BY <1>1, Kinds
<1>3. 1 + k \in 1 .. i - 1 /\ 2 * N + 2 + 2 * k \in 1 .. i - 1
  BY <1>1, Lengths
<1>4. /\ Program[1 + k].op = "plan" /\ Client(o[2]) \in Program[1 + k].on
      /\ Program[2 * N + 2 + 2 * k].op = "apply" /\ Client(o[2]) \in Program[2 * N + 2 + 2 * k].on
  BY <1>2, ClientAt
<1> QED BY <1>2, <1>3, <1>4 DEF HeldAt, Keeps, AppliedBefore

\* A step of one run, as the history of undisturbed runs sees it.
LEMMA AloneStep ==
    ASSUME SyncInv, AloneOK, NEW r \in Runs, r \in Running, NEW e, run' = [run EXCEPT ![r] = e],
           UNCHANGED <<late, alone>>, SomeBlocked => SomeBlocked',
           alone[r] => /\ e.phase = "failed" => SomeBlocked'
                       /\ e.phase = "running" => Accurate(run[r])'
    PROVE  AloneOK'
<1>1. run'[r] = e /\ \A q \in Runs \ {r} : run'[q] = run[q]
  BY DEF SyncInv, SyncTypes
<1>2. ASSUME NEW q \in Runs, alone[q] PROVE AloneFit(q)'
  <2>1. AloneFit(q)
    BY <1>2 DEF AloneOK
  <2>2. CASE q = r
    <3>1. Running = {r} /\ late = {}
      BY <2>1, <2>2 DEF AloneFit, Running
    <3>2. e.phase = "running" => Running' = {r}
      BY <1>1, <3>1 DEF Running
    <3> QED BY <1>1, <1>2, <2>2, <3>1, <3>2 DEF AloneFit
  <2>3. CASE q # r
    <3>1. run[q].phase # "running"
      BY <2>1, <2>3 DEF AloneFit, Running
    <3> QED BY <1>1, <2>1, <2>3, <3>1 DEF AloneFit
  <2> QED BY <2>2, <2>3
<1> QED BY <1>2 DEF AloneOK

LEMMA BlockedUnchanged == ASSUME UNCHANGED store, SomeBlocked PROVE SomeBlocked'
BY DEF SomeBlocked, Blocked

LEMMA AccurateUnchanged ==
    ASSUME UNCHANGED store, NEW r \in Runs, NEW e, run'[r] = e, Accurate(e) PROVE Accurate(run[r])'
BY DEF Accurate, Same, Matches, AppliedBefore

\* A request that only reads: it fails because something is blocked, or the
\* plan stays accurate.
LEMMA AloneReads ==
    ASSUME SyncInv, AloneOK, NEW r \in Runs, r \in Running, ReadOnly,
           alone[r] => \/ Fail(r) /\ SomeBlocked
                       \/ \E e : run' = [run EXCEPT ![r] = e] /\ e.phase = "running" /\ Accurate(e),
           \E e : run' = [run EXCEPT ![r] = e]
    PROVE  AloneOK'
<1>1. UNCHANGED <<store, late, alone>>
  BY DEF ReadOnly
<1>2. CASE ~alone[r]
  BY <1>1, <1>2, AloneStep, BlockedUnchanged
<1>3. CASE Fail(r) /\ SomeBlocked
  <2>1. [Idle EXCEPT !.phase = "failed"].phase = "failed"
    BY IdleForms
  <2> QED BY <1>1, <1>3, <2>1, AloneStep, BlockedUnchanged DEF Fail
<1>4. ASSUME NEW e, run' = [run EXCEPT ![r] = e], e.phase = "running", Accurate(e) PROVE AloneOK'
  <2>1. run'[r] = e
    BY <1>4 DEF SyncInv, SyncTypes
  <2>2. Accurate(run[r])'
    BY <1>1, <1>4, <2>1, AccurateUnchanged
  <2> QED BY <1>1, <1>4, <2>2, AloneStep, BlockedUnchanged
<1> QED BY <1>2, <1>3, <1>4

\* Accuracy at the next request, when nothing is written.
LEMMA AccurateNext ==
    ASSUME NEW r \in Runs, NEW i, run[r].pc = i, i \in 1 .. Len(Program), Program[i].op # "apply",
           Accurate(run[r]), NEW w, NEW e, e.pc = i + 1, e.view = w,
           \A o \in DOMAIN w : (o \in DOMAIN run[r].view /\ w[o] = run[r].view[o])
                                 \/ (Same(o, w[o]) /\ w[o].id = store[o].id)
                                 \/ (Same(o, w[o]) /\ o[1] # "client")
    PROVE  Accurate(e)
<1>1. \A o : AppliedBefore(i + 1, o) <=> AppliedBefore(i, o)
  BY AppliedNext
<1> QED BY <1>1 DEF Accurate

LEMMA TokenAlone == ASSUME SyncInv, AloneOK, NEW r \in Runs, Token(r) PROVE AloneOK'
<1> DEFINE e == Advanced(r, << >>)
<1>1. run[r].pc = 0 /\ r \in Running /\ run' = [run EXCEPT ![r] = e] /\ ReadOnly
  BY DEF Token, Advance, Advanced, Running
<1>2. e.phase = "running" /\ e.pc = 1 /\ DOMAIN e.view = {}
  BY <1>1, EmptyView, AdvancedForm
<1> HIDE DEF e
<1>3. Accurate(e)
  BY <1>2, NothingApplied DEF Accurate
<1> QED BY <1>1, <1>2, <1>3, AloneReads

LEMMA FinishAlone == ASSUME SyncInv, AloneOK, NEW r \in Runs, Finish(r) PROVE AloneOK'
<1> DEFINE e == [Idle EXCEPT !.phase = "done"]
<1>1. r \in Running /\ run' = [run EXCEPT ![r] = e] /\ UNCHANGED <<store, late, alone>>
  BY DEF Finish, ReadOnly, Running
<1>2. e.phase = "done"
  BY IdleForms
<1> HIDE DEF e
<1> QED BY <1>1, <1>2, AloneStep, BlockedUnchanged

LEMMA VerifyAlone == ASSUME SyncInv, AloneOK, NEW r \in Runs, Verify(r) PROVE AloneOK'
<1> DEFINE i == run[r].pc
           v == run[r].view
           X == {o \in Objects : o[1] # "client"}
           w == Without(v, X)
           e == Advanced(r, w)
<1>1. At(r, "verify") /\ ReadOnly
  BY DEF Verify
<1>2. /\ i \in 1 .. Len(Program) /\ Program[i].op = "verify" /\ Cur(r).on = Program[i].on
      /\ Cur(r).on \subseteq Objects /\ v \in Views /\ i \in Nat /\ r \in Running
  BY <1>1, CurrentRequest
<1>3. run' = [run EXCEPT ![r] = e] \/ (Fail(r) /\ \E o \in Cur(r).on : ~Verified(o))
  BY DEF Verify, Forget, Advance, Advanced
<1>4. w \in Views /\ DOMAIN w = DOMAIN v \ X /\ \A o \in DOMAIN w : w[o] = v[o]
  <2> HIDE DEF X, v
  <2>1. /\ Without(v, X) \in Views /\ DOMAIN Without(v, X) = DOMAIN v \ X
        /\ \A o \in DOMAIN v \ X : Without(v, X)[o] = v[o]
    BY <1>2, WithoutFacts
  <2> QED BY <2>1
<1> HIDE DEF w
<1>5. e.phase = "running" /\ e.pc = i + 1 /\ e.view = w
  BY <1>2, <1>4, AdvancedForm
<1> HIDE DEF e
<1>6. ASSUME alone[r] PROVE run' = [run EXCEPT ![r] = e] /\ Accurate(e)
  <2>1. Accurate(run[r])
    BY <1>2, <1>6 DEF AloneOK, AloneFit, Running
  <2>2. \A o \in Cur(r).on : Verified(o)
    BY <1>2, <2>1, VerifiedIsApplied DEF Accurate, Verified
  <2>3. Accurate(e)
    BY <1>2, <1>4, <1>5, <2>1, AccurateNext
  <2> QED BY <1>3, <2>2, <2>3
<1> QED BY <1>1, <1>2, <1>3, <1>5, <1>6, AloneReads DEF Fail

\* Realm facts of the object read, and of the parent of a mapper.
LEMMA ReadIsSame ==
    ASSUME SyncInv, NEW r \in Runs, At(r, "plan"), Accurate(run[r]), NEW o \in Cur(r).on
    PROVE  /\ Same(o, ReadNow(o, run[r].view))
           /\ o[1] # "mapper" => ReadNow(o, run[r].view) = store[o]
           /\ Blocked(o, ReadNow(o, run[r].view)) => Blocked(o, store[o])
           /\ o[1] = "mapper" /\ run[r].view[Client(o[2])].copies > 0 => ParentKept(o, run[r].view)
<1> DEFINE i == run[r].pc
           v == run[r].view
           c == Client(o[2])
<1>1. /\ i \in 1 .. Len(Program) /\ Program[i].op = "plan" /\ Cur(r).on = Program[i].on
      /\ Cur(r).on \subseteq Objects /\ v \in Views /\ Fit(run[r], once[r])
  BY CurrentRequest
<1>2. Same(o, store[o])
  BY DEF Same
<1>3. CASE o[1] # "mapper"
  BY <1>2, <1>3 DEF ReadNow
<1>4. CASE o[1] = "mapper"
  <2>1. o \in Objects /\ c \in Objects /\ c # Provider /\ o # Provider
    BY <1>1, <1>4, ParentIsObject
  <2>2. HeldAt(i, c) /\ ~AppliedBefore(i, c)
    BY <1>1, <1>4, MapperPlanned
  <2>3. c \in DOMAIN v /\ v[c] \in Shapes
    BY <1>1, <2>1, <2>2, ViewFacts DEF Fit
  <2>4. Same(c, v[c])
    BY <2>2, <2>3 DEF Accurate
  <2>5. store[c].copies \in Nat /\ store[c].copies <= 1 /\ store[o].copies \in Nat
    BY <2>1 DEF SyncInv, SyncTypes, Shapes, RealmOK, Realm
  <2>6. v[c].copies > 0 => ParentKept(o, v)
    BY <2>4, <2>5 DEF Same, ParentKept
  <2>7. CASE v[c].copies = 0
    <3>1. ReadNow(o, v) = Absent
      BY <1>4, <2>7 DEF ReadNow
    <3>2. store[o].copies = 0 /\ store[o].m = "drifted"
      <4>1. store[c].copies = 0
        BY <2>4, <2>7 DEF Same
      <4>2. /\ store[o].copies > 0 => store[c].copies = 1
            /\ store[o].copies = 0 => store[o].m = "drifted"
        BY <1>4, <2>1 DEF SyncInv, RealmOK, Realm
      <4> QED BY <2>5, <4>1, <4>2
    <3>3. Absent.copies = 0 /\ Absent.m = "drifted" /\ Absent.id = 0
      BY DEF Absent
    <3>4. Same(o, Absent)
      BY <3>2, <3>3 DEF Same
    <3>5. ~Blocked(o, Absent)
      BY <1>4, <3>3 DEF Blocked
    <3> QED BY <1>4, <2>6, <3>1, <3>4, <3>5
  <2>8. CASE v[c].copies # 0
    <3>1. ReadNow(o, v) = store[o]
      BY <2>8 DEF ReadNow
    <3> QED BY <1>2, <1>4, <2>6, <3>1
  <2> QED BY <2>7, <2>8
<1> QED BY <1>3, <1>4

LEMMA PlanAlone == ASSUME SyncInv, AloneOK, NEW r \in Runs, Plan(r) PROVE AloneOK'
<1> DEFINE S == Cur(r).on
           i == run[r].pc
           v == run[r].view
           w == Read(S, v)
           e == Advanced(r, w)
<1>1. At(r, "plan") /\ ReadOnly
  BY DEF Plan
<1>2. /\ i \in 1 .. Len(Program) /\ Program[i].op = "plan" /\ S = Program[i].on
      /\ S \subseteq Objects /\ v \in Views /\ i \in Nat /\ r \in Running
  BY <1>1, CurrentRequest
<1>3. \/ run' = [run EXCEPT ![r] = e]
      \/ Fail(r) /\ \E o \in S : \/ Blocked(o, w[o])
                                 \/ o[1] = "mapper" /\ v[Client(o[2])].copies > 0 /\ ~ParentKept(o, v)
  BY DEF Plan, Advance, Advanced
<1>4. /\ DOMAIN w = S \cup DOMAIN v
      /\ \A o \in S : w[o] = ReadNow(o, v)
      /\ \A o \in DOMAIN v \ S : w[o] = v[o]
  BY DEF Read
<1> HIDE DEF w
<1>5. e.phase = "running" /\ e.pc = i + 1 /\ e.view = w
  BY DEF Advanced
<1> HIDE DEF e
<1>6. ASSUME alone[r]
      PROVE  \/ Fail(r) /\ SomeBlocked
             \/ run' = [run EXCEPT ![r] = e] /\ Accurate(e)
  <2>1. Accurate(run[r])
    BY <1>2, <1>6 DEF AloneOK, AloneFit, Running
  <2>2. \A o \in S : /\ Same(o, w[o]) /\ (o[1] # "mapper" => w[o] = store[o])
                     /\ Blocked(o, w[o]) => Blocked(o, store[o])
                     /\ o[1] = "mapper" /\ v[Client(o[2])].copies > 0 => ParentKept(o, v)
    BY <1>1, <1>4, <2>1, ReadIsSame
  <2>3. Accurate(e)
    <3>1. \A o \in DOMAIN w : (o \in DOMAIN v /\ w[o] = v[o])
                                 \/ (Same(o, w[o]) /\ w[o].id = store[o].id)
                                 \/ (Same(o, w[o]) /\ o[1] # "client")
      BY <1>4, <2>2
    <3> QED BY <1>2, <1>5, <2>1, <3>1, AccurateNext
  <2> QED BY <1>2, <1>3, <2>2, <2>3 DEF SomeBlocked
<1> QED BY <1>1, <1>2, <1>3, <1>5, <1>6, AloneReads DEF Fail

LEMMA CreatedAlone == ASSUME SyncInv, AloneOK, NEW r \in Runs, Created(r) PROVE AloneOK'
<1> DEFINE i == run[r].pc
           v == run[r].view
           c == CHOOSE o \in Cur(r).on : TRUE
           u == [v EXCEPT ![c] = store[c]]
<1>1. At(r, "created") /\ ReadOnly
  BY DEF Created
<1>2. /\ i \in 1 .. Len(Program) /\ Program[i].op = "created" /\ Cur(r).on = Program[i].on
      /\ Cur(r).on \subseteq Objects /\ v \in Views /\ i \in Nat /\ r \in Running
  BY <1>1, CurrentRequest
<1>3. PICK k \in 1 .. N : i = 2 * N + 3 + 2 * k /\ Program[i].on = {Client(Clients[k])}
  BY <1>2, CreatedCases
<1>4. c = Client(Clients[k]) /\ c \in Objects
  BY <1>2, <1>3
<1>5. \/ run' = [run EXCEPT ![r] = Advanced(r, v)]
      \/ run' = [run EXCEPT ![r] = Advanced(r, u)]
      \/ Fail(r) /\ store[c].copies # 1
  BY DEF Created, Advance, Advanced
<1>6. ASSUME NEW w, alone[r], run' = [run EXCEPT ![r] = Advanced(r, w)],
             \A o \in DOMAIN w : (o \in DOMAIN v /\ w[o] = v[o]) \/ w[o] = store[o]
      PROVE  \E e : run' = [run EXCEPT ![r] = e] /\ e.phase = "running" /\ Accurate(e)
  <2> DEFINE e == Advanced(r, w)
  <2>1. e.phase = "running" /\ e.pc = i + 1 /\ e.view = w
    BY DEF Advanced
  <2>2. Accurate(run[r])
    BY <1>2, <1>6 DEF AloneOK, AloneFit, Running
  <2> HIDE DEF e, v
  <2>3. \A o \in DOMAIN w : (o \in DOMAIN v /\ w[o] = v[o]) \/ (Same(o, w[o]) /\ w[o].id = store[o].id)
    BY <1>6 DEF Same
  <2>4. Accurate(e)
    BY <1>2, <2>1, <2>2, <2>3, AccurateNext DEF v
  <2> QED BY <1>6, <2>1, <2>4 DEF e
<1>7. ASSUME alone[r] PROVE store[c].copies = 1
  <2>1. Accurate(run[r])
    BY <1>2, <1>7 DEF AloneOK, AloneFit, Running
  <2>2. AppliedBefore(i, c)
    <3>1. 2 * N + 2 + 2 * k \in 1 .. i - 1
      BY <1>3, Lengths
    <3> QED BY <1>4, <3>1, ClientAt DEF AppliedBefore
  <2> QED BY <1>4, <2>1, <2>2 DEF Accurate, Matches
<1>8. \A o \in DOMAIN u : (o \in DOMAIN v /\ u[o] = v[o]) \/ u[o] = store[o]
  OBVIOUS
<1> HIDE DEF u, v, c
<1>9. alone[r] => \E e : run' = [run EXCEPT ![r] = e] /\ e.phase = "running" /\ Accurate(e)
  BY <1>5, <1>6, <1>7, <1>8
<1> QED BY <1>1, <1>2, <1>5, <1>9, AloneReads DEF Fail

\* The script repairs nothing it refuses: what is blocked stays so.
LEMMA WriteKeepsBlocked ==
    ASSUME SyncInv, NEW S, NEW view, Carried(S, view),
           store' = StoreAfter(S, view), UNCHANGED <<outside, raced>>, SomeBlocked
    PROVE  SomeBlocked'
<1>1. PICK o \in Objects : Blocked(o, store[o])
  BY DEF SomeBlocked
<1>2. Seen(o) = "blocked"
  BY <1>1 DEF Seen
<1>3. \E p \in Objects : Seen(p)' = "blocked"
  <2>1. Seen(o) # "drifted"
    BY <1>2
  <2>2. CASE \A p \in Objects : Seen(p)' = Seen(p) \/ (Seen(p) = "drifted" /\ Seen(p)' = "desired")
    BY <1>2, <2>1, <2>2
  <2>3. CASE Seen(Provider)' = "blocked"
    BY <2>3, RealmObjects
  <2> QED BY <2>2, <2>3, WriteIsSeen
<1>4. \A p \in Objects : Seen(p)' = "blocked" => Blocked(p, store'[p])
  BY DEF Seen
<1> QED BY <1>3, <1>4 DEF SomeBlocked, Blocked

\* The plan of an undisturbed run is accepted.
LEMMA PlanIsAccepted ==
    ASSUME SyncInv, NEW r \in Runs, At(r, "apply"), Accurate(run[r]), NEW o \in Cur(r).on
    PROVE  Same(o, run[r].view[o]) /\ Accepts(o, run[r].view)
<1> DEFINE i == run[r].pc
           v == run[r].view
           c == Client(o[2])
<1>1. /\ i \in 1 .. Len(Program) /\ Program[i].op = "apply" /\ Cur(r).on = Program[i].on
      /\ Cur(r).on \subseteq Objects /\ v \in Views /\ Fit(run[r], once[r])
  BY CurrentRequest
<1>2. o \in DOMAIN v /\ v[o] \in Shapes /\ v[o].copies \in Nat
  <2>1. o \in DOMAIN v
    BY <1>1, AppliedIsHeld DEF Fit
  <2> QED BY <1>1, <2>1, ViewFacts DEF Shapes
<1>3. Same(o, v[o])
  <2>1. o[1] = "client" => ~AppliedBefore(i, o)
    BY <1>1, ClientAppliedOnce
  <2> QED BY <1>2, <2>1 DEF Accurate
<1>4. ASSUME o[1] = "mapper" PROVE store[c].copies = 1 /\ store[c].id = v[c].id
  <2>1. c \in Objects
    BY <1>1, <1>4, ParentIsObject
  <2>2. HeldAt(i, c) /\ AppliedBefore(i, c)
    BY <1>1, <1>4, MapperApplied
  <2>3. c \in DOMAIN v /\ c[1] = "client"
    BY <1>1, <2>1, <2>2, Kinds DEF Fit
  <2> QED BY <2>1, <2>2, <2>3 DEF Accurate, Matches
<1>5. ParentKept(o, v)
  BY <1>4 DEF ParentKept
<1>6. IF v[o].copies = 0 THEN o = Provider \/ store[o].copies = 0
      ELSE store[o].copies >= 1 /\ store[o].id = v[o].id
  BY <1>2, <1>3 DEF Same
<1> QED BY <1>3, <1>5, <1>6 DEF Accepts

LEMMA ApplyAlone == ASSUME SyncInv, AloneOK, NEW r \in Runs, Apply(r) PROVE AloneOK'
<1> DEFINE i == run[r].pc
           view == run[r].view
           S == Payload(Cur(r).on, view)
           X == {o \in Cur(r).on : o[1] # "client"}
           w == Without(view, X)
           e == Advanced(r, w)
<1>1. At(r, "apply") /\ UNCHANGED <<late, alone, outside, raced>>
  BY DEF Apply
<1>2. /\ i \in 1 .. Len(Program) /\ Program[i].op = "apply" /\ Cur(r).on = Program[i].on
      /\ Cur(r).on \subseteq Objects /\ view \in Views /\ i \in Nat /\ Fit(run[r], once[r])
      /\ r \in Running
  BY <1>1, CurrentRequest
<1>3. \/ Fail(r) /\ store' = store /\ \E o \in S : ~Accepts(o, view)
      \/ /\ \A o \in S : Accepts(o, view)
         /\ run' = [run EXCEPT ![r] = e] /\ store' = StoreAfter(S, view)
  BY DEF Apply, Forget, Advance, Advanced
<1>4. /\ S \subseteq Cur(r).on /\ S \subseteq Objects /\ S \subseteq DOMAIN view
      /\ \A o \in S : Planned(o, view[o])
      /\ Provider \in S => S = {Provider}
  BY <1>1, PayloadFits
<1>5. \A o \in Cur(r).on \ S : Matches(view[o])
  BY DEF Payload, NeedsWrite
<1>6. CASE Fail(r) /\ store' = store /\ \E o \in S : ~Accepts(o, view)
  <2>1. ~alone[r]
    <3> SUFFICES ASSUME alone[r] PROVE FALSE
      OBVIOUS
    <3>1. Accurate(run[r])
      BY <1>2 DEF AloneOK, AloneFit, Running
    <3> HIDE DEF S
    <3> QED BY <1>1, <1>4, <1>6, <3>1, PlanIsAccepted
  <2> QED BY <1>1, <1>2, <1>6, <2>1, AloneStep, BlockedUnchanged DEF Fail
<1>7. CASE /\ \A o \in S : Accepts(o, view)
           /\ run' = [run EXCEPT ![r] = e] /\ store' = StoreAfter(S, view)
  <2>1. Carried(S, view)
    BY <1>2, <1>4, <1>7 DEF Carried
  <2>2. SomeBlocked => SomeBlocked'
    BY <1>1, <1>7, <2>1, WriteKeepsBlocked
  <2>3. /\ \A o \in Objects \ S : store'[o] = store[o]
        /\ \A o \in Objects : store'[o].id = store[o].id
        /\ \A o \in S : store'[o].m = "desired" /\ (o # Provider => store'[o].copies = 1)
        /\ \A o \in S : store'[o] = Written(o, view[o])
    <3>1. \A o \in S : store'[o] = Written(o, view[o])
      BY <1>4, <1>7 DEF StoreAfter
    <3>2. /\ \A o \in Objects \ S : store'[o] = store[o]
          /\ \A o \in Objects : store'[o].id = store[o].id
          /\ \A o \in S : store'[o].m = "desired" /\ (o # Provider => store'[o].copies = 1)
      <4> HIDE DEF S
      <4> QED BY <1>1, <1>7, <2>1, WriteEffect DEF SyncInv
    <3> QED BY <3>1, <3>2
  <2>4. w \in Views /\ DOMAIN w = DOMAIN view \ X /\ \A o \in DOMAIN w : w[o] = view[o]
    <3> HIDE DEF X, view
    <3>1. /\ Without(view, X) \in Views /\ DOMAIN Without(view, X) = DOMAIN view \ X
          /\ \A o \in DOMAIN view \ X : Without(view, X)[o] = view[o]
      BY <1>2, WithoutFacts
    <3> QED BY <3>1
  <2> HIDE DEF w, S
  <2>5. e.phase = "running" /\ e.pc = i + 1 /\ e.view = w
    BY DEF Advanced
  <2>6. run'[r].pc = i + 1 /\ run'[r].view = w
    BY <1>7, <2>5 DEF SyncInv, SyncTypes
  <2>7. ASSUME alone[r] PROVE Accurate(run[r])'
    <3>1. Accurate(run[r])
      BY <1>2, <2>7 DEF AloneOK, AloneFit, Running
    <3>2. \A o \in Cur(r).on : Same(o, view[o])
      BY <1>1, <3>1, PlanIsAccepted
    <3>3. ASSUME NEW o \in Objects, AppliedBefore(i + 1, o) PROVE Matches(store'[o])
      <4>1. CASE o \in S /\ o # Provider
        BY <2>3, <4>1 DEF Matches
      <4>2. CASE o \in S /\ o = Provider
        <5>1. /\ view[o] \in Shapes /\ store[o] \in Shapes /\ view[o].copies \in Nat
              /\ store[o].copies \in Nat /\ view[o].copies <= 1 /\ view[o].copies = store[o].copies
          BY <1>2, <1>4, <3>2, <4>2, ViewFacts DEF SyncInv, SyncTypes, Shapes, Planned, Same
        <5>2. store'[o].copies = IF view[o].copies = 0 THEN store[o].copies + 1 ELSE store[o].copies
          BY <2>3, <4>2, <5>1, WrittenFields
        <5>3. store'[o].copies = 1
          BY <5>1, <5>2
        <5> QED BY <2>3, <4>2, <5>3 DEF Matches
      <4>3. CASE o \in Cur(r).on \ S
        BY <1>5, <2>3, <3>2, <4>3 DEF Matches, Same, S
      <4>4. CASE o \notin Cur(r).on
        <5>1. AppliedBefore(i, o)
          BY <1>2, <3>3, <4>4, AppliedNext
        <5>2. o \notin S
          BY <1>4, <4>4
        <5> QED BY <2>3, <3>1, <5>1, <5>2 DEF Accurate
      <4> QED BY <4>1, <4>2, <4>3, <4>4
    <3>0. PICK x : x = w
      OBVIOUS
    <3>4. ASSUME NEW o \in DOMAIN x
          PROVE  /\ Same(o, x[o])' \/ (o[1] = "client" /\ AppliedBefore(i + 1, o))
                 /\ o[1] = "client" => x[o].id = store'[o].id
      <4>1. o \in DOMAIN view /\ x[o] = view[o] /\ o \notin X /\ o \in Objects
        BY <1>2, <2>4, <3>0, ViewFacts
      <4>2. o[1] = "client" => x[o].id = store'[o].id
        BY <2>3, <3>1, <4>1 DEF Accurate
      <4>3. CASE o \in S
        BY <1>2, <1>4, <4>1, <4>2, <4>3, AppliedNext
      <4>4. CASE o \notin S
        <5>1. Same(o, x[o]) \/ (o[1] = "client" /\ AppliedBefore(i, o))
          BY <3>1, <4>1 DEF Accurate
        <5>2. Same(o, x[o]) => Same(o, x[o])'
          BY <2>3, <4>1, <4>4 DEF Same
        <5> QED BY <1>2, <4>2, <5>1, <5>2, AppliedNext
      <4> QED BY <4>3, <4>4
    <3>5. PICK l : l = i + 1
      OBVIOUS
    <3>6. run'[r].pc = l /\ run'[r].view = x
      BY <2>6, <3>0, <3>5
    <3>7. \A o \in Objects : AppliedBefore(l, o) => Matches(store'[o])
      BY <3>3, <3>5
    <3>8. \A o \in DOMAIN x : /\ Same(o, x[o])' \/ (o[1] = "client" /\ AppliedBefore(l, o))
                              /\ o[1] = "client" => x[o].id = store'[o].id
      BY <3>4, <3>5
    <3> QED BY <3>6, <3>7, <3>8 DEF Accurate, AppliedBefore, Same
  <2> QED BY <1>1, <1>2, <1>7, <2>2, <2>5, <2>7, AloneStep
<1> QED BY <1>3, <1>6, <1>7

LEMMA BeginAlone == ASSUME SyncInv, AloneOK, NEW r \in Runs, Begin(r) PROVE AloneOK'
<1> DEFINE e == [Idle EXCEPT !.phase = "running"]
<1>1. e.phase = "running" /\ e.pc = 0 /\ DOMAIN e.view = {}
  BY IdleForms, EmptyView
<1>2. /\ run' = [run EXCEPT ![r] = e] /\ UNCHANGED <<store, late>> /\ r \notin Running
      /\ alone' = [q \in Runs |-> IF q = r THEN Running = {} /\ late = {} ELSE alone[q] /\ q \notin Running]
  BY DEF Begin, Running
<1> HIDE DEF e
<1>3. run'[r] = e /\ \A q \in Runs \ {r} : run'[q] = run[q]
  BY <1>2 DEF SyncInv, SyncTypes
<1>4. alone' \in [Runs -> BOOLEAN]
  BY <1>2, Zenon
<1>5. \A q \in Runs \ {r} : alone'[q] => alone[q] /\ q \notin Running
  BY <1>2
<1>6. alone'[r] => Running = {} /\ late = {}
  BY <1>2
<1>7. Accurate(run[r])'
  <2>1. Accurate(e)
    BY <1>1, NothingApplied DEF Accurate
  <2> QED BY <1>2, <1>3, <2>1, AccurateUnchanged
<1>8. ASSUME alone'[r] PROVE AloneFit(r)'
  <2>1. Running' = {r}
    BY <1>1, <1>3, <1>6, <1>8 DEF Running
  <2>2. late' = {} /\ run'[r].phase = "running"
    BY <1>1, <1>2, <1>3, <1>6, <1>8
  <2> QED BY <1>7, <2>1, <2>2 DEF AloneFit
<1>9. ASSUME NEW q \in Runs \ {r}, alone'[q] PROVE AloneFit(q)'
  <2>1. AloneFit(q) /\ q \notin Running
    BY <1>5, <1>9 DEF AloneOK
  <2> QED BY <1>2, <1>3, <2>1, BlockedUnchanged DEF AloneFit, Running
<1> QED BY <1>4, <1>8, <1>9 DEF AloneOK

\* A run that meets trouble is no longer undisturbed; no other one was.
LEMMA TroubleAlone ==
    ASSUME SyncInv, AloneOK, NEW r \in Runs, TokenFails(r) \/ RequestFails(r) PROVE AloneOK'
<1>1. r \in Running /\ UNCHANGED store /\ alone' = [alone EXCEPT ![r] = FALSE]
  BY DEF TokenFails, RequestFails, Running
<1>2. \A q \in Runs \ {r} : run'[q] = run[q]
  <2>1. DOMAIN run = Runs
    BY DEF SyncInv, SyncTypes
  <2>2. \E e : run' = [run EXCEPT ![r] = e]
    BY DEF TokenFails, RequestFails, Fail
  <2> QED BY <2>1, <2>2
<1>3. alone' \in [Runs -> BOOLEAN]
  BY <1>1, Zenon DEF AloneOK
<1>4. DOMAIN alone = Runs
  BY Zenon DEF AloneOK
<1>5. ASSUME NEW q \in Runs, alone'[q] PROVE AloneFit(q)'
  <2>1. q # r /\ alone[q]
    BY <1>1, <1>4, <1>5
  <2>2. AloneFit(q)
    BY <2>1 DEF AloneOK
  <2>3. run[q].phase # "running"
    BY <1>1, <2>1, <2>2 DEF AloneFit, Running
  <2> QED BY <1>1, <1>2, <2>1, <2>2, <2>3, BlockedUnchanged DEF AloneFit
<1> QED BY <1>3, <1>5 DEF AloneOK

LEMMA OthersDisturb == ASSUME LateArrives \/ Edit PROVE AloneOK'
<1>1. alone' = [r \in Runs |-> FALSE]
  BY DEF LateArrives, Edit, Touch, Spoil, Occupy, Drop, EditTo
<1>2. alone' \in [Runs -> BOOLEAN]
  BY <1>1, Zenon
<1>3. \A r \in Runs : ~alone'[r]
  BY <1>1
<1> QED BY <1>2, <1>3 DEF AloneOK

LEMMA NextAlone == ASSUME SyncInv, AloneOK, Next PROVE AloneOK'
<1>1. ASSUME NEW r \in Runs, Begin(r) \/ Script(r) \/ TokenFails(r) \/ RequestFails(r)
      PROVE  AloneOK'
  BY <1>1, BeginAlone, TokenAlone, PlanAlone, ApplyAlone, CreatedAlone, VerifyAlone, FinishAlone,
     TroubleAlone, Zenon DEF Script
<1> QED BY <1>1, OthersDisturb, Zenon DEF Next

(* A run of sync-keycloak-demo-data.py that no lost request, late write, edit *)
(* or other run disturbs fails only where an object is in a state it refuses  *)
(* to repair: its plan misses nothing that the server or its own verification *)
(* then asks for, however many clients and users there are.                   *)
THEOREM UndisturbedRunSucceeds == Spec => []UndisturbedSucceeds
<1>1. Init => AloneOK
  <2> SUFFICES ASSUME Init PROVE AloneOK
    OBVIOUS
  <2>1. alone \in [Runs -> BOOLEAN]
    BY Zenon DEF Init
  <2>2. \A r \in Runs : run[r].phase = "idle"
    BY DEF Init, Idle
  <2>3. \A r \in Runs : AloneFit(r)
    BY <2>2 DEF AloneFit
  <2> QED BY <2>1, <2>3 DEF AloneOK
<1>2. SyncInv /\ AloneOK /\ [Next]_vars => AloneOK'
  <2> SUFFICES ASSUME SyncInv, AloneOK, [Next]_vars PROVE AloneOK'
    OBVIOUS
  <2>1. CASE UNCHANGED vars
    BY <2>1 DEF vars, AloneOK, AloneFit, SomeBlocked, Blocked, Running, Accurate, Same, Matches,
                AppliedBefore
  <2> QED BY <2>1, NextAlone
<1>3. AloneOK => UndisturbedSucceeds
  BY DEF AloneOK, AloneFit, SomeBlocked, UndisturbedSucceeds
<1> QED BY <1>1, <1>2, <1>3, SyncInvariant, PTL DEF Spec
=============================================================================
